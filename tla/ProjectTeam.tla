---------------------------- MODULE ProjectTeam ----------------------------
(***************************************************************************)
(* The roles of a project's team and the rules about them.  They are pure  *)
(* functions of the list of members: the operations of Recruitment and     *)
(* OliveBranch decide with them who may do what.                           *)
(*                                                                         *)
(* A list of members maps every user to a role, or to None for a user who  *)
(* has no row.  The roles are rows of a dictionary; the code names three   *)
(* of them and takes any other one for a leading role below TEAM_LEADER.   *)
(***************************************************************************)
EXTENDS Naturals, FiniteSets

CONSTANTS
  Users,
  Creator,   \* the user who published the project
  Roles,     \* the dictionary of project roles
  None

ASSUME TeamConstants ==
  /\ Creator \in Users
  /\ "TEAM_LEADER" \in Roles
  /\ None \notin Users \cup Roles

Lists == [Users -> Roles \cup {None}]

Present(list) == {u \in Users : list[u] # None}
RolesIn(list) == {list[u] : u \in Present(list)}

isProjectLeaderRole(role) == role \notin {"TEAM_MEMBER", "LEARNING_MEMBER"}

\* (An absent role counts as that of a TEAM_MEMBER.)
projectRolePriority(role) ==
  CASE role = "TEAM_LEADER" -> 1
    [] role \in {"TEAM_MEMBER", None} -> 3
    [] role = "LEARNING_MEMBER" -> 4
    [] OTHER -> 2

\* The role of a user: that of his row, or the one under which he published
\* the project (publisher_role is TEAM_LEADER here, its default).
currentUserProjectRole(list, u) ==
  IF list[u] # None THEN list[u]
  ELSE IF u = Creator THEN "TEAM_LEADER"
  ELSE None

\* (Mutant: only a TEAM_LEADER operates a project that has a leader.)
canOperateAsHighestRole_OnlyLeader(role, list) ==
  LET roles == RolesIn(list)
  IN /\ role # None
     /\ CASE \E r \in roles : isProjectLeaderRole(r) -> role = "TEAM_LEADER"
          [] "TEAM_MEMBER" \in roles -> role = "TEAM_MEMBER"
          [] "LEARNING_MEMBER" \in roles -> role = "LEARNING_MEMBER"
          [] OTHER -> TRUE

\* The role is the highest that the list has: a creator who is not on it does
\* not operate a team of TEAM_MEMBERs.
canOperateAsHighestRole(role, list) ==
  LET roles == RolesIn(list)
  IN /\ role # None
     /\ IF "TEAM_LEADER" \in roles THEN role = "TEAM_LEADER"
        ELSE IF \E r \in roles : isProjectLeaderRole(r) THEN isProjectLeaderRole(role)
        ELSE IF "TEAM_MEMBER" \in roles THEN role = "TEAM_MEMBER"
        ELSE "LEARNING_MEMBER" \in roles => role = "LEARNING_MEMBER"

MayOperate(list, u) == canOperateAsHighestRole(currentUserProjectRole(list, u), list)

canAssignProjectRole(role, assigned) ==
  role # None /\ projectRolePriority(assigned) >= projectRolePriority(role)

\* A member of the highest role may step down or stay; another one may not
\* reach the highest role.
canSelfUpdateProjectRole(list, u, next) ==
  /\ list[u] # None
  /\ IF \A r \in RolesIn(list) : projectRolePriority(list[u]) <= projectRolePriority(r)
     THEN projectRolePriority(next) >= projectRolePriority(list[u])
     ELSE \E r \in RolesIn(list) : projectRolePriority(next) > projectRolePriority(r)
=============================================================================
