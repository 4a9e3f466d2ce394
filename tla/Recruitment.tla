---------------------------- MODULE Recruitment ----------------------------
(***************************************************************************)
(* One project: its status, its team, the applications to join it, and its *)
(* way into and out of the trash.                                          *)
(*                                                                         *)
(* A request reads first, without a lock, decides, and then runs one       *)
(* transaction.  Some transactions test again what was read ("fenced"),    *)
(* others write unconditionally.  The first half of a request is an action *)
(* named after the service's method, the second half one named after the   *)
(* repository's.                                                           *)
(***************************************************************************)
EXTENDS ProjectTeam

CONSTANTS
  Calls,        \* requests that are served at the same time
  MaxRequests   \* a bound: requests that read first

ASSUME RecruitmentConstants ==
  /\ None \notin Calls
  /\ MaxRequests \in Nat

VARIABLES
  status,     \* project.status, "gone" after the purge
  deletedAt,  \* project.deleted_at: NULL, less than seven days ago, or expired
  role,       \* project_members.role of each user, None without a row
  joins,      \* project_members.id: how many rows the user had so far
  app,        \* project_application of each user
  applies,    \* project_application.id: how many rows the user had so far
  call,       \* the requests under way, with what they read
  requests,
  trash,      \* history: the time since the project was deleted
  removals    \* history: the rows that RemoveMember saw and deleted

vars == <<status, deletedAt, role, joins, app, applies, call, requests, trash, removals>>
project == <<status, deletedAt, trash>>
team == <<role, joins, removals>>
applications == <<app, applies>>

Statuses == {"Pending", "Approved", "Rejected", "RecruitCompleted", "Deleting", "Ended"}
Ages == {"null", "recent", "expired"}
AppStatuses == {"none", "Pending", "Discussing", "Rejected", "Joined"}
Open == {"Pending", "Discussing"}

\* The reviewer, and his role, of an application that is discussed or decided.
Apps == {a \in [status : AppStatuses, reviewer : Users \cup {None}, rank : Roles \cup {None}] :
           a.status \in {"Discussing", "Joined"} => a.reviewer # None /\ a.rank # None}
NoApp == [status |-> "none", reviewer |-> None, rank |-> None]

Ops == {"idle", "Delete", "Restore", "CompleteRecruit", "UpdateStatus", "Review",
        "AddMembers", "ReplaceMembers", "UpdateWithMetadata", "RemoveMember",
        "Apply", "ReviewApp", "RejectOwn", "Assign", "Withdraw"}

EmptyList == [u \in Users |-> None]
\* by: the reviewer of an application; about: the user concerned; was: the status
\* that was read; next: the status to write; role and list: the role or
\* the members to write; id and app: the row that was read.
NoCall == [op |-> "idle", by |-> None, about |-> None, was |-> "none", next |-> "none",
           role |-> None, list |-> EmptyList, id |-> 0, app |-> NoApp]

CallRecords ==
  [op : Ops, by : Users \cup {None}, about : Users \cup {None},
   was : Statuses \cup {"none"}, next : Statuses \cup AppStatuses,
   role : Roles \cup {None}, list : Lists, id : Nat, app : Apps]

TypeOK ==
  /\ status \in Statuses \cup {"gone"}
  /\ deletedAt \in Ages
  /\ role \in Lists
  /\ joins \in [Users -> Nat]
  /\ app \in [Users -> Apps]
  /\ applies \in [Users -> Nat]
  /\ call \in [Calls -> CallRecords]
  /\ requests \in Nat
  /\ trash \in Ages
  /\ removals \subseteq [user : Users, seen : Nat, deleted : Nat]

\* The project was published, and perhaps approved, with the members that its
\* creator named; he leads it.
Init ==
  /\ status \in {"Pending", "Approved"}
  /\ deletedAt = "null"
  /\ role \in {list \in Lists : list[Creator] = "TEAM_LEADER"}
  /\ joins = [u \in Users |-> IF role[u] # None THEN 1 ELSE 0]
  /\ app = [u \in Users |-> NoApp]
  /\ applies = [u \in Users |-> 0]
  /\ call = [c \in Calls |-> NoCall]
  /\ requests = 0
  /\ trash = "null"
  /\ removals = {}

-----------------------------------------------------------------------------
(* Requests                                                                *)

\* The request of c was decided on what it read, kept in the record r.
Request(c, r) ==
  /\ call[c] = NoCall
  /\ requests < MaxRequests
  /\ requests' = requests + 1
  /\ call' = [call EXCEPT ![c] = r]
  /\ UNCHANGED <<project, team, applications>>

Serving(c, op) == call[c].op = op

Done(c) ==
  /\ call' = [call EXCEPT ![c] = NoCall]
  /\ UNCHANGED requests

assertProjectOperator(u) == status # "gone" /\ MayOperate(role, u)

-----------------------------------------------------------------------------
(* The status of the project.                                              *)

DeleteProject(c, u) ==
  /\ assertProjectOperator(u)
  /\ status \in {"Pending", "Approved", "Rejected", "RecruitCompleted"}
  /\ Request(c, [NoCall EXCEPT !.op = "Delete"])

\* (Mutant: the date of an earlier deletion is kept.)
DeletedAt_Kept == IF deletedAt = "null" THEN "recent" ELSE deletedAt

DeletedAt == "recent"

\* Unconditional: whatever the status has become.
Delete(c) ==
  /\ Serving(c, "Delete")
  /\ \/ /\ status # "gone"
        /\ status' = "Deleting"
        /\ deletedAt' = DeletedAt
        /\ trash' = "recent"
     \/ status = "gone" /\ UNCHANGED project
  /\ Done(c)
  /\ UNCHANGED <<team, applications>>

\* The fenced transition: current is the status that was read.
UpdateProjectStatusTx(current, next) ==
  /\ status = current
  /\ status' = next
  /\ deletedAt' = "null"
  /\ trash' = "null"

\* By an operator of the project, or by an administrator (u = None).
RestoreProject(c, u) ==
  /\ u # None => assertProjectOperator(u)
  /\ status = "Deleting"
  /\ Request(c, [NoCall EXCEPT !.op = "Restore"])

restoreProject(c) ==
  /\ Serving(c, "Restore")
  /\ \/ UpdateProjectStatusTx("Deleting", "Pending")
     \/ status # "Deleting" /\ UNCHANGED project
  /\ Done(c)
  /\ UNCHANGED <<team, applications>>

BeginCompleteRecruit(c, u) ==
  /\ u # None => assertProjectOperator(u)
  /\ status = "Approved"
  /\ Request(c, [NoCall EXCEPT !.op = "CompleteRecruit"])

Closed(a) == IF a.status \in Open THEN [a EXCEPT !.status = "Rejected"] ELSE a

\* Unconditional, and with it the open applications are turned down.
CompleteRecruit(c) ==
  /\ Serving(c, "CompleteRecruit")
  /\ \/ /\ status # "gone"
        /\ status' = "RecruitCompleted"
        /\ deletedAt' = "null"
        /\ trash' = "null"
        /\ app' = [u \in Users |-> Closed(app[u])]
     \/ status = "gone" /\ UNCHANGED <<project, app>>
  /\ Done(c)
  /\ UNCHANGED <<team, applies>>

RestartRecruit(c, u) ==
  /\ assertProjectOperator(u)
  /\ status = "RecruitCompleted"
  /\ Request(c, [NoCall EXCEPT !.op = "UpdateStatus", !.next = "Pending"])

EndProject(c, u) ==
  /\ assertProjectOperator(u)
  /\ status = "RecruitCompleted"
  /\ Request(c, [NoCall EXCEPT !.op = "UpdateStatus", !.next = "Ended"])

\* Unconditional.
UpdateStatus(c) ==
  /\ Serving(c, "UpdateStatus")
  /\ \/ /\ status # "gone"
        /\ status' = call[c].next
        /\ deletedAt' = "null"
        /\ trash' = "null"
     \/ status = "gone" /\ UNCHANGED project
  /\ Done(c)
  /\ UNCHANGED <<team, applications>>

\* An administrator approves or rejects a project in any status, and takes an
\* approved one down.
ReviewProject(c, next) ==
  /\ status # "gone"
  /\ next \in {"Approved", "Rejected"}
  /\ Request(c, [NoCall EXCEPT !.op = "Review", !.was = status, !.next = next])

TakedownProject(c) ==
  /\ status = "Approved"
  /\ Request(c, [NoCall EXCEPT !.op = "Review", !.was = status, !.next = "Rejected"])

persistProjectReview(c) ==
  /\ Serving(c, "Review")
  /\ \/ UpdateProjectStatusTx(call[c].was, call[c].next)
     \/ status # call[c].was /\ UNCHANGED project
  /\ Done(c)
  /\ UNCHANGED <<team, applications>>

\* An administrator ends a project: one fenced statement.
UpdateProjectLifecycleStatus ==
  /\ status \in {"Approved", "RecruitCompleted"}
  /\ status' = "Ended"
  /\ UNCHANGED <<deletedAt, trash, team, applications, call, requests>>

-----------------------------------------------------------------------------
(* The trash.                                                              *)

\* Seven days have passed since deleted_at, or since the deletion.
RetentionEnds ==
  /\ \/ deletedAt = "recent" /\ deletedAt' = "expired" /\ trash' = IF trash = "recent" THEN "expired" ELSE trash
     \/ deletedAt # "recent" /\ trash = "recent" /\ trash' = "expired" /\ UNCHANGED deletedAt
  /\ UNCHANGED <<status, team, applications, call, requests>>

Purgeable == status = "Deleting" /\ deletedAt = "expired"

\* By the scheduler or by an administrator; the row is locked.  The relations
\* go first, then the row, and with it what refers to it by a foreign key.
PurgeDeletedProjects ==
  /\ Purgeable
  /\ status' = "gone"
  /\ deletedAt' = "null"
  /\ trash' = "null"
  /\ role' = EmptyList
  /\ app' = [u \in Users |-> NoApp]
  /\ UNCHANGED <<joins, removals, applies, call, requests>>

-----------------------------------------------------------------------------
(* The team.                                                               *)

\* Rows are inserted for users that have none.
Joins(list) == [u \in Users |-> IF role[u] = None /\ list[u] # None THEN joins[u] + 1 ELSE joins[u]]

Added(list) == [u \in Users |-> IF role[u] = None THEN list[u] ELSE role[u]]

\* The list of a request: one user is added, or gets another role, among the
\* members that were read (the two reads of the list are one here).
MembersList(list) ==
  \E u \in Users, r \in Roles : list = [role EXCEPT ![u] = r]

\* The creator's request writes the project, its members if it names them, and
\* may put it up for review again (needReview).
UpdateProjectByOwner(c, list, review) ==
  /\ status # "gone"
  /\ list = EmptyList \/ (list[Creator] # None /\ MembersList(list))
  /\ Request(c, [NoCall EXCEPT !.op = "UpdateWithMetadata", !.list = list,
                               !.next = IF review THEN "Pending" ELSE "none"])

\* A member of the highest role writes the whole list, another one adds
\* members or changes his own role.
UpdateProjectByMember(c, u, list) ==
  LET changed == {v \in Present(role) : list[v] # role[v]}
  IN /\ status # "gone"
     /\ u # Creator /\ role[u] # None
     /\ MembersList(list)
     /\ \/ /\ \/ canOperateAsHighestRole(role[u], role)
              \/ changed = {u} /\ canSelfUpdateProjectRole(role, u, list[u])
           /\ Request(c, [NoCall EXCEPT !.op = "ReplaceMembers", !.list = list])
        \/ /\ ~canOperateAsHighestRole(role[u], role)
           /\ changed = {}
           /\ Request(c, [NoCall EXCEPT !.op = "AddMembers",
                            !.list = [v \in Users |-> IF role[v] = None THEN list[v] ELSE None]])

AddMembers(c) ==
  /\ Serving(c, "AddMembers")
  /\ role' = Added(call[c].list)
  /\ joins' = Joins(call[c].list)
  /\ Done(c)
  /\ UNCHANGED <<project, removals, applications>>

\* The list is written as it stands: rows of users that it omits are deleted.
syncProjectMembersTx(list) ==
  /\ role' = list
  /\ joins' = Joins(list)

ReplaceMembers(c) ==
  /\ Serving(c, "ReplaceMembers")
  /\ syncProjectMembersTx(call[c].list)
  /\ Done(c)
  /\ UNCHANGED <<project, removals, applications>>

\* The status is written whatever it has become; deleted_at stays.
UpdateWithMetadata(c) ==
  /\ Serving(c, "UpdateWithMetadata")
  /\ \/ /\ status # "gone"
        /\ IF call[c].list = EmptyList
           THEN UNCHANGED <<role, joins>>
           ELSE syncProjectMembersTx(call[c].list)
        /\ \/ call[c].next = "Pending" /\ status' = "Pending" /\ trash' = "null"
           \/ call[c].next = "none" /\ UNCHANGED <<status, trash>>
     \/ status = "gone" /\ UNCHANGED <<status, trash, role, joins>>
  /\ Done(c)
  /\ UNCHANGED <<deletedAt, removals, applications>>

\* An administrator writes the role of a row.
UpdateProjectMemberRole(u, r) ==
  /\ role[u] # None
  /\ role' = [role EXCEPT ![u] = r]
  /\ UNCHANGED <<project, joins, removals, applications, call, requests>>

RemoveMember(c, by, u) ==
  /\ by # u
  /\ assertProjectOperator(by)
  /\ role[u] # None
  /\ Request(c, [NoCall EXCEPT !.op = "RemoveMember", !.about = u, !.id = joins[u]])

\* (Mutant: the row may be another one than the row that was seen.)
SameRow_Any(c) == role[call[c].about] # None

SameRow(c) ==
  LET u == call[c].about
  IN role[u] # None /\ joins[u] = call[c].id

\* The row is locked and compared, deleted, and recorded with its final score.
RemoveMemberTx(c) ==
  LET u == call[c].about
  IN /\ Serving(c, "RemoveMember")
     /\ \/ /\ SameRow(c)
           /\ role' = [role EXCEPT ![u] = None]
           /\ removals' = removals \cup {[user |-> u, seen |-> call[c].id, deleted |-> joins[u]]}
        \/ ~SameRow(c) /\ UNCHANGED <<role, removals>>
     /\ Done(c)
     /\ UNCHANGED <<project, joins, applications>>

-----------------------------------------------------------------------------
(* Applications.                                                           *)

ApplyToProject(c, u) ==
  /\ u # Creator
  /\ status = "Approved"
  /\ app[u].status = "none"
  /\ Request(c, [NoCall EXCEPT !.op = "Apply", !.about = u])

\* (Mutant: the status is not read again under the lock.)
AcceptsApplication_AsRead(u) == status # "gone" /\ app[u].status = "none"

\* The project is locked: no application slips in while the recruitment ends.
AcceptsApplication(u) == status = "Approved" /\ app[u].status = "none"

CreateApplicationTx(c) ==
  LET u == call[c].about
  IN /\ Serving(c, "Apply")
     /\ \/ /\ AcceptsApplication(u)
           /\ app' = [app EXCEPT ![u] = [NoApp EXCEPT !.status = "Pending"]]
           /\ applies' = [applies EXCEPT ![u] = @ + 1]
        \/ ~AcceptsApplication(u) /\ UNCHANGED applications
     /\ Done(c)
     /\ UNCHANGED <<project, team>>

\* Whoever discusses with the applicant decides, or somebody of a higher role.
canReviewApplicationByRole(by, r, a) ==
  /\ r # None
  /\ \/ a.status = "Pending"
     \/ a.reviewer = by
     \/ a.rank = None
     \/ projectRolePriority(r) = 1
     \/ projectRolePriority(r) < projectRolePriority(a.rank)

ReviewApplication(c, by, u, next) ==
  LET r == currentUserProjectRole(role, by)
  IN /\ \/ next = "Discussing" /\ app[u].status = "Pending"
        \/ next = "Rejected" /\ app[u].status \in Open /\ by # u
     /\ canReviewApplicationByRole(by, r, app[u])
     /\ Request(c, [NoCall EXCEPT !.op = "ReviewApp", !.by = by, !.about = u, !.next = next,
                                  !.role = r, !.id = applies[u], !.app = app[u]])

\* (Mutant: only the row's id is tested.)
AsRead_IdOnly(c) == LET u == call[c].about IN app[u].status # "none" /\ applies[u] = call[c].id

\* The row is the one that was read, with the same status, reviewer and role.
AsRead(c) ==
  LET u == call[c].about
  IN app[u].status # "none" /\ applies[u] = call[c].id /\ app[u] = call[c].app

Reviewed(c) == [status |-> call[c].next, reviewer |-> call[c].by, rank |-> call[c].role]

ReviewApplicationTx(c) ==
  LET u == call[c].about
  IN /\ Serving(c, "ReviewApp")
     /\ \/ /\ AsRead(c)
           /\ app' = [app EXCEPT ![u] = Reviewed(c)]
        \/ ~AsRead(c) /\ UNCHANGED app
     /\ Done(c)
     /\ UNCHANGED <<project, team, applies>>

\* The applicant ends the discussion: one fenced statement.
RejectOwnApplication(u) ==
  /\ app[u].status = "Discussing"
  /\ app' = [app EXCEPT ![u].status = "Rejected"]
  /\ UNCHANGED <<project, team, applies, call, requests>>

\* The applicant takes a pending application back: the row is locked, tested and deleted.
WithdrawMyApplication(u) ==
  /\ app[u].status = "Pending"
  /\ app' = [app EXCEPT ![u] = NoApp]
  /\ UNCHANGED <<project, team, applies, call, requests>>

AssignApplicationRole(c, by, u, r) ==
  LET mine == currentUserProjectRole(role, by)
  IN /\ status # "gone"
     /\ app[u].status = "Discussing"
     /\ canReviewApplicationByRole(by, mine, app[u])
     /\ canAssignProjectRole(mine, r)
     /\ Request(c, [NoCall EXCEPT !.op = "Assign", !.about = u, !.role = r,
                                  !.id = applies[u], !.app = app[u]])

\* The member is written first; the whole transaction is undone when the
\* application is not what it was.
AssignApplicationRoleTx(c) ==
  LET u == call[c].about
  IN /\ Serving(c, "Assign")
     /\ \/ /\ AsRead(c)
           /\ app' = [app EXCEPT ![u].status = "Joined"]
           /\ role' = [role EXCEPT ![u] = call[c].role]
           /\ joins' = IF role[u] = None THEN [joins EXCEPT ![u] = @ + 1] ELSE joins
        \/ ~AsRead(c) /\ UNCHANGED <<app, role, joins>>
     /\ Done(c)
     /\ UNCHANGED <<project, removals, applies>>

-----------------------------------------------------------------------------

OperatorRequests(c) ==
  \E u \in Users :
    \/ DeleteProject(c, u)
    \/ RestoreProject(c, u)
    \/ BeginCompleteRecruit(c, u)
    \/ RestartRecruit(c, u)
    \/ EndProject(c, u)
    \/ \E v \in Users : RemoveMember(c, u, v)

AdminRequests(c) ==
  \/ RestoreProject(c, None)
  \/ BeginCompleteRecruit(c, None)
  \/ \E next \in {"Approved", "Rejected"} : ReviewProject(c, next)
  \/ TakedownProject(c)

MemberRequests(c) ==
  \/ \E review \in BOOLEAN : UpdateProjectByOwner(c, EmptyList, review)
  \/ \E u \in Users, r \in Roles :
       LET list == [role EXCEPT ![u] = r]
       IN \/ \E review \in BOOLEAN : UpdateProjectByOwner(c, list, review)
          \/ \E by \in Users : UpdateProjectByMember(c, by, list)

ApplicationRequests(c) ==
  \E u \in Users :
    \/ ApplyToProject(c, u)
    \/ \E by \in Users, next \in {"Discussing", "Rejected"} : ReviewApplication(c, by, u, next)
    \/ \E by \in Users, r \in Roles : AssignApplicationRole(c, by, u, r)

Transactions(c) ==
  \/ Delete(c) \/ restoreProject(c) \/ CompleteRecruit(c) \/ UpdateStatus(c)
  \/ persistProjectReview(c)
  \/ AddMembers(c) \/ ReplaceMembers(c) \/ UpdateWithMetadata(c) \/ RemoveMemberTx(c)
  \/ CreateApplicationTx(c) \/ ReviewApplicationTx(c) \/ AssignApplicationRoleTx(c)

Next ==
  \/ \E c \in Calls :
       \/ OperatorRequests(c) \/ AdminRequests(c) \/ MemberRequests(c)
       \/ ApplicationRequests(c) \/ Transactions(c)
  \/ UpdateProjectLifecycleStatus
  \/ RetentionEnds
  \/ PurgeDeletedProjects
  \/ \E u \in Users : RejectOwnApplication(u) \/ WithdrawMyApplication(u)
  \/ \E u \in Users, r \in Roles : UpdateProjectMemberRole(u, r)

Spec == Init /\ [][Next]_vars

-----------------------------------------------------------------------------
(* Properties                                                              *)

\* When the recruitment is completed no application is left open, whatever
\* was submitted or reviewed while it ended (Apply locks the project, the
\* reviews test what they read).
CompletedHasNoOpenApplications ==
  status = "RecruitCompleted" => \A u \in Users : app[u].status \notin Open

\* A decision is final: of two reviewers, an applicant who gives up and a
\* recruitment that ends, one wins, and only the purge takes the row away.
\* Whoever is admitted has been discussed, and is a member at that moment.
DecisionsAreFinal ==
  [][\A u \in Users :
       /\ app[u].status \in {"Joined", "Rejected"} => app'[u] = app[u] \/ status' = "gone"
       /\ app'[u].status = "Joined" /\ app[u].status # "Joined"
            => app[u].status = "Discussing" /\ role'[u] # None]_vars

\* Only a project that stayed deleted for the whole retention is destroyed,
\* whatever revived it or deleted it again in between.
PurgedOnlyAfterRetention ==
  [][status' = "gone" /\ status # "gone" => status = "Deleting" /\ trash = "expired"]_vars

\* No project is stuck: somebody on the team, or the creator when the team is
\* empty, may operate it.
SomebodyOperates == status # "gone" => \E u \in Users : MayOperate(role, u)

\* A removal takes the very row that its operator saw: a member who left and
\* came back meanwhile stays.
RemovalTakesWhatWasSeen == \A r \in removals : r.seen = r.deleted

\* A member leaves the team by a removal or with the project
\* (UpdateProject says so when it refuses a shorter list).
MembersLeaveByRemoval ==
  [][\A u \in Users : role[u] # None /\ role'[u] = None => removals' # removals \/ status' = "gone"]_vars
=============================================================================
