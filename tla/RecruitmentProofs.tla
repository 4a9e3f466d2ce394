-------------------------- MODULE RecruitmentProofs --------------------------
(***************************************************************************)
(* Theorems of Recruitment, for any users, roles and requests: type        *)
(* correctness; that no application stays open when the recruitment is     *)
(* completed and no decision is undone; that only the kept trash is        *)
(* destroyed; that a removal takes the row that was seen; and that         *)
(* somebody may always operate the project.                                *)
(*                                                                         *)
(* The argument.  What a request holds was read once and has the shape     *)
(* that its reader tested (Fits): a review holds an open application, an   *)
(* admission one that is discussed, and no request but the fenced review   *)
(* approves a project.  So a request that still finds what it read finds   *)
(* no decided application, and none is opened while the recruitment is     *)
(* completed.  In the trash, the date that the row tells and the time that *)
(* has passed agree, whatever revived the project before.                  *)
(***************************************************************************)
EXTENDS Recruitment, TLAPS

USE TeamConstants, RecruitmentConstants

\* What a request may hold.
Fits(r) ==
  /\ r \in CallRecords
  /\ r.op \in {"RemoveMember", "Apply", "ReviewApp", "Assign"} => r.about \in Users
  /\ r.op = "UpdateStatus" => r.next \in {"Pending", "Ended"}
  /\ r.op = "Review" => r.next \in {"Approved", "Rejected"}
  /\ r.op = "ReviewApp" => /\ r.by \in Users /\ r.role \in Roles
                           /\ r.next \in {"Discussing", "Rejected"}
                           /\ r.app.status \in Open
  /\ r.op = "Assign" => r.role \in Roles /\ r.app.status = "Discussing"

Inv ==
  /\ TypeOK
  /\ \A c \in Calls : Fits(call[c])
  /\ CompletedHasNoOpenApplications
  /\ status = "Deleting" => trash = deletedAt
  /\ RemovalTakesWhatWasSeen

-----------------------------------------------------------------------------
(* The team.                                                               *)

LEMMA RoleOfUser ==
  ASSUME NEW list \in Lists, NEW u \in Users
  PROVE  currentUserProjectRole(list, u) \in Roles \cup {None}
  BY DEF currentUserProjectRole, Lists

\* The highest role of a list is held by a member; an empty team is the creator's.
LEMMA SomebodyMay ==
  ASSUME NEW list \in Lists
  PROVE  \E u \in Users : MayOperate(list, u)
<1> USE DEF MayOperate, canOperateAsHighestRole, currentUserProjectRole, RolesIn, Present, Lists
<1>1. CASE "TEAM_LEADER" \in RolesIn(list)
  BY <1>1
<1>2. CASE /\ "TEAM_LEADER" \notin RolesIn(list)
           /\ \E r \in RolesIn(list) : isProjectLeaderRole(r)
  BY <1>2
<1>3. CASE /\ \A r \in RolesIn(list) : ~isProjectLeaderRole(r)
           /\ "TEAM_LEADER" \notin RolesIn(list)
           /\ RolesIn(list) # {}
  <2>1. \A r \in RolesIn(list) : r \in {"TEAM_MEMBER", "LEARNING_MEMBER"}
    BY <1>3 DEF isProjectLeaderRole
  <2>2. CASE "TEAM_MEMBER" \in RolesIn(list)
    BY <1>3, <2>2
  <2>3. CASE "TEAM_MEMBER" \notin RolesIn(list)
    BY <1>3, <2>1, <2>3
  <2> QED
    BY <2>2, <2>3
<1>4. CASE RolesIn(list) = {}
  <2>1. list[Creator] = None
    BY <1>4
  <2>2. canOperateAsHighestRole("TEAM_LEADER", list)
    BY <1>4
  <2> QED
    BY <2>1, <2>2
<1> QED
  BY <1>1, <1>2, <1>3, <1>4

-----------------------------------------------------------------------------
(* The shape of what a request holds.                                      *)

LEMMA NoCallFits == NoCall \in CallRecords /\ Fits(NoCall)
<1>1. EmptyList \in Lists
  BY DEF EmptyList, Lists
<1>2. NoApp \in Apps
  BY DEF NoApp, Apps, AppStatuses
<1>3. NoCall \in CallRecords
  BY <1>1, <1>2 DEF NoCall, CallRecords, Ops, Statuses, AppStatuses
<1>4. NoCall.op = "idle"
  BY DEF NoCall
<1> QED
  BY <1>3, <1>4 DEF Fits

\* A request begins with a record that fits, and changes nothing else.
LEMMA RequestKeepsInv ==
  ASSUME Inv, NEW c \in Calls, NEW r, Fits(r), Request(c, r)
  PROVE  Inv' /\ UNCHANGED <<project, team, applications>>
<1> USE DEF Request, project, team, applications
<1>1. r \in CallRecords
  BY DEF Fits
<1>2. call' \in [Calls -> CallRecords]
  BY <1>1 DEF Inv, TypeOK
<1>3. TypeOK'
  BY <1>2 DEF Inv, TypeOK
<1>4. \A d \in Calls : Fits(call'[d])
  BY DEF Inv, TypeOK
<1> QED
  BY <1>3, <1>4 DEF Inv, CompletedHasNoOpenApplications, RemovalTakesWhatWasSeen, Fits

\* A request that ends leaves every record with its shape.
LEMMA DoneKeepsFits ==
  ASSUME Inv, NEW c \in Calls, Done(c)
  PROVE  /\ call' \in [Calls -> CallRecords]
         /\ requests' \in Nat
         /\ \A d \in Calls : Fits(call'[d])
  BY NoCallFits DEF Inv, TypeOK, Done

-----------------------------------------------------------------------------
(* Every request holds what its handler read.                              *)

LEMMA OperatorRequestsKeepInv ==
  ASSUME Inv, NEW c \in Calls, OperatorRequests(c)
  PROVE  Inv' /\ UNCHANGED <<project, team, applications>>
<1>0. PICK u \in Users : \/ DeleteProject(c, u)
                         \/ RestoreProject(c, u)
                         \/ BeginCompleteRecruit(c, u)
                         \/ RestartRecruit(c, u)
                         \/ EndProject(c, u)
                         \/ \E v \in Users : RemoveMember(c, u, v)
  BY DEF OperatorRequests
<1> USE NoCallFits DEF CallRecords, Ops, Statuses, AppStatuses
<1>1. CASE DeleteProject(c, u)
  <2> DEFINE r == [NoCall EXCEPT !.op = "Delete"]
  <2>1. Fits(r)
    BY DEF Fits
  <2> QED
    BY <1>1, <2>1, RequestKeepsInv DEF DeleteProject
<1>2. CASE RestoreProject(c, u)
  <2> DEFINE r == [NoCall EXCEPT !.op = "Restore"]
  <2>1. Fits(r)
    BY DEF Fits
  <2> QED
    BY <1>2, <2>1, RequestKeepsInv DEF RestoreProject
<1>3. CASE BeginCompleteRecruit(c, u)
  <2> DEFINE r == [NoCall EXCEPT !.op = "CompleteRecruit"]
  <2>1. Fits(r)
    BY DEF Fits
  <2> QED
    BY <1>3, <2>1, RequestKeepsInv DEF BeginCompleteRecruit
<1>4. CASE RestartRecruit(c, u)
  <2> DEFINE r == [NoCall EXCEPT !.op = "UpdateStatus", !.next = "Pending"]
  <2>1. Fits(r)
    <3>1. r \in CallRecords
      BY ZenonT(30)
    <3>2. r.op = "UpdateStatus" /\ r.next = "Pending"
      OBVIOUS
    <3> QED
      BY <3>1, <3>2 DEF Fits
  <2> QED
    BY <1>4, <2>1, RequestKeepsInv DEF RestartRecruit
<1>5. CASE EndProject(c, u)
  <2> DEFINE r == [NoCall EXCEPT !.op = "UpdateStatus", !.next = "Ended"]
  <2>1. Fits(r)
    <3>1. r \in CallRecords
      BY ZenonT(30)
    <3>2. r.op = "UpdateStatus" /\ r.next = "Ended"
      OBVIOUS
    <3> QED
      BY <3>1, <3>2 DEF Fits
  <2> QED
    BY <1>5, <2>1, RequestKeepsInv DEF EndProject
<1>6. ASSUME NEW v \in Users, RemoveMember(c, u, v)
      PROVE  Inv' /\ UNCHANGED <<project, team, applications>>
  <2> DEFINE r == [NoCall EXCEPT !.op = "RemoveMember", !.about = v, !.id = joins[v]]
  <2>1. joins[v] \in Nat
    BY DEF Inv, TypeOK
  <2>2. Fits(r)
    BY ZenonT(30), <2>1 DEF Fits
  <2> QED
    BY <1>6, <2>2, RequestKeepsInv DEF RemoveMember
<1> QED
  BY <1>0, <1>1, <1>2, <1>3, <1>4, <1>5, <1>6

LEMMA AdminRequestsKeepInv ==
  ASSUME Inv, NEW c \in Calls, AdminRequests(c)
  PROVE  Inv' /\ UNCHANGED <<project, team, applications>>
<1> USE NoCallFits DEF CallRecords, Ops, Statuses, AppStatuses
<1>1. CASE RestoreProject(c, None)
  <2> DEFINE r == [NoCall EXCEPT !.op = "Restore"]
  <2>1. Fits(r)
    BY DEF Fits
  <2> QED
    BY <1>1, <2>1, RequestKeepsInv DEF RestoreProject
<1>2. CASE BeginCompleteRecruit(c, None)
  <2> DEFINE r == [NoCall EXCEPT !.op = "CompleteRecruit"]
  <2>1. Fits(r)
    BY DEF Fits
  <2> QED
    BY <1>2, <2>1, RequestKeepsInv DEF BeginCompleteRecruit
<1>3. ASSUME NEW next \in {"Approved", "Rejected"},
             status \in Statuses,
             Request(c, [NoCall EXCEPT !.op = "Review", !.was = status, !.next = next])
      PROVE  Inv' /\ UNCHANGED <<project, team, applications>>
  <2> DEFINE r == [NoCall EXCEPT !.op = "Review", !.was = status, !.next = next]
  <2>1. Fits(r)
    <3> DEFINE q == [NoCall EXCEPT !.op = "Review", !.was = status]
    <3>0. q \in CallRecords /\ r = [q EXCEPT !.next = next]
      <4>1. status \in Statuses
        BY <1>3
      <4>2. q \in CallRecords
        BY ZenonT(30), <4>1
      <4>3. r = [q EXCEPT !.next = next]
        OBVIOUS
      <4> QED
        BY <4>2, <4>3
    <3>1. r \in CallRecords
      <4> HIDE DEF q
      <4> QED
        BY <3>0
    <3>2. r.op = "Review" /\ r.next = next
      OBVIOUS
    <3> QED
      BY <3>1, <3>2 DEF Fits
  <2> QED
    BY <1>3, <2>1, RequestKeepsInv
<1>4. ASSUME NEW next \in {"Approved", "Rejected"}, ReviewProject(c, next)
      PROVE  Inv' /\ UNCHANGED <<project, team, applications>>
  BY <1>3, <1>4 DEF ReviewProject, Inv, TypeOK
<1>5. CASE TakedownProject(c)
  BY <1>3, <1>5 DEF TakedownProject
<1> QED
  BY <1>1, <1>2, <1>4, <1>5 DEF AdminRequests

LEMMA MemberRequestsKeepInv ==
  ASSUME Inv, NEW c \in Calls, MemberRequests(c)
  PROVE  Inv' /\ UNCHANGED <<project, team, applications>>
<1> USE NoCallFits DEF CallRecords, Ops, Statuses, AppStatuses
<1>1. ASSUME NEW list \in Lists, NEW review \in BOOLEAN, UpdateProjectByOwner(c, list, review)
      PROVE  Inv' /\ UNCHANGED <<project, team, applications>>
  <2> DEFINE r == [NoCall EXCEPT !.op = "UpdateWithMetadata", !.list = list,
                                 !.next = IF review THEN "Pending" ELSE "none"]
  <2>1. Fits(r)
    <3> DEFINE q == [NoCall EXCEPT !.op = "UpdateWithMetadata", !.list = list]
               next == IF review THEN "Pending" ELSE "none"
    <3>0. /\ q \in CallRecords
          /\ next \in AppStatuses
          /\ r = [q EXCEPT !.next = next]
      BY ZenonT(30)
    <3>1. r \in CallRecords
      <4> HIDE DEF q, next
      <4> QED
        BY <3>0
    <3>2. r.op = "UpdateWithMetadata"
      OBVIOUS
    <3> QED
      BY <3>1, <3>2 DEF Fits
  <2> QED
    BY <1>1, <2>1, RequestKeepsInv DEF UpdateProjectByOwner
<1>2. ASSUME NEW list \in Lists, NEW u \in Users, UpdateProjectByMember(c, u, list)
      PROVE  Inv' /\ UNCHANGED <<project, team, applications>>
  <2> DEFINE new == [v \in Users |-> IF role[v] = None THEN list[v] ELSE None]
             r == [NoCall EXCEPT !.op = "ReplaceMembers", !.list = list]
             a == [NoCall EXCEPT !.op = "AddMembers", !.list = new]
  <2>1. new \in Lists
    BY DEF Lists
  <2> HIDE DEF new
  <2>2. Fits(r) /\ Fits(a)
    <3>1. r \in CallRecords /\ a \in CallRecords
      BY ZenonT(30), <2>1
    <3>2. r.op = "ReplaceMembers" /\ a.op = "AddMembers"
      OBVIOUS
    <3> QED
      BY <3>1, <3>2 DEF Fits
  <2>3. Request(c, r) \/ Request(c, a)
    BY <1>2 DEF UpdateProjectByMember, new
  <2> QED
    BY <2>2, <2>3, RequestKeepsInv
<1>3. EmptyList \in Lists
  BY DEF EmptyList, Lists
<1>4. \A u \in Users, x \in Roles : [role EXCEPT ![u] = x] \in Lists
  BY DEF Inv, TypeOK, Lists
<1> QED
  BY ZenonT(30), <1>1, <1>2, <1>3, <1>4 DEF MemberRequests

LEMMA ApplicationRequestsKeepInv ==
  ASSUME Inv, NEW c \in Calls, ApplicationRequests(c)
  PROVE  Inv' /\ UNCHANGED <<project, team, applications>>
<1>0. PICK u \in Users :
        \/ ApplyToProject(c, u)
        \/ \E by \in Users, next \in {"Discussing", "Rejected"} : ReviewApplication(c, by, u, next)
        \/ \E by \in Users, x \in Roles : AssignApplicationRole(c, by, u, x)
  BY DEF ApplicationRequests
<1> USE NoCallFits DEF CallRecords, Ops, Statuses, AppStatuses
<1>1. applies[u] \in Nat /\ app[u] \in Apps /\ role \in Lists
  BY DEF Inv, TypeOK
<1>2. CASE ApplyToProject(c, u)
  <2> DEFINE r == [NoCall EXCEPT !.op = "Apply", !.about = u]
  <2>1. Fits(r)
    BY ZenonT(30) DEF Fits
  <2> QED
    BY <1>2, <2>1, RequestKeepsInv DEF ApplyToProject
<1>3. ASSUME NEW by \in Users, NEW next \in {"Discussing", "Rejected"},
             ReviewApplication(c, by, u, next)
      PROVE  Inv' /\ UNCHANGED <<project, team, applications>>
  <2> DEFINE mine == currentUserProjectRole(role, by)
             r == [NoCall EXCEPT !.op = "ReviewApp", !.by = by, !.about = u, !.next = next,
                                 !.role = mine, !.id = applies[u], !.app = app[u]]
  <2>1. mine \in Roles
    BY <1>1, <1>3, RoleOfUser DEF ReviewApplication, canReviewApplicationByRole
  <2>2. app[u].status \in Open
    BY <1>3 DEF ReviewApplication, Open
  <2> HIDE DEF mine
  <2>3. Fits(r)
    BY ZenonT(30), <1>1, <2>1, <2>2 DEF Fits
  <2>4. Request(c, r)
    BY <1>3 DEF ReviewApplication, mine
  <2> QED
    BY <2>3, <2>4, RequestKeepsInv
<1>4. ASSUME NEW by \in Users, NEW x \in Roles, AssignApplicationRole(c, by, u, x)
      PROVE  Inv' /\ UNCHANGED <<project, team, applications>>
  <2> DEFINE r == [NoCall EXCEPT !.op = "Assign", !.about = u, !.role = x,
                                 !.id = applies[u], !.app = app[u]]
  <2>1. Fits(r)
    BY ZenonT(30), <1>1, <1>4 DEF Fits, AssignApplicationRole
  <2> QED
    BY <1>4, <2>1, RequestKeepsInv DEF AssignApplicationRole
<1> QED
  BY <1>0, <1>2, <1>3, <1>4

-----------------------------------------------------------------------------
(* The transactions.                                                       *)

\* What is left of the invariant when the records keep their shape.
Rows ==
  /\ status \in Statuses \cup {"gone"}
  /\ deletedAt \in Ages /\ trash \in Ages
  /\ role \in Lists
  /\ joins \in [Users -> Nat]
  /\ app \in [Users -> Apps]
  /\ applies \in [Users -> Nat]
  /\ removals \subseteq [user : Users, seen : Nat, deleted : Nat]
  /\ CompletedHasNoOpenApplications
  /\ status = "Deleting" => trash = deletedAt
  /\ RemovalTakesWhatWasSeen

LEMMA InvRows == ASSUME Inv PROVE Rows
  BY DEF Inv, TypeOK, Rows

LEMMA RowsAndRecords ==
  ASSUME Rows', call' \in [Calls -> CallRecords], requests' \in Nat,
         \A d \in Calls : Fits(call'[d])
  PROVE  Inv'
  BY DEF Inv, TypeOK, Rows, Fits

LEMMA StatusTransactions ==
  ASSUME Inv, NEW c \in Calls,
         \/ Delete(c) \/ restoreProject(c) \/ CompleteRecruit(c) \/ UpdateStatus(c)
         \/ persistProjectReview(c)
  PROVE  Rows'
<1> USE InvRows DEF Rows, project, team, applications, Statuses, Ages
<1>1. CASE Delete(c)
  BY <1>1 DEF Delete, DeletedAt, CompletedHasNoOpenApplications, RemovalTakesWhatWasSeen
<1>2. CASE restoreProject(c)
  BY <1>2 DEF restoreProject, UpdateProjectStatusTx, CompletedHasNoOpenApplications,
              RemovalTakesWhatWasSeen
<1>3. CASE CompleteRecruit(c)
  <2>1. \A u \in Users : Closed(app[u]) \in Apps /\ Closed(app[u]).status \notin Open
    BY DEF Closed, Apps, AppStatuses, Open
  <2>2. app' = [u \in Users |-> Closed(app[u])] \/ UNCHANGED <<project, app>>
    BY <1>3 DEF CompleteRecruit
  <2>3. app' \in [Users -> Apps]
    BY <2>1, <2>2
  <2>4. CompletedHasNoOpenApplications'
    BY <1>3, <2>1 DEF CompleteRecruit, CompletedHasNoOpenApplications
  <2> QED
    BY <1>3, <2>3, <2>4 DEF CompleteRecruit, RemovalTakesWhatWasSeen
<1>4. CASE UpdateStatus(c)
  <2>1. call[c].op = "UpdateStatus" /\ call[c].next \in {"Pending", "Ended"}
    BY <1>4 DEF UpdateStatus, Serving, Inv, Fits
  <2> QED
    BY <1>4, <2>1 DEF UpdateStatus, CompletedHasNoOpenApplications, RemovalTakesWhatWasSeen
<1>5. CASE persistProjectReview(c)
  <2>1. call[c].op = "Review" /\ call[c].next \in {"Approved", "Rejected"}
    BY <1>5 DEF persistProjectReview, Serving, Inv, Fits
  <2> QED
    BY <1>5, <2>1 DEF persistProjectReview, UpdateProjectStatusTx,
                      CompletedHasNoOpenApplications, RemovalTakesWhatWasSeen
<1> QED
  BY <1>1, <1>2, <1>3, <1>4, <1>5

LEMMA ListsJoin ==
  ASSUME Rows, NEW list \in Lists
  PROVE  Joins(list) \in [Users -> Nat] /\ Added(list) \in Lists
  BY DEF Rows, Joins, Added, Lists

LEMMA TeamTransactions ==
  ASSUME Inv, NEW c \in Calls,
         AddMembers(c) \/ ReplaceMembers(c) \/ UpdateWithMetadata(c) \/ RemoveMemberTx(c)
  PROVE  Rows'
<1> USE InvRows DEF project, team, applications
<1>0. call[c] \in CallRecords /\ call[c].list \in Lists /\ call[c].id \in Nat
  BY DEF Inv, Fits, CallRecords
<1>1. CASE AddMembers(c)
  BY <1>0, <1>1, ListsJoin DEF AddMembers, Rows, CompletedHasNoOpenApplications,
                               RemovalTakesWhatWasSeen
<1>2. CASE ReplaceMembers(c)
  BY <1>0, <1>2, ListsJoin DEF ReplaceMembers, syncProjectMembersTx, Rows,
                               CompletedHasNoOpenApplications, RemovalTakesWhatWasSeen
<1>3. CASE UpdateWithMetadata(c)
  <2>1. role' \in Lists /\ joins' \in [Users -> Nat]
    BY <1>0, <1>3, ListsJoin DEF UpdateWithMetadata, syncProjectMembersTx, Rows
  <2>2. \/ UNCHANGED <<status, trash>>
        \/ status' = "Pending" /\ trash' = "null"
    BY <1>3 DEF UpdateWithMetadata
  <2>3. UNCHANGED <<deletedAt, removals, app, applies>>
    BY <1>3 DEF UpdateWithMetadata
  <2> QED
    BY <2>1, <2>2, <2>3 DEF Rows, Statuses, Ages, CompletedHasNoOpenApplications,
                            RemovalTakesWhatWasSeen
<1>4. CASE RemoveMemberTx(c)
  <2> DEFINE u == call[c].about
  <2>1. u \in Users
    BY <1>4 DEF RemoveMemberTx, Serving, Inv, Fits
  <2>2. UNCHANGED <<status, deletedAt, trash, joins, app, applies>>
    BY <1>4 DEF RemoveMemberTx
  <2>3. role' \in Lists
    BY <1>4, <2>1 DEF RemoveMemberTx, Rows, Lists
  <2>4. removals' = removals \/ removals' = removals \cup {[user |-> u, seen |-> joins[u], deleted |-> joins[u]]}
    BY <1>4 DEF RemoveMemberTx, SameRow
  <2>5. joins[u] \in Nat
    BY <2>1 DEF Rows
  <2> HIDE DEF u
  <2>6. /\ removals' \subseteq [user : Users, seen : Nat, deleted : Nat]
        /\ RemovalTakesWhatWasSeen'
    BY <2>1, <2>4, <2>5 DEF Rows, RemovalTakesWhatWasSeen
  <2> QED
    BY <2>2, <2>3, <2>6 DEF Rows, CompletedHasNoOpenApplications
<1> QED
  BY <1>1, <1>2, <1>3, <1>4

LEMMA ApplicationTransactions ==
  ASSUME Inv, NEW c \in Calls,
         CreateApplicationTx(c) \/ ReviewApplicationTx(c) \/ AssignApplicationRoleTx(c)
  PROVE  Rows'
<1> USE InvRows DEF project, team, applications
<1> DEFINE u == call[c].about
<1>0. u \in Users
  BY DEF CreateApplicationTx, ReviewApplicationTx, AssignApplicationRoleTx, Serving, Inv, Fits
<1>1. CASE CreateApplicationTx(c)
  <2>1. [NoApp EXCEPT !.status = "Pending"] \in Apps
    BY DEF NoApp, Apps, AppStatuses
  <2>2. app' \in [Users -> Apps] /\ applies' \in [Users -> Nat]
    BY <1>0, <1>1, <2>1 DEF CreateApplicationTx, Rows
  <2>3. UNCHANGED <<status, deletedAt, trash, role, joins, removals>>
    BY <1>1 DEF CreateApplicationTx
  <2>4. CompletedHasNoOpenApplications'
    BY <1>1, <2>3 DEF CreateApplicationTx, AcceptsApplication, Rows, CompletedHasNoOpenApplications
  <2> QED
    BY <2>2, <2>3, <2>4 DEF Rows, RemovalTakesWhatWasSeen
<1>2. CASE ReviewApplicationTx(c)
  <2>1. /\ call[c].by \in Users /\ call[c].role \in Roles
        /\ call[c].next \in {"Discussing", "Rejected"}
        /\ call[c].app.status \in Open
    BY <1>2 DEF ReviewApplicationTx, Serving, Inv, Fits
  <2>2. Reviewed(c) \in Apps
    BY <2>1, TeamConstants DEF Reviewed, Apps, AppStatuses
  <2>3. UNCHANGED <<status, deletedAt, trash, role, joins, removals, applies>>
    BY <1>2 DEF ReviewApplicationTx
  <2>4. app' \in [Users -> Apps]
    BY <1>0, <1>2, <2>2 DEF ReviewApplicationTx, Rows
  <2>5. status = "RecruitCompleted" => UNCHANGED app
    BY <1>0, <1>2, <2>1 DEF ReviewApplicationTx, AsRead, Rows, CompletedHasNoOpenApplications
  <2> QED
    BY <2>3, <2>4, <2>5 DEF Rows, RemovalTakesWhatWasSeen, CompletedHasNoOpenApplications
<1>3. CASE AssignApplicationRoleTx(c)
  <2>1. call[c].role \in Roles /\ call[c].app.status = "Discussing"
    BY <1>3 DEF AssignApplicationRoleTx, Serving, Inv, Fits
  <2>2. UNCHANGED <<status, deletedAt, trash, removals, applies>>
    BY <1>3 DEF AssignApplicationRoleTx
  <2>3. role' \in Lists /\ joins' \in [Users -> Nat]
    BY <1>0, <1>3, <2>1 DEF AssignApplicationRoleTx, Rows, Lists
  <2>4. \/ UNCHANGED app
        \/ app[u].status = "Discussing" /\ app' = [app EXCEPT ![u].status = "Joined"]
    BY <1>3, <2>1 DEF AssignApplicationRoleTx, AsRead
  <2>5. app' \in [Users -> Apps]
    BY <1>0, <2>4 DEF Rows, Apps, AppStatuses
  <2>6. status = "RecruitCompleted" => UNCHANGED app
    BY <1>0, <2>4 DEF Rows, CompletedHasNoOpenApplications, Open
  <2> QED
    BY <2>2, <2>3, <2>5, <2>6 DEF Rows, RemovalTakesWhatWasSeen, CompletedHasNoOpenApplications
<1> QED
  BY <1>1, <1>2, <1>3

LEMMA TransactionsKeepInv ==
  ASSUME Inv, NEW c \in Calls, Transactions(c)
  PROVE  Inv'
<1>1. Rows'
  BY StatusTransactions, TeamTransactions, ApplicationTransactions DEF Transactions
<1>2. Done(c)
  BY DEF Transactions, Delete, restoreProject, CompleteRecruit, UpdateStatus,
         persistProjectReview, AddMembers, ReplaceMembers, UpdateWithMetadata, RemoveMemberTx,
         CreateApplicationTx, ReviewApplicationTx, AssignApplicationRoleTx
<1> QED
  BY <1>1, <1>2, DoneKeepsFits, RowsAndRecords

\* The statements that read and write at once, and the days that pass.
LEMMA StatementsKeepInv ==
  ASSUME Inv,
         \/ UpdateProjectLifecycleStatus \/ RetentionEnds \/ PurgeDeletedProjects
         \/ \E u \in Users : RejectOwnApplication(u) \/ WithdrawMyApplication(u)
         \/ \E u \in Users, r \in Roles : UpdateProjectMemberRole(u, r)
  PROVE  Inv'
<1> USE InvRows DEF project, team, applications
<1>1. Rows' /\ UNCHANGED <<call, requests>>
  <2>1. CASE UpdateProjectLifecycleStatus
    BY <2>1 DEF UpdateProjectLifecycleStatus, Rows, Statuses, CompletedHasNoOpenApplications,
                RemovalTakesWhatWasSeen
  <2>2. CASE RetentionEnds
    BY <2>2 DEF RetentionEnds, Rows, Ages, CompletedHasNoOpenApplications, RemovalTakesWhatWasSeen
  <2>3. CASE PurgeDeletedProjects
    <3>1. EmptyList \in Lists /\ NoApp \in Apps
      BY DEF EmptyList, Lists, NoApp, Apps, AppStatuses
    <3> QED
      BY <2>3, <3>1 DEF PurgeDeletedProjects, Rows, Ages, CompletedHasNoOpenApplications,
                        RemovalTakesWhatWasSeen
  <2>4. ASSUME NEW u \in Users, RejectOwnApplication(u) PROVE Rows' /\ UNCHANGED <<call, requests>>
    <3>1. app' \in [Users -> Apps]
      BY <2>4 DEF RejectOwnApplication, Rows, Apps, AppStatuses
    <3> QED
      BY <2>4, <3>1 DEF RejectOwnApplication, Rows, Open, CompletedHasNoOpenApplications,
                        RemovalTakesWhatWasSeen
  <2>5. ASSUME NEW u \in Users, WithdrawMyApplication(u) PROVE Rows' /\ UNCHANGED <<call, requests>>
    <3>1. NoApp \in Apps /\ NoApp.status \notin Open
      BY DEF NoApp, Apps, AppStatuses, Open
    <3> QED
      BY <2>5, <3>1 DEF WithdrawMyApplication, Rows, CompletedHasNoOpenApplications,
                        RemovalTakesWhatWasSeen
  <2>6. ASSUME NEW u \in Users, NEW r \in Roles, UpdateProjectMemberRole(u, r)
        PROVE  Rows' /\ UNCHANGED <<call, requests>>
    BY <2>6 DEF UpdateProjectMemberRole, Rows, Lists, CompletedHasNoOpenApplications,
                RemovalTakesWhatWasSeen
  <2> QED
    BY <2>1, <2>2, <2>3, <2>4, <2>5, <2>6
<1> QED
  BY <1>1, RowsAndRecords DEF Inv, TypeOK

LEMMA InvHolds == Spec => []Inv
<1>1. Init => Inv
  <2> SUFFICES ASSUME Init PROVE Inv
    OBVIOUS
  <2>1. NoApp \in Apps /\ NoApp.status \notin Open
    BY DEF NoApp, Apps, AppStatuses, Open
  <2>2. Rows /\ call \in [Calls -> CallRecords] /\ requests \in Nat
    BY <2>1, NoCallFits DEF Init, Rows, Statuses, Ages, CompletedHasNoOpenApplications,
                            RemovalTakesWhatWasSeen
  <2>3. \A c \in Calls : Fits(call[c])
    BY NoCallFits DEF Init
  <2> QED
    BY <2>2, <2>3 DEF Inv, TypeOK, Rows
<1>2. Inv /\ [Next]_vars => Inv'
  <2> SUFFICES ASSUME Inv, [Next]_vars PROVE Inv'
    OBVIOUS
  <2>1. CASE UNCHANGED vars
    BY <2>1 DEF vars, Inv, TypeOK, Fits, CompletedHasNoOpenApplications, RemovalTakesWhatWasSeen
  <2>2. CASE Next
    BY <2>2, OperatorRequestsKeepInv, AdminRequestsKeepInv, MemberRequestsKeepInv,
       ApplicationRequestsKeepInv, TransactionsKeepInv, StatementsKeepInv DEF Next
  <2> QED
    BY <2>1, <2>2
<1> QED
  BY <1>1, <1>2, PTL DEF Spec

-----------------------------------------------------------------------------
(* Theorems                                                                *)

\* The state of a project, of its team and of every request keeps its type.
THEOREM TypeCorrect == Spec => []TypeOK
<1>1. Inv => TypeOK
  BY DEF Inv
<1> QED
  BY <1>1, InvHolds, PTL

\* However the end of the recruitment meets submissions and reviews, a
\* completed recruitment leaves no application open.
THEOREM NothingStaysOpen == Spec => []CompletedHasNoOpenApplications
<1>1. Inv => CompletedHasNoOpenApplications
  BY DEF Inv
<1> QED
  BY <1>1, InvHolds, PTL

\* A removal deletes the row of the member that its operator saw.
THEOREM RemovalsAreExact == Spec => []RemovalTakesWhatWasSeen
<1>1. Inv => RemovalTakesWhatWasSeen
  BY DEF Inv
<1> QED
  BY <1>1, InvHolds, PTL

\* Whatever lists are written, and however old they are, somebody may operate
\* the project.
THEOREM SomebodyAlwaysOperates == Spec => []SomebodyOperates
<1>1. Inv => SomebodyOperates
  BY SomebodyMay DEF Inv, TypeOK, SomebodyOperates
<1> QED
  BY <1>1, InvHolds, PTL

\* Only the purge destroys the project, and what it destroys has been in the
\* trash for the whole retention.
THEOREM PurgeWaits == Spec => PurgedOnlyAfterRetention
<1>1. Inv /\ [Next]_vars => [status' = "gone" /\ status # "gone" => status = "Deleting" /\ trash = "expired"]_vars
  <2> SUFFICES ASSUME Inv, Next, status' = "gone", status # "gone"
               PROVE  status = "Deleting" /\ trash = "expired"
    BY DEF vars
  <2> USE DEF project
  <2>1. ASSUME NEW c \in Calls, Transactions(c) PROVE FALSE
    <3>1. \A d \in Calls : /\ call[d].op = "UpdateStatus" => call[d].next # "gone"
                           /\ call[d].op = "Review" => call[d].next # "gone"
      BY DEF Inv, Fits
    <3> QED
      BY <2>1, <3>1 DEF Transactions, Delete, restoreProject, CompleteRecruit, UpdateStatus,
         persistProjectReview, AddMembers, ReplaceMembers, UpdateWithMetadata, RemoveMemberTx,
         CreateApplicationTx, ReviewApplicationTx, AssignApplicationRoleTx,
         UpdateProjectStatusTx, Serving
  <2>2. PurgeDeletedProjects
    BY <2>1, OperatorRequestsKeepInv, AdminRequestsKeepInv, MemberRequestsKeepInv,
       ApplicationRequestsKeepInv
       DEF Next, UpdateProjectLifecycleStatus, RetentionEnds, RejectOwnApplication,
           WithdrawMyApplication, UpdateProjectMemberRole
  <2> QED
    BY <2>2 DEF PurgeDeletedProjects, Purgeable, Inv
<1> QED
  BY <1>1, InvHolds, PTL DEF Spec, PurgedOnlyAfterRetention

\* What the step of a decision may do to the application of one user.
Decides(u) ==
  /\ app[u].status \in {"Joined", "Rejected"} => app'[u] = app[u] \/ status' = "gone"
  /\ app'[u].status = "Joined" /\ app[u].status # "Joined"
       => app[u].status = "Discussing" /\ role'[u] # None

LEMMA TransactionsDecide ==
  ASSUME Inv, NEW c \in Calls, Transactions(c), NEW u \in Users
  PROVE  Decides(u)
<1> USE DEF project, team, applications
<1>0. app \in [Users -> Apps]
  BY DEF Inv, TypeOK
<1>1. CASE CompleteRecruit(c)
  BY <1>0, <1>1 DEF CompleteRecruit, Closed, Open, Decides, Apps
<1>2. CASE CreateApplicationTx(c)
  BY <1>0, <1>2 DEF CreateApplicationTx, AcceptsApplication, Decides, NoApp
<1>3. CASE ReviewApplicationTx(c)
  <2>1. /\ call[c].about \in Users
        /\ call[c].next \in {"Discussing", "Rejected"}
        /\ call[c].app.status \in Open
    BY <1>3 DEF ReviewApplicationTx, Serving, Inv, Fits
  <2>2. UNCHANGED app \/ (app[call[c].about].status \in Open
                          /\ app' = [app EXCEPT ![call[c].about] = Reviewed(c)])
    BY <1>3, <2>1 DEF ReviewApplicationTx, AsRead
  <2> QED
    BY <1>0, <2>1, <2>2 DEF Reviewed, Open, Decides
<1>4. CASE AssignApplicationRoleTx(c)
  <2> DEFINE v == call[c].about
  <2>1. v \in Users /\ call[c].role \in Roles /\ call[c].app.status = "Discussing"
    BY <1>4 DEF AssignApplicationRoleTx, Serving, Inv, Fits
  <2>2. \/ UNCHANGED app
        \/ /\ app[v].status = "Discussing"
           /\ app' = [app EXCEPT ![v].status = "Joined"]
           /\ role' = [role EXCEPT ![v] = call[c].role]
    BY <1>4, <2>1 DEF AssignApplicationRoleTx, AsRead
  <2>3. role \in [Users -> Roles \cup {None}]
    BY DEF Inv, TypeOK, Lists
  <2> HIDE DEF v
  <2> QED
    BY <1>0, <2>1, <2>2, <2>3, TeamConstants DEF Decides, Apps
<1>5. CASE UNCHANGED app
  BY <1>5 DEF Decides
<1>6. \/ CompleteRecruit(c) \/ CreateApplicationTx(c) \/ ReviewApplicationTx(c)
      \/ AssignApplicationRoleTx(c) \/ UNCHANGED app
  BY DEF Transactions, Delete, restoreProject, UpdateStatus, persistProjectReview, AddMembers,
         ReplaceMembers, UpdateWithMetadata, RemoveMemberTx
<1> QED
  BY <1>1, <1>2, <1>3, <1>4, <1>5, <1>6

\* Of those who decide an application, and of a recruitment that ends, one
\* wins; whoever is admitted was discussed and becomes a member in that step.
THEOREM DecisionsStand == Spec => DecisionsAreFinal
<1>1. Inv /\ [Next]_vars => [\A u \in Users : Decides(u)]_vars
  <2> SUFFICES ASSUME Inv, Next, NEW u \in Users
               PROVE  Decides(u)
    BY DEF vars
  <2> USE DEF project, team, applications
  <2>0. app \in [Users -> Apps]
    BY DEF Inv, TypeOK
  <2>1. ASSUME NEW v \in Users, RejectOwnApplication(v) PROVE Decides(u)
    BY <2>0, <2>1 DEF RejectOwnApplication, Decides, Apps
  <2>2. ASSUME NEW v \in Users, WithdrawMyApplication(v) PROVE Decides(u)
    BY <2>0, <2>2 DEF WithdrawMyApplication, Decides, NoApp
  <2>3. CASE PurgeDeletedProjects
    BY <2>3 DEF PurgeDeletedProjects, Decides, NoApp
  <2>4. CASE UNCHANGED app
    BY <2>4 DEF Decides
  <2> QED
    BY <2>1, <2>2, <2>3, <2>4, TransactionsDecide, OperatorRequestsKeepInv,
       AdminRequestsKeepInv, MemberRequestsKeepInv, ApplicationRequestsKeepInv
       DEF Next, UpdateProjectLifecycleStatus, RetentionEnds, UpdateProjectMemberRole
<1> QED
  BY <1>1, InvHolds, PTL DEF Spec, DecisionsAreFinal, Decides
=============================================================================
