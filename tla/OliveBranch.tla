---------------------------- MODULE OliveBranch ----------------------------
(***************************************************************************)
(* Olive branches: the invitations of one project's team, and the quota    *)
(* that they are charged to.                                               *)
(*                                                                         *)
(* A branch is sent, or sent again, by one transaction with three steps:   *)
(* lock the project and look for a live branch, lock the sender's row and  *)
(* count, write.  The locks are held to the end.  The team changes by the  *)
(* operations of Recruitment, the balance by paid orders (OrderLifecycle). *)
(***************************************************************************)
EXTENDS ProjectTeam

CONSTANTS
  Calls,           \* requests that are served at the same time
  DailyFreeQuota,
  MaxBranches,     \* bounds: rows of olive_branch_record,
  MaxGrants,       \* branches bought by each user,
  MaxDay,          \* days,
  MaxRequests      \* requests

ASSUME BranchConstants ==
  /\ DailyFreeQuota \in Nat
  /\ MaxBranches \in Nat /\ MaxGrants \in Nat /\ MaxDay \in Nat /\ MaxRequests \in Nat
  /\ None \notin Calls

VARIABLES
  role,      \* project_members.role of each user, None without a row
  branch,    \* olive_branch_record
  used,      \* user.free_branch_used_today
  paid,      \* user.olive_branch_count
  active,    \* user.last_active_date
  today,
  call,      \* the requests under way, with what they read
  requests,
  granted,   \* history: the branches that each user bought
  charges    \* history: the free branches of each user and day, and the paid ones

vars == <<role, branch, used, paid, active, today, call, requests, granted, charges>>
quota == <<used, paid, active>>

BranchIds == 1..MaxBranches
Days == 0..MaxDay
Statuses == {"none", "Pending", "Discussing", "Accepted", "Rejected"}
Live == {"Pending", "Discussing", "Accepted"}
Records == [status : Statuses, sender : Users \cup {None}, receiver : Users \cup {None}]
NoBranch == [status |-> "none", sender |-> None, receiver |-> None]

\* A request goes through: ready (checked without a lock), locked (holds the
\* project), charging (holds the sender's row too); or handling.
Stages == {"idle", "ready", "locked", "charging", "handling"}

\* id: the branch to send again or to handle, 0 for a new one; was: its status
\* that was read; used, paid and day: the sender's row.
NoCall == [stage |-> "idle", by |-> None, to |-> None, id |-> 0, was |-> "none",
           used |-> 0, paid |-> 0, day |-> 0]

CallRecords ==
  [stage : Stages, by : Users \cup {None}, to : Users \cup {None}, id : 0..MaxBranches,
   was : Statuses, used : Nat, paid : Nat, day : Nat]

TypeOK ==
  /\ role \in Lists
  /\ branch \in [BranchIds -> Records]
  /\ \A i \in BranchIds : branch[i].status # "none" => branch[i].sender # branch[i].receiver
  /\ used \in [Users -> 0..DailyFreeQuota]
  /\ paid \in [Users -> Nat]
  /\ active \in [Users -> Nat]
  /\ today \in Nat
  /\ call \in [Calls -> CallRecords]
  /\ requests \in Nat
  /\ granted \in [Users -> Nat]
  /\ charges \in [free : [Users -> [Days -> Nat]], paid : [Users -> Nat]]

Init ==
  /\ role \in {list \in Lists : list[Creator] = "TEAM_LEADER"}
  /\ branch = [i \in BranchIds |-> NoBranch]
  /\ used = [u \in Users |-> 0]
  /\ paid = [u \in Users |-> 0]
  /\ active = [u \in Users |-> 0]
  /\ today = 0
  /\ call = [c \in Calls |-> NoCall]
  /\ requests = 0
  /\ granted = [u \in Users |-> 0]
  /\ charges = [free |-> [u \in Users |-> [d \in Days |-> 0]], paid |-> [u \in Users |-> 0]]

-----------------------------------------------------------------------------
(* Sending.                                                                *)

Request(c, r) ==
  /\ call[c] = NoCall
  /\ requests < MaxRequests
  /\ requests' = requests + 1
  /\ call' = [call EXCEPT ![c] = r]
  /\ UNCHANGED <<role, branch, quota, today, granted, charges>>

Step(c, r) == call' = [call EXCEPT ![c] = r] /\ UNCHANGED requests
Done(c) == Step(c, NoCall)

OnTheTeam(u) == currentUserProjectRole(role, u) # None

SendOliveBranch(c, by, to) ==
  /\ by # to
  /\ OnTheTeam(by)
  /\ Request(c, [NoCall EXCEPT !.stage = "ready", !.by = by, !.to = to])

ResendOliveBranch(c, by, i) ==
  /\ branch[i].status \in {"Accepted", "Rejected"}
  /\ OnTheTeam(by)
  /\ role[branch[i].receiver] = None
  /\ Request(c, [NoCall EXCEPT !.stage = "ready", !.by = by, !.to = branch[i].receiver, !.id = i])

\* (Mutant: the project's row is read without a lock.)
ProjectFree_Always == TRUE

ProjectFree == \A d \in Calls : call[d].stage \notin {"locked", "charging"}

\* A live branch for the receiver, other than the accepted one to send again.
Existing(to, id) ==
  {i \in BranchIds : /\ branch[i].receiver = to
                     /\ branch[i].status \in Live
                     /\ i # id \/ branch[i].status # "Accepted"}

\* (Mutant: the members are not read again under the lock.)
Refused_AsRead(c) == call[c].to = Creator \/ Existing(call[c].to, call[c].id) # {}

Refused(c) ==
  \/ call[c].to = Creator
  \/ role[call[c].to] # None
  \/ Existing(call[c].to, call[c].id) # {}

lockOliveBranchSendState(c) ==
  /\ call[c].stage = "ready"
  /\ ProjectFree
  /\ \/ Refused(c) /\ Done(c)
     \/ ~Refused(c) /\ Step(c, [call[c] EXCEPT !.stage = "locked"])
  /\ UNCHANGED <<role, branch, quota, today, granted, charges>>

\* (Mutant: the sender's row is read without a lock.)
RowFree_Always(u) == TRUE

RowFree(u) == \A d \in Calls : call[d].stage = "charging" => call[d].by # u

\* The row is of an earlier day.
Stale(u) == active[u] < today

\* (Mutant: a charge counts the free branches of an earlier day.)
UsedToday_AsStored(u) == used[u]

UsedToday(u) == IF Stale(u) THEN 0 ELSE used[u]

\* CalculateOliveBranchQuota: what the user is shown.
TotalRemaining(u) == DailyFreeQuota - UsedToday(u) + paid[u]

DayOf(u) == IF Stale(u) THEN today ELSE active[u]

\* The row is locked, reset if a day began, and counted.
GetByIDForUpdateTx(c) ==
  LET u == call[c].by
  IN /\ call[c].stage = "locked"
     /\ RowFree(u)
     /\ Step(c, [call[c] EXCEPT !.stage = "charging", !.used = UsedToday(u), !.paid = paid[u],
                                !.day = DayOf(u)])
     /\ UNCHANGED <<role, branch, quota, today, granted, charges>>

FreeLeft(n) == n < DailyFreeQuota

\* Free branches first; the row is written whole, from what was read.
UpdateQuotaTx(c) ==
  LET u == call[c].by
      r == call[c]
  IN /\ active' = [active EXCEPT ![u] = r.day]
     /\ \/ /\ FreeLeft(r.used)
           /\ used' = [used EXCEPT ![u] = r.used + 1]
           /\ paid' = [paid EXCEPT ![u] = r.paid]
           /\ charges' = [charges EXCEPT !.free[u][r.day] = @ + 1]
        \/ /\ ~FreeLeft(r.used)
           /\ r.paid > 0
           /\ used' = [used EXCEPT ![u] = r.used]
           /\ paid' = [paid EXCEPT ![u] = r.paid - 1]
           /\ charges' = [charges EXCEPT !.paid[u] = @ + 1]

CreateTx(c) ==
  \E i \in BranchIds :
    /\ branch[i] = NoBranch
    /\ \A j \in 1..(i - 1) : branch[j] # NoBranch
    /\ branch' = [branch EXCEPT ![i] = [status |-> "Pending", sender |-> call[c].by, receiver |-> call[c].to]]

\* The record keeps its first sender.
Reactivate(c) == branch' = [branch EXCEPT ![call[c].id].status = "Pending"]

Commit(c) ==
  /\ call[c].stage = "charging"
  /\ UpdateQuotaTx(c)
  /\ IF call[c].id = 0 THEN CreateTx(c) ELSE Reactivate(c)
  /\ Done(c)
  /\ UNCHANGED <<role, today, granted>>

\* No quota is left, or a statement fails: nothing is written.
Rollback(c) ==
  /\ call[c].stage \in {"locked", "charging"}
  /\ Done(c)
  /\ UNCHANGED <<role, branch, quota, today, granted, charges>>

-----------------------------------------------------------------------------
(* Handling.                                                               *)

BeginHandle(c, by, i) ==
  /\ branch[i].status # "none"
  /\ Request(c, [NoCall EXCEPT !.stage = "handling", !.by = by, !.id = i, !.was = branch[i].status])

AsRead(c) == branch[call[c].id].status = call[c].was

ensureCanOperateDiscussingBranch(by, assigned) ==
  LET mine == currentUserProjectRole(role, by)
  IN mine # None /\ (assigned # None => canAssignProjectRole(mine, assigned))

Answer(c, next) == branch' = [branch EXCEPT ![call[c].id].status = next]

\* The row is locked and must have the status that was read.
HandleOliveBranch(c) ==
  LET by == call[c].by
      to == branch[call[c].id].receiver
  IN /\ call[c].stage = "handling"
     /\ AsRead(c)
     /\ \/ /\ call[c].was = "Pending" /\ by = to
           /\ \E next \in {"Discussing", "Rejected"} : Answer(c, next)
           /\ UNCHANGED role
        \/ /\ call[c].was = "Discussing"
           /\ by = to \/ ensureCanOperateDiscussingBranch(by, None)
           /\ Answer(c, "Rejected")
           /\ UNCHANGED role
        \/ /\ call[c].was = "Discussing"
           /\ \E r \in Roles : /\ ensureCanOperateDiscussingBranch(by, r)
                               /\ role' = [role EXCEPT ![to] = r]
           /\ Answer(c, "Accepted")
     /\ Done(c)
     /\ UNCHANGED <<quota, today, granted, charges>>

\* The request is refused, or fails.
HandleFails(c) ==
  /\ call[c].stage = "handling"
  /\ Done(c)
  /\ UNCHANGED <<role, branch, quota, today, granted, charges>>

-----------------------------------------------------------------------------
(* The team, the balance and the day.                                      *)

\* The operations of Recruitment.  A user cannot join while a branch is sent
\* to him: the place of his row is locked too.
TeamChanges(u, r) ==
  /\ r # role[u]
  /\ role[u] = None => \A c \in Calls : call[c].stage \in {"locked", "charging"} => call[c].to # u
  /\ role' = [role EXCEPT ![u] = r]
  /\ UNCHANGED <<branch, quota, today, call, requests, granted, charges>>

\* A paid order: the balance is increased in one statement.
AddOliveBranchCountTx(u) ==
  /\ RowFree(u)
  /\ granted[u] < MaxGrants
  /\ paid' = [paid EXCEPT ![u] = @ + 1]
  /\ granted' = [granted EXCEPT ![u] = @ + 1]
  /\ UNCHANGED <<role, branch, used, active, today, call, requests, charges>>

\* The user opens the program, or asks for his quota.
ResetDailyFreeBranchQuotaIfNeeded(u) ==
  /\ RowFree(u)
  /\ Stale(u)
  /\ used' = [used EXCEPT ![u] = 0]
  /\ active' = [active EXCEPT ![u] = today]
  /\ UNCHANGED <<role, branch, paid, today, call, requests, granted, charges>>

NextDay ==
  /\ today < MaxDay
  /\ today' = today + 1
  /\ UNCHANGED <<role, branch, quota, call, requests, granted, charges>>

Next ==
  \/ \E c \in Calls :
       \/ \E by, to \in Users : SendOliveBranch(c, by, to)
       \/ \E by \in Users, i \in BranchIds : ResendOliveBranch(c, by, i) \/ BeginHandle(c, by, i)
       \/ lockOliveBranchSendState(c) \/ GetByIDForUpdateTx(c) \/ Commit(c) \/ Rollback(c)
       \/ HandleOliveBranch(c) \/ HandleFails(c)
  \/ \E u \in Users, r \in Roles \cup {None} : TeamChanges(u, r)
  \/ \E u \in Users : AddOliveBranchCountTx(u) \/ ResetDailyFreeBranchQuotaIfNeeded(u)
  \/ NextDay

Spec == Init /\ [][Next]_vars

-----------------------------------------------------------------------------
(* Properties                                                              *)

\* A user has at most one live branch of a project, however many members send
\* or send again at the same time.
OneLiveBranch ==
  \A i, j \in BranchIds :
    branch[i].status \in Live /\ branch[j].status \in Live /\ branch[i].receiver = branch[j].receiver
      => i = j

\* The account is right: what was bought is there or was charged, and no day has
\* more free branches than the quota.  No purchase, no charge and no daily reset
\* is lost or done twice when they meet on the sender's row, although a charge
\* may be counted before midnight and written after it.
BalanceIsKept ==
  \A u \in Users :
    /\ paid[u] + charges.paid[u] = granted[u]
    /\ \A d \in Days : charges.free[u][d] <= DailyFreeQuota

\* A branch follows the conversation: it is answered once, and a refused or
\* an accepted one is open again only when the receiver is not on the team.
AnsweredOnce ==
  [][\A i \in BranchIds :
       LET next == branch'[i].status
       IN next # branch[i].status =>
            CASE branch[i].status = "none" -> next = "Pending"
              [] branch[i].status = "Pending" -> next \in {"Discussing", "Rejected"}
              [] branch[i].status = "Discussing" -> next \in {"Accepted", "Rejected"}
              [] OTHER -> next = "Pending" /\ role[branch[i].receiver] = None]_vars

\* The quota keeps its promise although a charge takes two steps.
Quota == INSTANCE BranchQuota
QuotaImplemented == Quota!Spec
=============================================================================
