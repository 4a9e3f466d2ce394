-------------------------- MODULE OliveBranchProofs --------------------------
(***************************************************************************)
(* Theorems of OliveBranch, for any users, quota and number of requests:   *)
(* type correctness; one live branch per receiver; a balance that neither  *)
(* loses nor doubles a charge; branches that are answered once; and the    *)
(* implementation of BranchQuota.                                          *)
(*                                                                         *)
(* The argument.  One request at a time holds the project (Alone).  What   *)
(* it found there - no live branch, no member - stays true while it holds  *)
(* it (Found), because an answer only handles live branches and a user     *)
(* cannot join meanwhile.  What it counted in the sender's row stays what  *)
(* the row says (Counted), because whoever writes the row needs its lock.  *)
(* A free branch of a day is counted in the row until the row's day ends   *)
(* (Account).                                                              *)
(***************************************************************************)
EXTENDS OliveBranch, TLAPS

USE TeamConstants, BranchConstants

Sending == {"ready", "locked", "charging"}
Locks == {"locked", "charging"}

\* The shape of a request.
Shape(r) ==
  /\ r \in CallRecords
  /\ r.stage \in Sending => r.by \in Users /\ r.to \in Users /\ r.by # r.to
  /\ r.stage = "handling" => r.by \in Users /\ r.id \in BranchIds /\ r.was # "none"

\* A branch to send again is there.
Known(r) ==
  r.stage \in Sending /\ r.id # 0 => branch[r.id].status # "none" /\ branch[r.id].receiver = r.to

\* What the holder of the project found is still so.
Found(r) ==
  r.stage \in Locks => r.to # Creator /\ role[r.to] = None /\ Existing(r.to, r.id) = {}

\* What was counted is what the sender's row says.
Counted(r) ==
  r.stage = "charging" =>
    /\ r.day \in Days /\ active[r.by] <= r.day /\ r.day <= today
    /\ r.paid = paid[r.by]
    /\ r.used = IF active[r.by] < r.day THEN 0 ELSE used[r.by]

Alone == \A c, d \in Calls : call[c].stage \in Locks /\ call[d].stage \in Locks => c = d

Rows ==
  \A i \in BranchIds : branch[i].status # "none" =>
    /\ branch[i].sender \in Users /\ branch[i].receiver \in Users
    /\ branch[i].sender # branch[i].receiver
    /\ branch[i].receiver # Creator

Account(u) ==
  /\ active[u] <= today
  /\ paid[u] + charges.paid[u] = granted[u]
  /\ \A d \in Days : /\ charges.free[u][d] <= DailyFreeQuota
                     /\ d > active[u] => charges.free[u][d] = 0
                     /\ d = active[u] => charges.free[u][d] <= used[u]

Inv ==
  /\ TypeOK
  /\ today \in Days
  /\ Rows
  /\ OneLiveBranch
  /\ \A c \in Calls : Shape(call[c]) /\ Known(call[c]) /\ Found(call[c]) /\ Counted(call[c])
  /\ Alone
  /\ \A u \in Users : Account(u)

-----------------------------------------------------------------------------
(* Requests that hold nothing.                                             *)

LEMMA NoCallFits == Shape(NoCall) /\ Known(NoCall) /\ NoCall.stage = "idle"
<1>1. NoCall \in CallRecords
  BY DEF NoCall, CallRecords, Stages, Statuses
<1>2. NoCall.stage = "idle"
  BY DEF NoCall
<1> QED
  BY <1>1, <1>2 DEF Shape, Known, Sending

\* A request may turn into one that holds nothing.
LEMMA CallStep ==
  ASSUME Inv, NEW c \in Calls, NEW r, Shape(r), Known(r), r.stage \notin Locks,
         call' = [call EXCEPT ![c] = r], requests' \in Nat,
         UNCHANGED <<role, branch, quota, today, granted, charges>>
  PROVE  Inv'
<1> USE DEF quota
<1>1. r \in CallRecords
  BY DEF Shape
<1>2. TypeOK' /\ today' \in Days
  BY <1>1 DEF Inv, TypeOK
<1>3. Rows' /\ OneLiveBranch'
  BY DEF Inv, Rows, OneLiveBranch
<1>4. \A d \in Calls : call'[d] = IF d = c THEN r ELSE call[d]
  BY DEF Inv, TypeOK
<1>5. \A d \in Calls : (Shape(call[d]) /\ Known(call[d]) /\ Found(call[d]) /\ Counted(call[d]))'
  <2> SUFFICES ASSUME NEW d \in Calls
               PROVE  (Shape(call[d]) /\ Known(call[d]) /\ Found(call[d]) /\ Counted(call[d]))'
    OBVIOUS
  <2>1. CASE d = c
    BY <1>4, <2>1 DEF Shape, Known, Found, Counted, Locks
  <2>2. CASE d # c
    BY <1>4, <2>2 DEF Inv, Shape, Known, Found, Existing, Counted
  <2> QED
    BY <2>1, <2>2
<1>6. Alone'
  BY <1>4 DEF Inv, Alone
<1>7. \A u \in Users : Account(u)'
  BY DEF Inv, Account
<1> QED
  BY <1>2, <1>3, <1>5, <1>6, <1>7 DEF Inv

LEMMA DoneKeepsInv ==
  ASSUME Inv, NEW c \in Calls, Done(c), UNCHANGED <<role, branch, quota, today, granted, charges>>
  PROVE  Inv'
<1>1. requests' \in Nat /\ call' = [call EXCEPT ![c] = NoCall]
  BY DEF Done, Step, Inv, TypeOK
<1>2. NoCall.stage \notin Locks
  BY NoCallFits DEF Locks
<1> QED
  BY <1>1, <1>2, NoCallFits, CallStep

LEMMA RequestKeepsInv ==
  ASSUME Inv, NEW c \in Calls, NEW r, Request(c, r), Shape(r), Known(r), r.stage \notin Locks
  PROVE  Inv'
<1>1. requests' \in Nat /\ call' = [call EXCEPT ![c] = r]
  BY DEF Request, Inv, TypeOK
<1>2. UNCHANGED <<role, branch, quota, today, granted, charges>>
  BY DEF Request
<1> QED
  BY <1>1, <1>2, CallStep

LEMMA SendKeepsInv ==
  ASSUME Inv, NEW c \in Calls, NEW by \in Users, NEW to \in Users, SendOliveBranch(c, by, to)
  PROVE  Inv'
<1> DEFINE r == [NoCall EXCEPT !.stage = "ready", !.by = by, !.to = to]
<1>0. 0 \in 0..MaxBranches /\ "ready" \in Stages /\ "none" \in Statuses
  BY DEF Stages, Statuses
<1>1. r \in CallRecords
  BY <1>0 DEF NoCall, CallRecords
<1>2. r.stage = "ready" /\ r.by = by /\ r.to = to /\ r.id = 0
  BY DEF NoCall
<1>3. Request(c, r) /\ by # to
  BY DEF SendOliveBranch
<1> HIDE DEF r
<1>4. Shape(r) /\ Known(r) /\ r.stage \notin Locks
  BY <1>1, <1>2, <1>3 DEF Shape, Known, Locks
<1> QED
  BY <1>3, <1>4, RequestKeepsInv

LEMMA ResendKeepsInv ==
  ASSUME Inv, NEW c \in Calls, NEW by \in Users, NEW i \in BranchIds, ResendOliveBranch(c, by, i)
  PROVE  Inv'
<1> DEFINE to == branch[i].receiver
           r == [NoCall EXCEPT !.stage = "ready", !.by = by, !.to = to, !.id = i]
<1>0. to \in Users /\ to # Creator /\ branch[i].status # "none"
  BY DEF ResendOliveBranch, Inv, Rows
<1>1. by # to
  BY <1>0, TeamConstants DEF ResendOliveBranch, OnTheTeam, currentUserProjectRole
<1>2. Request(c, r)
  BY DEF ResendOliveBranch
<1>3. i \in 0..MaxBranches
  BY DEF BranchIds
<1>4. r \in CallRecords
  BY <1>0, <1>3 DEF NoCall, CallRecords, Stages, Statuses
<1>5. r.stage = "ready" /\ r.by = by /\ r.to = branch[i].receiver /\ r.id = i
  BY DEF NoCall
<1> HIDE DEF r
<1>6. Shape(r) /\ Known(r) /\ r.stage \notin Locks
  BY <1>0, <1>1, <1>4, <1>5 DEF Shape, Known, Locks
<1> QED
  BY <1>2, <1>6, RequestKeepsInv

LEMMA BeginHandleKeepsInv ==
  ASSUME Inv, NEW c \in Calls, NEW by \in Users, NEW i \in BranchIds, BeginHandle(c, by, i)
  PROVE  Inv'
<1> DEFINE r == [NoCall EXCEPT !.stage = "handling", !.by = by, !.id = i, !.was = branch[i].status]
<1>0. branch[i].status \in Statuses \ {"none"}
  BY DEF BeginHandle, Inv, TypeOK, Records
<1>1. i \in 0..MaxBranches
  BY DEF BranchIds
<1>2. r \in CallRecords
  BY <1>0, <1>1 DEF NoCall, CallRecords, Stages
<1>3. r.stage = "handling" /\ r.by = by /\ r.id = i /\ r.was # "none"
  BY <1>0 DEF NoCall
<1>4. Request(c, r)
  BY DEF BeginHandle
<1> HIDE DEF r
<1>5. Shape(r) /\ Known(r) /\ r.stage \notin Locks
  BY <1>2, <1>3 DEF Shape, Known, Sending, Locks
<1> QED
  BY <1>4, <1>5, RequestKeepsInv

-----------------------------------------------------------------------------
(* Sending under the locks.                                                *)

\* The project is locked when nobody holds it, and nothing forbids the branch.
LEMMA LockKeepsInv ==
  ASSUME Inv, NEW c \in Calls, lockOliveBranchSendState(c)
  PROVE  Inv'
<1> DEFINE r == [call[c] EXCEPT !.stage = "locked"]
<1>1. CASE Done(c)
  BY <1>1, DoneKeepsInv DEF lockOliveBranchSendState
<1>2. CASE ~Refused(c) /\ Step(c, r)
  <2>1. Shape(call[c]) /\ Known(call[c]) /\ call[c].stage = "ready" /\ call[c] \in CallRecords
    BY DEF Inv, Shape, lockOliveBranchSendState
  <2>2. /\ r \in CallRecords /\ r.stage = "locked"
        /\ r.by = call[c].by /\ r.to = call[c].to /\ r.id = call[c].id
    BY <2>1 DEF CallRecords, Stages
  <2>3. UNCHANGED <<role, branch, used, paid, active, today, granted, charges, requests>>
    BY <1>2 DEF lockOliveBranchSendState, Step, quota
  <2>4. \A d \in Calls : call'[d] = IF d = c THEN r ELSE call[d]
    BY <1>2 DEF Step, Inv, TypeOK
  <2>5. call' \in [Calls -> CallRecords]
    BY <1>2, <2>2 DEF Step, Inv, TypeOK
  <2> HIDE DEF r
  <2>6. Shape(r) /\ Known(r) /\ Found(r) /\ Counted(r)
    BY <1>2, <2>1, <2>2 DEF Shape, Known, Sending, Found, Counted, Refused
  <2>7. \A d \in Calls : (Shape(call[d]) /\ Known(call[d]) /\ Found(call[d]) /\ Counted(call[d]))'
    <3> SUFFICES ASSUME NEW d \in Calls
                 PROVE  (Shape(call[d]) /\ Known(call[d]) /\ Found(call[d]) /\ Counted(call[d]))'
      OBVIOUS
    <3>1. CASE d = c
      BY <2>3, <2>4, <2>6, <3>1 DEF Shape, Known, Found, Existing, Counted
    <3>2. CASE d # c
      BY <2>3, <2>4, <3>2 DEF Inv, Shape, Known, Found, Existing, Counted
    <3> QED
      BY <3>1, <3>2
  <2>8. Alone'
    BY <2>4 DEF lockOliveBranchSendState, ProjectFree, Alone, Locks
  <2>9. TypeOK' /\ today' \in Days /\ Rows' /\ OneLiveBranch' /\ \A u \in Users : Account(u)'
    BY <2>3, <2>5 DEF Inv, TypeOK, Rows, OneLiveBranch, Account
  <2> QED
    BY <2>7, <2>8, <2>9 DEF Inv
<1> QED
  BY <1>1, <1>2 DEF lockOliveBranchSendState

\* The sender's row is locked and counted.
LEMMA CountKeepsInv ==
  ASSUME Inv, NEW c \in Calls, GetByIDForUpdateTx(c)
  PROVE  Inv'
<1> DEFINE u == call[c].by
           r == [call[c] EXCEPT !.stage = "charging", !.used = UsedToday(u), !.paid = paid[u],
                                !.day = DayOf(u)]
<1>1. /\ Shape(call[c]) /\ Known(call[c]) /\ Found(call[c]) /\ call[c].stage = "locked"
      /\ call[c] \in CallRecords /\ u \in Users
  BY DEF Inv, Shape, Sending, GetByIDForUpdateTx
<1>2. UsedToday(u) \in Nat /\ paid[u] \in Nat /\ DayOf(u) \in Nat /\ active[u] \in Nat
  BY <1>1 DEF Inv, TypeOK, UsedToday, DayOf
<1>3. Account(u) /\ today \in Days
  BY <1>1 DEF Inv
<1>4. /\ r \in CallRecords /\ r.stage = "charging"
      /\ r.by = u /\ r.to = call[c].to /\ r.id = call[c].id
      /\ r.used = UsedToday(u) /\ r.paid = paid[u] /\ r.day = DayOf(u)
  BY <1>1, <1>2 DEF CallRecords, Stages
<1>5. UNCHANGED <<role, branch, used, paid, active, today, granted, charges, requests>>
  BY DEF GetByIDForUpdateTx, Step, quota
<1>6. call' \in [Calls -> CallRecords] /\ \A d \in Calls : call'[d] = IF d = c THEN r ELSE call[d]
  BY <1>4 DEF GetByIDForUpdateTx, Step, Inv, TypeOK
<1> HIDE DEF u, r
<1>7. Counted(r)
  BY <1>2, <1>3, <1>4 DEF Counted, Account, UsedToday, DayOf, Stale, Days
<1>8. Shape(r) /\ Known(r) /\ Found(r)
  BY <1>1, <1>4 DEF Shape, Known, Found, Sending, Locks, u
<1>9. \A d \in Calls : (Shape(call[d]) /\ Known(call[d]) /\ Found(call[d]) /\ Counted(call[d]))'
  <2> SUFFICES ASSUME NEW d \in Calls
               PROVE  (Shape(call[d]) /\ Known(call[d]) /\ Found(call[d]) /\ Counted(call[d]))'
    OBVIOUS
  <2>1. CASE d = c
    BY <1>5, <1>6, <1>7, <1>8, <2>1 DEF Shape, Known, Found, Existing, Counted
  <2>2. CASE d # c
    BY <1>5, <1>6, <2>2 DEF Inv, Shape, Known, Found, Existing, Counted
  <2> QED
    BY <2>1, <2>2
<1>10. Alone'
  BY <1>1, <1>4, <1>6 DEF Inv, Alone, Locks
<1>11. TypeOK' /\ today' \in Days /\ Rows' /\ OneLiveBranch' /\ \A v \in Users : Account(v)'
  BY <1>5, <1>6 DEF Inv, TypeOK, Rows, OneLiveBranch, Account
<1> QED
  BY <1>9, <1>10, <1>11 DEF Inv

\* A charge keeps the account of its sender and touches nobody else's.
LEMMA ChargeKeepsAccounts ==
  ASSUME Inv, NEW c \in Calls, call[c].stage = "charging", UpdateQuotaTx(c),
         UNCHANGED <<today, granted>>
  PROVE  /\ used' \in [Users -> 0..DailyFreeQuota]
         /\ paid' \in [Users -> Nat]
         /\ active' \in [Users -> Nat]
         /\ charges' \in [free : [Users -> [Days -> Nat]], paid : [Users -> Nat]]
         /\ \A u \in Users : Account(u)'
<1> DEFINE u == call[c].by
           day == call[c].day
           n == call[c].used
           free == charges.free
           bought == charges.paid
<1>1. /\ u \in Users /\ day \in Days /\ active[u] <= day /\ day <= today
      /\ call[c].paid = paid[u]
      /\ n = IF active[u] < day THEN 0 ELSE used[u]
  BY DEF Inv, Shape, Sending, Counted
<1>2. /\ used \in [Users -> 0..DailyFreeQuota] /\ paid \in [Users -> Nat]
      /\ active \in [Users -> Nat] /\ granted \in [Users -> Nat] /\ today \in Nat
      /\ free \in [Users -> [Days -> Nat]] /\ bought \in [Users -> Nat]
      /\ charges = [free |-> free, paid |-> bought]
  BY DEF Inv, TypeOK
<1>3. n \in 0..DailyFreeQuota /\ day \in Nat /\ Days \subseteq Nat
  <2>1. Days \subseteq Nat
    BY DEF Days
  <2>2. used[u] \in 0..DailyFreeQuota /\ 0 \in 0..DailyFreeQuota
    BY <1>1, <1>2
  <2> QED
    BY <1>1, <2>1, <2>2
<1>4. \A v \in Users :
        /\ active[v] <= today /\ paid[v] + bought[v] = granted[v]
        /\ \A d \in Days : /\ free[v][d] <= DailyFreeQuota
                           /\ d > active[v] => free[v][d] = 0
                           /\ d = active[v] => free[v][d] <= used[v]
  BY DEF Inv, Account
<1>5. active' = [active EXCEPT ![u] = day] /\ active' \in [Users -> Nat] /\ active'[u] = day
  BY <1>1, <1>2, <1>3 DEF UpdateQuotaTx
\* Before the charge, the free branches of its day are those that it counted.
<1>6. \A d \in Days : /\ free[u][d] \in Nat /\ free[u][d] <= DailyFreeQuota
                      /\ d > day => free[u][d] = 0
                      /\ d = day => free[u][d] <= n
  <2> SUFFICES ASSUME NEW d \in Days
               PROVE  /\ free[u][d] \in Nat /\ free[u][d] <= DailyFreeQuota
                      /\ d > day => free[u][d] = 0
                      /\ d = day => free[u][d] <= n
    OBVIOUS
  <2> HIDE DEF u, day, n, free
  <2>1. d \in Nat /\ free[u][d] \in Nat /\ active[u] \in Nat /\ used[u] \in Nat
    BY <1>1, <1>2, <1>3
  <2>2. /\ free[u][d] <= DailyFreeQuota
        /\ d > active[u] => free[u][d] = 0
        /\ d = active[u] => free[u][d] <= used[u]
    BY <1>1, <1>4
  <2> QED
    BY <1>1, <1>3, <2>1, <2>2
<1>7. CASE /\ FreeLeft(n)
           /\ used' = [used EXCEPT ![u] = n + 1]
           /\ paid' = [paid EXCEPT ![u] = call[c].paid]
           /\ charges' = [charges EXCEPT !.free[u][day] = @ + 1]
  <2> DEFINE more == [free EXCEPT ![u] = [free[u] EXCEPT ![day] = @ + 1]]
  <2>1. charges' = [free |-> more, paid |-> bought]
    BY <1>1, <1>2, <1>7
  <2> HIDE DEF u, day, n, free, bought
  <2>2. n + 1 \in 0..DailyFreeQuota
    BY <1>3, <1>7 DEF FreeLeft
  <2>3. used' \in [Users -> 0..DailyFreeQuota] /\ used'[u] = n + 1 /\ paid' = paid
    BY <1>1, <1>2, <1>7, <2>2
  <2>4. /\ more \in [Users -> [Days -> Nat]]
        /\ \A d \in Days : more[u][d] = IF d = day THEN free[u][d] + 1 ELSE free[u][d]
        /\ \A v \in Users : v # u => more[v] = free[v]
    BY <1>1, <1>2
  <2>5. \A v \in Users : v # u => active'[v] = active[v] /\ used'[v] = used[v]
    BY <1>1, <1>2, <1>5, <1>7
  <2>6. \A d \in Days : /\ more[u][d] <= DailyFreeQuota
                        /\ d > day => more[u][d] = 0
                        /\ d = day => more[u][d] <= n + 1
    <3> HIDE DEF more
    <3> QED
      BY <1>1, <1>3, <1>6, <2>2, <2>4
  <2> HIDE DEF more
  <2>7. \A v \in Users : Account(v)'
    BY <1>1, <1>4, <1>5, <2>1, <2>3, <2>4, <2>5, <2>6 DEF Account
  <2> QED
    BY <1>2, <1>5, <2>1, <2>3, <2>4, <2>7
<1>8. CASE /\ call[c].paid > 0
           /\ used' = [used EXCEPT ![u] = n]
           /\ paid' = [paid EXCEPT ![u] = call[c].paid - 1]
           /\ charges' = [charges EXCEPT !.paid[u] = @ + 1]
  <2> DEFINE more == [bought EXCEPT ![u] = @ + 1]
  <2>1. charges' = [free |-> free, paid |-> more]
    BY <1>1, <1>2, <1>8
  <2> HIDE DEF u, day, n, free, bought
  <2>2. used' \in [Users -> 0..DailyFreeQuota] /\ used'[u] = n
    BY <1>1, <1>2, <1>3, <1>8
  <2>3. paid' \in [Users -> Nat] /\ paid'[u] = paid[u] - 1
    BY <1>1, <1>2, <1>8
  <2>4. more \in [Users -> Nat] /\ more[u] = bought[u] + 1 /\ \A v \in Users : v # u => more[v] = bought[v]
    BY <1>1, <1>2
  <2>5. \A v \in Users : v # u => active'[v] = active[v] /\ used'[v] = used[v] /\ paid'[v] = paid[v]
    BY <1>1, <1>2, <1>5, <1>8
  <2>6. paid'[u] + more[u] = granted[u]
    BY <1>1, <1>2, <1>4, <2>3, <2>4
  <2> HIDE DEF more
  <2>7. \A v \in Users : Account(v)'
    BY <1>1, <1>4, <1>5, <1>6, <2>1, <2>2, <2>4, <2>5, <2>6 DEF Account
  <2> QED
    BY <1>2, <1>5, <2>1, <2>2, <2>3, <2>4, <2>7
<1> QED
  BY <1>7, <1>8 DEF UpdateQuotaTx

\* The branch that is written is the receiver's only live one.
LEMMA WriteKeepsBranches ==
  ASSUME Inv, NEW c \in Calls, call[c].stage = "charging",
         IF call[c].id = 0 THEN CreateTx(c) ELSE Reactivate(c)
  PROVE  /\ branch' \in [BranchIds -> Records]
         /\ Rows' /\ OneLiveBranch'
         /\ \A i \in BranchIds : branch[i].status # "none" =>
              branch'[i].status # "none" /\ branch'[i].receiver = branch[i].receiver
<1> DEFINE u == call[c].by
           to == call[c].to
           id == call[c].id
<1>1. /\ u \in Users /\ to \in Users /\ u # to /\ to # Creator
      /\ Existing(to, id) = {}
      /\ id # 0 => branch[id].status # "none" /\ branch[id].receiver = to
      /\ id \in 0..MaxBranches
  BY DEF Inv, Shape, Sending, Known, Found, Locks, CallRecords
<1>2. branch \in [BranchIds -> Records] /\ Rows /\ OneLiveBranch
  BY DEF Inv, TypeOK
<1>3. PICK i \in BranchIds :
        \/ /\ id = 0 /\ branch[i] = NoBranch
           /\ branch' = [branch EXCEPT ![i] = [status |-> "Pending", sender |-> u, receiver |-> to]]
        \/ /\ i = id /\ id # 0
           /\ branch' = [branch EXCEPT ![i].status = "Pending"]
  BY <1>1 DEF CreateTx, Reactivate, BranchIds
<1> HIDE DEF u, to, id
<1>4. /\ branch'[i].status = "Pending" /\ branch'[i].receiver = to
      /\ branch'[i] \in Records
      /\ branch'[i].sender \in Users /\ branch'[i].sender # to
      /\ branch[i].status # "none" => branch[i].receiver = to
      /\ \A j \in BranchIds : j # i => branch'[j] = branch[j]
  BY <1>1, <1>2, <1>3 DEF Records, Statuses, NoBranch, Rows
<1>5. branch' \in [BranchIds -> Records]
  BY <1>2, <1>3, <1>4
<1>6. Rows'
  BY <1>1, <1>2, <1>4 DEF Rows
<1>7. \A j \in BranchIds : j # i /\ branch[j].status \in Live => branch[j].receiver # to
  <2> SUFFICES ASSUME NEW j \in BranchIds, j # i, branch[j].status \in Live,
                      branch[j].receiver = to
               PROVE  FALSE
    OBVIOUS
  <2>1. j # id \/ branch[j].status # "Accepted"
    BY <1>1, <1>3 DEF BranchIds, NoBranch
  <2> QED
    BY <1>1, <2>1 DEF Existing
<1>8. OneLiveBranch'
  BY <1>2, <1>4, <1>7 DEF OneLiveBranch
<1> QED
  BY <1>4, <1>5, <1>6, <1>8

LEMMA CommitKeepsInv ==
  ASSUME Inv, NEW c \in Calls, Commit(c)
  PROVE  Inv'
<1>1. call[c].stage = "charging" /\ UNCHANGED <<role, today, granted, requests>>
  BY DEF Commit, Done, Step
<1>2. /\ used' \in [Users -> 0..DailyFreeQuota] /\ paid' \in [Users -> Nat]
      /\ active' \in [Users -> Nat]
      /\ charges' \in [free : [Users -> [Days -> Nat]], paid : [Users -> Nat]]
      /\ \A u \in Users : Account(u)'
  BY ChargeKeepsAccounts DEF Commit
<1>3. /\ branch' \in [BranchIds -> Records]
      /\ Rows' /\ OneLiveBranch'
      /\ \A i \in BranchIds : branch[i].status # "none" =>
           branch'[i].status # "none" /\ branch'[i].receiver = branch[i].receiver
  BY WriteKeepsBranches DEF Commit
<1>4. NoCall \in CallRecords
  BY NoCallFits DEF Shape
<1>5. call' \in [Calls -> CallRecords] /\ \A d \in Calls : call'[d] = IF d = c THEN NoCall ELSE call[d]
  BY <1>4 DEF Commit, Done, Step, Inv, TypeOK
<1>6. \A d \in Calls : call'[d].stage \notin Locks
  BY <1>1, <1>5, NoCallFits DEF Inv, Alone, Locks
<1>7. \A d \in Calls : (Shape(call[d]) /\ Known(call[d]) /\ Found(call[d]) /\ Counted(call[d]))'
  <2> SUFFICES ASSUME NEW d \in Calls
               PROVE  (Shape(call[d]) /\ Known(call[d]) /\ Found(call[d]) /\ Counted(call[d]))'
    OBVIOUS
  <2>1. Shape(call'[d])
    BY <1>5, NoCallFits DEF Inv
  <2>2. Known(call[d])'
    <3>1. CASE d = c
      BY <1>5, <3>1, NoCallFits DEF Known, Sending
    <3>2. CASE d # c
      <4>1. call'[d] = call[d] /\ Known(call[d]) /\ call[d].id \in 0..MaxBranches
        BY <1>5, <3>2 DEF Inv, Shape, CallRecords
      <4> QED
        BY <1>3, <4>1 DEF Known, BranchIds
    <3> QED
      BY <3>1, <3>2
  <2> QED
    BY <1>6, <2>1, <2>2 DEF Found, Counted, Locks, Shape
<1>8. TypeOK'
  BY SMTT(30), <1>1, <1>2, <1>3, <1>5 DEF Inv, TypeOK, Rows
<1> QED
  BY <1>1, <1>2, <1>3, <1>6, <1>7, <1>8 DEF Inv, Alone

-----------------------------------------------------------------------------
(* Answers, the team, the balance and the day.                             *)

\* What an answer writes: a live branch of the status that was read.
Answers(c) ==
  LET i == call[c].id
  IN \E next \in {"Discussing", "Rejected", "Accepted"} :
       /\ i \in BranchIds
       /\ branch[i].status = "Pending" => next \in {"Discussing", "Rejected"}
       /\ branch[i].status = "Discussing" => next \in {"Accepted", "Rejected"}
       /\ branch[i].status \in {"Pending", "Discussing"}
       /\ branch' = [branch EXCEPT ![i].status = next]
       /\ \/ UNCHANGED role
          \/ \E r \in Roles : role' = [role EXCEPT ![branch[i].receiver] = r]

LEMMA HandleAnswers ==
  ASSUME Inv, NEW c \in Calls, HandleOliveBranch(c)
  PROVE  Answers(c)
<1>1. call[c].id \in BranchIds
  BY DEF Inv, Shape, HandleOliveBranch
<1> QED
  BY <1>1 DEF HandleOliveBranch, AsRead, Answer, Answers

LEMMA HandleKeepsInv ==
  ASSUME Inv, NEW c \in Calls, HandleOliveBranch(c)
  PROVE  Inv'
<1> DEFINE i == call[c].id
<1>0. PICK next \in {"Discussing", "Rejected", "Accepted"} :
        /\ i \in BranchIds
        /\ branch[i].status \in {"Pending", "Discussing"}
        /\ branch' = [branch EXCEPT ![i].status = next]
        /\ \/ UNCHANGED role
           \/ \E r \in Roles : role' = [role EXCEPT ![branch[i].receiver] = r]
  BY HandleAnswers DEF Answers
<1>1. UNCHANGED <<used, paid, active, today, granted, charges, requests>> /\ call[c].stage = "handling"
  BY DEF HandleOliveBranch, Done, Step, quota
<1>2. NoCall \in CallRecords
  BY NoCallFits DEF Shape
<1>3. call' \in [Calls -> CallRecords] /\ \A d \in Calls : call'[d] = IF d = c THEN NoCall ELSE call[d]
  BY <1>2 DEF HandleOliveBranch, Done, Step, Inv, TypeOK
<1>4. branch \in [BranchIds -> Records] /\ role \in Lists /\ Rows /\ OneLiveBranch
  BY DEF Inv, TypeOK
<1> HIDE DEF i
<1>5. /\ branch' \in [BranchIds -> Records]
      /\ \A j \in BranchIds : /\ branch'[j].receiver = branch[j].receiver
                              /\ branch'[j].sender = branch[j].sender
                              /\ j # i => branch'[j].status = branch[j].status
      /\ branch'[i].status = next
  BY <1>0, <1>4 DEF Records, Statuses
<1>6. \A j \in BranchIds : /\ branch'[j].status # "none" <=> branch[j].status # "none"
                           /\ branch'[j].status \in Live => branch[j].status \in Live
  BY <1>0, <1>5 DEF Live
<1>7. Rows' /\ OneLiveBranch'
  BY <1>4, <1>5, <1>6 DEF Rows, OneLiveBranch
<1>8. role' \in Lists
  BY <1>0, <1>4 DEF Lists
<1>9. TypeOK'
  BY <1>1, <1>3, <1>5, <1>7, <1>8 DEF Inv, TypeOK, Rows
<1>10. \A d \in Calls : (Shape(call[d]) /\ Known(call[d]) /\ Counted(call[d]))'
  <2> SUFFICES ASSUME NEW d \in Calls
               PROVE  (Shape(call[d]) /\ Known(call[d]) /\ Counted(call[d]))'
    OBVIOUS
  <2>1. CASE d = c
    BY <1>3, <2>1, NoCallFits DEF Shape, Known, Counted, Sending
  <2>2. CASE d # c
    <3>1. /\ call'[d] = call[d] /\ Shape(call[d]) /\ Known(call[d]) /\ Counted(call[d])
          /\ call[d].id \in 0..MaxBranches
      BY <1>3, <2>2 DEF Inv, Shape, CallRecords
    <3> QED
      BY <1>1, <1>5, <1>6, <3>1 DEF Shape, Known, Counted, BranchIds
  <2> QED
    BY <2>1, <2>2
\* Whoever holds the project sends a branch to somebody else than the receiver of i.
<1>11. ASSUME NEW d \in Calls, call'[d].stage \in Locks
       PROVE  Found(call[d])'
  <2>1. call'[d] = call[d]
    BY <1>3, <1>11, NoCallFits DEF Locks
  <2>2. LET r == call[d]
        IN r.to \in Users /\ r.to # Creator /\ role[r.to] = None /\ Existing(r.to, r.id) = {}
    BY <1>11, <2>1 DEF Inv, Shape, Found, Locks, Sending
  <2>3. branch[i].receiver # call[d].to
    BY <1>0, <2>2 DEF Existing, Live
  <2>4. role'[call[d].to] = None
    BY <1>0, <1>4, <2>2, <2>3 DEF Lists
  <2>5. Existing(call[d].to, call[d].id)' = {}
    BY <1>5, <2>1, <2>2, <2>3 DEF Existing
  <2> QED
    BY <2>1, <2>2, <2>4, <2>5 DEF Found
<1>12. \A d \in Calls : Found(call[d])'
  BY <1>11 DEF Found
<1>13. Alone'
  BY <1>3, NoCallFits DEF Inv, Alone, Locks
<1>14. \A u \in Users : Account(u)'
  BY <1>1 DEF Inv, Account
<1> QED
  BY <1>1, <1>7, <1>9, <1>10, <1>12, <1>13, <1>14 DEF Inv

\* A user who is not on the team does not join while a branch is sent to him.
LEMMA TeamKeepsInv ==
  ASSUME Inv, NEW u \in Users, NEW x \in Roles \cup {None}, TeamChanges(u, x)
  PROVE  Inv'
<1>1. UNCHANGED <<branch, used, paid, active, today, call, requests, granted, charges>>
  BY DEF TeamChanges, quota
<1>2. role \in Lists /\ role' = [role EXCEPT ![u] = x] /\ role' \in Lists
  BY DEF TeamChanges, Inv, TypeOK, Lists
<1>3. \A c \in Calls : Found(call[c])'
  <2> SUFFICES ASSUME NEW c \in Calls, call[c].stage \in Locks
               PROVE  call[c].to # Creator /\ role'[call[c].to] = None /\ Existing(call[c].to, call[c].id)' = {}
    BY <1>1 DEF Found
  <2>1. /\ call[c].to \in Users /\ call[c].to # Creator /\ role[call[c].to] = None
        /\ Existing(call[c].to, call[c].id) = {}
    BY DEF Inv, Shape, Found, Locks, Sending
  <2>2. call[c].to # u
    BY <2>1 DEF TeamChanges, Locks
  <2> QED
    BY <1>1, <1>2, <2>1, <2>2 DEF Existing, Lists
<1>4. \A c \in Calls : (Shape(call[c]) /\ Known(call[c]) /\ Counted(call[c]))'
  BY <1>1 DEF Inv, Shape, Known, Counted
<1>5. TypeOK' /\ Rows' /\ OneLiveBranch' /\ Alone' /\ \A v \in Users : Account(v)'
  BY <1>1, <1>2 DEF Inv, TypeOK, Rows, OneLiveBranch, Alone, Account
<1> QED
  BY <1>1, <1>3, <1>4, <1>5 DEF Inv

\* Whoever writes the sender's row needs the lock that a charge holds.
LEMMA RowKeepsInv ==
  ASSUME Inv,
         \/ \E u \in Users : AddOliveBranchCountTx(u) \/ ResetDailyFreeBranchQuotaIfNeeded(u)
         \/ NextDay
  PROVE  Inv'
<1>1. UNCHANGED <<role, branch, call, requests, charges>>
  BY DEF AddOliveBranchCountTx, ResetDailyFreeBranchQuotaIfNeeded, NextDay
<1>2. /\ used \in [Users -> 0..DailyFreeQuota] /\ paid \in [Users -> Nat]
      /\ active \in [Users -> Nat] /\ granted \in [Users -> Nat] /\ today \in Nat
      /\ charges.free \in [Users -> [Days -> Nat]] /\ charges.paid \in [Users -> Nat]
      /\ 0 \in 0..DailyFreeQuota
  BY DEF Inv, TypeOK
<1>3. today' \in Days /\ today' \in Nat /\ today <= today'
  <2>1. today \in Days
    BY DEF Inv
  <2>2. today' = today \/ (today < MaxDay /\ today' = today + 1)
    BY DEF AddOliveBranchCountTx, ResetDailyFreeBranchQuotaIfNeeded, NextDay
  <2> QED
    BY <1>2, <2>1, <2>2 DEF Days
<1>4. TypeOK'
  <2>1. /\ used' \in [Users -> 0..DailyFreeQuota] /\ paid' \in [Users -> Nat]
        /\ active' \in [Users -> Nat] /\ granted' \in [Users -> Nat]
    <3>1. CASE NextDay
      BY <1>2, <3>1 DEF NextDay, quota
    <3>2. ASSUME NEW u \in Users, AddOliveBranchCountTx(u)
          PROVE  /\ UNCHANGED <<used, active>>
                 /\ paid' \in [Users -> Nat] /\ granted' \in [Users -> Nat]
      BY <1>2, <3>2 DEF AddOliveBranchCountTx
    <3>3. ASSUME NEW u \in Users, ResetDailyFreeBranchQuotaIfNeeded(u)
          PROVE  /\ UNCHANGED <<paid, granted>>
                 /\ used' \in [Users -> 0..DailyFreeQuota] /\ active' \in [Users -> Nat]
      BY <1>2, <3>3 DEF ResetDailyFreeBranchQuotaIfNeeded
    <3> QED
      BY <1>2, <3>1, <3>2, <3>3
  <2> QED
    BY <1>1, <1>3, <2>1 DEF Inv, TypeOK
<1>5. \A c \in Calls : Counted(call[c])'
  <2> SUFFICES ASSUME NEW c \in Calls, call[c].stage = "charging"
               PROVE  Counted(call[c])'
    BY <1>1 DEF Counted
  <2> DEFINE v == call[c].by
  <2>1. Counted(call[c]) /\ v \in Users /\ call[c].day \in Days
    BY DEF Inv, Shape, Sending, Counted
  <2>2. active'[v] = active[v] /\ paid'[v] = paid[v] /\ used'[v] = used[v]
    BY <1>2, <2>1 DEF AddOliveBranchCountTx, ResetDailyFreeBranchQuotaIfNeeded, NextDay, RowFree, quota
  <2> QED
    BY SMTT(30), <1>1, <1>2, <1>3, <2>1, <2>2 DEF Counted, Days
<1>6. \A v \in Users : Account(v)'
  <2>1. CASE NextDay
    BY <1>2, <2>1 DEF NextDay, quota, Inv, Account
  <2>2. ASSUME NEW u \in Users, AddOliveBranchCountTx(u) PROVE \A v \in Users : Account(v)'
    BY <1>2, <2>2 DEF AddOliveBranchCountTx, Inv, Account
  <2>3. ASSUME NEW u \in Users, ResetDailyFreeBranchQuotaIfNeeded(u), NEW v \in Users
        PROVE  Account(v)'
    <3>1. /\ \A d \in Days : d \in Nat
          /\ Account(v) /\ UNCHANGED <<paid, granted, today, charges>>
      BY <2>3 DEF ResetDailyFreeBranchQuotaIfNeeded, Inv, Days
    <3>2. CASE v = u
      <4>1. active'[v] = today /\ active[v] < today /\ used'[v] = 0
        BY <1>2, <2>3, <3>2 DEF ResetDailyFreeBranchQuotaIfNeeded, Stale
      <4> QED
        BY <1>2, <3>1, <4>1 DEF Account
    <3>3. CASE v # u
      BY <1>2, <2>3, <3>1, <3>3 DEF ResetDailyFreeBranchQuotaIfNeeded, Account
    <3> QED
      BY <3>2, <3>3
  <2> QED
    BY <2>1, <2>2, <2>3
<1>7. Rows' /\ OneLiveBranch' /\ Alone' /\ \A c \in Calls : (Shape(call[c]) /\ Known(call[c]) /\ Found(call[c]))'
  BY <1>1 DEF Inv, Rows, OneLiveBranch, Alone, Shape, Known, Found, Existing
<1> QED
  BY <1>3, <1>4, <1>5, <1>6, <1>7 DEF Inv

LEMMA InvHolds == Spec => []Inv
<1>1. Init => Inv
  <2> SUFFICES ASSUME Init PROVE Inv
    OBVIOUS
  <2> USE DEF Init
  <2>1. 0 \in 0..DailyFreeQuota /\ 0 \in Days /\ 0 \in Nat
    BY DEF Days
  <2>2. NoBranch \in Records /\ NoBranch.status = "none"
    BY DEF NoBranch, Records, Statuses
  <2>3. NoCall \in CallRecords
    BY NoCallFits DEF Shape
  <2>4. charges \in [free : [Users -> [Days -> Nat]], paid : [Users -> Nat]]
    OBVIOUS
  <2>5. TypeOK
    BY <2>1, <2>2, <2>3, <2>4 DEF TypeOK
  <2>6. Rows /\ OneLiveBranch
    BY <2>2 DEF Rows, OneLiveBranch, Live
  <2>7. \A c \in Calls : Shape(call[c]) /\ Known(call[c]) /\ Found(call[c]) /\ Counted(call[c])
    BY NoCallFits DEF Found, Counted, Locks
  <2>8. Alone
    BY NoCallFits DEF Alone, Locks
  <2>9. \A u \in Users : Account(u)
    BY <2>1 DEF Account, Days
  <2> QED
    BY <2>1, <2>5, <2>6, <2>7, <2>8, <2>9 DEF Inv
<1>2. Inv /\ [Next]_vars => Inv'
  <2> SUFFICES ASSUME Inv, [Next]_vars PROVE Inv'
    OBVIOUS
  <2>1. CASE UNCHANGED vars
    BY <2>1 DEF vars, quota, Inv, TypeOK, Rows, OneLiveBranch, Shape, Known, Found, Existing,
                Counted, Alone, Account
  <2>2. CASE Next
    <3>1. ASSUME NEW c \in Calls, Rollback(c) \/ HandleFails(c) PROVE Inv'
      BY <3>1, DoneKeepsInv DEF Rollback, HandleFails
    <3> QED
      BY <2>2, <3>1, SendKeepsInv, ResendKeepsInv, BeginHandleKeepsInv, LockKeepsInv, CountKeepsInv,
         CommitKeepsInv, HandleKeepsInv, TeamKeepsInv, RowKeepsInv DEF Next
  <2> QED
    BY <2>1, <2>2
<1> QED
  BY <1>1, <1>2, PTL DEF Spec

-----------------------------------------------------------------------------
(* Theorems                                                                *)

\* Branches, rows of users and requests keep their types; nobody sends a
\* branch to himself.
THEOREM TypeCorrect == Spec => []TypeOK
<1>1. Inv => TypeOK
  BY DEF Inv
<1> QED
  BY <1>1, InvHolds, PTL

\* However many members send or send again at the same time, a receiver has
\* one live branch of the project.
THEOREM OneBranchLives == Spec => []OneLiveBranch
<1>1. Inv => OneLiveBranch
  BY DEF Inv
<1> QED
  BY <1>1, InvHolds, PTL

\* What was bought is there or was charged, and no day has more free branches
\* than its quota, across midnight too.
THEOREM BalancesAreKept == Spec => []BalanceIsKept
<1>1. Inv => BalanceIsKept
  BY SMTT(30) DEF Inv, Account, BalanceIsKept
<1> QED
  BY <1>1, InvHolds, PTL

\* What a step may do to the status of a branch.
Converses(i) ==
  LET next == branch'[i].status
  IN next # branch[i].status =>
       CASE branch[i].status = "none" -> next = "Pending"
         [] branch[i].status = "Pending" -> next \in {"Discussing", "Rejected"}
         [] branch[i].status = "Discussing" -> next \in {"Accepted", "Rejected"}
         [] OTHER -> next = "Pending" /\ role[branch[i].receiver] = None

\* A branch is answered once, and opened again only for somebody who is not on
\* the team.
THEOREM AnswersAreGivenOnce == Spec => AnsweredOnce
<1>1. Inv /\ [Next]_vars => [\A i \in BranchIds : Converses(i)]_vars
  <2> SUFFICES ASSUME Inv, Next, NEW i \in BranchIds
               PROVE  Converses(i)
    BY DEF vars
  <2>0. branch \in [BranchIds -> Records]
    BY DEF Inv, TypeOK
  <2>1. ASSUME NEW c \in Calls, Commit(c) PROVE Converses(i)
    <3> DEFINE r == call[c]
    <3>1. /\ r.id # 0 => branch[r.id].status # "none" /\ branch[r.id].receiver = r.to
          /\ role[r.to] = None /\ Existing(r.to, r.id) = {} /\ r.id \in 0..MaxBranches
      BY <2>1 DEF Commit, Inv, Shape, Known, Found, Sending, Locks, CallRecords
    <3>2. CASE r.id = 0
      BY <2>0, <2>1, <3>2 DEF Commit, CreateTx, NoBranch, Converses
    <3>3. CASE r.id # 0
      <4>1. branch' = [branch EXCEPT ![r.id].status = "Pending"] /\ r.id \in BranchIds
        BY <2>1, <3>1, <3>3 DEF Commit, Reactivate, BranchIds
      <4>2. branch[r.id].status \notin {"none", "Pending", "Discussing"}
        BY <3>1, <3>3, <4>1 DEF Existing, Live
      <4> QED
        BY <2>0, <3>1, <3>3, <4>1, <4>2 DEF Converses, Records
    <3> QED
      BY <3>2, <3>3
  <2>2. ASSUME NEW c \in Calls, HandleOliveBranch(c) PROVE Converses(i)
    <3>1. Answers(c)
      BY <2>2, HandleAnswers
    <3> QED
      BY <2>0, <3>1 DEF Answers, Converses, Records
  <2>3. CASE UNCHANGED branch
    BY <2>3 DEF Converses
  <2> QED
    BY <2>1, <2>2, <2>3 DEF Next, SendOliveBranch, ResendOliveBranch, BeginHandle, Request,
       lockOliveBranchSendState, GetByIDForUpdateTx, Rollback, HandleFails, TeamChanges,
       AddOliveBranchCountTx, ResetDailyFreeBranchQuotaIfNeeded, NextDay
<1> QED
  BY <1>1, InvHolds, PTL DEF Spec, AnsweredOnce, Converses

\* A charge that is counted under a lock and written later is a charge of the
\* abstract quota, at the instant of the write and for the day of the count.
LEMMA CommitCharges ==
  ASSUME Inv, NEW c \in Calls, Commit(c)
  PROVE  Quota!Charge(call[c].by, call[c].day) /\ call[c].by \in Users /\ call[c].day \in 0..today
<1> DEFINE u == call[c].by
           day == call[c].day
           n == call[c].used
<1>1. /\ u \in Users /\ day \in Days /\ active[u] <= day /\ day <= today
      /\ call[c].paid = paid[u]
      /\ n = Quota!UsedOn(u, day)
  BY DEF Commit, Inv, Shape, Sending, Counted, Quota!UsedOn
<1>2. /\ used \in [Users -> 0..DailyFreeQuota] /\ paid \in [Users -> Nat] /\ today \in Nat
      /\ used[u] \in Nat
  BY <1>1 DEF Inv, TypeOK
<1>3. n \in Nat
  BY <1>1, <1>2 DEF Quota!UsedOn
<1>4. UNCHANGED today /\ active' = [active EXCEPT ![u] = day]
  BY DEF Commit, UpdateQuotaTx
<1>5. \/ /\ n < DailyFreeQuota
         /\ used' = [used EXCEPT ![u] = n + 1]
         /\ paid' = [paid EXCEPT ![u] = paid[u]]
      \/ /\ n >= DailyFreeQuota /\ paid[u] > 0
         /\ used' = [used EXCEPT ![u] = n]
         /\ paid' = [paid EXCEPT ![u] = paid[u] - 1]
  BY SMTT(30), <1>1, <1>3 DEF Commit, UpdateQuotaTx, FreeLeft
<1> HIDE DEF u, day, n
<1>6. [paid EXCEPT ![u] = paid[u]] = paid
  BY <1>2
<1> QED
  BY <1>1, <1>2, <1>4, <1>5, <1>6 DEF Quota!Charge, Days, u, day, n

\* The quota with its locks and two-step charges implements the quota whose
\* charges happen at once.
THEOREM ImplementsQuota == Spec => QuotaImplemented
<1>1. Init => Quota!Init
  BY SMTT(30) DEF Init, Quota!Init
<1>2. Inv /\ [Next]_vars => [Quota!Next]_(Quota!vars)
  <2> SUFFICES ASSUME Inv, [Next]_vars, ~UNCHANGED <<used, paid, active, today>>
               PROVE  Quota!Next
    BY DEF Quota!vars
  <2>1. ASSUME NEW c \in Calls, Commit(c) PROVE Quota!Next
    BY <2>1, CommitCharges DEF Quota!Next
  <2>2. ASSUME NEW u \in Users, AddOliveBranchCountTx(u) PROVE Quota!Next
    <3>1. paid' = [paid EXCEPT ![u] = @ + 1] /\ paid \in [Users -> Nat]
          /\ UNCHANGED <<used, active, today>>
      BY <2>2 DEF AddOliveBranchCountTx, Inv, TypeOK
    <3>2. paid'[u] = paid[u] + 1 /\ paid[u] \in Nat
      BY <3>1
    <3>3. Quota!Buy(u)
      BY <3>1, <3>2 DEF Quota!Buy
    <3> QED
      BY <3>3 DEF Quota!Next
  <2>3. ASSUME NEW u \in Users, ResetDailyFreeBranchQuotaIfNeeded(u) PROVE Quota!Next
    <3>1. Quota!Visit(u)
      BY <2>3 DEF ResetDailyFreeBranchQuotaIfNeeded, Stale, Quota!Visit
    <3> QED
      BY <3>1 DEF Quota!Next
  <2>4. CASE NextDay
    BY <2>4 DEF NextDay, quota, Quota!Next, Quota!NextDay
  <2>5. CASE UNCHANGED vars
    BY <2>5 DEF vars, quota
  <2> QED
    BY <2>1, <2>2, <2>3, <2>4, <2>5 DEF Next, SendOliveBranch, ResendOliveBranch, BeginHandle,
       Request, lockOliveBranchSendState, GetByIDForUpdateTx, Rollback, HandleOliveBranch,
       HandleFails, TeamChanges, quota
<1> QED
  BY <1>1, <1>2, InvHolds, PTL DEF Spec, QuotaImplemented, Quota!Spec
=============================================================================
