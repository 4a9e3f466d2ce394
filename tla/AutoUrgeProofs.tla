--------------------------- MODULE AutoUrgeProofs ---------------------------
(***************************************************************************)
(* Theorems of AutoUrge, for any sets of users and workers and any number  *)
(* of cycles, arrivals and mishaps: type correctness, and that users are   *)
(* not urged more often, later or with another record than they should be. *)
(***************************************************************************)
EXTENDS AutoUrge, TLAPS, FiniteSetTheorems

LEMMA IdleFacts ==
  /\ Idle \in WorkerStates
  /\ Idle.pc = "idle" /\ Idle.result = None /\ Idle.user = None
  BY UrgeConstants DEF Idle, WorkerStates, Phases, Cycles, Results

LEMMA NewRowFacts == NewRow \in Rows /\ NewRow.key = 0 /\ NewRow.state = "absent"
  BY UrgeConstants DEF NewRow, Rows, States, Cycles

\* A worker past its claim works with the key of a cycle.
Working(w) == worker[w].pc \notin {"idle", "listed"}

WorkerKnowsKey ==
  \A w \in Workers :
    /\ worker[w].pc # "idle" => worker[w].user \in Users
    /\ Working(w) => worker[w].key \in Cycles /\ worker[w].key = worker[w].cycle
    /\ worker[w].pc = "finish" <=> worker[w].result # None

TInv == TypeOK /\ WorkerKnowsKey

LEMMA TypeInit == Init => TInv
  <1> SUFFICES ASSUME Init PROVE TInv
    OBVIOUS
  <1>1. TypeOK
    BY IdleFacts, NewRowFacts, UrgeConstants
    DEF Init, TypeOK, Work, Records, Cycles
  <1>2. WorkerKnowsKey
    BY IdleFacts DEF Init, WorkerKnowsKey, Working
  <1> QED
    BY <1>1, <1>2 DEF TInv

\* A step that changes one worker's record only, to a good one.
GoodWorker(r) ==
  /\ r \in WorkerStates
  /\ r.pc # "idle" => r.user \in Users
  /\ r.pc \notin {"idle", "listed"} => r.key \in Cycles /\ r.key = r.cycle
  /\ r.pc = "finish" <=> r.result # None

LEMMA WorkersGood ==
  TInv <=>
    /\ TypeOK
    /\ \A w \in Workers : GoodWorker(worker[w])
  BY DEF TInv, TypeOK, WorkerKnowsKey, Working, GoodWorker

LEMMA OneWorkerMoves ==
  ASSUME TInv, NEW w \in Workers, NEW r, GoodWorker(r), worker' = [worker EXCEPT ![w] = r]
  PROVE  worker' \in [Workers -> WorkerStates] /\ \A v \in Workers : GoodWorker(worker'[v])
  BY WorkersGood DEF TypeOK, GoodWorker

\* The variables other than the workers have their types.
OthersTyped ==
  /\ row \in [Users -> Rows]
  /\ work \in [Users -> Work]
  /\ center \in [Users -> [Cycles -> Records]]
  /\ late \subseteq Users \X Cycles
  /\ handled \in [Users -> Nat]
  /\ unseen \in [Users -> BOOLEAN]
  /\ arrivals \in Nat
  /\ mishaps \in Nat
  /\ \A u \in Users : row[u].key \in {0, row[u].cycle}

LEMMA IdleGood == GoodWorker(Idle)
  BY IdleFacts DEF GoodWorker

LEMMA WorkerTypeStep ==
  ASSUME TInv, NEW w \in Workers, NEW r, GoodWorker(r), worker' = [worker EXCEPT ![w] = r],
         OthersTyped'
  PROVE  TInv'
  BY OneWorkerMoves DEF OthersTyped, TInv, TypeOK, WorkerKnowsKey, Working, GoodWorker

LEMMA OthersTypeStep ==
  ASSUME TInv, UNCHANGED worker, OthersTyped'
  PROVE  TInv'
  BY DEF OthersTyped, TInv, TypeOK, WorkerKnowsKey, Working

LEMMA GotoGood ==
  ASSUME TInv, NEW w \in Workers, Working(w), worker[w].pc # "finish",
         NEW phase \in {"snapshot", "mark", "send", "waiting"}
  PROVE  GoodWorker([worker[w] EXCEPT !.pc = phase])
  <1>1. GoodWorker(worker[w]) /\ worker[w] \in WorkerStates
    BY WorkersGood DEF GoodWorker
  <1> QED
    BY <1>1 DEF GoodWorker, WorkerStates, Phases, Working

LEMMA ConcludeGood ==
  ASSUME TInv, NEW w \in Workers, Working(w), NEW result \in Results
  PROVE  GoodWorker([worker[w] EXCEPT !.pc = "finish", !.result = result])
  <1>1. GoodWorker(worker[w]) /\ worker[w] \in WorkerStates
    BY WorkersGood DEF GoodWorker
  <1>2. result # None
    BY UrgeConstants
  <1> QED
    BY <1>1, <1>2 DEF GoodWorker, WorkerStates, Phases, Working

SameCycle(r, s) == s \in Rows /\ s.key = r.key /\ s.cycle = r.cycle

LEMMA RowEdits ==
  ASSUME NEW r \in Rows, NEW b \in BOOLEAN, NEW result \in Results
  PROVE  /\ SameCycle(r, [r EXCEPT !.closed = b])
         /\ SameCycle(r, [r EXCEPT !.due = b])
         /\ SameCycle(r, [r EXCEPT !.stale = b])
         /\ SameCycle(r, [r EXCEPT !.state = result, !.due = b, !.stale = FALSE])
  BY DEF SameCycle, Rows, States, Results

\* A step that changes one row only, to one of the same cycle and key.
LEMMA OneRowMoves ==
  ASSUME OthersTyped, NEW u \in Users, NEW r, SameCycle(row[u], r),
         row' = [row EXCEPT ![u] = r]
  PROVE  row' \in [Users -> Rows] /\ \A v \in Users : row'[v].key \in {0, row'[v].cycle}
  BY DEF OthersTyped, SameCycle

LEMMA TypeStep == TInv /\ [Next]_vars => TInv'
  <1> SUFFICES ASSUME TInv, [Next]_vars PROVE TInv'
    OBVIOUS
  <1>0. OthersTyped
    BY DEF TInv, TypeOK, OthersTyped
  <1> USE DEF history
  <1>1. ASSUME NEW w \in Workers, NEW u \in Users, List(w, u) PROVE TInv'
    <2>1. Listed(u) \in WorkerStates /\ Listed(u).pc = "listed" /\ Listed(u).user = u
            /\ Listed(u).result = None
      BY UrgeConstants DEF Listed, WorkerStates, Phases, Cycles, Results
    <2>2. GoodWorker(Listed(u))
      BY <2>1 DEF GoodWorker
    <2> QED
      BY <1>0, <1>1, <2>2, WorkerTypeStep DEF List, OthersTyped
  <1>2. ASSUME NEW w \in Workers, Claim(w) PROVE TInv'
    <2> DEFINE u == worker[w].user
               r == row[u]
               cycle == IF NewCycle(r) THEN r.cycle + 1 ELSE r.cycle
               key == KeyOf(r, cycle)
               claimed == [state |-> "claimed", cycle |-> cycle, key |-> key, token |-> w,
                           closed |-> r.closed /\ ~NewCycle(r), due |-> TRUE, stale |-> FALSE]
               next == [worker[w] EXCEPT !.pc = IF Recovering(r) THEN "reconcile" ELSE "recheck",
                                         !.cycle = cycle, !.key = key, !.only = Recovering(r)]
    <2>1. u \in Users /\ GoodWorker(worker[w]) /\ r \in Rows /\ r.key \in {0, r.cycle}
      BY <1>2, WorkersGood DEF Claim, GoodWorker, TypeOK
    <2>2. cycle \in Cycles /\ key = cycle
      BY <1>2, <2>1 DEF Claim, KeyOf, Rows
    <2>3. claimed \in Rows
      BY SMTT(30), <2>1, <2>2 DEF Rows, States, NewCycle, Recovering
    <2>4. next \in WorkerStates
      BY ZenonT(30), <2>1, <2>2 DEF GoodWorker, WorkerStates, Phases, Recovering
    <2>5. GoodWorker(next)
      BY ZenonT(30), <1>2, <2>1, <2>2, <2>4 DEF GoodWorker, WorkerStates, Claim
    <2>6. worker' = [worker EXCEPT ![w] = next] /\ row' = [row EXCEPT ![u] = claimed]
      BY ZenonT(30), <1>2 DEF Claim
    <2>7. row' \in [Users -> Rows] /\ \A v \in Users : row'[v].key \in {0, row'[v].cycle}
      BY SMTT(30), <1>0, <2>1, <2>2, <2>3, <2>6 DEF OthersTyped
    <2> HIDE DEF next, claimed
    <2>8. OthersTyped'
      BY <1>0, <1>2, <2>7 DEF Claim, OthersTyped
    <2> QED
      BY <2>5, <2>6, <2>8, WorkerTypeStep
  <1>3. ASSUME NEW w \in Workers, ClaimNothing(w) PROVE TInv'
    BY <1>0, <1>3, IdleGood, WorkerTypeStep DEF ClaimNothing, OthersTyped
  <1>4. ASSUME NEW w \in Workers, NEW phase \in {"snapshot", "mark", "send", "waiting"},
               Goto(w, phase), Working(w), worker[w].pc # "finish", OthersTyped'
        PROVE  TInv'
    <2>1. worker' = [worker EXCEPT ![w] = [worker[w] EXCEPT !.pc = phase]]
      BY <1>4, WorkersGood DEF Goto, TypeOK
    <2> QED
      BY <1>4, <2>1, GotoGood, WorkerTypeStep
  <1>5. ASSUME NEW w \in Workers, NEW result \in Results, Conclude(w, result), Working(w),
               OthersTyped'
        PROVE  TInv'
    <2>1. worker' = [worker EXCEPT ![w] = [worker[w] EXCEPT !.pc = "finish", !.result = result]]
      BY <1>5, WorkersGood DEF Conclude, TypeOK
    <2> QED
      BY <1>5, <2>1, ConcludeGood, WorkerTypeStep
  <1>6. ASSUME NEW w \in Workers, Recheck(w) \/ Snapshot(w) \/ MarkDispatched(w) PROVE TInv'
    <2>1. Working(w) /\ worker[w].pc # "finish" /\ OthersTyped'
      BY <1>0, <1>6 DEF Recheck, Snapshot, MarkDispatched, Working, OthersTyped
    <2>2. \/ \E phase \in {"snapshot", "mark", "send"} : Goto(w, phase)
          \/ \E result \in Results : Conclude(w, result)
      BY <1>6 DEF Recheck, Snapshot, MarkDispatched, Results
    <2> QED
      BY <1>4, <1>5, <2>1, <2>2
  <1>7. ASSUME NEW u \in Users, NEW k \in Cycles, Take(u, k)
        PROVE  center' \in [Users -> [Cycles -> Records]]
    BY <1>0, <1>7 DEF Take, OthersTyped, Records
  <1>8. ASSUME NEW w \in Workers, Send(w) PROVE TInv'
    <2>1. Working(w) /\ worker[w].user \in Users /\ worker[w].key \in Cycles
      BY <1>8, WorkersGood DEF Send, Working, GoodWorker
    <2>2. OthersTyped'
      BY <1>0, <1>7, <1>8, <2>1 DEF Send, OthersTyped
    <2> QED
      BY <1>4, <1>8, <2>1, <2>2 DEF Send
  <1>9. ASSUME NEW w \in Workers, StepFails(w) \/ SendTimesOut(w) \/ AnswerLost(w) PROVE TInv'
    <2>1. Working(w) /\ worker[w].user \in Users /\ worker[w].key \in Cycles
      BY <1>9, WorkersGood DEF StepFails, SendTimesOut, AnswerLost, Working, GoodWorker
    <2>2. OthersTyped'
      BY <1>0, <1>9, <2>1 DEF StepFails, SendTimesOut, AnswerLost, Mishap, OthersTyped
    <2> QED
      BY <1>5, <1>9, <2>1, <2>2 DEF StepFails, SendTimesOut, AnswerLost, Results
  <1>10. ASSUME NEW w \in Workers, Answer(w) \/ Reconcile(w) PROVE TInv'
    <2>1. Working(w) /\ OthersTyped'
      BY <1>0, <1>10 DEF Answer, Reconcile, Working, OthersTyped
    <2>2. \E result \in Results : Conclude(w, result)
      BY <1>10 DEF Answer, Reconcile, classifyAutoUrgeResult, Results
    <2> QED
      BY <1>5, <2>1, <2>2
  <1>11. ASSUME NEW w \in Workers, Finish(w) PROVE TInv'
    <2>1. worker[w].user \in Users /\ worker[w].result \in Results
      BY <1>11, WorkersGood DEF Finish, GoodWorker, WorkerStates
    <2>2. row' \in [Users -> Rows] /\ \A v \in Users : row'[v].key \in {0, row'[v].cycle}
      <3> DEFINE u == worker[w].user
                 r == [row[u] EXCEPT !.state = worker[w].result,
                                     !.due = (worker[w].result = "sent"), !.stale = FALSE]
      <3>1. SameCycle(row[u], r)
        BY <1>0, <2>1, RowEdits DEF OthersTyped
      <3>2. row' = row \/ row' = [row EXCEPT ![u] = r]
        BY <1>0, <1>11 DEF Finish, OthersTyped
      <3> HIDE DEF r
      <3> QED
        BY <1>0, <2>1, <3>1, <3>2, OneRowMoves DEF OthersTyped
    <2>3. OthersTyped'
      BY <1>0, <1>11, <2>2 DEF Finish, OthersTyped
    <2> QED
      BY <1>11, <2>3, IdleGood, WorkerTypeStep DEF Finish
  <1>12. ASSUME NEW w \in Workers, Crash(w) PROVE TInv'
    <2>1. worker[w].pc = "send" => worker[w].user \in Users /\ worker[w].key \in Cycles
      BY WorkersGood DEF GoodWorker
    <2>2. OthersTyped'
      BY <1>0, <1>12, <2>1 DEF Crash, Mishap, OthersTyped
    <2> QED
      BY <1>12, <2>2, IdleGood, WorkerTypeStep DEF Crash
  <1>13. ASSUME NEW u \in Users, TimePasses(u) PROVE TInv'
    <2>1. row' \in [Users -> Rows] /\ \A v \in Users : row'[v].key \in {0, row'[v].cycle}
      <3>1. /\ SameCycle(row[u], [row[u] EXCEPT !.due = TRUE])
            /\ SameCycle(row[u], [row[u] EXCEPT !.stale = TRUE])
        BY <1>0, RowEdits DEF OthersTyped, Results
      <3>2. \/ row' = [row EXCEPT ![u] = [row[u] EXCEPT !.due = TRUE]]
            \/ row' = [row EXCEPT ![u] = [row[u] EXCEPT !.stale = TRUE]]
        BY <1>0, <1>13 DEF TimePasses, NextDay, GrowsStale, OthersTyped
      <3> QED
        BY <1>0, <3>1, <3>2, OneRowMoves
    <2> QED
      BY <1>0, <1>13, <2>1, OthersTypeStep DEF TimePasses, NextDay, GrowsStale, OthersTyped
  <1>14. ASSUME NEW u \in Users, Business(u) PROVE TInv'
    <2>1. ASSUME ObserveClearanceTx(u)
          PROVE  /\ row' \in [Users -> Rows] /\ \A v \in Users : row'[v].key \in {0, row'[v].cycle}
                 /\ unseen' \in [Users -> BOOLEAN]
      <3> DEFINE r == [row[u] EXCEPT !.closed = @ \/ row[u].state # "absent"]
      <3>1. SameCycle(row[u], r)
        <4>1. (row[u].closed \/ row[u].state # "absent") \in BOOLEAN /\ row[u] \in Rows
          BY <1>0 DEF OthersTyped
        <4> QED
          BY <4>1, RowEdits DEF Results
      <3>2. row' = [row EXCEPT ![u] = r]
        BY <1>0, <2>1 DEF ObserveClearanceTx, OthersTyped
      <3>3. unseen' \in [Users -> BOOLEAN]
        BY <1>0, <2>1 DEF ObserveClearanceTx, OthersTyped
      <3> HIDE DEF r
      <3> QED
        BY <1>0, <3>1, <3>2, <3>3, OneRowMoves
    <2>2. CASE WorkArrives(u) \/ WorkTouched(u)
      <3>1. ASSUME NEW more \in Work, work' = [work EXCEPT ![u] = more] PROVE work' \in [Users -> Work]
        BY <1>0, <3>1 DEF OthersTyped
      <3>2. (row' = row /\ unseen' = unseen) \/ ObserveClearanceTx(u)
        BY <2>2 DEF WorkArrives, WorkTouched
      <3> QED
        BY <1>0, <2>1, <2>2, <3>1, <3>2, OthersTypeStep
        DEF WorkArrives, WorkTouched, OthersTyped, Work
    <2>3. CASE WorkHandled(u)
      BY <1>0, <2>1, <2>3, OthersTypeStep DEF WorkHandled, OthersTyped, Work
    <2>4. CASE CompleteRecruit(u) \/ WorkShifts(u)
      <3>0. (row[u].state # "absent" /\ ~row[u].closed) \in BOOLEAN
        OBVIOUS
      <3>1. unseen' \in [Users -> BOOLEAN]
        BY <1>0, <2>4, <3>0 DEF CompleteRecruit, WorkShifts, OthersTyped
      <3>2. work' \in [Users -> Work] /\ handled' \in [Users -> Nat]
        BY SMTT(30), <1>0, <2>4 DEF CompleteRecruit, WorkShifts, OthersTyped, Work
      <3> QED
        BY <1>0, <2>4, <3>1, <3>2, OthersTypeStep DEF CompleteRecruit, WorkShifts, OthersTyped
    <2> QED
      BY <1>14, <2>2, <2>3, <2>4 DEF Business
  <1>15. ASSUME NEW u \in Users, NEW k \in Cycles, CenterStep(u, k) PROVE TInv'
    <2>1. CASE LateArrival(u, k)
      BY <1>0, <1>7, <2>1, OthersTypeStep DEF LateArrival, OthersTyped
    <2>2. CASE CenterSends(u, k)
      BY <1>0, <2>2, OthersTypeStep DEF CenterSends, OthersTyped, Records
    <2> QED
      BY <1>15, <2>1, <2>2 DEF CenterStep
  <1>16. CASE UNCHANGED vars
    BY <1>0, <1>16, OthersTypeStep DEF vars, OthersTyped
  <1> QED
    BY <1>1, <1>2, <1>3, <1>6, <1>8, <1>9, <1>10, <1>11, <1>12, <1>13, <1>14, <1>15, <1>16
    DEF Next, WorkerStep, WorkerMishap, ClaimStep, DispatchStep, ResultStep

\* Every variable keeps its type, and the request key in a row is the one of its cycle: a
\* cycle never goes on under another key, and a new one never under an old key.
THEOREM TypeCorrect == Spec => []TypeOK
<1>1. Spec => []TInv
  BY TypeInit, TypeStep, PTL DEF Spec
<1>2. TInv => TypeOK
  BY DEF TInv
<1> QED
  BY <1>1, <1>2, PTL

LEMMA TypesHold == Spec => []TInv
  BY TypeInit, TypeStep, PTL DEF Spec

(***************************************************************************)
(* "sent" is true.  A record that is "sent" stays so; a worker concludes   *)
(* "sent" only from such a record, and writes it only into the row of its  *)
(* own cycle.                                                              *)
(***************************************************************************)
LEMMA SentStays ==
  ASSUME TInv, [Next]_vars, NEW u \in Users, NEW k \in Cycles, center[u][k] = "sent"
  PROVE  center'[u][k] = "sent"
  <1>1. center \in [Users -> [Cycles -> Records]]
    BY DEF TInv, TypeOK
  <1>2. ASSUME NEW v \in Users, NEW j \in Cycles, Take(v, j) PROVE center'[u][k] = "sent"
    BY <1>1, <1>2 DEF Take
  <1>3. ASSUME NEW w \in Workers, Send(w) PROVE center'[u][k] = "sent"
    <2>1. worker[w].user \in Users /\ worker[w].key \in Cycles
      BY <1>3, WorkersGood DEF Send, GoodWorker
    <2> QED
      BY <1>2, <1>3, <2>1 DEF Send
  <1>4. ASSUME NEW v \in Users, NEW j \in Cycles, CenterStep(v, j) PROVE center'[u][k] = "sent"
    <2>1. CASE LateArrival(v, j)
      BY <1>2, <2>1 DEF LateArrival
    <2>2. CASE CenterSends(v, j)
      BY <1>1, <2>2 DEF CenterSends
    <2> QED
      BY <1>4, <2>1, <2>2 DEF CenterStep
  <1>5. ASSUME NEW w \in Workers, WorkerStep(w), ~Send(w) PROVE UNCHANGED center
    BY <1>5 DEF WorkerStep, ClaimStep, DispatchStep, ResultStep, Claim, ClaimNothing, Recheck,
      Snapshot, MarkDispatched, Answer, Reconcile, Finish
  <1>6. ASSUME NEW w \in Workers, WorkerMishap(w) PROVE UNCHANGED center
    BY <1>6 DEF WorkerMishap, StepFails, SendTimesOut, AnswerLost, Crash
  <1>7. ASSUME NEW v \in Users, TimePasses(v) \/ Business(v) PROVE UNCHANGED center
    BY <1>7 DEF TimePasses, NextDay, GrowsStale, Business, WorkArrives, WorkHandled, WorkTouched,
      CompleteRecruit, WorkShifts
  <1>8. ASSUME NEW w \in Workers, NEW v \in Users, List(w, v) PROVE UNCHANGED center
    BY <1>8 DEF List
  <1>9. CASE UNCHANGED vars
    BY <1>9 DEF vars
  <1> QED
    BY <1>3, <1>4, <1>5, <1>6, <1>7, <1>8, <1>9 DEF Next

\* A claim writes the phase, cycle, key and mode of its own worker, nothing else.
LEMMA ClaimWrites ==
  ASSUME worker \in [Workers -> WorkerStates], NEW v \in Workers, Claim(v)
  PROVE  worker'[v].user = worker[v].user /\ worker'[v].result = worker[v].result
  <1> DEFINE r == row[worker[v].user]
             pc == IF Recovering(r) THEN "reconcile" ELSE "recheck"
             cycle == IF NewCycle(r) THEN r.cycle + 1 ELSE r.cycle
             key == KeyOf(r, cycle)
             only == Recovering(r)
  <1>1. worker' = [worker EXCEPT ![v].pc = pc, ![v].cycle = cycle, ![v].key = key, ![v].only = only]
    BY DEF Claim
  <1> HIDE DEF pc, cycle, key, only
  <1>2. worker'[v].user = worker[v].user
    BY <1>1 DEF WorkerStates
  <1>3. worker'[v].result = worker[v].result
    BY <1>1 DEF WorkerStates
  <1> QED
    BY <1>2, <1>3

\* A worker gets the result "sent" only by an answer or a lookup that found it.
LEMMA SentIsLearnt ==
  ASSUME TInv, [Next]_vars, NEW w \in Workers, worker'[w].result = "sent"
  PROVE  /\ worker'[w].user = worker[w].user /\ worker'[w].key = worker[w].key
         /\ \/ worker[w].result = "sent"
            \/ /\ worker[w].pc \in {"waiting", "reconcile"}
               /\ center[worker[w].user][worker[w].key] = "sent"
  <1>0. Idle.result # "sent" /\ \A u \in Users : Listed(u).result # "sent"
    BY UrgeConstants DEF Idle, Listed, Results
  <1>t. worker \in [Workers -> WorkerStates]
    BY DEF TInv, TypeOK
  <1>1. ASSUME NEW v \in Workers, NEW result \in {"ready", "failed", "unknown"}, Conclude(v, result)
        PROVE  worker'[w] = worker[w]
    BY SMTT(30), <1>1, <1>t DEF Conclude, WorkerStates
  <1>2. ASSUME NEW v \in Workers, Claim(v)
        PROVE  worker'[w] = worker[w]
    <2>1. worker[v].pc = "listed" /\ worker[v].result = None
      BY <1>2, WorkersGood DEF Claim, GoodWorker
    <2>2. worker'[v].result = None
      BY <1>2, <1>t, <2>1, ClaimWrites
    <2> QED
      BY SMTT(30), <1>2, <1>t, <2>2, UrgeConstants DEF Claim, Results
  <1>3. ASSUME NEW v \in Workers, NEW u \in Users, List(v, u) PROVE worker'[w] = worker[w]
    BY <1>0, <1>3, <1>t DEF List
  <1>4. ASSUME NEW v \in Workers, ClaimNothing(v) \/ Finish(v) \/ Crash(v) PROVE worker'[w] = worker[w]
    BY <1>0, <1>4, <1>t DEF ClaimNothing, Finish, Crash
  <1>5. ASSUME NEW v \in Workers, NEW phase \in Phases, Goto(v, phase)
        PROVE  /\ worker'[w].user = worker[w].user /\ worker'[w].key = worker[w].key
               /\ worker'[w].result = worker[w].result
    BY <1>5, <1>t DEF Goto, WorkerStates
  <1>6. ASSUME NEW v \in Workers, DispatchStep(v)
        PROVE  (\E phase \in Phases : Goto(v, phase))
                 \/ \E result \in {"ready", "failed", "unknown"} : Conclude(v, result)
    BY <1>6 DEF DispatchStep, Recheck, Snapshot, MarkDispatched, Send, Phases
  <1>7. ASSUME NEW v \in Workers, StepFails(v) \/ SendTimesOut(v) \/ AnswerLost(v)
        PROVE  worker'[w] = worker[w]
    BY <1>1, <1>7 DEF StepFails, SendTimesOut, AnswerLost
  <1>8. ASSUME NEW v \in Workers, Answer(v) \/ Reconcile(v)
        PROVE  \/ worker'[w] = worker[w]
               \/ /\ worker'[w].user = worker[w].user /\ worker'[w].key = worker[w].key
                  /\ worker[w].pc \in {"waiting", "reconcile"}
                  /\ center[worker[w].user][worker[w].key] = "sent"
    BY <1>8, <1>t DEF Answer, Reconcile, Conclude, classifyAutoUrgeResult, WorkerStates
  <1>9. ASSUME UNCHANGED worker PROVE worker'[w] = worker[w]
    BY <1>9
  <1>10. ASSUME NEW u \in Users, TimePasses(u) \/ Business(u) PROVE UNCHANGED worker
    BY <1>10 DEF TimePasses, NextDay, GrowsStale, Business, WorkArrives, WorkHandled, WorkTouched,
      CompleteRecruit, WorkShifts
  <1>11. ASSUME NEW u \in Users, NEW k \in Cycles, CenterStep(u, k) PROVE UNCHANGED worker
    BY <1>11 DEF CenterStep, LateArrival, CenterSends
  <1>12. CASE UNCHANGED vars
    BY <1>12 DEF vars
  <1> QED
    BY <1>1, <1>2, <1>3, <1>4, <1>5, <1>6, <1>7, <1>8, <1>10, <1>11, <1>12
    DEF Next, WorkerStep, WorkerMishap, ClaimStep, ResultStep

\* A row becomes "sent" only by the finish of a worker of its cycle.
LEMMA SentIsWritten ==
  ASSUME TInv, [Next]_vars, NEW u \in Users, row'[u].state = "sent"
  PROVE  /\ row'[u].cycle = row[u].cycle
         /\ \/ row[u].state = "sent"
            \/ \E w \in Workers :
                 /\ worker[w].user = u /\ worker[w].result = "sent"
                 /\ worker[w].key = row[u].cycle
  <1>t. row \in [Users -> Rows]
    BY DEF TInv, TypeOK
  <1>1. ASSUME NEW w \in Workers, Claim(w) PROVE row'[u] = row[u]
    <2>1. worker[w].user \in Users /\ row'[worker[w].user].state = "claimed"
      BY <1>1, <1>t, WorkersGood DEF Claim, GoodWorker
    <2> QED
      BY <1>1, <1>t, <2>1 DEF Claim
  <1>2. ASSUME NEW w \in Workers, Finish(w)
        PROVE  /\ row'[u].cycle = row[u].cycle
               /\ \/ row[u].state = "sent"
                  \/ /\ worker[w].user = u /\ worker[w].result = "sent"
                     /\ worker[w].key = row[u].cycle
    <2>1. worker[w].user \in Users /\ worker[w].key = worker[w].cycle
      BY <1>2, WorkersGood DEF Finish, GoodWorker
    <2>2. CASE row' = row
      BY <2>2
    <2>3. CASE FinishFence(w) /\ row' # row
      BY ZenonT(30), <1>2, <1>t, <2>1, <2>3 DEF Finish, FinishFence, Owns, Rows
    <2> QED
      BY <1>2, <2>2, <2>3 DEF Finish
  <1>3. ASSUME NEW v \in Users, TimePasses(v) \/ ObserveClearanceTx(v)
        PROVE  row'[u].cycle = row[u].cycle /\ row'[u].state = row[u].state
    BY <1>3, <1>t DEF TimePasses, NextDay, GrowsStale, ObserveClearanceTx, Rows
  <1>4. ASSUME NEW v \in Users, Business(v) PROVE UNCHANGED row \/ ObserveClearanceTx(v)
    BY <1>4 DEF Business, WorkArrives, WorkHandled, WorkTouched, CompleteRecruit, WorkShifts
  <1>5. ASSUME NEW w \in Workers,
               ClaimNothing(w) \/ DispatchStep(w) \/ Answer(w) \/ Reconcile(w) \/ WorkerMishap(w)
        PROVE  UNCHANGED row
    BY <1>5 DEF ClaimNothing, DispatchStep, Recheck, Snapshot, MarkDispatched, Send, Answer,
      Reconcile, WorkerMishap, StepFails, SendTimesOut, AnswerLost, Crash
  <1>6. ASSUME NEW w \in Workers, NEW v \in Users, List(w, v) PROVE UNCHANGED row
    BY <1>6 DEF List
  <1>7. ASSUME NEW v \in Users, NEW k \in Cycles, CenterStep(v, k) PROVE UNCHANGED row
    BY <1>7 DEF CenterStep, LateArrival, CenterSends
  <1>8. CASE UNCHANGED vars
    BY <1>8 DEF vars
  <1> QED
    BY <1>1, <1>2, <1>3, <1>4, <1>5, <1>6, <1>7, <1>8
    DEF Next, WorkerStep, ClaimStep, ResultStep

LEMMA SentStep == TInv /\ SentMeansSent /\ [Next]_vars => SentMeansSent'
  <1> SUFFICES ASSUME TInv, SentMeansSent, [Next]_vars PROVE SentMeansSent'
    OBVIOUS
  <1>1. ASSUME NEW u \in Users, row'[u].state = "sent" PROVE center'[u][row'[u].cycle] = "sent"
    <2>1. row[u].cycle \in Cycles
      BY DEF TInv, TypeOK, Rows
    <2>2. center[u][row[u].cycle] = "sent"
      BY <1>1, SentIsWritten DEF SentMeansSent
    <2> QED
      BY <1>1, <2>1, <2>2, SentIsWritten, SentStays
  <1>2. ASSUME NEW w \in Workers, worker'[w].result = "sent"
        PROVE  center'[worker'[w].user][worker'[w].key] = "sent"
    <2>1. center[worker[w].user][worker[w].key] = "sent"
      BY <1>2, SentIsLearnt DEF SentMeansSent
    <2>2. worker[w].pc \in {"waiting", "reconcile", "finish"}
      BY <1>2, SentIsLearnt, UrgeConstants, WorkersGood DEF GoodWorker, Results
    <2>3. worker[w].user \in Users /\ worker[w].key \in Cycles
      BY <2>2, WorkersGood DEF GoodWorker
    <2> QED
      BY <1>2, <2>1, <2>3, SentIsLearnt, SentStays
  <1> QED
    BY <1>1, <1>2 DEF SentMeansSent

\* A row that says "sent" has its message sent, under the key of its own cycle, whatever
\* claims were taken over and whatever answers came late.
THEOREM SentIsTrue == Spec => []SentMeansSent
<1>1. Init => SentMeansSent
  BY IdleFacts, NewRowFacts, UrgeConstants DEF Init, SentMeansSent, Results
<1> QED
  BY <1>1, SentStep, TypesHold, PTL DEF Spec

(***************************************************************************)
(* A dispatch needs work.  A worker that has rechecked and still holds its *)
(* cycle, open, knows that nobody observed a clearance since.              *)
(***************************************************************************)
Poised(w) == worker[w].pc \in {"snapshot", "mark"} /\ SnapshotFence(w)

PoisedSeesWork ==
  \A w \in Workers : Poised(w) => LET u == worker[w].user IN work[u] # "none" \/ unseen[u]

LEMMA ClaimMoves ==
  ASSUME TInv, NEW w \in Workers, Claim(w)
  PROVE  worker'[w].pc \in {"reconcile", "recheck"}
  <1> DEFINE pc == IF Recovering(row[worker[w].user]) THEN "reconcile" ELSE "recheck"
  <1>1. worker \in [Workers -> WorkerStates]
    BY DEF TInv, TypeOK
  <1>2. worker'[w].pc = pc
    <2> HIDE DEF pc
    <2> QED
      BY <1>1 DEF Claim, WorkerStates, pc
  <1> QED
    BY <1>2

\* Past its claim a worker stays with its user, key and cycle.
LEMMA ClaimStays ==
  ASSUME TInv, [Next]_vars, NEW w \in Workers, worker'[w].pc \notin {"idle", "listed"}
  PROVE  /\ worker'[w].user = worker[w].user
         /\ Working(w) => worker'[w].key = worker[w].key
  <1>t. worker \in [Workers -> WorkerStates]
    BY DEF TInv, TypeOK
  <1>0. Idle.pc = "idle" /\ \A v \in Users : Listed(v).pc = "listed"
    BY DEF Idle, Listed
  <1>1. ASSUME NEW v \in Workers, NEW x \in Users, List(v, x) PROVE worker'[w] = worker[w]
    BY <1>0, <1>1, <1>t DEF List
  <1>2. ASSUME NEW v \in Workers, ClaimNothing(v) \/ Crash(v) \/ Finish(v) PROVE worker'[w] = worker[w]
    BY <1>0, <1>2, <1>t DEF ClaimNothing, Crash, Finish
  <1>3. ASSUME NEW v \in Workers,
               (\E result \in Results : Conclude(v, result)) \/ (\E phase \in Phases : Goto(v, phase))
        PROVE  worker'[w].user = worker[w].user /\ worker'[w].key = worker[w].key
    BY <1>3, <1>t DEF Conclude, Goto, WorkerStates
  <1>4. ASSUME NEW v \in Workers, Claim(v)
        PROVE  worker'[w].user = worker[w].user /\ (Working(w) => worker'[w].key = worker[w].key)
    <2>1. v # w => worker'[w] = worker[w]
      BY ZenonT(30), <1>4, <1>t DEF Claim
    <2>2. worker[v].pc = "listed"
      BY <1>4 DEF Claim
    <2>3. worker'[v].user = worker[v].user
      BY <1>4, <1>t, ClaimWrites
    <2> QED
      BY <2>1, <2>2, <2>3 DEF Working
  <1>5. ASSUME NEW v \in Workers, DispatchStep(v) \/ Answer(v) \/ Reconcile(v)
        PROVE  (\E result \in Results : Conclude(v, result)) \/ (\E phase \in Phases : Goto(v, phase))
    BY <1>5 DEF DispatchStep, Recheck, Snapshot, MarkDispatched, Send, Answer, Reconcile,
      classifyAutoUrgeResult, Results, Phases
  <1>6. ASSUME NEW v \in Workers, StepFails(v) \/ SendTimesOut(v) \/ AnswerLost(v)
        PROVE  \E result \in Results : Conclude(v, result)
    BY <1>6 DEF StepFails, SendTimesOut, AnswerLost, Results
  <1>7. ASSUME NEW x \in Users, TimePasses(x) \/ Business(x) PROVE UNCHANGED worker
    BY <1>7 DEF TimePasses, NextDay, GrowsStale, Business, WorkArrives, WorkHandled, WorkTouched,
      CompleteRecruit, WorkShifts
  <1>8. ASSUME NEW x \in Users, NEW k \in Cycles, CenterStep(x, k) PROVE UNCHANGED worker
    BY <1>8 DEF CenterStep, LateArrival, CenterSends
  <1>9. ASSUME UNCHANGED vars PROVE UNCHANGED worker
    BY <1>9 DEF vars
  <1> QED
    BY <1>1, <1>2, <1>3, <1>4, <1>5, <1>6, <1>7, <1>8, <1>9
    DEF Next, WorkerStep, WorkerMishap, ClaimStep, ResultStep

\* A worker is poised because it was and its row did not change, or because it has rechecked.
LEMMA PoisedBecause ==
  ASSUME TInv, [Next]_vars, NEW w \in Workers, Poised(w)'
  PROVE  LET u == worker[w].user IN
         /\ u \in Users /\ worker'[w].user = u
         /\ row'[u].cycle = row[u].cycle
         /\ ~row[u].closed /\ row[u].state = "claimed"
         /\ \/ Poised(w)
            \/ Recheck(w) /\ work[u] = "due" /\ UNCHANGED row
  <1> DEFINE u == worker[w].user
  <1>t. row \in [Users -> Rows] /\ worker \in [Workers -> WorkerStates]
    BY DEF TInv, TypeOK
  <1>0. Idle.pc \notin {"snapshot", "mark"} /\ \A v \in Users : Listed(v).pc \notin {"snapshot", "mark"}
    BY DEF Idle, Listed
  <1>u. worker[w].pc # "idle" => u \in Users
    BY WorkersGood DEF GoodWorker
  <1>1. ASSUME UNCHANGED <<worker, row>> PROVE Poised(w) /\ UNCHANGED row
    BY <1>1 DEF Poised, SnapshotFence, Owns
  <1>2. ASSUME NEW v \in Workers, NEW x \in Users, List(v, x) PROVE Poised(w) /\ UNCHANGED row
    BY <1>0, <1>2, <1>t DEF List, Poised, SnapshotFence, Owns
  <1>3. ASSUME NEW v \in Workers, ClaimNothing(v) \/ Crash(v) PROVE Poised(w) /\ UNCHANGED row
    BY <1>0, <1>3, <1>t DEF ClaimNothing, Crash, Poised, SnapshotFence, Owns
  <1>4. ASSUME NEW v \in Workers, NEW result \in Results, Conclude(v, result), UNCHANGED row
        PROVE  Poised(w)
    BY <1>4, <1>t DEF Conclude, WorkerStates, Poised, SnapshotFence, Owns
  <1>5. ASSUME NEW v \in Workers, NEW phase \in {"send", "waiting"}, Goto(v, phase), UNCHANGED row
        PROVE  Poised(w)
    BY <1>5, <1>t DEF Goto, WorkerStates, Poised, SnapshotFence, Owns
  <1>6. ASSUME NEW v \in Workers, Claim(v) PROVE Poised(w) /\ row'[u] = row[u]
    <2>1. worker[v].user \in Users
      BY <1>6, WorkersGood DEF Claim, GoodWorker
    <2>0. row'[worker[v].user].token = v
      BY <1>6, <1>t, <2>1 DEF Claim
    <2>p. worker'[v].pc \in {"reconcile", "recheck"}
      BY <1>6, ClaimMoves
    <2>2. v # w
      BY <2>p DEF Poised
    <2>3. worker'[w] = worker[w]
      BY <1>6, <2>2, <1>t DEF Claim
    <2>5. u \in Users /\ worker[v].user # u
      BY <1>u, <2>0, <2>1, <2>2, <2>3 DEF Poised, SnapshotFence, Owns
    <2>4. row'[u] = row[u]
      BY <1>6, <1>t, <2>5 DEF Claim
    <2> QED
      BY <2>3, <2>4 DEF Poised, SnapshotFence, Owns
  <1>7. ASSUME NEW v \in Workers, Finish(v) PROVE Poised(w) /\ row'[u] = row[u]
    <2>1. worker[v].user \in Users /\ worker[v].result \in Results
      BY <1>7, WorkersGood DEF Finish, GoodWorker, WorkerStates
    <2>2. v # w /\ worker'[w] = worker[w]
      BY <1>7, <1>0, <1>t DEF Finish, Poised
    <2>3. row' = row \/ row'[worker[v].user].state # "claimed"
      BY <1>7, <1>t, <2>1 DEF Finish, Rows, Results
    <2>5. u \in Users
      BY SMTT(30), <1>u, <2>2 DEF Poised
    <2>4. row'[u] = row[u]
      BY <1>7, <1>t, <2>1, <2>2, <2>3, <2>5 DEF Finish, Poised, SnapshotFence, Owns
    <2> QED
      BY <2>2, <2>4 DEF Poised, SnapshotFence, Owns
  <1>8. ASSUME NEW v \in Workers, Recheck(v) \/ Snapshot(v)
        PROVE  UNCHANGED row /\ (Poised(w) \/ (Recheck(w) /\ work[u] = "due"))
    <2>1. UNCHANGED row
      BY <1>8 DEF Recheck, Snapshot
    <2>2. CASE \E result \in Results : Conclude(v, result)
      BY <1>4, <2>1, <2>2
    <2>3. ASSUME NEW phase \in {"snapshot", "mark"}, Goto(v, phase), v # w PROVE Poised(w)
      BY <2>1, <2>3, <1>t DEF Goto, Poised, SnapshotFence, Owns
    <2>4. CASE Snapshot(v) /\ v = w /\ Goto(v, "mark")
      BY <2>1, <2>4, <1>t DEF Snapshot, Goto, WorkerStates, Poised, SnapshotFence, Owns
    <2> QED
      BY <1>8, <2>1, <2>2, <2>3, <2>4 DEF Recheck, Snapshot, Results
  <1>9. ASSUME NEW v \in Workers, MarkDispatched(v) \/ Send(v) \/ Answer(v) \/ Reconcile(v)
        PROVE  UNCHANGED row /\ Poised(w)
    BY <1>4, <1>5, <1>9 DEF MarkDispatched, Send, Answer, Reconcile, classifyAutoUrgeResult, Results
  <1>10. ASSUME NEW v \in Workers, StepFails(v) \/ SendTimesOut(v) \/ AnswerLost(v)
         PROVE  UNCHANGED row /\ Poised(w)
    BY <1>4, <1>10 DEF StepFails, SendTimesOut, AnswerLost, Results
  <1>11. ASSUME NEW x \in Users, TimePasses(x) \/ ObserveClearanceTx(x), UNCHANGED worker
         PROVE  /\ Poised(w) /\ row'[u].cycle = row[u].cycle
                /\ ~row[u].closed /\ row[u].state = "claimed"
    BY <1>11, <1>t, <1>u DEF TimePasses, NextDay, GrowsStale, ObserveClearanceTx, Rows, Poised, SnapshotFence, Owns
  <1>12. ASSUME NEW x \in Users, TimePasses(x) \/ Business(x)
         PROVE  UNCHANGED worker /\ (UNCHANGED row \/ TimePasses(x) \/ ObserveClearanceTx(x))
    BY <1>12 DEF TimePasses, NextDay, GrowsStale, Business, WorkArrives, WorkHandled, WorkTouched,
      CompleteRecruit, WorkShifts
  <1>13. ASSUME NEW x \in Users, NEW k \in Cycles, CenterStep(x, k) PROVE UNCHANGED <<worker, row>>
    BY <1>13 DEF CenterStep, LateArrival, CenterSends
  <1>14. ASSUME UNCHANGED vars PROVE UNCHANGED <<worker, row>>
    BY <1>14 DEF vars
  <1>15. /\ Poised(w) \/ (Recheck(w) /\ work[u] = "due" /\ UNCHANGED row)
         /\ \/ row'[u] = row[u]
            \/ /\ row'[u].cycle = row[u].cycle
               /\ ~row[u].closed /\ row[u].state = "claimed"
    BY <1>1, <1>2, <1>3, <1>6, <1>7, <1>8, <1>9, <1>10, <1>11, <1>12, <1>13, <1>14
    DEF Next, WorkerStep, WorkerMishap, ClaimStep, DispatchStep, ResultStep
  <1>16. u \in Users
    BY <1>15, <1>u DEF Recheck, Poised
  <1>17. worker'[w].user = u
    BY ClaimStays DEF Poised
  <1> QED
    BY <1>15, <1>16, <1>17 DEF Poised, SnapshotFence, Owns

LEMMA PoisedStep == TInv /\ PoisedSeesWork /\ [Next]_vars => PoisedSeesWork'
  <1> SUFFICES ASSUME TInv, PoisedSeesWork, [Next]_vars, NEW w \in Workers, Poised(w)'
               PROVE  LET u == worker'[w].user IN work'[u] # "none" \/ unseen'[u]
    BY DEF PoisedSeesWork
  <1> DEFINE u == worker[w].user
  <1>t. /\ work \in [Users -> Work] /\ unseen \in [Users -> BOOLEAN] /\ row \in [Users -> Rows]
    BY DEF TInv, TypeOK
  <1>1. u \in Users /\ worker'[w].user = u /\ ~row[u].closed /\ row[u].state = "claimed"
    BY PoisedBecause
  <1>2. work[u] # "none" \/ unseen[u]
    BY PoisedBecause DEF PoisedSeesWork
  <1>3. SUFFICES work'[u] # "none" \/ unseen'[u]
    BY <1>1
  <1>4. ASSUME UNCHANGED <<work, unseen>> PROVE work'[u] # "none" \/ unseen'[u]
    BY <1>2, <1>4
  <1>5. ASSUME NEW x \in Users, ObserveClearanceTx(x) PROVE x # u
    <2>1. CASE x = u
      <3>1. row'[u].closed
        BY <1>1, <1>5, <1>t, <2>1 DEF ObserveClearanceTx, Rows
      <3> QED
        BY <1>1, <3>1 DEF Poised, SnapshotFence
    <2> QED
      BY <2>1
  <1>6. ASSUME NEW x \in Users, Business(x) PROVE work'[u] # "none" \/ unseen'[u]
    <2>1. CASE WorkArrives(x)
      BY <1>1, <1>2, <1>5, <1>t, <2>1 DEF WorkArrives, ObserveClearanceTx
    <2>2. CASE WorkHandled(x) \/ WorkTouched(x)
      BY <1>1, <1>2, <1>5, <1>t, <2>2 DEF WorkHandled, WorkTouched, ObserveClearanceTx
    <2>3. CASE CompleteRecruit(x)
      BY <1>1, <1>2, <1>t, <2>3 DEF CompleteRecruit
    <2>4. CASE WorkShifts(x)
      BY <1>1, <1>2, <1>t, <2>4 DEF WorkShifts, history
    <2> QED
      BY <1>6, <2>1, <2>2, <2>3, <2>4 DEF Business
  <1>7. ASSUME NEW v \in Workers, WorkerStep(v) PROVE UNCHANGED <<work, unseen>>
    BY <1>7 DEF WorkerStep, ClaimStep, DispatchStep, ResultStep, Claim, ClaimNothing, Recheck,
      Snapshot, MarkDispatched, Send, Answer, Reconcile, Finish, history
  <1>8. ASSUME NEW v \in Workers, WorkerMishap(v) PROVE UNCHANGED <<work, unseen>>
    BY <1>8 DEF WorkerMishap, StepFails, SendTimesOut, AnswerLost, Crash, history
  <1>9. ASSUME NEW v \in Workers, NEW x \in Users, List(v, x) PROVE UNCHANGED <<work, unseen>>
    BY <1>9 DEF List, history
  <1>10. ASSUME NEW x \in Users, TimePasses(x) PROVE UNCHANGED <<work, unseen>>
    BY <1>10 DEF TimePasses, NextDay, GrowsStale, history
  <1>11. ASSUME NEW x \in Users, NEW k \in Cycles, CenterStep(x, k) PROVE UNCHANGED <<work, unseen>>
    BY <1>11 DEF CenterStep, LateArrival, CenterSends, history
  <1>12. ASSUME UNCHANGED vars PROVE UNCHANGED <<work, unseen>>
    BY <1>12 DEF vars
  <1> QED
    BY <1>4, <1>6, <1>7, <1>8, <1>9, <1>10, <1>11, <1>12 DEF Next

\* A worker comes to send only by a dispatch that passed the fence.
LEMMA SendBecause ==
  ASSUME TInv, [Next]_vars, NEW w \in Workers, worker[w].pc # "send", worker'[w].pc = "send"
  PROVE  MarkDispatched(w) /\ DispatchFence(w)
  <1>t. worker \in [Workers -> WorkerStates]
    BY DEF TInv, TypeOK
  <1>0. Idle.pc = "idle" /\ \A v \in Users : Listed(v).pc = "listed"
    BY DEF Idle, Listed
  <1>1. ASSUME NEW v \in Workers, NEW x \in Users, List(v, x) PROVE FALSE
    BY <1>0, <1>1, <1>t DEF List
  <1>2. ASSUME NEW v \in Workers, ClaimNothing(v) \/ Crash(v) \/ Finish(v) PROVE FALSE
    BY <1>0, <1>2, <1>t DEF ClaimNothing, Crash, Finish
  <1>3. ASSUME NEW v \in Workers,
               \/ \E result \in Results : Conclude(v, result)
               \/ \E phase \in Phases \ {"send"} : Goto(v, phase)
        PROVE  FALSE
    BY SMTT(30), <1>3, <1>t DEF Conclude, Goto, WorkerStates
  <1>4. ASSUME NEW v \in Workers, Claim(v) PROVE FALSE
    <2>1. worker[v].user \in Users
      BY <1>4, WorkersGood DEF Claim, GoodWorker
    <2>2. worker'[v].pc \in {"reconcile", "recheck"}
      BY <1>4, ClaimMoves
    <2> QED
      BY SMTT(30), <1>4, <1>t, <2>2 DEF Claim
  <1>5. ASSUME NEW v \in Workers, Recheck(v) \/ Snapshot(v) \/ Send(v) \/ Answer(v) \/ Reconcile(v)
        PROVE  \/ \E result \in Results : Conclude(v, result)
               \/ \E phase \in Phases \ {"send"} : Goto(v, phase)
    BY <1>5 DEF Recheck, Snapshot, Send, Answer, Reconcile, classifyAutoUrgeResult, Results, Phases
  <1>6. ASSUME NEW v \in Workers, StepFails(v) \/ SendTimesOut(v) \/ AnswerLost(v)
        PROVE  \E result \in Results : Conclude(v, result)
    BY <1>6 DEF StepFails, SendTimesOut, AnswerLost, Results
  <1>7. ASSUME NEW v \in Workers, MarkDispatched(v)
        PROVE  v = w /\ DispatchFence(v)
    <2>1. CASE Conclude(v, "failed")
      BY <1>3, <2>1 DEF Results
    <2>2. CASE DispatchFence(v) /\ Goto(v, "send")
      BY <2>2, <1>t DEF Goto
    <2> QED
      BY <1>7, <2>1, <2>2 DEF MarkDispatched
  <1>8. ASSUME NEW x \in Users, TimePasses(x) \/ Business(x) PROVE UNCHANGED worker
    BY <1>8 DEF TimePasses, NextDay, GrowsStale, Business, WorkArrives, WorkHandled, WorkTouched,
      CompleteRecruit, WorkShifts
  <1>9. ASSUME NEW x \in Users, NEW k \in Cycles, CenterStep(x, k) PROVE UNCHANGED worker
    BY <1>9 DEF CenterStep, LateArrival, CenterSends
  <1>10. ASSUME UNCHANGED vars PROVE UNCHANGED worker
    BY <1>10 DEF vars
  <1> QED
    BY <1>1, <1>2, <1>3, <1>4, <1>5, <1>6, <1>7, <1>8, <1>9, <1>10
    DEF Next, WorkerStep, WorkerMishap, ClaimStep, DispatchStep, ResultStep

\* No request leaves for a user whose work was emptied before the last test of the row, in a
\* transaction that observes clearances, however long the worker was delayed since its recheck.
THEOREM DispatchNeedsWork == Spec => NoUrgeOnceHandled
<1>1. Init => PoisedSeesWork
  BY IdleFacts DEF Init, PoisedSeesWork, Poised
<1>2. ASSUME TInv, PoisedSeesWork, [Next]_vars
      PROVE  [\A w \in Workers :
                worker[w].pc # "send" /\ worker'[w].pc = "send" =>
                  LET u == worker[w].user IN work[u] # "none" \/ unseen[u]]_vars
  <2> SUFFICES ASSUME NEW w \in Workers, worker[w].pc # "send", worker'[w].pc = "send"
               PROVE  work[worker[w].user] # "none" \/ unseen[worker[w].user]
    OBVIOUS
  <2>1. MarkDispatched(w) /\ DispatchFence(w)
    BY <1>2, SendBecause
  <2>2. Poised(w)
    BY <2>1 DEF MarkDispatched, DispatchFence, Poised, SnapshotFence
  <2> QED
    BY <1>2, <2>2 DEF PoisedSeesWork
<1> QED
  BY <1>1, <1>2, PoisedStep, TypesHold, PTL DEF Spec, NoUrgeOnceHandled

(***************************************************************************)
(* One message per backlog.  A key is spent when its request may have left *)
(* or a worker is poised to send it.  Keys are spent while there is work;  *)
(* a new cycle starts after it was emptied; so all spent keys but the      *)
(* current one had their work emptied, and the current one too once the    *)
(* row is closed.                                                          *)
(***************************************************************************)
Released(u, k) ==
  \/ center[u][k] # "none"
  \/ <<u, k>> \in late
  \/ \E w \in Workers : worker[w].pc = "send" /\ worker[w].user = u /\ worker[w].key = k

AboutToSend(u) == \E w \in Workers : Poised(w) /\ worker[w].user = u

Spent(u) == {k \in Cycles : Released(u, k) \/ (k = row[u].cycle /\ AboutToSend(u))}

Emptied(u) == row[u].closed \/ work[u] = "none"

SpentWasHandled ==
  \A u \in Users :
    /\ Cardinality(Spent(u) \ {row[u].cycle}) <= handled[u]
    /\ Emptied(u) => Cardinality(Spent(u)) <= handled[u]

LEMMA CountSpent ==
  /\ \A u \in Users : Spent(u) \subseteq Cycles
  /\ IsFiniteSet(Cycles)
  /\ \A S, T : T \subseteq Cycles /\ S \subseteq T =>
        Cardinality(S) \in Nat /\ Cardinality(T) \in Nat /\ Cardinality(S) <= Cardinality(T)
  /\ \A S, c : S \subseteq Cycles => Cardinality(S) <= Cardinality(S \ {c}) + 1
  <1>1. IsFiniteSet(Cycles)
    BY FS_Interval, UrgeConstants DEF Cycles
  <1>2. ASSUME NEW S, NEW T, T \subseteq Cycles, S \subseteq T
        PROVE  Cardinality(S) \in Nat /\ Cardinality(T) \in Nat /\ Cardinality(S) <= Cardinality(T)
    <2>1. IsFiniteSet(T)
      BY <1>1, <1>2, FS_Subset
    <2> QED
      BY <1>2, <2>1, FS_Subset, FS_CardinalityType
  <1>3. ASSUME NEW S, NEW c, S \subseteq Cycles PROVE Cardinality(S) <= Cardinality(S \ {c}) + 1
    <2>1. IsFiniteSet(S) /\ IsFiniteSet(S \ {c})
      BY <1>1, <1>3, FS_Subset
    <2>2. CASE c \in S
      BY <2>1, <2>2, FS_RemoveElement, FS_CardinalityType
    <2>3. CASE c \notin S
      <3>1. S \ {c} = S
        BY <2>3
      <3> QED
        BY SMTT(30), <2>1, <3>1, FS_CardinalityType
    <2> QED
      BY <2>2, <2>3
  <1>4. \A u \in Users : Spent(u) \subseteq Cycles
    BY DEF Spent
  <1> QED
    BY <1>1, <1>2, <1>3, <1>4

\* A request may have left because it might before, or because a poised worker dispatched it.
LEMMA ReleasedBecause ==
  ASSUME TInv, [Next]_vars, NEW u \in Users, NEW k \in Cycles, Released(u, k)'
  PROVE  k \in Spent(u)
  <1>t. /\ center \in [Users -> [Cycles -> Records]] /\ row \in [Users -> Rows]
        /\ \A v \in Users : row[v].key \in {0, row[v].cycle}
    BY DEF TInv, TypeOK
  <1>w. ASSUME NEW w \in Workers, worker[w].pc = "send"
        PROVE  /\ worker[w].user \in Users /\ worker[w].key \in Cycles
               /\ worker[w].user = u /\ worker[w].key = k => Released(u, k)
    BY <1>w, WorkersGood DEF GoodWorker, Released
  <1>1. ASSUME NEW v \in Users, NEW j \in Cycles, Take(v, j), center'[u][k] # "none"
        PROVE  center[u][k] # "none" \/ (v = u /\ j = k)
    BY <1>1, <1>t DEF Take
  <1>2. CASE center'[u][k] # "none"
    <2>1. ASSUME NEW w \in Workers, Send(w) PROVE Released(u, k)
      <3>1. worker[w].pc = "send" /\ Take(worker[w].user, worker[w].key)
        BY <2>1 DEF Send
      <3> QED
        BY <1>1, <1>2, <1>w, <3>1 DEF Released
    <2>2. ASSUME NEW v \in Users, NEW j \in Cycles, CenterStep(v, j) PROVE Released(u, k)
      <3>1. CASE LateArrival(v, j)
        BY <1>1, <1>2, <3>1 DEF LateArrival, Released
      <3>2. CASE CenterSends(v, j)
        BY <1>2, <1>t, <3>2 DEF CenterSends, Released
      <3> QED
        BY <2>2, <3>1, <3>2 DEF CenterStep
    <2>3. CASE UNCHANGED center
      BY SMTT(30), <1>2, <2>3 DEF Released, Spent
    <2>4. ASSUME NEW w \in Workers, WorkerStep(w), ~Send(w) PROVE UNCHANGED center
      BY <2>4 DEF WorkerStep, ClaimStep, DispatchStep, ResultStep, Claim, ClaimNothing, Recheck,
        Snapshot, MarkDispatched, Answer, Reconcile, Finish
    <2>5. ASSUME NEW w \in Workers, WorkerMishap(w) PROVE UNCHANGED center
      BY <2>5 DEF WorkerMishap, StepFails, SendTimesOut, AnswerLost, Crash
    <2>6. ASSUME NEW v \in Users, TimePasses(v) \/ Business(v) PROVE UNCHANGED center
      BY <2>6 DEF TimePasses, NextDay, GrowsStale, Business, WorkArrives, WorkHandled, WorkTouched,
        CompleteRecruit, WorkShifts
    <2>7. ASSUME NEW w \in Workers, NEW v \in Users, List(w, v) PROVE UNCHANGED center
      BY <2>7 DEF List
    <2>8. ASSUME UNCHANGED vars PROVE UNCHANGED center
      BY <2>8 DEF vars
    <2> QED
      BY <2>1, <2>2, <2>3, <2>4, <2>5, <2>6, <2>7, <2>8 DEF Next, Spent
  <1>3. CASE <<u, k>> \in late'
    <2>1. ASSUME NEW w \in Workers, SendTimesOut(w) \/ Crash(w) PROVE Released(u, k)
      <3>1. \/ <<u, k>> \in late
            \/ worker[w].pc = "send" /\ <<u, k>> = <<worker[w].user, worker[w].key>>
        BY <1>3, <2>1 DEF SendTimesOut, Crash
      <3> QED
        BY <1>w, <3>1 DEF Released
    <2>2. CASE late' \subseteq late
      BY SMTT(30), <1>3, <2>2 DEF Released, Spent
    <2>3. ASSUME NEW w \in Workers, WorkerStep(w) \/ StepFails(w) \/ AnswerLost(w) PROVE UNCHANGED late
      BY <2>3 DEF WorkerStep, ClaimStep, DispatchStep, ResultStep, Claim, ClaimNothing, Recheck,
        Snapshot, MarkDispatched, Send, Answer, Reconcile, Finish, StepFails, AnswerLost
    <2>4. ASSUME NEW v \in Users, TimePasses(v) \/ Business(v) PROVE UNCHANGED late
      BY <2>4 DEF TimePasses, NextDay, GrowsStale, Business, WorkArrives, WorkHandled, WorkTouched,
        CompleteRecruit, WorkShifts
    <2>5. ASSUME NEW w \in Workers, NEW v \in Users, List(w, v) PROVE UNCHANGED late
      BY <2>5 DEF List
    <2>6. ASSUME NEW v \in Users, NEW j \in Cycles, CenterStep(v, j) PROVE late' \subseteq late
      BY <2>6 DEF CenterStep, LateArrival, CenterSends
    <2>7. ASSUME UNCHANGED vars PROVE UNCHANGED late
      BY <2>7 DEF vars
    <2> QED
      BY <2>1, <2>2, <2>3, <2>4, <2>5, <2>6, <2>7 DEF Next, WorkerMishap, Spent
  <1>4. ASSUME NEW w \in Workers, worker'[w].pc = "send", worker'[w].user = u, worker'[w].key = k
        PROVE  k \in Spent(u)
    <2>1. CASE worker[w].pc = "send"
      BY <1>4, <1>w, <2>1, ClaimStays DEF Spent, Working
    <2>2. CASE worker[w].pc # "send"
      <3>1. MarkDispatched(w) /\ DispatchFence(w)
        BY <1>4, <2>2, SendBecause
      <3>2. worker[w].user = u /\ worker[w].key = k
        BY <1>4, <3>1, ClaimStays DEF Working, MarkDispatched
      <3>3. k = row[u].cycle
        BY <3>1, <3>2, <1>t, UrgeConstants DEF DispatchFence, Cycles
      <3>4. Poised(w)
        BY <3>1 DEF MarkDispatched, DispatchFence, Poised, SnapshotFence
      <3> QED
        BY <3>2, <3>3, <3>4 DEF Spent, AboutToSend
    <2> QED
      BY <2>1, <2>2
  <1> QED
    BY <1>2, <1>3, <1>4 DEF Released

\* The only way for a key to become spent is a recheck that finds work, in an open row.
LEMMA SpentBecause ==
  ASSUME TInv, [Next]_vars, NEW u \in Users, NEW k \in Spent(u)', k \notin Spent(u)
  PROVE  /\ k = row[u].cycle /\ ~row[u].closed /\ work[u] = "due"
         /\ UNCHANGED <<row, work, handled>>
  <1>1. k \in Cycles /\ ~Released(u, k)'
    BY ReleasedBecause DEF Spent, Cycles
  <1>2. k = row'[u].cycle /\ AboutToSend(u)'
    BY <1>1 DEF Spent
  <1>3. PICK w \in Workers : Poised(w)' /\ worker'[w].user = u
    BY <1>2 DEF AboutToSend
  <1>4. /\ worker[w].user = u /\ row'[u].cycle = row[u].cycle /\ ~row[u].closed
        /\ Poised(w) \/ (Recheck(w) /\ work[u] = "due" /\ UNCHANGED row)
    BY <1>3, PoisedBecause
  <1>5. ~Poised(w)
    BY <1>1, <1>2, <1>4 DEF Spent, AboutToSend
  <1> QED
    BY <1>2, <1>4, <1>5 DEF Recheck, history

\* How a step moves the cycle and the emptyings of a user.
LEMMA CycleMoves ==
  ASSUME TInv, [Next]_vars, NEW u \in Users
  PROVE  \/ /\ row'[u].cycle = row[u].cycle /\ handled'[u] = handled[u]
            /\ Emptied(u)' => Emptied(u)
         \/ row'[u].cycle = row[u].cycle /\ handled'[u] = handled[u] + 1
         \/ handled'[u] = handled[u] /\ Emptied(u)
  <1> DEFINE Same == /\ row'[u].cycle = row[u].cycle /\ handled'[u] = handled[u]
                     /\ Emptied(u)' => Emptied(u)
             More == row'[u].cycle = row[u].cycle /\ handled'[u] = handled[u] + 1
  <1>t. row \in [Users -> Rows] /\ work \in [Users -> Work] /\ handled \in [Users -> Nat]
    BY DEF TInv, TypeOK
  <1>1. ASSUME NEW w \in Workers, Claim(w) PROVE Same \/ (handled'[u] = handled[u] /\ Emptied(u))
    <2>1. CASE worker[w].user # u
      BY <1>1, <1>t, <2>1 DEF Claim, history, Emptied
    <2>2. CASE worker[w].user = u /\ NewCycle(row[u])
      BY <1>1, <2>2 DEF Claim, history, NewCycle, Emptied
    <2>3. CASE worker[w].user = u /\ ~NewCycle(row[u])
      BY <1>1, <1>t, <2>3 DEF Claim, history, Emptied
    <2> QED
      BY <2>1, <2>2, <2>3
  <1>2. ASSUME NEW w \in Workers, Finish(w) PROVE Same
    <2>1. worker[w].user \in Users
      BY <1>2, WorkersGood DEF Finish, GoodWorker
    <2> QED
      BY <1>2, <1>t, <2>1 DEF Finish, history, Emptied, Rows
  <1>3. ASSUME NEW x \in Users, ObserveClearanceTx(x)
        PROVE  /\ row'[u].cycle = row[u].cycle
               /\ x # u => row'[u].closed = row[u].closed
    BY <1>3, <1>t DEF ObserveClearanceTx, Rows
  <1>4. ASSUME NEW x \in Users, Business(x) PROVE Same \/ More
    <2>1. CASE WorkArrives(x)
      BY <1>3, <1>t, <2>1 DEF WorkArrives, Emptied
    <2>2. CASE WorkHandled(x)
      BY <1>3, <1>t, <2>2 DEF WorkHandled, Emptied
    <2>3. CASE WorkTouched(x)
      BY <1>3, <1>t, <2>3 DEF WorkTouched, Emptied
    <2>4. CASE CompleteRecruit(x)
      BY <1>t, <2>4 DEF CompleteRecruit, Emptied
    <2>5. CASE WorkShifts(x)
      BY <1>t, <2>5 DEF WorkShifts, history, Emptied
    <2> QED
      BY <1>4, <2>1, <2>2, <2>3, <2>4, <2>5 DEF Business
  <1>5. ASSUME NEW x \in Users, TimePasses(x) PROVE Same
    BY <1>5, <1>t DEF TimePasses, NextDay, GrowsStale, history, Emptied, Rows
  <1>6. ASSUME UNCHANGED <<row, work, handled>> PROVE Same
    BY <1>6 DEF Emptied
  <1>7. ASSUME NEW w \in Workers,
               ClaimNothing(w) \/ DispatchStep(w) \/ Answer(w) \/ Reconcile(w) \/ WorkerMishap(w)
        PROVE  UNCHANGED <<row, work, handled>>
    BY <1>7 DEF ClaimNothing, DispatchStep, Recheck, Snapshot, MarkDispatched, Send, Answer,
      Reconcile, WorkerMishap, StepFails, SendTimesOut, AnswerLost, Crash, history
  <1>8. ASSUME NEW w \in Workers, NEW v \in Users, List(w, v) PROVE UNCHANGED <<row, work, handled>>
    BY <1>8 DEF List, history
  <1>9. ASSUME NEW v \in Users, NEW k \in Cycles, CenterStep(v, k)
        PROVE  UNCHANGED <<row, work, handled>>
    BY <1>9 DEF CenterStep, LateArrival, CenterSends, history
  <1>10. ASSUME UNCHANGED vars PROVE UNCHANGED <<row, work, handled>>
    BY <1>10 DEF vars
  <1> HIDE DEF Same, More
  <1>11. Same \/ More \/ (handled'[u] = handled[u] /\ Emptied(u))
    BY <1>1, <1>2, <1>4, <1>5, <1>6, <1>7, <1>8, <1>9, <1>10
    DEF Next, WorkerStep, ClaimStep, ResultStep
  <1> QED
    BY <1>11 DEF Same, More

LEMMA SpentStep == TInv /\ SpentWasHandled /\ [Next]_vars => SpentWasHandled'
  <1> SUFFICES ASSUME TInv, SpentWasHandled, [Next]_vars, NEW u \in Users
               PROVE  /\ Cardinality(Spent(u)' \ {row'[u].cycle}) <= handled'[u]
                      /\ Emptied(u)' => Cardinality(Spent(u)') <= handled'[u]
    BY DEF SpentWasHandled
  <1> DEFINE S == Spent(u)
             T == Spent(u)'
             c == row[u].cycle
  <1>1. /\ handled[u] \in Nat /\ S \subseteq Cycles
        /\ Cardinality(S \ {c}) <= handled[u]
        /\ Emptied(u) => Cardinality(S) <= handled[u]
    BY CountSpent DEF SpentWasHandled, TInv, TypeOK
  <1>2. /\ Cardinality(S) \in Nat /\ Cardinality(S \ {c}) \in Nat
        /\ Cardinality(S) <= Cardinality(S \ {c}) + 1
    BY <1>1, CountSpent
  <1> HIDE DEF S, T, c
  <1>3. ASSUME T \subseteq S
        PROVE  /\ Cardinality(T) \in Nat /\ Cardinality(T) <= Cardinality(S)
               /\ \A d : Cardinality(T \ {d}) \in Nat /\ Cardinality(T \ {d}) <= Cardinality(S)
               /\ \A d : Cardinality(T \ {d}) <= Cardinality(S \ {d})
    <2>1. \A d : T \ {d} \subseteq S /\ T \ {d} \subseteq S \ {d} /\ S \ {d} \subseteq Cycles
      BY <1>1, <1>3
    <2> QED
      BY <1>1, <1>3, <2>1, CountSpent
  <1>4. CASE T \subseteq S
    <2>1. CASE row'[u].cycle = c /\ handled'[u] = handled[u] /\ (Emptied(u)' => Emptied(u))
      BY <1>1, <1>2, <1>3, <1>4, <2>1 DEF T
    <2>2. CASE row'[u].cycle = c /\ handled'[u] = handled[u] + 1
      BY <1>1, <1>2, <1>3, <1>4, <2>2 DEF T
    <2>3. CASE handled'[u] = handled[u] /\ Emptied(u)
      <3>1. Cardinality(S) <= handled[u]
        BY <1>1, <2>3
      <3>2. Cardinality(T) <= handled[u] /\ Cardinality(T \ {row'[u].cycle}) <= handled[u]
        <4> DEFINE d == row'[u].cycle
        <4> HIDE DEF d
        <4>1. /\ Cardinality(T) \in Nat /\ Cardinality(T) <= Cardinality(S)
              /\ Cardinality(T \ {d}) \in Nat /\ Cardinality(T \ {d}) <= Cardinality(S)
          BY <1>3, <1>4
        <4>2. Cardinality(T) <= handled[u] /\ Cardinality(T \ {d}) <= handled[u]
          BY <1>1, <1>2, <3>1, <4>1
        <4> QED
          BY <4>2 DEF d
      <3> QED
        BY <2>3, <3>2 DEF T
    <2> QED
      BY <2>1, <2>2, <2>3, CycleMoves DEF c
  <1>5. CASE ~(T \subseteq S)
    <2>1. /\ \A k \in T : k \notin S => k = c
          /\ ~row[u].closed /\ work[u] = "due" /\ UNCHANGED <<row, work, handled>>
      BY <1>5, SpentBecause DEF S, T, c
    <2>2. T \ {c} \subseteq S \ {c}
      BY <2>1
    <2>3. Cardinality(T \ {c}) <= Cardinality(S \ {c}) /\ Cardinality(T \ {c}) \in Nat
      BY <1>1, <2>2, CountSpent
    <2>4. ~Emptied(u)' /\ row'[u].cycle = c /\ handled'[u] = handled[u]
      BY <2>1 DEF Emptied, c
    <2> QED
      BY <1>1, <1>2, <2>3, <2>4 DEF T
  <1> QED
    BY <1>4, <1>5

\* A user gets one message more, at most, than the pending work was emptied, whatever claims are
\* taken over, repeated or answered late.
THEOREM UrgedOncePerBacklog == Spec => []OneMessagePerBacklog
<1>1. Init => SpentWasHandled
  <2> SUFFICES ASSUME Init, NEW u \in Users
               PROVE  /\ Cardinality(Spent(u) \ {row[u].cycle}) <= handled[u]
                      /\ Emptied(u) => Cardinality(Spent(u)) <= handled[u]
    BY DEF SpentWasHandled
  <2>1. Spent(u) = {}
    BY IdleFacts DEF Init, Spent, Released, AboutToSend, Poised
  <2>2. Spent(u) \ {row[u].cycle} = {}
    BY <2>1
  <2> QED
    BY <2>1, <2>2, FS_EmptySet DEF Init
<1>2. TInv /\ SpentWasHandled => OneMessagePerBacklog
  <2> SUFFICES ASSUME TInv, SpentWasHandled, NEW u \in Users
               PROVE  Cardinality(MessagesSent(u)) <= handled[u] + 1
    BY DEF OneMessagePerBacklog
  <2>1. MessagesSent(u) \subseteq Spent(u) /\ Spent(u) \subseteq Cycles
    BY DEF MessagesSent, Spent, Released
  <2>2. /\ Cardinality(MessagesSent(u)) \in Nat /\ Cardinality(Spent(u)) \in Nat
        /\ Cardinality(MessagesSent(u)) <= Cardinality(Spent(u))
    BY <2>1, CountSpent
  <2>3. /\ Cardinality(Spent(u) \ {row[u].cycle}) \in Nat
        /\ Cardinality(Spent(u)) <= Cardinality(Spent(u) \ {row[u].cycle}) + 1
    BY <2>1, CountSpent
  <2>4. Cardinality(Spent(u) \ {row[u].cycle}) <= handled[u] /\ handled[u] \in Nat
    BY DEF SpentWasHandled, TInv, TypeOK
  <2> QED
    BY <2>2, <2>3, <2>4
<1> QED
  BY <1>1, <1>2, SpentStep, TypesHold, PTL DEF Spec
=============================================================================
