--------------------------- MODULE WxOutboxProofs ---------------------------
(***************************************************************************)
(* Theorems of WxOutbox, for any sets of deliveries and workers and any    *)
(* number of mishaps: type correctness, and that a delivery is accepted by *)
(* the provider at most once.                                              *)
(*                                                                         *)
(* The argument.  A worker that knows the current attempt of a row is the  *)
(* one that wrote claimed_at last, so there is one such worker at most; a  *)
(* worker that has begun a call always knows the current attempt, because  *)
(* a row leaves DISPATCHING for a claimable status only by the hand of     *)
(* that worker, after a definite refusal; so a row that may be claimed     *)
(* again has no request out.                                               *)
(***************************************************************************)
EXTENDS WxOutbox, TLAPS

LEMMA IdleFacts == Idle \in WorkerStates /\ Idle.pc = "idle"
  BY OutboxConstants DEF Idle, WorkerStates, Phases

LEMMA ClaimedFacts ==
  ASSUME NEW d \in Deliveries
  PROVE  /\ Claimed(d) \in WorkerStates
         /\ Claimed(d).pc = "claimed" /\ Claimed(d).id = d /\ ~Claimed(d).expired
  BY DEF Claimed, WorkerStates, Phases

LEMMA TypeStep == TypeOK /\ [Next]_vars => TypeOK'
  <1> SUFFICES ASSUME TypeOK, [Next]_vars PROVE TypeOK'
    OBVIOUS
  <1> USE DEF TypeOK, Statuses, Verdicts, Mishap
  <1>1. ASSUME NEW d \in Deliveries, DeliveryStep(d) PROVE TypeOK'
    BY <1>1 DEF DeliveryStep, Enqueue, SweepStale, OrphanAccepted
  <1>2. ASSUME NEW w \in Workers, NEW d \in Deliveries, Claim(w, d) PROVE TypeOK'
    BY <1>2, ClaimedFacts DEF Claim
  <1>3. ASSUME NEW w \in Workers, Load(w) PROVE TypeOK'
    <2>1. attempts[worker[w].id] \in Nat
      BY <1>3 DEF Load
    <2> QED
      BY ZenonT(30), <1>3, <2>1 DEF Load, WorkerStates, Phases
  <1>4. ASSUME NEW w \in Workers, LoadFails(w) PROVE TypeOK'
    BY <1>4, IdleFacts DEF LoadFails
  <1>5. ASSUME NEW w \in Workers, NotDeliverable(w) \/ PreparationFails(w) PROVE TypeOK'
    BY SMTT(30), <1>5 DEF NotDeliverable, PreparationFails, Ends, WorkerStates, Phases, Outcomes
  <1>6. ASSUME NEW w \in Workers, BeginDispatch(w) PROVE TypeOK'
    BY <1>6 DEF BeginDispatch, Ends, WorkerStates, Phases, Outcomes
  <1>8. ASSUME NEW w \in Workers, NothingPosted(w) \/ Post(w) PROVE TypeOK'
    BY <1>8 DEF NothingPosted, Post, Ends, WorkerStates, Phases, Outcomes
  <1>9. ASSUME NEW w \in Workers, ProviderAccepts(w) \/ ProviderRefuses(w) \/ PostTimesOut(w)
        PROVE TypeOK'
    BY SMTT(30), <1>9 DEF ProviderAccepts, ProviderRefuses, PostTimesOut, Ends, WorkerStates, Phases, Outcomes
  <1>10. ASSUME NEW w \in Workers, Finish(w) PROVE TypeOK'
    <2>1. FinalStatus(worker[w].outcome, worker[w].attempt) \in Statuses
      BY DEF FinalStatus
    <2> QED
      BY <1>10, <2>1, IdleFacts DEF Finish
  <1>11. ASSUME NEW w \in Workers, FinishFails(w) \/ Crash(w) PROVE TypeOK'
    BY <1>11, IdleFacts DEF FinishFails, Crash
  <1>12. ASSUME NEW w \in Workers, Expire(w) PROVE TypeOK'
    <2>1. [worker[w] EXCEPT !.expired = TRUE] \in WorkerStates
      BY DEF WorkerStates
    <2>2. worker' = [worker EXCEPT ![w] = [worker[w] EXCEPT !.expired = TRUE]]
      BY <1>12 DEF Expire
    <2> QED
      BY <1>12, <2>1, <2>2 DEF Expire, WorkerStates
  <1>13. CASE UNCHANGED vars
    BY <1>13 DEF vars
  <1> QED
    BY <1>1, <1>2, <1>3, <1>4, <1>5, <1>6, <1>8, <1>9, <1>10, <1>11, <1>12, <1>13
    DEF Next, WorkerStep

\* Every variable keeps its type, so that the rows hold one of the known statuses and
\* a goroutine past its claim knows a delivery and, when it finishes, an outcome.
THEOREM TypeCorrect == Spec => []TypeOK
<1>1. Init => TypeOK
  BY IdleFacts DEF Init, TypeOK, Statuses, Verdicts
<1> QED
  BY <1>1, TypeStep, PTL DEF Spec

(***************************************************************************)
(* The inductive invariant.                                                *)
(***************************************************************************)
\* The worker has read the attempt number of its delivery.
KnowsAttempt(w) == worker[w].pc \in {"loaded", "dispatched", "posted", "finish"}

Current(w) == KnowsAttempt(w) /\ worker[w].attempt = attempts[worker[w].id]

\* It has passed BeginDispatch and no definite refusal has come back.
InCall(w) ==
  \/ worker[w].pc \in {"dispatched", "posted"}
  \/ worker[w].pc = "finish" /\ worker[w].outcome \in {"ok", "uncertain"}

\* A claim is its worker's as long as the worker's context lives.
ClaimHeld ==
  \A w \in Workers : ~worker[w].expired =>
    /\ worker[w].pc = "claimed" =>
         holder[worker[w].id] = w /\ status[worker[w].id] = "PREPARING"
    /\ worker[w].pc = "loaded" => worker[w].attempt = attempts[worker[w].id]

\* Only the worker that wrote claimed_at last can know the current attempt.
CurrentIsHolder ==
  \A w \in Workers :
    /\ KnowsAttempt(w) => worker[w].attempt <= attempts[worker[w].id]
    /\ Current(w) => holder[worker[w].id] = w
    /\ Current(w) /\ worker[w].pc = "loaded" => status[worker[w].id] = "PREPARING"

\* While a call is on, the row waits for its outcome or has been swept.
CallKeepsRow ==
  \A w \in Workers : InCall(w) =>
    Current(w) /\ status[worker[w].id] \in {"DISPATCHING", "UNKNOWN"}

\* What a worker may still do or report agrees with what the provider saw.
WorkerKnowsCall ==
  \A w \in Workers :
    LET d == worker[w].id IN
      /\ worker[w].pc = "dispatched" => ~Exposed(d)
      /\ worker[w].pc = "posted" => received[d] = 0 /\ d \notin orphans
      /\ worker[w].pc = "finish" /\ worker[w].outcome = "ok" => received[d] = 1
      /\ worker[w].pc = "finish" /\ Current(w) /\ ~InCall(w) => ~Exposed(d)

\* An orphaned request is the only one of its delivery.
OrphansNotReceived == \A d \in orphans : received[d] = 0

IInv ==
  /\ TypeOK
  /\ AtMostOnce
  /\ RowTellsTheTruth
  /\ ClaimHeld
  /\ CurrentIsHolder
  /\ CallKeepsRow
  /\ WorkerKnowsCall
  /\ OrphansNotReceived

LEMMA InitInvariant == Init => IInv
  <1> SUFFICES ASSUME Init PROVE IInv
    OBVIOUS
  <1>1. TypeOK
    BY IdleFacts DEF Init, TypeOK, Statuses, Verdicts
  <1>2. \A w \in Workers : worker[w].pc = "idle"
    BY IdleFacts DEF Init
  <1> QED
    BY <1>1, <1>2 DEF Init, IInv, AtMostOnce, RowTellsTheTruth, Exposed, ClaimHeld,
      CurrentIsHolder, CallKeepsRow, WorkerKnowsCall, OrphansNotReceived, KnowsAttempt,
      Current, InCall

(***************************************************************************)
(* One lemma per action.  Where the worker's record changes, step <1>0     *)
(* gives the fields of the new record, which is all the rest needs of it.  *)
(***************************************************************************)
USE DEF IInv, TypeOK, AtMostOnce, RowTellsTheTruth, Exposed, ClaimHeld, CurrentIsHolder,
        CallKeepsRow, WorkerKnowsCall, OrphansNotReceived, KnowsAttempt, Current, InCall

LEMMA EnqueueKeeps ==
  ASSUME IInv, TypeOK', NEW d \in Deliveries, Enqueue(d)
  PROVE  IInv'
  <1>1. AtMostOnce' /\ OrphansNotReceived'
    BY DEF Enqueue
  <1>2. RowTellsTheTruth'
    BY DEF Enqueue
  <1>3. ClaimHeld'
    BY DEF Enqueue
  <1>4. CurrentIsHolder'
    BY DEF Enqueue
  <1>5. CallKeepsRow'
    BY DEF Enqueue
  <1>6. WorkerKnowsCall'
    BY DEF Enqueue
  <1> QED
    BY <1>1, <1>2, <1>3, <1>4, <1>5, <1>6

\* Only a row whose worker is out of time, or gone, is swept.
LEMMA SweepStaleKeeps ==
  ASSUME IInv, TypeOK', NEW d \in Deliveries, SweepStale(d)
  PROVE  IInv'
  <1>1. AtMostOnce' /\ OrphansNotReceived'
    BY DEF SweepStale, Stale, Verdicts
  <1>2. RowTellsTheTruth'
    BY DEF SweepStale, Stale, Verdicts
  <1>3. ClaimHeld'
    BY DEF SweepStale, Stale, Verdicts
  <1>4. CurrentIsHolder'
    BY DEF SweepStale, Stale, Verdicts
  <1>5. CallKeepsRow'
    BY DEF SweepStale, Stale, Verdicts
  <1>6. WorkerKnowsCall'
    BY DEF SweepStale, Stale, Verdicts
  <1> QED
    BY <1>1, <1>2, <1>3, <1>4, <1>5, <1>6

LEMMA OrphanAcceptedKeeps ==
  ASSUME IInv, TypeOK', NEW d \in Deliveries, OrphanAccepted(d)
  PROVE  IInv'
  <1>1. AtMostOnce' /\ OrphansNotReceived'
    BY DEF OrphanAccepted
  <1>2. RowTellsTheTruth'
    BY DEF OrphanAccepted
  <1>3. ClaimHeld'
    BY DEF OrphanAccepted
  <1>4. CurrentIsHolder'
    BY DEF OrphanAccepted
  <1>5. CallKeepsRow'
    BY DEF OrphanAccepted
  <1>6. WorkerKnowsCall'
    BY DEF OrphanAccepted
  <1> QED
    BY <1>1, <1>2, <1>3, <1>4, <1>5, <1>6

\* A claimable row has no worker that knows its attempt, except one that is stale.
LEMMA ClaimKeeps ==
  ASSUME IInv, TypeOK', NEW w \in Workers, NEW d \in Deliveries, Claim(w, d)
  PROVE  IInv'
  <1>a. worker' = [worker EXCEPT ![w] = Claimed(d)]
    BY DEF Claim
  <1>b. worker'[w].pc = "claimed" /\ worker'[w].id = d
    BY <1>a, ClaimedFacts
  <1>c. \A v \in Workers \ {w} : worker'[v] = worker[v]
    BY <1>a
  <1>d. /\ worker[w].pc = "idle"
        /\ status[d] \in {"PENDING", "RETRY"} \/ (status[d] = "PREPARING" /\ Stale(d))
        /\ status' = [status EXCEPT ![d] = "PREPARING"]
        /\ attempts' = [attempts EXCEPT ![d] = @ + 1]
        /\ holder' = [holder EXCEPT ![d] = w]
        /\ UNCHANGED <<orphans, received>>
    BY DEF Claim, Claimable
  <1>0. attempts[d] \in Nat /\ \A v \in Workers : worker[v].attempt \in Nat
    BY DEF WorkerStates
  <1>1. AtMostOnce' /\ OrphansNotReceived'
    BY <1>d
  <1>2. RowTellsTheTruth'
    BY <1>b, <1>c, <1>d
  <1>3. ClaimHeld'
    BY SMTT(30), <1>b, <1>c, <1>d, OutboxConstants DEF Stale
  <1>4. CurrentIsHolder'
    <2> SUFFICES ASSUME NEW v \in Workers, KnowsAttempt(v)'
                 PROVE  /\ worker'[v].attempt <= attempts'[worker'[v].id]
                        /\ Current(v)' => holder'[worker'[v].id] = v
                        /\ Current(v)' /\ worker'[v].pc = "loaded"
                             => status'[worker'[v].id] = "PREPARING"
      OBVIOUS
    <2>1. v # w /\ worker'[v] = worker[v]
      BY <1>b, <1>c
    <2>2. CASE worker[v].id = d
      BY <2>1, <2>2, <1>d, <1>0
    <2>3. CASE worker[v].id # d
      BY <2>1, <2>3, <1>d
    <2> QED
      BY <2>2, <2>3
  <1>5. CallKeepsRow'
    BY SMTT(30), <1>b, <1>c, <1>d, <1>0, OutboxConstants DEF Stale
  <1>6. WorkerKnowsCall'
    BY SMTT(30), <1>b, <1>c, <1>d, <1>0, OutboxConstants DEF Stale
  <1> QED
    BY <1>1, <1>2, <1>3, <1>4, <1>5, <1>6

LEMMA LoadKeeps ==
  ASSUME IInv, TypeOK', NEW w \in Workers, Load(w)
  PROVE  IInv'
  <1>0. /\ \A v \in Workers \ {w} : worker'[v] = worker[v]
        /\ worker[w].pc = "claimed" /\ ~worker[w].expired
        /\ worker'[w].pc = "loaded" /\ worker'[w].id = worker[w].id
        /\ worker'[w].attempt = attempts[worker[w].id]
        /\ UNCHANGED <<status, attempts, holder, orphans, received>>
    BY SMTT(30) DEF Load, WorkerStates
  <1>1. AtMostOnce' /\ OrphansNotReceived'
    BY <1>0
  <1>2. RowTellsTheTruth'
    BY <1>0
  <1>3. ClaimHeld'
    BY <1>0
  <1>4. CurrentIsHolder'
    BY <1>0
  <1>5. CallKeepsRow'
    BY <1>0
  <1>6. WorkerKnowsCall'
    BY <1>0
  <1> QED
    BY <1>1, <1>2, <1>3, <1>4, <1>5, <1>6

\* A worker that ends without writing the row.
LEMMA LeaveKeeps ==
  ASSUME IInv, TypeOK', NEW w \in Workers, LoadFails(w) \/ FinishFails(w)
  PROVE  IInv'
  <1>0. /\ \A v \in Workers \ {w} : worker'[v] = worker[v]
        /\ worker[w].pc # "posted"
        /\ worker'[w].pc = "idle"
        /\ UNCHANGED <<status, attempts, holder, orphans, received>>
    BY IdleFacts DEF LoadFails, FinishFails
  <1>1. AtMostOnce' /\ OrphansNotReceived'
    BY <1>0
  <1>2. RowTellsTheTruth'
    BY <1>0
  <1>3. ClaimHeld'
    BY <1>0
  <1>4. CurrentIsHolder'
    BY <1>0
  <1>5. CallKeepsRow'
    BY <1>0
  <1>6. WorkerKnowsCall'
    BY <1>0
  <1> QED
    BY <1>1, <1>2, <1>3, <1>4, <1>5, <1>6

\* Nothing was sent under an attempt that is still being prepared.
LEMMA NotPreparedKeeps ==
  ASSUME IInv, TypeOK', NEW w \in Workers, NotDeliverable(w) \/ PreparationFails(w)
  PROVE  IInv'
  <1>0. /\ \A v \in Workers \ {w} : worker'[v] = worker[v]
        /\ worker[w].pc = "loaded"
        /\ worker'[w].pc = "finish" /\ worker'[w].outcome \in {"permanent", "error"}
        /\ worker'[w].id = worker[w].id /\ worker'[w].attempt = worker[w].attempt
        /\ UNCHANGED <<status, attempts, holder, orphans, received>>
    BY DEF NotDeliverable, PreparationFails, Ends, WorkerStates
  <1>1. AtMostOnce' /\ OrphansNotReceived'
    BY <1>0
  <1>2. RowTellsTheTruth'
    BY <1>0
  <1>3. ClaimHeld'
    BY <1>0
  <1>4. CurrentIsHolder'
    BY <1>0
  <1>5. CallKeepsRow'
    BY <1>0
  <1>6. WorkerKnowsCall'
    BY <1>0
  <1> QED
    BY <1>1, <1>2, <1>3, <1>4, <1>5, <1>6

LEMMA BeginDispatchKeeps ==
  ASSUME IInv, TypeOK', NEW w \in Workers, BeginDispatch(w)
  PROVE  IInv'
  <1>0. /\ \A v \in Workers \ {w} : worker'[v] = worker[v]
        /\ worker[w].pc = "loaded"
        /\ OwnsPreparing(w)
        /\ \/ worker'[w].pc = "dispatched"
           \/ worker'[w].pc = "finish" /\ worker'[w].outcome = "error"
        /\ worker'[w].id = worker[w].id /\ worker'[w].attempt = worker[w].attempt
        /\ status' = [status EXCEPT ![worker[w].id] = "DISPATCHING"]
        /\ holder' = [holder EXCEPT ![worker[w].id] = w]
        /\ UNCHANGED <<attempts, orphans, received>>
    BY DEF BeginDispatch, Ends, WorkerStates
  <1>1. AtMostOnce' /\ OrphansNotReceived'
    BY <1>0 DEF OwnsPreparing
  <1>2. RowTellsTheTruth'
    BY <1>0 DEF OwnsPreparing
  <1>3. ClaimHeld'
    BY <1>0 DEF OwnsPreparing
  <1>4. CurrentIsHolder'
    BY <1>0 DEF OwnsPreparing
  <1>5. CallKeepsRow'
    BY <1>0 DEF OwnsPreparing
  <1>6. WorkerKnowsCall'
    BY <1>0 DEF OwnsPreparing
  <1> QED
    BY <1>1, <1>2, <1>3, <1>4, <1>5, <1>6

LEMMA NothingPostedKeeps ==
  ASSUME IInv, TypeOK', NEW w \in Workers, NothingPosted(w)
  PROVE  IInv'
  <1>0. /\ \A v \in Workers \ {w} : worker'[v] = worker[v]
        /\ worker[w].pc = "dispatched"
        /\ worker'[w].pc = "finish" /\ worker'[w].outcome \in {"permanent", "uncertain"}
        /\ worker'[w].id = worker[w].id /\ worker'[w].attempt = worker[w].attempt
        /\ UNCHANGED <<status, attempts, holder, orphans, received>>
    BY DEF NothingPosted, Ends, WorkerStates
  <1>1. AtMostOnce' /\ OrphansNotReceived'
    BY <1>0
  <1>2. RowTellsTheTruth'
    BY <1>0
  <1>3. ClaimHeld'
    BY <1>0
  <1>4. CurrentIsHolder'
    BY <1>0
  <1>5. CallKeepsRow'
    BY <1>0
  <1>6. WorkerKnowsCall'
    BY <1>0
  <1> QED
    BY <1>1, <1>2, <1>3, <1>4, <1>5, <1>6

LEMMA PostKeeps ==
  ASSUME IInv, TypeOK', NEW w \in Workers, Post(w)
  PROVE  IInv'
  <1>0. /\ \A v \in Workers \ {w} : worker'[v] = worker[v]
        /\ worker[w].pc = "dispatched"
        /\ worker'[w].pc = "posted"
        /\ worker'[w].id = worker[w].id /\ worker'[w].attempt = worker[w].attempt
        /\ UNCHANGED <<status, attempts, holder, orphans, received>>
    BY DEF Post, WorkerStates
  <1>1. AtMostOnce' /\ OrphansNotReceived'
    BY <1>0
  <1>2. RowTellsTheTruth'
    BY <1>0
  <1>3. ClaimHeld'
    BY <1>0
  <1>4. CurrentIsHolder'
    BY <1>0
  <1>5. CallKeepsRow'
    BY <1>0
  <1>6. WorkerKnowsCall'
    BY <1>0
  <1> QED
    BY <1>1, <1>2, <1>3, <1>4, <1>5, <1>6

\* The one request that is out is accepted.
LEMMA ProviderAcceptsKeeps ==
  ASSUME IInv, TypeOK', NEW w \in Workers, ProviderAccepts(w)
  PROVE  IInv'
  <1>0. /\ \A v \in Workers \ {w} : worker'[v] = worker[v]
        /\ worker[w].pc = "posted"
        /\ worker'[w].pc = "finish" /\ worker'[w].outcome \in {"ok", "uncertain"}
        /\ worker'[w].id = worker[w].id /\ worker'[w].attempt = worker[w].attempt
        /\ received' = [received EXCEPT ![worker[w].id] = @ + 1]
        /\ UNCHANGED <<status, attempts, holder, orphans>>
    BY DEF ProviderAccepts, Ends, WorkerStates
  <1>1. AtMostOnce' /\ OrphansNotReceived'
    BY <1>0
  <1>2. RowTellsTheTruth'
    BY <1>0
  <1>3. ClaimHeld'
    BY <1>0
  <1>4. CurrentIsHolder'
    BY <1>0
  <1>5. CallKeepsRow'
    BY <1>0
  <1>6. WorkerKnowsCall'
    BY <1>0
  <1> QED
    BY <1>1, <1>2, <1>3, <1>4, <1>5, <1>6

LEMMA ProviderRefusesKeeps ==
  ASSUME IInv, TypeOK', NEW w \in Workers, ProviderRefuses(w)
  PROVE  IInv'
  <1>0. /\ \A v \in Workers \ {w} : worker'[v] = worker[v]
        /\ worker[w].pc = "posted"
        /\ worker'[w].pc = "finish" /\ worker'[w].outcome \in Outcomes \ {"ok"}
        /\ worker'[w].id = worker[w].id /\ worker'[w].attempt = worker[w].attempt
        /\ UNCHANGED <<status, attempts, holder, orphans, received>>
    BY DEF ProviderRefuses, Ends, WorkerStates, Outcomes
  <1>1. AtMostOnce' /\ OrphansNotReceived'
    BY <1>0
  <1>2. RowTellsTheTruth'
    BY <1>0
  <1>3. ClaimHeld'
    BY <1>0
  <1>4. CurrentIsHolder'
    BY <1>0
  <1>5. CallKeepsRow'
    BY <1>0
  <1>6. WorkerKnowsCall'
    BY <1>0
  <1> QED
    BY <1>1, <1>2, <1>3, <1>4, <1>5, <1>6

LEMMA PostTimesOutKeeps ==
  ASSUME IInv, TypeOK', NEW w \in Workers, PostTimesOut(w)
  PROVE  IInv'
  <1>0. /\ \A v \in Workers \ {w} : worker'[v] = worker[v]
        /\ worker[w].pc = "posted"
        /\ worker'[w].pc = "finish" /\ worker'[w].outcome = "uncertain"
        /\ worker'[w].id = worker[w].id /\ worker'[w].attempt = worker[w].attempt
        /\ orphans' = orphans \cup {worker[w].id}
        /\ UNCHANGED <<status, attempts, holder, received>>
    BY DEF PostTimesOut, Ends, WorkerStates
  <1>1. AtMostOnce' /\ OrphansNotReceived'
    BY <1>0
  <1>2. RowTellsTheTruth'
    BY <1>0
  <1>3. ClaimHeld'
    BY <1>0
  <1>4. CurrentIsHolder'
    BY <1>0
  <1>5. CallKeepsRow'
    BY <1>0
  <1>6. WorkerKnowsCall'
    BY <1>0
  <1> QED
    BY <1>1, <1>2, <1>3, <1>4, <1>5, <1>6

\* The row is open to another claim only after a call that the provider refused or
\* that never began.
LEMMA FinishKeeps ==
  ASSUME IInv, TypeOK', NEW w \in Workers, Finish(w)
  PROVE  IInv'
  <1>0. /\ \A v \in Workers \ {w} : worker'[v] = worker[v]
        /\ worker[w].pc = "finish"
        /\ worker'[w].pc = "idle"
        /\ FinishFence(w) => Current(w)
        /\ status' = IF FinishFence(w)
                   THEN [status EXCEPT ![worker[w].id] = FinalStatus(worker[w].outcome, worker[w].attempt)]
                   ELSE status
        /\ UNCHANGED <<attempts, holder, orphans, received>>
    BY IdleFacts DEF Finish, FinishFence
  <1>1. AtMostOnce' /\ OrphansNotReceived'
    BY <1>0 DEF FinalStatus, Outcomes
  <1>2. RowTellsTheTruth'
    BY <1>0 DEF FinalStatus, Outcomes
  <1>3. ClaimHeld'
    BY <1>0 DEF FinalStatus, Outcomes
  <1>4. CurrentIsHolder'
    BY <1>0 DEF FinalStatus, Outcomes
  <1>5. CallKeepsRow'
    BY <1>0 DEF FinalStatus, Outcomes
  <1>6. WorkerKnowsCall'
    BY <1>0 DEF FinalStatus, Outcomes
  <1> QED
    BY <1>1, <1>2, <1>3, <1>4, <1>5, <1>6

LEMMA ExpireKeeps ==
  ASSUME IInv, TypeOK', NEW w \in Workers, Expire(w)
  PROVE  IInv'
  <1>0. /\ \A v \in Workers \ {w} : worker'[v] = worker[v]
        /\ worker'[w].pc = worker[w].pc /\ worker'[w].outcome = worker[w].outcome
        /\ worker'[w].expired
        /\ worker'[w].id = worker[w].id /\ worker'[w].attempt = worker[w].attempt
        /\ UNCHANGED <<status, attempts, holder, orphans, received>>
    BY DEF Expire, WorkerStates
  <1>1. AtMostOnce' /\ OrphansNotReceived'
    BY <1>0
  <1>2. RowTellsTheTruth'
    BY <1>0
  <1>3. ClaimHeld'
    BY <1>0
  <1>4. CurrentIsHolder'
    BY <1>0
  <1>5. CallKeepsRow'
    BY <1>0
  <1>6. WorkerKnowsCall'
    BY <1>0
  <1> QED
    BY <1>1, <1>2, <1>3, <1>4, <1>5, <1>6

LEMMA CrashKeeps ==
  ASSUME IInv, TypeOK', NEW w \in Workers, Crash(w)
  PROVE  IInv'
  <1>0. /\ \A v \in Workers \ {w} : worker'[v] = worker[v]
        /\ worker[w].pc # "idle"
        /\ worker'[w].pc = "idle"
        /\ orphans' = IF worker[w].pc = "posted" THEN orphans \cup {worker[w].id} ELSE orphans
        /\ UNCHANGED <<status, attempts, holder, received>>
    BY IdleFacts DEF Crash
  <1>1. AtMostOnce' /\ OrphansNotReceived'
    BY <1>0
  <1>2. RowTellsTheTruth'
    BY <1>0
  <1>3. ClaimHeld'
    BY <1>0
  <1>4. CurrentIsHolder'
    BY <1>0
  <1>5. CallKeepsRow'
    BY <1>0
  <1>6. WorkerKnowsCall'
    BY <1>0
  <1> QED
    BY <1>1, <1>2, <1>3, <1>4, <1>5, <1>6

\* Whatever a step of the system is, it keeps the invariant.
LEMMA StepKeepsInvariant == IInv /\ [Next]_vars => IInv'
  <1> SUFFICES ASSUME IInv, [Next]_vars PROVE IInv'
    OBVIOUS
  <1>0. TypeOK'
    BY TypeStep
  <1> HIDE DEF IInv, TypeOK
  <1>1. ASSUME NEW d \in Deliveries, DeliveryStep(d) PROVE IInv'
    BY <1>0, <1>1, EnqueueKeeps, SweepStaleKeeps, OrphanAcceptedKeeps DEF DeliveryStep
  <1>2. ASSUME NEW w \in Workers, WorkerStep(w) PROVE IInv'
    BY <1>0, <1>2, ClaimKeeps, LoadKeeps, LeaveKeeps, NotPreparedKeeps, BeginDispatchKeeps,
       NothingPostedKeeps, PostKeeps, ProviderAcceptsKeeps, ProviderRefusesKeeps,
       PostTimesOutKeeps, FinishKeeps DEF WorkerStep
  <1>3. ASSUME NEW w \in Workers, Expire(w) \/ Crash(w) PROVE IInv'
    BY <1>0, <1>3, ExpireKeeps, CrashKeeps
  <1>4. CASE UNCHANGED vars
    BY <1>4 DEF vars, IInv, TypeOK
  <1> QED
    BY <1>1, <1>2, <1>3, <1>4 DEF Next

\* The invariant holds throughout.
THEOREM Invariant == Spec => []IInv
<1> HIDE DEF IInv
<1> QED
  BY InitInvariant, StepKeepsInvariant, PTL DEF Spec

\* The user gets each message at most once, with any number of servers, delays,
\* lost answers and crashes.
THEOREM AtMostOnceHolds == Spec => []AtMostOnce
<1>1. IInv => AtMostOnce
  OBVIOUS
<1> HIDE DEF IInv
<1> QED
  BY <1>1, Invariant, PTL

\* A worker that has time left to begin the call is still the one to make it.
THEOREM ClaimLasts == Spec => []ClaimLastsItsContext
<1>1. IInv => ClaimLastsItsContext
  BY DEF ClaimLastsItsContext, OwnsPreparing
<1> HIDE DEF IInv
<1> QED
  BY <1>1, Invariant, PTL

\* A row that is open to another attempt, or that names a refusal, has no message
\* delivered or under way, and a row that says SENT is right.
THEOREM RowIsTruthful == Spec => []RowTellsTheTruth
<1>1. IInv => RowTellsTheTruth
  OBVIOUS
<1> HIDE DEF IInv, RowTellsTheTruth
<1> QED
  BY <1>1, Invariant, PTL

(***************************************************************************)
(* Verdicts.                                                               *)
(***************************************************************************)
\* No step takes a row out of SENT, UNKNOWN, SKIPPED or FAILED.
THEOREM VerdictsStand == Spec => VerdictsAreFinal
<1>1. IInv /\ [Next]_vars => [\A d \in Deliveries : status[d] \in Verdicts => status'[d] = status[d]]_vars
  <2> SUFFICES ASSUME IInv, Next, NEW d \in Deliveries, status[d] \in Verdicts
               PROVE  status'[d] = status[d]
    OBVIOUS
  <2>1. ASSUME NEW e \in Deliveries, DeliveryStep(e) PROVE status'[d] = status[d]
    BY <2>1 DEF DeliveryStep, Enqueue, SweepStale, OrphanAccepted, Verdicts
  <2>2. ASSUME NEW w \in Workers, NEW e \in Deliveries, Claim(w, e) PROVE status'[d] = status[d]
    BY <2>2 DEF Claim, Claimable, Verdicts
  <2>3. ASSUME NEW w \in Workers, BeginDispatch(w) PROVE status'[d] = status[d]
    BY <2>3 DEF BeginDispatch, OwnsPreparing, Verdicts
  <2>4. ASSUME NEW w \in Workers, Finish(w) PROVE status'[d] = status[d]
    BY <2>4 DEF Finish, FinishFence, Verdicts
  <2>5. ASSUME NEW w \in Workers, WorkerStep(w) \/ Expire(w) \/ Crash(w) PROVE status'[d] = status[d]
    BY <2>2, <2>3, <2>4, <2>5 DEF WorkerStep, Load, LoadFails, NotDeliverable, PreparationFails,
       NothingPosted, Post, ProviderAccepts, ProviderRefuses, PostTimesOut,
       FinishFails, Expire, Crash
  <2> QED
    BY <2>1, <2>5 DEF Next
<1> HIDE DEF IInv
<1> QED
  BY <1>1, Invariant, PTL DEF Spec, VerdictsAreFinal

(***************************************************************************)
(* The outbox implements NotifyOnce.                                       *)
(***************************************************************************)
Seen == [e \in Deliveries |-> Meaning(status[e])]

\* A step that writes one status is a move of that message.
LEMMA StatusMove ==
  ASSUME TypeOK, NEW d \in Deliveries, NEW to,
         status' = [status EXCEPT ![d] = to], UNCHANGED received
  PROVE  Notify!Move(d, Meaning(status[d]), Meaning(to))
  <1> HIDE DEF IInv, AtMostOnce, RowTellsTheTruth, ClaimHeld, CurrentIsHolder, CallKeepsRow,
           WorkerKnowsCall, OrphansNotReceived
  <1>1. Seen' = [Seen EXCEPT ![d] = Meaning(to)]
    BY DEF Seen
  <1> QED
    BY <1>1 DEF Notify!Move, Seen

\* A step that adds one to a message that nobody has received, under a row that may
\* have a call out, is its reception.
LEMMA ReceptionStep ==
  ASSUME IInv, NEW d \in Deliveries, received[d] = 0,
         status[d] \in {"DISPATCHING", "PROCESSING", "UNKNOWN"},
         received' = [received EXCEPT ![d] = @ + 1], UNCHANGED status
  PROVE  Notify!Receive(d)
  <1>1. Meaning(status[d]) \in {"calling", "unsure"}
    BY DEF Meaning
  <1>2. received' = [received EXCEPT ![d] = 1]
    OBVIOUS
  <1> QED
    BY <1>1, <1>2 DEF Notify!Receive

\* What Finish writes is a confirmation, an abandonment, a requeueing or a drop.
LEMMA FinishIsPromised ==
  ASSUME IInv, NEW w \in Workers, Finish(w)
  PROVE  Notify!Next \/ (Seen' = Seen /\ UNCHANGED received)
  <1> DEFINE d == worker[w].id
             to == FinalStatus(worker[w].outcome, worker[w].attempt)
  <1>1. CASE ~FinishFence(w)
    BY <1>1 DEF Finish, Seen
  <1>2. CASE FinishFence(w)
    <2>1. /\ worker[w].pc = "finish" /\ d \in Deliveries /\ worker[w].outcome \in Outcomes
          /\ status' = [status EXCEPT ![d] = to] /\ UNCHANGED received
      BY <1>2 DEF Finish
    <2>2. Current(w) /\ status[d] \in {"PREPARING", "DISPATCHING"}
      BY <1>2, <2>1 DEF FinishFence
    <2>3. Notify!Move(d, Meaning(status[d]), Meaning(to))
      <3> HIDE DEF d, to
      <3> QED
        BY <2>1, StatusMove
    <2>4. CASE worker[w].outcome = "ok"
      <3>1. status[d] = "DISPATCHING" /\ received[d] = 1 /\ to = "SENT"
        BY <2>1, <2>2, <2>4 DEF FinalStatus
      <3>2. Meaning(status[d]) = "calling" /\ Meaning(to) = "sent"
        BY <3>1 DEF Meaning
      <3>3. Notify!Confirm(d)
        BY <2>3, <3>1, <3>2 DEF Notify!Confirm
      <3> QED
        BY <2>1, <3>3 DEF Notify!Next
    <2>5. CASE worker[w].outcome = "uncertain"
      <3>1. status[d] = "DISPATCHING" /\ to = "UNKNOWN"
        BY <2>1, <2>2, <2>5 DEF FinalStatus
      <3>2. Meaning(status[d]) = "calling" /\ Meaning(to) = "unsure"
        BY <3>1 DEF Meaning
      <3>3. Notify!GiveUp(d)
        BY <2>3, <3>1, <3>2 DEF Notify!GiveUp
      <3> QED
        BY <2>1, <3>3 DEF Notify!Next
    <2>6. CASE worker[w].outcome \notin {"ok", "uncertain"}
      <3>1. received[d] = 0
        BY <2>1, <2>2, <2>6
      <3>2. to \in {"SKIPPED", "FAILED", "RETRY"}
        BY <2>1, <2>6 DEF FinalStatus, Outcomes
      <3>3. CASE to = "RETRY" /\ status[d] = "PREPARING"
        <4>1. Seen' = Seen
          BY <2>1, <3>3 DEF Seen, Meaning
        <4> QED
          BY <2>1, <4>1
      <3>4. CASE to = "RETRY" /\ status[d] = "DISPATCHING"
        <4>1. Meaning(status[d]) = "calling" /\ Meaning(to) = "queued"
          BY <3>4 DEF Meaning
        <4>2. Notify!Requeue(d)
          BY <2>3, <3>1, <4>1 DEF Notify!Requeue
        <4> QED
          BY <2>1, <4>2 DEF Notify!Next
      <3>5. CASE to \in {"SKIPPED", "FAILED"}
        <4>1. Meaning(to) = "dropped" /\ Meaning(status[d]) \in {"queued", "calling"}
          BY <2>2, <3>5 DEF Meaning
        <4>2. Notify!Drop(d)
          BY <2>3, <3>1, <4>1 DEF Notify!Drop
        <4> QED
          BY <2>1, <4>2 DEF Notify!Next
      <3> QED
        BY <2>2, <3>2, <3>3, <3>4, <3>5
    <2> QED
      BY <2>4, <2>5, <2>6
  <1> QED
    BY <1>1, <1>2

\* Every step of the outbox is a step of the promise or does not touch it.
LEMMA StepIsPromised ==
  ASSUME IInv, [Next]_vars
  PROVE  Notify!Next \/ (Seen' = Seen /\ UNCHANGED received)
  <1>1. ASSUME NEW d \in Deliveries, Enqueue(d) PROVE Notify!Queue(d)
    <2>1. Notify!Move(d, Meaning(status[d]), Meaning("PENDING"))
      BY <1>1, StatusMove DEF Enqueue
    <2> QED
      BY <1>1, <2>1 DEF Enqueue, Notify!Queue, Meaning
  <1>2. ASSUME NEW d \in Deliveries, SweepStale(d) PROVE Notify!GiveUp(d)
    <2>1. Notify!Move(d, Meaning(status[d]), Meaning("UNKNOWN"))
      BY <1>2, StatusMove DEF SweepStale
    <2> QED
      BY <1>2, <2>1 DEF SweepStale, Notify!GiveUp, Meaning
  <1>3. ASSUME NEW d \in Deliveries, OrphanAccepted(d) PROVE Notify!Receive(d)
    <2>1. received[d] = 0 /\ status[d] \in {"DISPATCHING", "PROCESSING", "UNKNOWN"}
      BY <1>3 DEF OrphanAccepted
    <2> QED
      BY <1>3, <2>1, ReceptionStep DEF OrphanAccepted
  <1>4. ASSUME NEW w \in Workers, NEW d \in Deliveries, Claim(w, d)
        PROVE  Seen' = Seen /\ UNCHANGED received
    <2>1. /\ status[d] \in {"PENDING", "RETRY", "PREPARING"} /\ UNCHANGED received
          /\ status' = [status EXCEPT ![d] = "PREPARING"]
      BY <1>4 DEF Claim, Claimable
    <2> QED
      BY <2>1 DEF Seen, Meaning
  <1>5. ASSUME NEW w \in Workers, BeginDispatch(w) PROVE Notify!Call(worker[w].id)
    <2>1. /\ worker[w].id \in Deliveries /\ status[worker[w].id] = "PREPARING"
          /\ status' = [status EXCEPT ![worker[w].id] = "DISPATCHING"] /\ UNCHANGED received
      BY <1>5 DEF BeginDispatch, OwnsPreparing
    <2>2. Notify!Move(worker[w].id, Meaning(status[worker[w].id]), Meaning("DISPATCHING"))
      BY <2>1, StatusMove
    <2> QED
      BY <2>1, <2>2 DEF Notify!Call, Meaning
  <1>6. ASSUME NEW w \in Workers, ProviderAccepts(w) PROVE Notify!Receive(worker[w].id)
    <2>1. /\ worker[w].id \in Deliveries /\ received[worker[w].id] = 0
          /\ status[worker[w].id] \in {"DISPATCHING", "PROCESSING", "UNKNOWN"}
          /\ received' = [received EXCEPT ![worker[w].id] = @ + 1] /\ UNCHANGED status
      BY <1>6 DEF ProviderAccepts
    <2> QED
      BY <2>1, ReceptionStep
  <1>7. ASSUME NEW w \in Workers,
               \/ Load(w) \/ LoadFails(w) \/ NotDeliverable(w) \/ PreparationFails(w)
               \/ NothingPosted(w) \/ Post(w) \/ ProviderRefuses(w)
               \/ PostTimesOut(w) \/ FinishFails(w) \/ Expire(w) \/ Crash(w)
        PROVE  UNCHANGED <<status, received>>
    BY <1>7 DEF Load, LoadFails, NotDeliverable, PreparationFails, NothingPosted,
       Post, ProviderRefuses, PostTimesOut, FinishFails, Expire, Crash
  <1>8. UNCHANGED <<status, received>> => Seen' = Seen /\ UNCHANGED received
    BY DEF Seen
  <1>9. CASE UNCHANGED vars
    BY <1>8, <1>9 DEF vars
  <1>10. ASSUME NEW d \in Deliveries, DeliveryStep(d) PROVE Notify!Next
    BY <1>1, <1>2, <1>3, <1>10 DEF DeliveryStep, Notify!Next
  <1>11. \A w \in Workers : worker[w].pc # "idle" => worker[w].id \in Deliveries
    OBVIOUS
  <1>12. ASSUME NEW w \in Workers, BeginDispatch(w) \/ ProviderAccepts(w) PROVE Notify!Next
    BY <1>5, <1>6, <1>11, <1>12 DEF BeginDispatch, ProviderAccepts, Notify!Next
  <1> HIDE DEF IInv
  <1>13. ASSUME NEW w \in Workers, WorkerStep(w)
         PROVE  Notify!Next \/ (Seen' = Seen /\ UNCHANGED received)
    BY <1>4, <1>7, <1>8, <1>12, <1>13, FinishIsPromised DEF WorkerStep
  <1> QED
    BY <1>7, <1>8, <1>9, <1>10, <1>13 DEF Next

\* The outbox, whatever its workers and the network do, is an implementation of
\* NotifyOnce under the reading of its status column.
THEOREM OutboxKeepsPromise == Spec => KeepsPromise
<1>1. Init => Notify!Init
  BY DEF Init, Notify!Init, Meaning
<1>2. IInv /\ [Next]_vars
        => [Notify!Next]_<<[d \in Deliveries |-> Meaning(status[d])], received>>
  BY StepIsPromised DEF Seen
<1> HIDE DEF IInv
<1> QED
  BY <1>1, <1>2, Invariant, PTL DEF Spec, KeepsPromise, Notify!Spec
=============================================================================
