------------------------ MODULE OrderDeliveryProofs ------------------------
(***************************************************************************)
(* Theorems of OrderDelivery, for any orders, workers and bounds.          *)
(*                                                                         *)
(* The argument.  Every step moves push_status in one of few ways          *)
(* (PushMoves), which decides the two action properties.  Success is       *)
(* traced back to the submission: a worker that has still to write it,     *)
(* and a piece of work of the message center, exist only for an order      *)
(* whose message was taken (AcceptedInv).  Of promotions, a worker that    *)
(* claimed an order is the only one, and the order is freshly pending      *)
(* until that worker's last statement (ClaimInv); a promotion is never     *)
(* redriven by an UPDATE of its record, so a completed one stays.          *)
(***************************************************************************)
EXTENDS OrderDelivery, TLAPS

(***************************************************************************)
(* Workers.                                                                *)
(***************************************************************************)
WorkersOK ==
  /\ worker \in [Workers -> WorkerRecords]
  /\ \A w \in Workers : worker[w].pc # "idle" => worker[w].order \in Orders

DataOK ==
  /\ kind \in [Orders -> Kinds]
  /\ refund \in [Orders -> {"none", "asked", "closed", "done"}]
  /\ push \in [Orders -> PushStatuses]
  /\ stale \in [Orders -> BOOLEAN]
  /\ retries \in [Orders -> 0..MaxRetries]
  /\ rec \in [Orders -> RecordStatuses]
  /\ center \in [Orders -> BOOLEAN]
  /\ accepted \in [Orders -> BOOLEAN]
  /\ mishaps \in 0..MaxMishaps

LEMMA TypeParts == TypeOK <=> DataOK /\ WorkersOK
  BY DEF TypeOK, DataOK, WorkersOK

\* Worker w is now at p, with the order it had; the others are where they were.
MovesTo(w, p) ==
  /\ worker'[w].pc = p
  /\ worker'[w].order = worker[w].order
  /\ worker'[w].owed => worker[w].owed
  /\ \A v \in Workers \ {w} : worker'[v] = worker[v]

Stops(w) ==
  /\ worker'[w].pc = "idle"
  /\ \A v \in Workers \ {w} : worker'[v] = worker[v]

LEMMA IdleFacts == Idle \in WorkerRecords /\ Idle.pc = "idle"
  BY DEF Idle, WorkerRecords, Places, RecordStatuses

LEMMA GotoFacts ==
  ASSUME WorkersOK, NEW w \in Workers, NEW p \in Places, worker[w].pc # "idle", Goto(w, p)
  PROVE  WorkersOK' /\ MovesTo(w, p)
  <1>1. [worker[w] EXCEPT !.pc = p] \in WorkerRecords
    BY DEF WorkersOK, WorkerRecords
  <1>2. worker' = [worker EXCEPT ![w] = [worker[w] EXCEPT !.pc = p]]
    BY DEF Goto
  <1> QED
    BY <1>1, <1>2 DEF WorkersOK, MovesTo, WorkerRecords

LEMMA StopFacts ==
  ASSUME WorkersOK, NEW w \in Workers, Stop(w)
  PROVE  WorkersOK' /\ Stops(w)
  BY IdleFacts DEF Stop, WorkersOK, Stops

LEMMA AbandonFacts ==
  ASSUME WorkersOK, NEW w \in Workers, worker[w].pc # "idle", Abandon(w)
  PROVE  WorkersOK' /\ (Stops(w) \/ (worker[w].owed /\ MovesTo(w, "fail")))
  <1>1. CASE worker[w].owed
    BY <1>1, GotoFacts DEF Abandon, Places
  <1>2. CASE ~worker[w].owed
    BY <1>2, StopFacts DEF Abandon
  <1> QED
    BY <1>1, <1>2

LEMMA StartFacts ==
  ASSUME WorkersOK, NEW w \in Workers, NEW o \in Orders, NEW p \in Places, NEW b \in BOOLEAN,
         StartWorker(w, o, p, b)
  PROVE  /\ WorkersOK'
         /\ worker[w].pc = "idle" /\ worker'[w].pc = p /\ worker'[w].order = o
         /\ \A v \in Workers \ {w} : worker'[v] = worker[v]
  <1>1. [pc |-> p, order |-> o, owed |-> b, found |-> "none"] \in WorkerRecords
    BY DEF WorkerRecords, RecordStatuses
  <1> QED
    BY <1>1, IdleFacts DEF StartWorker, WorkersOK

LEMMA SubmissionFacts ==
  ASSUME WorkersOK, NEW w \in Workers, worker[w].pc # "idle", StartSubmission(w)
  PROVE  /\ WorkersOK' /\ MovesTo(w, "submit")
         /\ Async(worker[w].order) => ~worker'[w].owed
  <1> DEFINE r == [worker[w] EXCEPT !.pc = "submit",
                                   !.owed = IF Async(worker[w].order) THEN FALSE ELSE @]
  <1>1. r \in WorkerRecords
    BY DEF WorkersOK, WorkerRecords, Places
  <1>2. worker' = [worker EXCEPT ![w] = r]
    BY DEF StartSubmission
  <1> QED
    BY <1>1, <1>2 DEF WorkersOK, MovesTo, WorkerRecords

LEMMA ProceedFacts ==
  ASSUME WorkersOK, NEW w \in Workers, worker[w].pc # "idle",
         NEW found \in RecordStatuses, Proceed(w, found)
  PROVE  /\ WorkersOK'
         /\ \/ MovesTo(w, "create")
            \/ /\ kind[worker[w].order] = "email"
               /\ MovesTo(w, "submit") /\ ~worker'[w].owed
            \/ kind[worker[w].order] # "email" /\ MovesTo(w, "redrive")
  <1>1. CASE found = "none"
    <2>1. [worker[w] EXCEPT !.pc = "create", !.found = found] \in WorkerRecords
      BY DEF WorkersOK, WorkerRecords, Places
    <2>2. worker' = [worker EXCEPT ![w] = [worker[w] EXCEPT !.pc = "create", !.found = found]]
      BY <1>1 DEF Proceed
    <2> QED
      BY <2>1, <2>2 DEF WorkersOK, MovesTo, WorkerRecords
  <1>2. CASE found # "none" /\ kind[worker[w].order] = "email"
    <2> DEFINE r == [worker[w] EXCEPT !.pc = "submit", !.owed = FALSE, !.found = found]
    <2>1. r \in WorkerRecords
      BY DEF WorkersOK, WorkerRecords, Places
    <2>2. worker' = [worker EXCEPT ![w] = r]
      BY <1>2 DEF Proceed
    <2> QED
      BY <1>2, <2>1, <2>2 DEF WorkersOK, MovesTo, WorkerRecords
  <1>3. CASE found # "none" /\ kind[worker[w].order] # "email"
    <2>1. [worker[w] EXCEPT !.pc = "redrive", !.found = found] \in WorkerRecords
      BY DEF WorkersOK, WorkerRecords, Places
    <2>2. worker' = [worker EXCEPT ![w] = [worker[w] EXCEPT !.pc = "redrive", !.found = found]]
      BY <1>3 DEF Proceed
    <2> QED
      BY <1>3, <2>1, <2>2 DEF WorkersOK, MovesTo, WorkerRecords
  <1> QED
    BY <1>1, <1>2, <1>3

(***************************************************************************)
(* Type correctness, one step per action.                                  *)
(***************************************************************************)
LEMMA PushTypes ==
  ASSUME DataOK, NEW o \in Orders, NEW s \in PushStatuses,
         SetPush(o, s) \/ UpdateOrderPushStatus(o, s) \/ UNCHANGED <<push, stale, refund>>
  PROVE  /\ push' \in [Orders -> PushStatuses]
         /\ stale' \in [Orders -> BOOLEAN]
         /\ refund' = refund
  BY DEF DataOK, SetPush, UpdateOrderPushStatus

LEMMA StartTypes ==
  ASSUME DataOK, WorkersOK, NEW w \in Workers, StartStep(w)
  PROVE  DataOK' /\ WorkersOK'
  <1> PICK o \in Orders :
        EnsurePaidOrderDelivery(w, o) \/ Recover(w, o) \/ Retry(w, o) \/ UserSends(w, o)
    BY DEF StartStep
  <1> USE DEF rowVars, centerVars
  <1>1. CASE EnsurePaidOrderDelivery(w, o) \/ Recover(w, o)
    <2>1. StartWorker(w, o, "begin", TRUE) /\ SetPush(o, "pending")
      BY <1>1 DEF EnsurePaidOrderDelivery, Recover
    <2> QED
      BY <1>1, <2>1, StartFacts, PushTypes
      DEF DataOK, EnsurePaidOrderDelivery, Recover, Places, PushStatuses
  <1>2. CASE Retry(w, o)
    <2>1. StartWorker(w, o, "begin", TRUE) /\ SetPush(o, "pending")
      BY <1>2 DEF Retry
    <2>2. retries' \in [Orders -> 0..MaxRetries]
      BY <1>2, DeliveryConstants DEF Retry, DataOK
    <2> QED
      BY <1>2, <2>1, <2>2, StartFacts, PushTypes DEF DataOK, Retry, Places, PushStatuses
  <1>3. CASE UserSends(w, o)
    BY <1>3, StartFacts DEF UserSends, DataOK, Places
  <1> QED
    BY <1>1, <1>2, <1>3

LEMMA WorkTypes ==
  ASSUME DataOK, WorkersOK, NEW w \in Workers, WorkStep(w)
  PROVE  DataOK' /\ WorkersOK'
  <1> DEFINE o == worker[w].order
  <1>0. worker[w].pc # "idle" /\ o \in Orders
    BY DEF WorkersOK, WorkStep, Look, Claim, Deliver, Refuse, Create, Release, RecordTemplate, Redrive,
      Submit, SubmitFails, Complete, Succeed, FailRecord, FailPush, Fail
  <1> USE <1>0 DEF rowVars, centerVars
  <1>1. CASE Look(w)
    <2>1. CASE Stop(w)
      BY <1>1, <2>1, StopFacts DEF Look, DataOK
    <2>2. CASE worker' = [worker EXCEPT ![w].pc = "claim", ![w].found = rec[o]]
      <3>1. [worker[w] EXCEPT !.pc = "claim", !.found = rec[o]] \in WorkerRecords
        BY ZenonT(30) DEF WorkersOK, DataOK, WorkerRecords, Places
      <3>2. worker' = [worker EXCEPT ![w] = [worker[w] EXCEPT !.pc = "claim", !.found = rec[o]]]
        BY <2>2
      <3> QED
        BY <1>1, <3>1, <3>2 DEF Look, DataOK, WorkersOK, WorkerRecords
    <2> QED
      BY <1>1, <2>1, <2>2 DEF Look
  <1>2. CASE Claim(w)
    <2>1. worker[w].found \in RecordStatuses
      BY DEF WorkersOK, WorkerRecords
    <2>2. WorkersOK'
      BY <1>2, <2>1, ProceedFacts, StopFacts DEF Claim
    <2>3. SetPush(o, "pending") \/ UNCHANGED <<push, stale, refund>>
      BY <1>2 DEF Claim
    <2> QED
      BY <1>2, <2>2, <2>3, PushTypes DEF Claim, DataOK, PushStatuses
  <1>3. CASE Deliver(w)
    <2>1. rec[o] \in RecordStatuses
      BY DEF DataOK
    <2>2. WorkersOK'
      BY <1>3, <2>1, ProceedFacts, StopFacts, AbandonFacts DEF Deliver, TakeForSent
    <2>3. UpdateOrderPushStatus(o, "success") \/ UNCHANGED <<push, stale, refund>>
      BY <1>3 DEF Deliver, TakeForSent
    <2> QED
      BY <1>3, <2>2, <2>3, PushTypes DEF Deliver, DataOK, PushStatuses
  <1>4. CASE Refuse(w)
    BY <1>4, AbandonFacts DEF Refuse, DataOK
  <1>5. CASE Create(w)
    <2>1. WorkersOK'
      BY <1>5, SubmissionFacts, GotoFacts, StopFacts DEF Create, Places
    <2>2. rec' \in [Orders -> RecordStatuses]
      BY <1>5 DEF Create, DataOK, RecordStatuses
    <2> QED
      BY <1>5, <2>1, <2>2 DEF Create, DataOK
  <1>6. CASE Release(w)
    <2>1. SetPush(o, "null") \/ UNCHANGED <<push, stale, refund>>
      BY <1>6 DEF Release
    <2> QED
      BY <1>6, <2>1, AbandonFacts, PushTypes DEF Release, DataOK, PushStatuses
  <1>7. CASE RecordTemplate(w)
    BY <1>7, SubmissionFacts DEF RecordTemplate, DataOK
  <1>8. CASE Redrive(w)
    BY <1>8, SubmissionFacts DEF Redrive, DataOK, RecordStatuses
  <1>9. CASE Submit(w)
    <2>1. WorkersOK'
      BY <1>9, GotoFacts, StopFacts DEF Submit, Places
    <2>2. accepted' \in [Orders -> BOOLEAN] /\ center' \in [Orders -> BOOLEAN]
      BY <1>9 DEF Submit, TakenByCenter, DataOK, Async
    <2> QED
      BY <1>9, <2>1, <2>2 DEF Submit, DataOK
  <1>10. CASE SubmitFails(w)
    BY <1>10, GotoFacts DEF SubmitFails, DataOK, Places
  <1>11. CASE Complete(w)
    BY <1>11, GotoFacts DEF Complete, DataOK, Places, RecordStatuses
  <1>12. CASE Succeed(w)
    BY <1>12, StopFacts, PushTypes DEF Succeed, DataOK, PushStatuses
  <1>13. CASE FailRecord(w)
    <2>1. CASE FailPromotion(w) \/ FailRedriven(w)
      <3>1. WorkersOK'
        BY <2>1, GotoFacts, StopFacts DEF FailPromotion, FailRedriven, Places
      <3> QED
        BY <1>13, <2>1, <3>1 DEF FailRecord, FailPromotion, FailRedriven, DataOK, RecordStatuses
    <2>2. CASE FailNotice(w)
      <3>1. SetPush(o, "failed") \/ UNCHANGED <<push, stale, refund>>
        BY <2>2 DEF FailNotice
      <3>2. rec' \in [Orders -> RecordStatuses]
        BY <2>2 DEF FailNotice, DataOK, RecordStatuses
      <3>3. WorkersOK'
        BY <2>2, AbandonFacts DEF FailNotice
      <3> QED
        BY <1>13, <2>2, <3>1, <3>2, <3>3, PushTypes DEF FailRecord, FailNotice, DataOK, PushStatuses
    <2> QED
      BY <1>13, <2>1, <2>2 DEF FailRecord
  <1>14. CASE FailPush(w)
    BY <1>14, AbandonFacts, PushTypes DEF FailPush, DataOK, PushStatuses
  <1>15. CASE Fail(w)
    BY <1>15, StopFacts, PushTypes DEF Fail, DataOK, PushStatuses
  <1> QED
    BY <1>1, <1>2, <1>3, <1>4, <1>5, <1>6, <1>7, <1>8, <1>9, <1>10, <1>11, <1>12, <1>13, <1>14, <1>15
    DEF WorkStep

LEMMA MishapTypes ==
  ASSUME DataOK, WorkersOK, NEW w \in Workers, MishapStep(w)
  PROVE  DataOK' /\ WorkersOK'
  <1> DEFINE o == worker[w].order
  <1>0. worker[w].pc # "idle" /\ o \in Orders
    BY DEF WorkersOK, MishapStep, CreateFails, RecordTemplateFails, RedriveFails, AnswerLost,
      CompleteFails, FailNoticeErrs, Crash
  <1>m. mishaps' \in 0..MaxMishaps
    BY DeliveryConstants DEF MishapStep, CreateFails, RecordTemplateFails, RedriveFails, AnswerLost,
      CompleteFails, FailNoticeErrs, Crash, Mishap, DataOK
  <1> USE <1>0, <1>m DEF rowVars, centerVars
  <1>1. CASE CreateFails(w)
    <2>1. WorkersOK'
      BY <1>1, GotoFacts, AbandonFacts DEF CreateFails, Places
    <2>2. rec' \in [Orders -> RecordStatuses]
      BY <1>1 DEF CreateFails, DataOK, RecordStatuses
    <2> QED
      BY <1>1, <2>1, <2>2 DEF CreateFails, DataOK
  <1>2. CASE RecordTemplateFails(w)
    BY <1>2, GotoFacts DEF RecordTemplateFails, DataOK, Places
  <1>3. CASE RedriveFails(w)
    BY <1>3, AbandonFacts DEF RedriveFails, DataOK
  <1>4. CASE AnswerLost(w)
    <2>1. accepted' \in [Orders -> BOOLEAN] /\ center' \in [Orders -> BOOLEAN]
      BY <1>4 DEF AnswerLost, TakenByCenter, DataOK, Async
    <2> QED
      BY <1>4, <2>1, GotoFacts DEF AnswerLost, DataOK, Places
  <1>5. CASE CompleteFails(w)
    BY <1>5, GotoFacts, AbandonFacts DEF CompleteFails, DataOK, Places
  <1>6. CASE FailNoticeErrs(w)
    BY <1>6, AbandonFacts, PushTypes DEF FailNoticeErrs, DataOK, PushStatuses
  <1>7. CASE Crash(w)
    BY <1>7, StopFacts DEF Crash, DataOK
  <1> QED
    BY <1>1, <1>2, <1>3, <1>4, <1>5, <1>6, <1>7 DEF MishapStep

LEMMA WorldTypes ==
  ASSUME DataOK, WorkersOK, NEW o \in Orders, WorldStep(o)
  PROVE  DataOK' /\ WorkersOK'
  <1> USE DEF rowVars, centerVars, DataOK, WorkersOK
  <1>1. CASE TimePasses(o)
    BY <1>1 DEF TimePasses
  <1>2. CASE CenterStarts(o) \/ CenterCompletes(o)
    BY <1>2 DEF CenterStarts, CenterCompletes, RecordStatuses
  <1>3. CASE CenterFails(o)
    BY <1>3, DeliveryConstants DEF CenterFails, Mishap, RecordStatuses
  <1>4. CASE RefundMoves(o)
    BY <1>4 DEF RefundMoves
  <1> QED
    BY <1>1, <1>2, <1>3, <1>4 DEF WorldStep

LEMMA TypeStep == TypeOK /\ [Next]_vars => TypeOK'
  <1> SUFFICES ASSUME TypeOK, [Next]_vars PROVE TypeOK'
    OBVIOUS
  <1>1. DataOK /\ WorkersOK
    BY TypeParts
  <1>2. CASE Next
    BY <1>1, <1>2, StartTypes, WorkTypes, MishapTypes, WorldTypes DEF Next, TypeOK, DataOK, WorkersOK
  <1>3. CASE UNCHANGED vars
    BY <1>3 DEF vars, rowVars, centerVars, TypeOK
  <1> QED
    BY <1>2, <1>3

\* The delivery columns of the orders, the records and the workers keep their types; the
\* retries of an order never exceed the limit of BeginOrderPushRetry.
THEOREM TypeCorrect == Spec => []TypeOK
<1>1. Init => TypeOK
  BY IdleFacts, DeliveryConstants
  DEF Init, TypeOK, PushStatuses, RecordStatuses
<1> QED
  BY <1>1, TypeStep, PTL DEF Spec

(***************************************************************************)
(* How a step may move push_status.                                        *)
(***************************************************************************)
\* Success is written by a worker whose submission was taken or that found the record
\* completed.
MaySucceed(o) ==
  \/ rec[o] = "completed"
  \/ \E w \in Workers : worker[w].pc = "succeed" /\ worker[w].order = o

PushMove(o) ==
  \/ push'[o] = push[o]
  \/ push[o] # "success" /\ push'[o] = "failed"
  \/ push'[o] = "success" /\ MaySucceed(o)
  \/ push[o] = "null" /\ push'[o] = "pending"
  \/ push[o] = "pending" /\ push'[o] \in {"pending", "null"}
  \/ push[o] = "failed" /\ push'[o] = "pending" /\ retries'[o] = retries[o] + 1

LEMMA SetPushFacts ==
  ASSUME DataOK, NEW p \in Orders, NEW s \in PushStatuses, SetPush(p, s), NEW o \in Orders
  PROVE  push'[o] = IF o = p THEN s ELSE push[o]
  BY DEF DataOK, SetPush

LEMMA UpdateFacts ==
  ASSUME DataOK, NEW p \in Orders, NEW s \in PushStatuses, UpdateOrderPushStatus(p, s),
         NEW o \in Orders
  PROVE  \/ push'[o] = push[o]
         \/ o = p /\ push'[o] = s /\ (push[o] = "success" => s = "success")
  BY SetPushFacts DEF UpdateOrderPushStatus

LEMMA StartPushMoves ==
  ASSUME DataOK, NEW w \in Workers, StartStep(w), NEW o \in Orders
  PROVE  PushMove(o)
  <1> PICK p \in Orders :
        EnsurePaidOrderDelivery(w, p) \/ Recover(w, p) \/ Retry(w, p) \/ UserSends(w, p)
    BY DEF StartStep
  <1> USE DEF PushMove, PushStatuses
  <1>1. CASE EnsurePaidOrderDelivery(w, p)
    BY <1>1, SetPushFacts DEF EnsurePaidOrderDelivery, Claimable
  <1>2. CASE Recover(w, p)
    BY <1>2, SetPushFacts DEF Recover, Recoverable
  <1>3. CASE Retry(w, p)
    BY <1>3, SetPushFacts DEF Retry, DataOK
  <1>4. CASE UserSends(w, p)
    BY <1>4 DEF UserSends, rowVars
  <1> QED
    BY <1>1, <1>2, <1>3, <1>4

LEMMA WorkPushMoves ==
  ASSUME DataOK, WorkersOK, NEW w \in Workers, WorkStep(w), NEW o \in Orders
  PROVE  PushMove(o)
  <1> USE DEF PushMove, PushStatuses, MaySucceed
  <1>0. worker[w].pc # "idle" => worker[w].order \in Orders
    BY DEF WorkersOK
  <1>1. CASE Claim(w)
    BY <1>0, <1>1, SetPushFacts DEF Claim, Claimable
  <1>2. CASE Deliver(w)
    BY <1>0, <1>2, UpdateFacts DEF Deliver, TakeForSent
  <1>3. CASE Release(w)
    BY <1>0, <1>3, SetPushFacts DEF Release
  <1>4. CASE Succeed(w)
    BY <1>0, <1>4, UpdateFacts DEF Succeed
  <1>5. CASE FailRecord(w)
    <2>1. CASE FailNotice(w)
      BY <1>0, <1>5, <2>1, SetPushFacts DEF FailRecord, FailNotice
    <2> QED
      BY <1>5, <2>1 DEF FailRecord, FailPromotion, FailRedriven, rowVars
  <1>6. CASE FailPush(w) \/ Fail(w)
    BY <1>0, <1>6, UpdateFacts DEF FailPush, Fail
  <1>7. CASE \/ Look(w) \/ Refuse(w) \/ Create(w) \/ RecordTemplate(w) \/ Redrive(w)
             \/ Submit(w) \/ SubmitFails(w) \/ Complete(w)
    BY <1>7 DEF Look, Refuse, Create, RecordTemplate, Redrive, Submit, SubmitFails, Complete, rowVars
  <1> QED
    BY <1>1, <1>2, <1>3, <1>4, <1>5, <1>6, <1>7 DEF WorkStep

LEMMA MishapPushMoves ==
  ASSUME DataOK, WorkersOK, NEW w \in Workers, MishapStep(w), NEW o \in Orders
  PROVE  PushMove(o)
  <1>1. CASE FailNoticeErrs(w)
    BY <1>1, UpdateFacts DEF FailNoticeErrs, PushMove, PushStatuses, WorkersOK
  <1>2. CASE \/ CreateFails(w) \/ RecordTemplateFails(w) \/ RedriveFails(w) \/ AnswerLost(w)
             \/ CompleteFails(w) \/ Crash(w)
    BY <1>2 DEF CreateFails, RecordTemplateFails, RedriveFails, AnswerLost, CompleteFails, Crash,
      rowVars, PushMove
  <1> QED
    BY <1>1, <1>2 DEF MishapStep

LEMMA PushMoves ==
  ASSUME TypeOK, [Next]_vars, NEW o \in Orders
  PROVE  PushMove(o)
  <1>1. DataOK /\ WorkersOK
    BY TypeParts
  <1>2. ASSUME NEW p \in Orders, WorldStep(p) PROVE PushMove(o)
    BY <1>2 DEF WorldStep, TimePasses, CenterStarts, CenterCompletes, CenterFails, RefundMoves,
      rowVars, PushMove
  <1>3. CASE UNCHANGED vars
    BY <1>3 DEF vars, rowVars, PushMove
  <1> QED
    BY <1>1, <1>2, <1>3, StartPushMoves, WorkPushMoves, MishapPushMoves DEF Next

\* Whatever workers are late, an order whose delivery succeeded is never shown as
\* failed, pending or unclaimed again: every UPDATE of push_status but the claims tests
\* for success, and the claims want another status.
THEOREM SuccessStands == Spec => SuccessIsFinal
<1>1. TypeOK /\ [Next]_vars =>
        [\A o \in Orders : push[o] = "success" => push'[o] = "success"]_vars
  BY PushMoves DEF PushMove
<1> QED
  BY <1>1, TypeCorrect, PTL DEF Spec, SuccessIsFinal

\* A failed delivery is taken up again by BeginOrderPushRetry only, which counts it: no
\* callback, recovery or repeated request claims it.
THEOREM FailedWaits == Spec => FailedWaitsForUser
<1>1. TypeOK /\ [Next]_vars =>
        [\A o \in Orders : push[o] = "failed" /\ push'[o] \in {"null", "pending"}
           => retries'[o] = retries[o] + 1]_vars
  BY PushMoves DEF PushMove
<1> QED
  BY <1>1, TypeCorrect, PTL DEF Spec, FailedWaitsForUser

(***************************************************************************)
(* Success is the message center's.                                        *)
(***************************************************************************)
\* A worker whose submission was taken and who has still to write it down.
Reporting(w, o) == worker[w].pc \in {"complete", "succeed"} /\ worker[w].order = o

AcceptedInv ==
  \A o \in Orders :
    push[o] = "success" \/ rec[o] = "completed" \/ center[o]
      \/ (\E w \in Workers : Reporting(w, o)) => accepted[o]

\* What the system knows of an order's message comes from what it knew or from a
\* submission that is taken in this step.
TakenMove(o) ==
  /\ accepted[o] => accepted'[o]
  /\ rec'[o] = "completed" => rec[o] = "completed" \/ center[o] \/ \E w \in Workers : Reporting(w, o)
  /\ center'[o] => center[o] \/ accepted'[o]

ReportMove(w) ==
  \A o \in Orders : Reporting(w, o)' => Reporting(w, o) \/ accepted'[o]

LEMMA OthersReport ==
  ASSUME NEW w \in Workers, NEW v \in Workers \ {w}, worker'[v] = worker[v]
  PROVE  ReportMove(v)
  BY DEF ReportMove, Reporting

LEMMA MovesReport ==
  ASSUME NEW w \in Workers, NEW p \in Places \ {"complete", "succeed"}, MovesTo(w, p) \/ Stops(w)
  PROVE  \A v \in Workers : ReportMove(v)
  BY OthersReport DEF ReportMove, Reporting, MovesTo, Stops

\* Whatever a worker does, it keeps its order until it stops.
LEMMA WorkMoves ==
  ASSUME DataOK, WorkersOK, NEW w \in Workers, WorkStep(w), worker[w].pc # "idle",
         worker[w].order \in Orders
  PROVE  \E pc \in Places : MovesTo(w, pc) \/ Stops(w)
  <1>0. worker[w].found \in RecordStatuses /\ rec[worker[w].order] \in RecordStatuses
    BY DEF WorkersOK, WorkerRecords, DataOK
  <1> USE GotoFacts, StopFacts, AbandonFacts DEF Places
  <1>1. CASE Look(w)
    <2>1. Stop(w) \/ worker' = [worker EXCEPT ![w].pc = "claim", ![w].found = rec[worker[w].order]]
      BY <1>1 DEF Look
    <2> QED
      BY SMTT(30), <2>1 DEF MovesTo, WorkersOK, WorkerRecords
  <1>2. CASE Claim(w) \/ Deliver(w) \/ Refuse(w)
    BY <1>0, <1>2, ProceedFacts DEF Claim, Deliver, TakeForSent, Refuse
  <1>3. CASE Create(w) \/ Release(w) \/ RecordTemplate(w) \/ Redrive(w)
    BY <1>3, SubmissionFacts DEF Create, Release, RecordTemplate, Redrive
  <1>4. CASE \/ Submit(w) \/ SubmitFails(w) \/ Complete(w) \/ Succeed(w)
             \/ FailRecord(w) \/ FailPush(w) \/ Fail(w)
    BY <1>4 DEF Submit, SubmitFails, Complete, Succeed, FailRecord, FailPromotion, FailRedriven,
      FailNotice, FailPush, Fail
  <1> QED
    BY <1>1, <1>2, <1>3, <1>4 DEF WorkStep

LEMMA MishapMoves ==
  ASSUME WorkersOK, NEW w \in Workers, MishapStep(w), worker[w].pc # "idle"
  PROVE  \E pc \in Places : MovesTo(w, pc) \/ Stops(w)
  BY GotoFacts, StopFacts, AbandonFacts
  DEF MishapStep, CreateFails, RecordTemplateFails, RedriveFails, AnswerLost, CompleteFails,
    FailNoticeErrs, Crash, Places

LEMMA StartTaken ==
  ASSUME DataOK, WorkersOK, NEW w \in Workers, StartStep(w)
  PROVE  (\A o \in Orders : TakenMove(o)) /\ (\A v \in Workers : ReportMove(v))
  <1> PICK p \in Orders :
        EnsurePaidOrderDelivery(w, p) \/ Recover(w, p) \/ Retry(w, p) \/ UserSends(w, p)
    BY DEF StartStep
  <1>1. UNCHANGED <<rec, center, accepted>>
    BY DEF EnsurePaidOrderDelivery, Recover, Retry, UserSends, centerVars
  <1>2. PICK pc \in {"begin", "look"}, b \in BOOLEAN : StartWorker(w, p, pc, b)
    BY DEF EnsurePaidOrderDelivery, Recover, Retry, UserSends
  <1>3. worker'[w].pc = pc /\ \A v \in Workers \ {w} : worker'[v] = worker[v]
    BY <1>2, StartFacts DEF Places
  <1> QED
    BY <1>1, <1>3 DEF TakenMove, ReportMove, Reporting

LEMMA WorkTaken ==
  ASSUME DataOK, WorkersOK, NEW w \in Workers, WorkStep(w)
  PROVE  (\A o \in Orders : TakenMove(o)) /\ (\A v \in Workers : ReportMove(v))
  <1> DEFINE p == worker[w].order
  <1>0. worker[w].pc # "idle" /\ p \in Orders
    BY DEF WorkersOK, WorkStep, Look, Claim, Deliver, Refuse, Create, Release, RecordTemplate, Redrive,
      Submit, SubmitFails, Complete, Succeed, FailRecord, FailPush, Fail
  <1> USE <1>0 DEF centerVars
  <1>1. CASE Look(w) \/ Claim(w) \/ Deliver(w) \/ Refuse(w)
    <2>1. UNCHANGED <<rec, center, accepted>>
      BY <1>1 DEF Look, Claim, Deliver, Refuse
    <2>2. CASE Look(w)
      <3>1. worker'[w].pc \in {"claim", "idle"} /\ \A v \in Workers \ {w} : worker'[v] = worker[v]
        BY <2>2, IdleFacts DEF Look, Stop, WorkersOK, WorkerRecords
      <3> QED
        BY <2>1, <3>1 DEF TakenMove, ReportMove, Reporting
    <2>3. CASE Claim(w) \/ Deliver(w) \/ Refuse(w)
      <3>1. worker[w].found \in RecordStatuses /\ rec[p] \in RecordStatuses
        BY DEF WorkersOK, WorkerRecords, DataOK
      <3>2. \E pc \in Places \ {"complete", "succeed"} : MovesTo(w, pc) \/ Stops(w)
        BY <2>3, <3>1, ProceedFacts, AbandonFacts, StopFacts
        DEF Claim, Deliver, TakeForSent, Refuse, Places
      <3> QED
        BY <2>1, <3>2, MovesReport DEF TakenMove
    <2> QED
      BY <1>1, <2>2, <2>3
  <1>2. CASE Create(w) \/ Release(w) \/ RecordTemplate(w) \/ Redrive(w)
    <2>1. UNCHANGED <<center, accepted>>
      BY <1>2 DEF Create, Release, RecordTemplate, Redrive
    <2>2. \A o \in Orders : rec'[o] = "completed" => rec[o] = "completed"
      BY <1>2 DEF Create, Release, RecordTemplate, Redrive, DataOK
    <2>3. \E pc \in Places \ {"complete", "succeed"} : MovesTo(w, pc) \/ Stops(w)
      BY <1>2, SubmissionFacts, GotoFacts, StopFacts, AbandonFacts
      DEF Create, Release, RecordTemplate, Redrive, Places
    <2> QED
      BY <2>1, <2>2, <2>3, MovesReport DEF TakenMove
  <1>3. CASE Submit(w)
    <2>1. \A o \in Orders : TakenMove(o)
      BY <1>3 DEF Submit, TakenByCenter, TakenMove, DataOK
    <2>2. MovesTo(w, "complete") \/ Stops(w)
      BY <1>3, GotoFacts, StopFacts DEF Submit, Places
    <2>3. accepted'[p]
      BY <1>3 DEF Submit, TakenByCenter, DataOK
    <2> QED
      BY <2>1, <2>2, <2>3 DEF ReportMove, Reporting, MovesTo, Stops
  <1>4. CASE SubmitFails(w) \/ Succeed(w) \/ FailRecord(w) \/ FailPush(w) \/ Fail(w)
    <2>1. UNCHANGED <<center, accepted>>
      BY <1>4 DEF SubmitFails, Succeed, FailRecord, FailPush, Fail
    <2>2. \A o \in Orders : rec'[o] = "completed" => rec[o] = "completed"
      BY <1>4 DEF SubmitFails, Succeed, FailRecord, FailPush, Fail, FailPromotion, FailRedriven,
        FailNotice, DataOK
    <2>3. \E pc \in Places \ {"complete", "succeed"} : MovesTo(w, pc) \/ Stops(w)
      BY <1>4, GotoFacts, StopFacts, AbandonFacts
      DEF SubmitFails, Succeed, FailRecord, FailPush, Fail, FailPromotion, FailRedriven, FailNotice, Places
    <2> QED
      BY <2>1, <2>2, <2>3, MovesReport DEF TakenMove
  <1>5. CASE Complete(w)
    <2>1. Reporting(w, p) /\ MovesTo(w, "succeed")
      BY <1>5, GotoFacts DEF Complete, Reporting, Places
    <2>2. \A o \in Orders : TakenMove(o)
      BY <1>5, <2>1 DEF Complete, TakenMove, DataOK
    <2> QED
      BY <2>1, <2>2 DEF ReportMove, Reporting, MovesTo
  <1> QED
    BY <1>1, <1>2, <1>3, <1>4, <1>5 DEF WorkStep

LEMMA MishapTaken ==
  ASSUME DataOK, WorkersOK, NEW w \in Workers, MishapStep(w)
  PROVE  (\A o \in Orders : TakenMove(o)) /\ (\A v \in Workers : ReportMove(v))
  <1>0. worker[w].pc # "idle"
    BY DEF MishapStep, CreateFails, RecordTemplateFails, RedriveFails, AnswerLost,
      CompleteFails, FailNoticeErrs, Crash
  <1>1. \E pc \in Places \ {"complete", "succeed"} : MovesTo(w, pc) \/ Stops(w)
    BY <1>0, GotoFacts, StopFacts, AbandonFacts
    DEF MishapStep, CreateFails, RecordTemplateFails, RedriveFails, AnswerLost, CompleteFails,
      FailNoticeErrs, Crash, Places
  <1>2. CASE AnswerLost(w)
    BY <1>1, <1>2, MovesReport DEF AnswerLost, TakenByCenter, TakenMove, DataOK
  <1>3. CASE \/ CreateFails(w) \/ RecordTemplateFails(w) \/ RedriveFails(w) \/ CompleteFails(w)
             \/ FailNoticeErrs(w) \/ Crash(w)
    <2>1. UNCHANGED <<center, accepted>>
      BY <1>3 DEF CreateFails, RecordTemplateFails, RedriveFails, CompleteFails, FailNoticeErrs,
        Crash, centerVars
    <2>2. \A o \in Orders : rec'[o] = "completed" => rec[o] = "completed"
      BY <1>3 DEF CreateFails, RecordTemplateFails, RedriveFails, CompleteFails, FailNoticeErrs,
        Crash, DataOK
    <2> QED
      BY <1>1, <2>1, <2>2, MovesReport DEF TakenMove
  <1> QED
    BY <1>2, <1>3 DEF MishapStep

LEMMA WorldTaken ==
  ASSUME DataOK, NEW p \in Orders, WorldStep(p)
  PROVE  (\A o \in Orders : TakenMove(o)) /\ (\A v \in Workers : ReportMove(v))
  <1>1. worker' = worker
    BY DEF WorldStep, TimePasses, CenterStarts, CenterCompletes, CenterFails, RefundMoves
  <1>2. \A o \in Orders : TakenMove(o)
    BY DEF WorldStep, TimePasses, CenterStarts, CenterCompletes, CenterFails, RefundMoves,
      centerVars, TakenMove, DataOK
  <1> QED
    BY <1>1, <1>2 DEF ReportMove, Reporting

LEMMA AcceptedStep ==
  ASSUME TypeOK, AcceptedInv, [Next]_vars
  PROVE  AcceptedInv'
  <1>1. DataOK /\ WorkersOK
    BY TypeParts
  <1>2. (\A o \in Orders : TakenMove(o)) /\ (\A v \in Workers : ReportMove(v))
    <2>1. CASE Next
      BY <1>1, <2>1, StartTaken, WorkTaken, MishapTaken, WorldTaken DEF Next
    <2>2. CASE UNCHANGED vars
      BY <2>2 DEF vars, centerVars, TakenMove, ReportMove, Reporting
    <2> QED
      BY <2>1, <2>2
  <1> SUFFICES ASSUME NEW o \in Orders,
                 \/ push'[o] = "success" \/ rec'[o] = "completed" \/ center'[o]
                 \/ \E w \in Workers : Reporting(w, o)'
               PROVE  accepted'[o]
    BY DEF AcceptedInv
  <1>3. accepted[o] => accepted'[o]
    BY <1>2 DEF TakenMove
  <1>4. CASE push'[o] = "success"
    <2>1. push[o] = "success" \/ MaySucceed(o)
      BY <1>4, PushMoves DEF PushMove
    <2> QED
      BY <1>3, <2>1 DEF MaySucceed, AcceptedInv, Reporting
  <1>5. CASE rec'[o] = "completed" \/ center'[o]
    BY <1>2, <1>3, <1>5 DEF TakenMove, AcceptedInv
  <1>6. CASE \E w \in Workers : Reporting(w, o)'
    BY <1>2, <1>3, <1>6 DEF ReportMove, AcceptedInv
  <1> QED
    BY <1>4, <1>5, <1>6

\* An order that says "success", and a record that says "completed", are those of a
\* message the message center took for that very order: no failure path, no notice of
\* another order and no retry writes them otherwise.
THEOREM SuccessIsAccepted == Spec => []SuccessMeansAccepted
<1>1. Init => AcceptedInv
  BY IdleFacts DEF Init, AcceptedInv, Reporting
<1>2. TypeOK /\ AcceptedInv /\ [Next]_vars => AcceptedInv'
  BY AcceptedStep
<1>3. AcceptedInv => SuccessMeansAccepted
  BY DEF AcceptedInv, SuccessMeansAccepted
<1> QED
  BY <1>1, <1>2, <1>3, TypeCorrect, PTL DEF Spec

(***************************************************************************)
(* Promotions: one delivery at a time.                                     *)
(***************************************************************************)
\* Where the delivery of a promotion may be, and where it is its goroutine's.
PromotionPlaces ==
  Places \ {"release", "redrive", "template", "complete", "succeed"}
DetachedPlaces == {"submit", "failRecord", "failPush"}

Promotion(o) == kind[o] = "email"
Promoting(w) == worker[w].pc # "idle" /\ Promotion(worker[w].order)

\* The claim of a promotion is one worker's, and stays fresh as long as it works.
ClaimInv ==
  /\ \A w \in Workers : Promoting(w) =>
       /\ worker[w].pc \in PromotionPlaces
       /\ worker[w].pc \in DetachedPlaces => ~worker[w].owed
  /\ \A w \in Workers, o \in Orders :
       Promotion(o) /\ Working(w, o) => push[o] = "pending" /\ ~stale[o]
  /\ \A o \in Orders, v, w \in Workers :
       Promotion(o) /\ Working(v, o) /\ Working(w, o) => v = w

\* What a step for order p leaves alone.
OnlyTouches(p) ==
  /\ kind' = kind
  /\ \A o \in Orders \ {p} : push'[o] = push[o] /\ stale'[o] = stale[o]

LEMMA StopKeepsClaims ==
  ASSUME ClaimInv, NEW w \in Workers, NEW p \in Orders, Working(w, p), Stops(w), OnlyTouches(p)
  PROVE  ClaimInv'
  BY DEF ClaimInv, Promotion, Promoting, Working, Stops, OnlyTouches, PromotionPlaces, DetachedPlaces,
    Places

LEMMA MoveKeepsClaims ==
  ASSUME ClaimInv, NEW w \in Workers, NEW p \in Orders, Working(w, p), NEW pc \in PromotionPlaces,
         MovesTo(w, pc), pc \in DetachedPlaces => ~worker'[w].owed, UNCHANGED <<kind, push, stale>>
  PROVE  ClaimInv'
  BY DEF ClaimInv, Promotion, Promoting, Working, MovesTo, PromotionPlaces, DetachedPlaces, Places

LEMMA ClaimKeepsClaims ==
  ASSUME ClaimInv, NEW w \in Workers, NEW p \in Orders,
         Promotion(p) => \A v \in Workers : ~Working(v, p),
         worker'[w].order = p, worker'[w].pc \in {"begin", "create", "submit"},
         worker'[w].pc = "submit" => ~worker'[w].owed,
         \A v \in Workers \ {w} : worker'[v] = worker[v],
         push'[p] = "pending", ~stale'[p], OnlyTouches(p)
  PROVE  ClaimInv'
  BY DEF ClaimInv, Promotion, Promoting, Working, OnlyTouches, PromotionPlaces, DetachedPlaces, Places

LEMMA WaitKeepsClaims ==
  ASSUME ClaimInv, NEW w \in Workers, worker'[w].pc \in {"idle", "look", "claim"},
         \A v \in Workers \ {w} : worker'[v] = worker[v], UNCHANGED <<kind, push, stale>>
  PROVE  ClaimInv'
  BY DEF ClaimInv, Promotion, Promoting, Working, PromotionPlaces, DetachedPlaces, Places

\* The delivery of a text message does not meddle with a promotion.
LEMMA OthersKeepClaims ==
  ASSUME ClaimInv, NEW w \in Workers, NEW p \in Orders, worker[w].order = p, ~Promotion(p),
         NEW pc \in Places, MovesTo(w, pc) \/ Stops(w), OnlyTouches(p)
  PROVE  ClaimInv'
  BY DEF ClaimInv, Promotion, Promoting, Working, MovesTo, Stops, OnlyTouches

LEMMA PushTouches ==
  ASSUME DataOK, NEW p \in Orders, NEW s \in PushStatuses,
         SetPush(p, s) \/ UpdateOrderPushStatus(p, s) \/ UNCHANGED <<push, stale, refund>>
  PROVE  kind' = kind => OnlyTouches(p)
  BY DEF DataOK, SetPush, UpdateOrderPushStatus, OnlyTouches

LEMMA StartClaims ==
  ASSUME DataOK, WorkersOK, ClaimInv, NEW w \in Workers, StartStep(w)
  PROVE  ClaimInv'
  <1> PICK p \in Orders :
        EnsurePaidOrderDelivery(w, p) \/ Recover(w, p) \/ Retry(w, p) \/ UserSends(w, p)
    BY DEF StartStep
  <1>1. CASE EnsurePaidOrderDelivery(w, p) \/ Recover(w, p) \/ Retry(w, p)
    <2>1. SetPush(p, "pending") /\ StartWorker(w, p, "begin", TRUE)
      BY <1>1 DEF EnsurePaidOrderDelivery, Recover, Retry
    <2>2. push[p] # "pending" \/ stale[p]
      BY <1>1 DEF EnsurePaidOrderDelivery, Recover, Retry, Claimable, Recoverable
    <2>3. Promotion(p) => \A v \in Workers : ~Working(v, p)
      BY <2>2 DEF ClaimInv
    <2>4. push'[p] = "pending" /\ ~stale'[p] /\ OnlyTouches(p)
      BY <1>1, <2>1, PushTouches DEF SetPush, DataOK, PushStatuses, EnsurePaidOrderDelivery, Recover, Retry
    <2> QED
      BY ZenonT(30), <2>1, <2>3, <2>4, StartFacts, ClaimKeepsClaims DEF Places
  <1>2. CASE UserSends(w, p)
    BY <1>2, StartFacts, WaitKeepsClaims DEF UserSends, Places, rowVars
  <1> QED
    BY <1>1, <1>2

LEMMA OtherWorkClaims ==
  ASSUME DataOK, WorkersOK, ClaimInv, NEW w \in Workers, WorkStep(w), ~Promotion(worker[w].order)
  PROVE  ClaimInv'
  <1> DEFINE p == worker[w].order
  <1>0. worker[w].pc # "idle" /\ p \in Orders
    BY DEF WorkersOK, WorkStep, Look, Claim, Deliver, Refuse, Create, Release, RecordTemplate, Redrive,
      Submit, SubmitFails, Complete, Succeed, FailRecord, FailPush, Fail
  <1>1. \E pc \in Places : MovesTo(w, pc) \/ Stops(w)
    BY <1>0, WorkMoves
  <1>2. OnlyTouches(p)
    <2> USE <1>0, PushTouches DEF PushStatuses
    <2>1. CASE Claim(w) \/ Deliver(w) \/ Release(w)
      BY <2>1 DEF Claim, Deliver, TakeForSent, Release
    <2>2. CASE Succeed(w) \/ FailPush(w) \/ Fail(w)
      BY <2>2 DEF Succeed, FailPush, Fail
    <2>3. CASE FailRecord(w)
      BY <2>3 DEF FailRecord, FailPromotion, FailRedriven, FailNotice, rowVars
    <2>4. CASE RecordTemplate(w)
      BY <2>4 DEF RecordTemplate, OnlyTouches, DataOK
    <2>5. CASE \/ Look(w) \/ Refuse(w) \/ Create(w) \/ Redrive(w) \/ Submit(w) \/ SubmitFails(w)
               \/ Complete(w)
      BY <2>5 DEF Look, Refuse, Create, Redrive, Submit, SubmitFails, Complete, rowVars, OnlyTouches
    <2> QED
      BY <2>1, <2>2, <2>3, <2>4, <2>5 DEF WorkStep
  <1> QED
    BY <1>0, <1>1, <1>2, OthersKeepClaims

LEMMA PromotionWorkClaims ==
  ASSUME DataOK, WorkersOK, ClaimInv, NEW w \in Workers, WorkStep(w), Promotion(worker[w].order)
  PROVE  ClaimInv'
  <1> DEFINE p == worker[w].order
  <1>0. /\ worker[w].pc # "idle" /\ p \in Orders
        /\ worker[w].pc \notin {"look", "claim"} => Working(w, p)
    BY DEF WorkersOK, WorkStep, Look, Claim, Deliver, Refuse, Create, Release, RecordTemplate, Redrive,
      Submit, SubmitFails, Complete, Succeed, FailRecord, FailPush, Fail, Working
  <1>k. kind[p] = "email" /\ Async(p)
    BY DEF Promotion, Async
  <1>p. /\ worker[w].pc \in PromotionPlaces
        /\ worker[w].pc \in DetachedPlaces => ~worker[w].owed
    BY <1>0 DEF ClaimInv, Promoting
  <1> USE <1>0
  <1>1. CASE Look(w)
    <2>1. worker'[w].pc \in {"claim", "idle"} /\ \A v \in Workers \ {w} : worker'[v] = worker[v]
      BY <1>1, IdleFacts DEF Look, Stop, WorkersOK, WorkerRecords
    <2> QED
      BY <1>1, <2>1, WaitKeepsClaims DEF Look, rowVars
  <1>2. CASE Claim(w)
    <2>1. CASE Claimable(p) /\ SetPush(p, "pending") /\ Proceed(w, worker[w].found)
      <3>1. worker[w].found \in RecordStatuses
        BY DEF WorkersOK, WorkerRecords
      <3>2. MovesTo(w, "create") \/ (MovesTo(w, "submit") /\ ~worker'[w].owed)
        BY <2>1, <3>1, <1>k, ProceedFacts
      <3>3. push'[p] = "pending" /\ ~stale'[p] /\ OnlyTouches(p)
        BY <1>2, <2>1, PushTouches DEF Claim, SetPush, DataOK, PushStatuses
      <3>4. Promotion(p) => \A v \in Workers : ~Working(v, p)
        BY <2>1 DEF ClaimInv, Claimable
      <3>5. /\ worker'[w].order = p /\ worker'[w].pc \in {"begin", "create", "submit"}
            /\ worker'[w].pc = "submit" => ~worker'[w].owed
            /\ \A v \in Workers \ {w} : worker'[v] = worker[v]
        BY <3>2 DEF MovesTo
      <3> QED
        BY <3>3, <3>4, <3>5, ClaimKeepsClaims
    <2>2. CASE Stop(w) /\ UNCHANGED <<push, stale, refund>>
      BY <1>2, <2>2, StopFacts, WaitKeepsClaims DEF Claim, Stops
    <2> QED
      BY <1>2, <2>1, <2>2 DEF Claim
  <1>3. CASE Deliver(w)
    <2>0. Working(w, p) /\ rec[p] \in RecordStatuses
      BY <1>3 DEF Deliver, DataOK
    <2>1. CASE UpdateOrderPushStatus(p, "success") /\ Stop(w)
      BY <1>3, <2>0, <2>1, StopFacts, PushTouches, StopKeepsClaims DEF Deliver, PushStatuses
    <2>2. CASE Proceed(w, rec[p]) /\ UNCHANGED <<push, stale, refund>>
      <3>1. MovesTo(w, "create") \/ (MovesTo(w, "submit") /\ ~worker'[w].owed)
        BY <2>0, <2>2, <1>k, ProceedFacts
      <3> QED
        BY <1>3, <2>0, <2>2, <3>1, MoveKeepsClaims DEF Deliver, PromotionPlaces, DetachedPlaces, Places
    <2>3. BranchNotices(p) = {}
      BY <1>k DEF BranchNotices
    <2> QED
      BY <1>3, <2>1, <2>2, <2>3 DEF Deliver, TakeForSent
  <1>4. CASE Refuse(w) \/ FailPush(w)
    <2>1. CASE Refuse(w)
      <3>1. Stops(w) \/ MovesTo(w, "fail")
        BY <2>1, AbandonFacts DEF Refuse
      <3>2. Working(w, p) /\ UNCHANGED <<kind, push, stale>> /\ OnlyTouches(p)
        BY <2>1 DEF Refuse, rowVars, OnlyTouches
      <3> QED
        BY <3>1, <3>2, StopKeepsClaims, MoveKeepsClaims DEF PromotionPlaces, DetachedPlaces, Places
    <2>2. CASE FailPush(w)
      <3>1. Working(w, p) /\ Stops(w)
        BY <2>2, <1>p, StopFacts DEF FailPush, Abandon, DetachedPlaces
      <3>2. OnlyTouches(p)
        BY <2>2, PushTouches DEF FailPush, PushStatuses
      <3> QED
        BY <3>1, <3>2, StopKeepsClaims
    <2> QED
      BY <1>4, <2>1, <2>2
  <1>5. CASE Create(w)
    <2>1. MovesTo(w, "submit") /\ ~worker'[w].owed
      BY <1>5, <1>k, SubmissionFacts DEF Create
    <2>2. Working(w, p) /\ UNCHANGED <<kind, push, stale>>
      BY <1>5 DEF Create, rowVars
    <2> QED
      BY <2>1, <2>2, MoveKeepsClaims DEF PromotionPlaces, Places
  <1>6. CASE Submit(w)
    <2>1. Working(w, p) /\ Stops(w) /\ OnlyTouches(p)
      BY <1>6, <1>k, StopFacts DEF Submit, rowVars, OnlyTouches
    <2> QED
      BY <2>1, StopKeepsClaims
  <1>7. CASE SubmitFails(w)
    <2>1. MovesTo(w, "failRecord") /\ ~worker'[w].owed
      BY <1>7, <1>p, GotoFacts DEF SubmitFails, MovesTo, DetachedPlaces, Places
    <2>2. Working(w, p) /\ UNCHANGED <<kind, push, stale>>
      BY <1>7 DEF SubmitFails, rowVars
    <2> QED
      BY <2>1, <2>2, MoveKeepsClaims DEF PromotionPlaces, Places
  <1>8. CASE FailRecord(w)
    <2>1. FailPromotion(w) /\ Working(w, p)
      BY <1>8, <1>k DEF FailRecord, FailRedriven, FailNotice
    <2>2. UNCHANGED <<kind, push, stale>> /\ OnlyTouches(p)
      BY <1>8, <2>1 DEF FailRecord, FailPromotion, rowVars, OnlyTouches
    <2>3. CASE Stop(w)
      BY <2>1, <2>2, <2>3, StopFacts, StopKeepsClaims
    <2>4. CASE Goto(w, "failPush")
      <3>1. MovesTo(w, "failPush") /\ ~worker'[w].owed
        BY <1>8, <1>p, <2>4, GotoFacts DEF FailRecord, MovesTo, DetachedPlaces, Places
      <3> QED
        BY <2>1, <2>2, <3>1, MoveKeepsClaims DEF PromotionPlaces, Places
    <2> QED
      BY <2>1, <2>3, <2>4 DEF FailPromotion
  <1>9. CASE Fail(w)
    <2>1. Working(w, p) /\ Stops(w)
      BY <1>9, StopFacts DEF Fail
    <2>2. OnlyTouches(p)
      BY <1>9, PushTouches DEF Fail, PushStatuses
    <2> QED
      BY <2>1, <2>2, StopKeepsClaims
  <1>10. ~(Release(w) \/ RecordTemplate(w) \/ Redrive(w) \/ Complete(w) \/ Succeed(w))
    BY <1>p DEF Release, RecordTemplate, Redrive, Complete, Succeed, PromotionPlaces
  <1> QED
    BY <1>1, <1>2, <1>3, <1>4, <1>5, <1>6, <1>7, <1>8, <1>9, <1>10 DEF WorkStep

LEMMA OtherMishapClaims ==
  ASSUME DataOK, WorkersOK, ClaimInv, NEW w \in Workers, MishapStep(w), ~Promotion(worker[w].order)
  PROVE  ClaimInv'
  <1> DEFINE p == worker[w].order
  <1>0. worker[w].pc # "idle" /\ p \in Orders
    BY DEF WorkersOK, MishapStep, CreateFails, RecordTemplateFails, RedriveFails, AnswerLost,
      CompleteFails, FailNoticeErrs, Crash
  <1>1. \E pc \in Places : MovesTo(w, pc) \/ Stops(w)
    BY <1>0, MishapMoves
  <1>2. OnlyTouches(p)
    <2>1. CASE FailNoticeErrs(w)
      BY <1>0, <2>1, PushTouches DEF FailNoticeErrs, PushStatuses
    <2>2. CASE \/ CreateFails(w) \/ RecordTemplateFails(w) \/ RedriveFails(w) \/ AnswerLost(w)
               \/ CompleteFails(w) \/ Crash(w)
      BY <2>2 DEF CreateFails, RecordTemplateFails, RedriveFails, AnswerLost, CompleteFails, Crash,
        rowVars, OnlyTouches
    <2> QED
      BY <2>1, <2>2 DEF MishapStep
  <1> QED
    BY <1>0, <1>1, <1>2, OthersKeepClaims

LEMMA PromotionMishapClaims ==
  ASSUME DataOK, WorkersOK, ClaimInv, NEW w \in Workers, MishapStep(w), Promotion(worker[w].order)
  PROVE  ClaimInv'
  <1> DEFINE p == worker[w].order
  <1>0. /\ worker[w].pc # "idle" /\ p \in Orders
        /\ worker[w].pc \notin {"look", "claim"} => Working(w, p)
    BY DEF WorkersOK, MishapStep, CreateFails, RecordTemplateFails, RedriveFails, AnswerLost,
      CompleteFails, FailNoticeErrs, Crash, Working
  <1>k. kind[p] = "email" /\ Async(p)
    BY DEF Promotion, Async
  <1>p. /\ worker[w].pc \in PromotionPlaces
        /\ worker[w].pc \in DetachedPlaces => ~worker[w].owed
    BY <1>0 DEF ClaimInv, Promoting
  <1> USE <1>0
  <1>1. CASE CreateFails(w)
    <2>1. Stops(w) \/ MovesTo(w, "fail")
      BY <1>1, <1>k, AbandonFacts DEF CreateFails
    <2>2. Working(w, p) /\ UNCHANGED <<kind, push, stale>> /\ OnlyTouches(p)
      BY <1>1 DEF CreateFails, rowVars, OnlyTouches
    <2> QED
      BY <2>1, <2>2, StopKeepsClaims, MoveKeepsClaims DEF PromotionPlaces, DetachedPlaces, Places
  <1>2. CASE AnswerLost(w)
    <2>1. MovesTo(w, "failRecord") /\ ~worker'[w].owed
      BY <1>2, <1>p, GotoFacts DEF AnswerLost, MovesTo, DetachedPlaces, Places
    <2>2. Working(w, p) /\ UNCHANGED <<kind, push, stale>>
      BY <1>2 DEF AnswerLost, rowVars
    <2> QED
      BY <2>1, <2>2, MoveKeepsClaims DEF PromotionPlaces, Places
  <1>3. CASE Crash(w)
    BY <1>3, StopFacts, WaitKeepsClaims DEF Crash, Stops, rowVars
  <1>4. ~(RecordTemplateFails(w) \/ RedriveFails(w) \/ CompleteFails(w) \/ FailNoticeErrs(w))
    BY <1>k, <1>p DEF RecordTemplateFails, RedriveFails, CompleteFails, FailNoticeErrs, PromotionPlaces
  <1> QED
    BY <1>1, <1>2, <1>3, <1>4 DEF MishapStep

LEMMA WorldClaims ==
  ASSUME DataOK, ClaimInv, NEW p \in Orders, WorldStep(p)
  PROVE  ClaimInv'
  <1>1. worker' = worker /\ push' = push /\ kind' = kind
    BY DEF WorldStep, TimePasses, CenterStarts, CenterCompletes, CenterFails, RefundMoves, rowVars
  <1>2. \A o \in Orders : stale'[o] => stale[o] \/ \A w \in Workers : ~Working(w, o)
    BY DEF WorldStep, TimePasses, CenterStarts, CenterCompletes, CenterFails, RefundMoves, rowVars, DataOK
  <1> QED
    BY <1>1, <1>2 DEF ClaimInv, Working, Promotion, Promoting

LEMMA ClaimStep ==
  ASSUME TypeOK, ClaimInv, [Next]_vars
  PROVE  ClaimInv'
  <1>1. DataOK /\ WorkersOK
    BY TypeParts
  <1>2. CASE Next
    BY <1>1, <1>2, StartClaims, OtherWorkClaims, PromotionWorkClaims,
      OtherMishapClaims, PromotionMishapClaims, WorldClaims DEF Next
  <1>3. CASE UNCHANGED vars
    BY <1>3 DEF vars, rowVars, ClaimInv, Working, Promotion, Promoting
  <1> QED
    BY <1>2, <1>3

LEMMA ClaimsHold == Spec => []ClaimInv
<1>1. Init => ClaimInv
  BY IdleFacts DEF Init, ClaimInv, Working, Promoting
<1>2. TypeOK /\ ClaimInv /\ [Next]_vars => ClaimInv'
  BY ClaimStep
<1> QED
  BY <1>1, <1>2, TypeCorrect, PTL DEF Spec

\* Email promotions are delivered by one worker at a time: callback, recovery, retry and
\* the user's request never deliver the same paid order together.
THEOREM PromotionsOneByOne == Spec => []OnePromotionAtATime
<1>1. ClaimInv => OnePromotionAtATime
  BY DEF ClaimInv, OnePromotionAtATime, Delivering, Promotion
<1> QED
  BY <1>1, ClaimsHold, PTL

\* A promotion the message center completed stays completed, although submissions are
\* repeated and their failure is reported late.
THEOREM CompletionsStand == Spec => PromotionsStayComplete
<1>1. ASSUME TypeOK, ClaimInv, Next, NEW o \in Orders, kind[o] = "email", rec[o] = "completed"
      PROVE  rec'[o] = "completed"
  <2>1. DataOK /\ WorkersOK
    BY <1>1, TypeParts
  <2>2. ASSUME NEW p \in Orders, WorldStep(p) PROVE rec'[o] = "completed"
    BY <1>1, <2>1, <2>2 DEF WorldStep, TimePasses, CenterStarts, CenterCompletes, CenterFails,
      RefundMoves, DataOK
  <2>3. ASSUME NEW w \in Workers, StartStep(w) PROVE rec'[o] = "completed"
    BY <1>1, <2>3 DEF StartStep, EnsurePaidOrderDelivery, Recover, Retry, UserSends
  <2>4. ASSUME NEW w \in Workers, WorkStep(w) PROVE rec'[o] = "completed"
    <3>1. CASE Redrive(w)
      <4>1. worker[w].order # o
        BY <1>1, <3>1 DEF ClaimInv, Promoting, Promotion, Redrive, PromotionPlaces
      <4> QED
        BY <1>1, <2>1, <3>1, <4>1 DEF Redrive, DataOK
    <3>2. CASE FailRecord(w)
      BY <1>1, <2>1, <3>2 DEF FailRecord, FailPromotion, FailRedriven, FailNotice, Async, DataOK
    <3>3. CASE Create(w) \/ Complete(w)
      BY <1>1, <2>1, <3>3 DEF Create, Complete, DataOK
    <3> QED
      BY <1>1, <2>4, <3>1, <3>2, <3>3
      DEF WorkStep, Look, Claim, Deliver, Refuse, Release, RecordTemplate, Submit, SubmitFails,
        Succeed, FailPush, Fail
  <2>5. ASSUME NEW w \in Workers, MishapStep(w) PROVE rec'[o] = "completed"
    BY <1>1, <2>1, <2>5 DEF MishapStep, CreateFails, RecordTemplateFails, RedriveFails, AnswerLost,
      CompleteFails, FailNoticeErrs, Crash, DataOK
  <2> QED
    BY <1>1, <2>2, <2>3, <2>4, <2>5 DEF Next
<1>2. TypeOK /\ ClaimInv /\ [Next]_vars =>
        [\A o \in Orders : kind[o] = "email" /\ rec[o] = "completed" => rec'[o] = "completed"]_vars
  BY <1>1
<1> QED
  BY <1>2, ClaimsHold, TypeCorrect, PTL DEF Spec, PromotionsStayComplete
=============================================================================
