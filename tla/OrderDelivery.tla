---------------------------- MODULE OrderDelivery ----------------------------
(***************************************************************************)
(* The delivery of what a paid order bought: an email promotion or a text  *)
(* message.  The column order.push_status says how far it is; whoever      *)
(* moves it to "pending" (a payment callback, the recovery loop, the       *)
(* user's retry, the user's own request) works on the delivery, writes the *)
(* record of it (email_promotion or olive_branch_sms_notice) and submits   *)
(* it to the message center.                                               *)
(*                                                                         *)
(* A worker is a request or a goroutine; between its statements everything *)
(* else may happen.  Promotions and invitation notices are submitted by a  *)
(* goroutine of their own and finished by the message center, which writes *)
(* the shared record; the other text messages are submitted and finished   *)
(* by the worker.  Only orders that carry a delivery intent are modelled,  *)
(* and the invitation notices concern one pending olive branch that is not *)
(* sent again meanwhile (a new interaction cycle would start afresh).      *)
(***************************************************************************)
EXTENDS Naturals, FiniteSets

CONSTANTS
  Orders,       \* paid orders with a delivery intent
  Kinds,        \* the kinds of delivery they may ask for
  Workers,      \* requests and goroutines that may run at once
  MaxRetries,   \* maxOrderPushRetries
  MaxMishaps,   \* a bound: crashes, failed statements and lost answers
  None          \* no order

AllKinds == {"email", "invite", "result", "application"}

ASSUME DeliveryConstants ==
  /\ Kinds \subseteq AllKinds
  /\ MaxRetries \in Nat
  /\ MaxMishaps \in Nat
  /\ None \notin Orders

VARIABLES
  kind,       \* what the delivery intent of each order asks for
  refund,     \* order.refund_status; the order is "refunded" when "done"
  push,       \* order.push_status
  stale,      \* order.updated_at is older than five minutes
  retries,    \* order.push_retry_count
  rec,        \* status of the order's email_promotion or sms_notice row
  center,     \* the message center works on a submission of the order
  accepted,   \* the message center took a submission of the order
  worker,     \* the deliveries under way: [pc, order, owed, found]
  mishaps     \* crashes, failed statements and lost answers so far

rowVars == <<refund, push, stale, retries>>
centerVars == <<center, accepted>>
vars == <<kind, rowVars, rec, centerVars, worker, mishaps>>

Places == {"idle", "look", "claim", "begin", "create", "release", "redrive", "template",
           "submit", "complete", "succeed", "failRecord", "failPush", "fail"}
PushStatuses == {"null", "pending", "success", "failed"}
RecordStatuses == {"none", "pending", "sending", "completed", "failed"}

\* owed: an error of the delivery is still to be written to the order by its caller
\* (markOrderDeliveryFailed, PushRetryService.fail); found: the record it read.
WorkerRecords ==
  [pc : Places, order : Orders \cup {None}, owed : BOOLEAN, found : RecordStatuses]

Idle == [pc |-> "idle", order |-> None, owed |-> FALSE, found |-> "none"]

TypeOK ==
  /\ kind \in [Orders -> Kinds]
  /\ refund \in [Orders -> {"none", "asked", "closed", "done"}]
  /\ push \in [Orders -> PushStatuses]
  /\ stale \in [Orders -> BOOLEAN]
  /\ retries \in [Orders -> 0..MaxRetries]
  /\ rec \in [Orders -> RecordStatuses]
  /\ center \in [Orders -> BOOLEAN]
  /\ accepted \in [Orders -> BOOLEAN]
  /\ worker \in [Workers -> WorkerRecords]
  /\ \A w \in Workers : worker[w].pc # "idle" => worker[w].order \in Orders
  /\ mishaps \in 0..MaxMishaps

Init ==
  /\ kind \in [Orders -> Kinds]
  /\ refund = [o \in Orders |-> "none"]
  /\ push = [o \in Orders |-> "null"]
  /\ stale = [o \in Orders |-> FALSE]
  /\ retries = [o \in Orders |-> 0]
  /\ rec = [o \in Orders |-> "none"]
  /\ center = [o \in Orders |-> FALSE]
  /\ accepted = [o \in Orders |-> FALSE]
  /\ worker = [w \in Workers |-> Idle]
  /\ mishaps = 0

(***************************************************************************)
(* The UPDATEs of push_status.  Each sets updated_at to NOW().             *)
(***************************************************************************)
SetPush(o, s) ==
  /\ push' = [push EXCEPT ![o] = s]
  /\ stale' = [stale EXCEPT ![o] = FALSE]
  /\ UNCHANGED refund

\* (Mutant: the UPDATE does not test for success.)
UpdateOrderPushStatus_Any(o, s) == SetPush(o, s)

\* UpdateOrderPushStatus and UpdateOrderPushStatusForUser.
UpdateOrderPushStatus(o, s) ==
  IF push[o] = "success" /\ s # "success" THEN UNCHANGED <<push, stale, refund>>
                                         ELSE SetPush(o, s)

Claimable(o) == refund[o] = "none" /\ push[o] = "null"

\* (Mutants: the recovery takes any pending order; only unclaimed ones; failed ones too.)
Recoverable_AnyPending(o) == refund[o] = "none" /\ push[o] \in {"null", "pending"}
Recoverable_Unclaimed(o) == refund[o] = "none" /\ push[o] = "null"
Recoverable_Failed(o) ==
  refund[o] = "none" /\ (push[o] \in {"null", "failed"} \/ (push[o] = "pending" /\ stale[o]))

Recoverable(o) ==
  refund[o] = "none" /\ (push[o] = "null" \/ (push[o] = "pending" /\ stale[o]))

(***************************************************************************)
(* Workers: where they go next, and who is working on a claimed order.     *)
(***************************************************************************)
Goto(w, pc) == worker' = [worker EXCEPT ![w].pc = pc]
Stop(w) == worker' = [worker EXCEPT ![w] = Idle]

\* The delivery returns an error to its caller.
Abandon(w) == IF worker[w].owed THEN Goto(w, "fail") ELSE Stop(w)

\* The statuses of notices that other orders have for the same olive branch.
BranchNotices(o) ==
  {rec[p] : p \in {q \in Orders \ {o} : kind[o] = "invite" /\ kind[q] = "invite" /\ rec[q] # "none"}}

Async(o) == kind[o] \in {"email", "invite"}

\* Promotions and invitation notices go on in a goroutine: nothing is owed any more.
StartSubmission(w) ==
  worker' = [worker EXCEPT ![w].pc = "submit",
                           ![w].owed = IF Async(worker[w].order) THEN FALSE ELSE @]

Mishap ==
  /\ mishaps < MaxMishaps
  /\ mishaps' = mishaps + 1

(***************************************************************************)
(* Starting a delivery.                                                    *)
(***************************************************************************)
StartWorker(w, o, pc, owed) ==
  /\ worker[w] = Idle
  /\ worker' = [worker EXCEPT ![w] = [pc |-> pc, order |-> o, owed |-> owed, found |-> "none"]]

\* The callback claims the delivery and detaches it from its request.
EnsurePaidOrderDelivery(w, o) ==
  /\ Claimable(o)
  /\ SetPush(o, "pending")
  /\ StartWorker(w, o, "begin", TRUE)
  /\ UNCHANGED <<kind, retries, rec, centerVars, mishaps>>

\* The recovery loop: the list and the claim of an entry have the same conditions.
Recover(w, o) ==
  /\ Recoverable(o)
  /\ SetPush(o, "pending")
  /\ StartWorker(w, o, "begin", TRUE)
  /\ UNCHANGED <<kind, retries, rec, centerVars, mishaps>>

\* PushRetryService.Retry.
Retry(w, o) ==
  /\ push[o] = "failed"
  /\ refund[o] = "none"
  /\ retries[o] < MaxRetries
  /\ SetPush(o, "pending")
  /\ retries' = [retries EXCEPT ![o] = @ + 1]
  /\ StartWorker(w, o, "begin", TRUE)
  /\ UNCHANGED <<kind, rec, centerVars, mishaps>>

\* The user asks for the delivery of a paid order: the record is read before the claim.
UserSends(w, o) ==
  /\ StartWorker(w, o, "look", FALSE)
  /\ UNCHANGED <<kind, rowVars, rec, centerVars, mishaps>>

Look(w) ==
  LET o == worker[w].order IN
  /\ worker[w].pc = "look"
  /\ \/ /\ refund[o] # "done"
        /\ \/ rec[o] = "none" /\ BranchNotices(o) = {}
           \/ kind[o] = "email" /\ rec[o] \in {"pending", "failed"}
           \/ kind[o] = "invite" /\ rec[o] = "failed"
        /\ worker' = [worker EXCEPT ![w].pc = "claim", ![w].found = rec[o]]
     \/ Stop(w)
  /\ UNCHANGED <<kind, rowVars, rec, centerVars, mishaps>>

\* Where a delivery goes that has claimed the order (or had it claimed) and read its record.
Proceed(w, found) ==
  IF found = "none" THEN worker' = [worker EXCEPT ![w].pc = "create", ![w].found = found]
  ELSE IF kind[worker[w].order] = "email"
       THEN worker' = [worker EXCEPT ![w].pc = "submit", ![w].owed = FALSE, ![w].found = found]
       ELSE worker' = [worker EXCEPT ![w].pc = "redrive", ![w].found = found]

\* markOrderPushPending and claimOrderPush.
Claim(w) ==
  LET o == worker[w].order IN
  /\ worker[w].pc = "claim"
  /\ \/ /\ Claimable(o)
        /\ SetPush(o, "pending")
        /\ Proceed(w, worker[w].found)
     \/ /\ ~Claimable(o)
        /\ UNCHANGED <<push, stale, refund>>
        /\ Stop(w)
  /\ UNCHANGED <<kind, retries, rec, centerVars, mishaps>>

\* (Mutant: the notice of another order counts for this one.)
TakeForSent_Succeeds(w) ==
  LET o == worker[w].order IN
  /\ rec[o] = "none"
  /\ BranchNotices(o) # {}
  /\ UpdateOrderPushStatus(o, "success")
  /\ Stop(w)

\* An invitation without a record of its own is taken for sent, and its order left as
\* it is, when the olive branch has a notice of another order that did not fail.
TakeForSent(w) ==
  LET o == worker[w].order IN
  /\ rec[o] = "none"
  /\ \E status \in BranchNotices(o) : IF status = "failed" THEN Abandon(w) ELSE Stop(w)
  /\ UNCHANGED <<push, stale, refund>>

\* PaidOrderDeliveryService.Deliver up to the record: of a completed one only the
\* order is brought up to date, any other one is submitted again.
Deliver(w) ==
  LET o == worker[w].order IN
  /\ worker[w].pc = "begin"
  /\ refund[o] # "done"
  /\ \/ /\ rec[o] = "completed"
        /\ UpdateOrderPushStatus(o, "success")
        /\ Stop(w)
     \/ TakeForSent(w)
     \/ /\ rec[o] # "completed"
        /\ rec[o] = "none" => BranchNotices(o) = {}
        /\ Proceed(w, rec[o])
        /\ UNCHANGED <<push, stale, refund>>
  /\ UNCHANGED <<kind, retries, rec, centerVars, mishaps>>

\* The order is not paid any more, or something the delivery needs is missing
\* (the project, its owner, a phone number, the message center).
Refuse(w) ==
  /\ worker[w].pc = "begin"
  /\ Abandon(w)
  /\ UNCHANGED <<kind, rowVars, rec, centerVars, mishaps>>

(***************************************************************************)
(* The record of the delivery.                                             *)
(***************************************************************************)
\* EmailPromotion.Create locks the order and takes the promotion that is there; the
\* INSERT of a notice meets the unique key on the order.  Of a notice that somebody
\* else inserted, an invitation is left alone, the notice of an olive branch's
\* outcome is used, and every other one makes the worker give its claim back.
Create(w) ==
  LET o == worker[w].order IN
  /\ worker[w].pc = "create"
  /\ \/ /\ kind[o] = "email"
        /\ rec' = [rec EXCEPT ![o] = IF @ = "none" THEN "pending" ELSE @]
        /\ StartSubmission(w)
     \/ /\ kind[o] # "email"
        /\ rec[o] = "none"
        /\ rec' = [rec EXCEPT ![o] = IF kind[o] = "invite" THEN "sending" ELSE "pending"]
        /\ Goto(w, "template")
     \/ /\ kind[o] # "email"
        /\ rec[o] # "none"
        /\ CASE kind[o] = "invite" -> Stop(w)
             [] kind[o] = "result" -> Goto(w, "template")
             [] OTHER -> Goto(w, "release")
        /\ UNCHANGED rec
  /\ UNCHANGED <<kind, rowVars, centerVars, mishaps>>

\* The INSERT fails, or took effect and the connection broke before its answer; of a
\* promotion, the selection of recipients or the wait for a free slot may fail too.
CreateFails(w) ==
  LET o == worker[w].order IN
  /\ worker[w].pc = "create"
  /\ Mishap
  /\ \/ UNCHANGED rec
     \/ rec[o] = "none" /\ rec' = [rec EXCEPT ![o] = IF kind[o] = "invite" THEN "sending" ELSE "pending"]
  /\ IF kind[o] = "email" THEN Abandon(w) ELSE Goto(w, "release")
  /\ UNCHANGED <<kind, rowVars, centerVars>>

\* releaseOrderPushClaim: back to unclaimed when there is no notice.
Release(w) ==
  LET o == worker[w].order IN
  /\ worker[w].pc = "release"
  /\ IF refund[o] = "none" /\ push[o] = "pending" /\ rec[o] = "none"
     THEN SetPush(o, "null")
     ELSE UNCHANGED <<push, stale, refund>>
  /\ Abandon(w)
  /\ UNCHANGED <<kind, retries, rec, centerVars, mishaps>>

\* recordOrderSmsTemplate writes to the order row as well.
RecordTemplate(w) ==
  /\ worker[w].pc = "template"
  /\ stale' = [stale EXCEPT ![worker[w].order] = FALSE]
  /\ StartSubmission(w)
  /\ UNCHANGED <<kind, refund, push, retries, rec, centerVars, mishaps>>

RecordTemplateFails(w) ==
  /\ worker[w].pc = "template"
  /\ Mishap
  /\ Goto(w, "failRecord")
  /\ UNCHANGED <<kind, rowVars, rec, centerVars>>

\* redriveByOrder: the notice read before is set to "sending", whatever it is by now.
Redrive(w) ==
  LET o == worker[w].order IN
  /\ worker[w].pc = "redrive"
  /\ rec' = [rec EXCEPT ![o] = "sending"]
  /\ StartSubmission(w)
  /\ UNCHANGED <<kind, rowVars, centerVars, mishaps>>

RedriveFails(w) ==
  /\ worker[w].pc = "redrive"
  /\ Mishap
  /\ Abandon(w)
  /\ UNCHANGED <<kind, rowVars, rec, centerVars>>

(***************************************************************************)
(* The submission, with its repetitions in one step.                       *)
(***************************************************************************)
TakenByCenter(o) ==
  /\ accepted' = [accepted EXCEPT ![o] = TRUE]
  /\ center' = [center EXCEPT ![o] = Async(o)]

\* The message center takes it; what it does with it is seen in the shared record.
Submit(w) ==
  LET o == worker[w].order IN
  /\ worker[w].pc = "submit"
  /\ TakenByCenter(o)
  /\ IF Async(o) THEN Stop(w) ELSE Goto(w, "complete")
  /\ UNCHANGED <<kind, rowVars, rec, mishaps>>

\* It takes it, and every answer is lost.
AnswerLost(w) ==
  /\ worker[w].pc = "submit"
  /\ Mishap
  /\ TakenByCenter(worker[w].order)
  /\ Goto(w, "failRecord")
  /\ UNCHANGED <<kind, rowVars, rec>>

\* It is refused, or the message center cannot be reached.
SubmitFails(w) ==
  /\ worker[w].pc = "submit"
  /\ Goto(w, "failRecord")
  /\ UNCHANGED <<kind, rowVars, rec, centerVars, mishaps>>

Complete(w) ==
  /\ worker[w].pc = "complete"
  /\ rec' = [rec EXCEPT ![worker[w].order] = "completed"]
  /\ Goto(w, "succeed")
  /\ UNCHANGED <<kind, rowVars, centerVars, mishaps>>

\* A first delivery then records a failure, a repeated one just returns the error.
CompleteFails(w) ==
  /\ worker[w].pc = "complete"
  /\ Mishap
  /\ IF worker[w].found = "none" THEN Goto(w, "failRecord") ELSE Abandon(w)
  /\ UNCHANGED <<kind, rowVars, rec, centerVars>>

Succeed(w) ==
  /\ worker[w].pc = "succeed"
  /\ UpdateOrderPushStatus(worker[w].order, "success")
  /\ Stop(w)
  /\ UNCHANGED <<kind, retries, rec, centerVars, mishaps>>

(***************************************************************************)
(* Failures.                                                               *)
(***************************************************************************)
\* markPromotionFailed: MarkFailedIfNotCompleted, and then the order.
FailPromotion(w) ==
  LET o == worker[w].order IN
  /\ kind[o] = "email"
  /\ IF rec[o] = "completed" THEN UNCHANGED rec /\ Stop(w)
                             ELSE rec' = [rec EXCEPT ![o] = "failed"] /\ Goto(w, "failPush")
  /\ UNCHANGED rowVars

\* A repeated synchronous message: the notice is written whatever it is by now.
FailRedriven(w) ==
  LET o == worker[w].order IN
  /\ ~Async(o)
  /\ worker[w].found # "none"
  /\ rec' = [rec EXCEPT ![o] = "failed"]
  /\ Goto(w, "failPush")
  /\ UNCHANGED rowVars

\* MarkFailedAndOrderPushIfNotCompleted: notice and order in one transaction, unless
\* either is final.
FailNotice(w) ==
  LET o == worker[w].order IN
  /\ kind[o] = "invite" \/ (~Async(o) /\ worker[w].found = "none")
  /\ IF rec[o] = "completed" \/ push[o] = "success"
     THEN UNCHANGED <<rec, push, stale, refund>>
     ELSE /\ rec' = [rec EXCEPT ![o] = "failed"]
          /\ SetPush(o, "failed")
  /\ Abandon(w)
  /\ UNCHANGED retries

FailRecord(w) ==
  /\ worker[w].pc = "failRecord"
  /\ FailPromotion(w) \/ FailRedriven(w) \/ FailNotice(w)
  /\ UNCHANGED <<kind, centerVars, mishaps>>

\* The transaction of failPreparedNotice (or the UPDATE of a repeated message's notice)
\* fails: the order alone is marked.
FailNoticeErrs(w) ==
  LET o == worker[w].order IN
  /\ worker[w].pc = "failRecord"
  /\ ~Async(o)
  /\ Mishap
  /\ UpdateOrderPushStatus(o, "failed")
  /\ Abandon(w)
  /\ UNCHANGED <<kind, retries, rec, centerVars>>

FailPush(w) ==
  /\ worker[w].pc = "failPush"
  /\ UpdateOrderPushStatus(worker[w].order, "failed")
  /\ Abandon(w)
  /\ UNCHANGED <<kind, retries, rec, centerVars, mishaps>>

\* markOrderDeliveryFailed and PushRetryService.fail.
Fail(w) ==
  /\ worker[w].pc = "fail"
  /\ UpdateOrderPushStatus(worker[w].order, "failed")
  /\ Stop(w)
  /\ UNCHANGED <<kind, retries, rec, centerVars, mishaps>>

\* The process stops, or a statement whose error is only logged fails.
Crash(w) ==
  /\ worker[w].pc # "idle"
  /\ Mishap
  /\ Stop(w)
  /\ UNCHANGED <<kind, rowVars, rec, centerVars>>

(***************************************************************************)
(* The rest of the world.                                                  *)
(***************************************************************************)
\* Whoever has claimed an order and still has a statement to execute for it; and
\* whoever is delivering it, not just writing down that the delivery failed.
Working(w, o) == worker[w].order = o /\ worker[w].pc \notin {"idle", "look", "claim"}
Delivering(w, o) == Working(w, o) /\ worker[w].pc # "fail"

\* Five minutes pass: a delivery ends within its thirty seconds and the five of a
\* compensation, a submission within three calls of three seconds.
TimePasses(o) ==
  /\ push[o] = "pending"
  /\ ~stale[o]
  /\ \A w \in Workers : ~Working(w, o)
  /\ stale' = [stale EXCEPT ![o] = TRUE]
  /\ UNCHANGED <<kind, refund, push, retries, rec, centerVars, worker, mishaps>>

\* The message center (external) works on promotions and invitations, repeated
\* submissions of one record being one piece of work; it owns the record then.
CenterStarts(o) ==
  /\ center[o]
  /\ rec[o] = "pending"
  /\ rec' = [rec EXCEPT ![o] = "sending"]
  /\ UNCHANGED <<kind, rowVars, centerVars, worker, mishaps>>

CenterCompletes(o) ==
  /\ center[o]
  /\ rec' = [rec EXCEPT ![o] = "completed"]
  /\ center' = [center EXCEPT ![o] = FALSE]
  /\ UNCHANGED <<kind, rowVars, accepted, worker, mishaps>>

CenterFails(o) ==
  /\ center[o]
  /\ Mishap
  /\ rec' = [rec EXCEPT ![o] = IF @ = "completed" THEN @ ELSE "failed"]
  /\ center' = [center EXCEPT ![o] = FALSE]
  /\ UNCHANGED <<kind, rowVars, accepted, worker>>

\* A refund is asked for and then carried out, or rejected or withdrawn: the
\* three statements of OrderLifecycle as this component sees them.
RefundMoves(o) ==
  /\ \/ refund[o] = "none" /\ refund' = [refund EXCEPT ![o] = "asked"]
     \/ refund[o] = "asked" /\ \E r \in {"closed", "done"} : refund' = [refund EXCEPT ![o] = r]
  /\ stale' = [stale EXCEPT ![o] = FALSE]
  /\ UNCHANGED <<kind, push, retries, rec, centerVars, worker, mishaps>>

(***************************************************************************)
(* The system.                                                             *)
(***************************************************************************)
StartStep(w) ==
  \E o \in Orders :
    EnsurePaidOrderDelivery(w, o) \/ Recover(w, o) \/ Retry(w, o) \/ UserSends(w, o)

WorkStep(w) ==
  \/ Look(w) \/ Claim(w) \/ Deliver(w) \/ Refuse(w)
  \/ Create(w) \/ Release(w) \/ RecordTemplate(w) \/ Redrive(w)
  \/ Submit(w) \/ SubmitFails(w) \/ Complete(w) \/ Succeed(w)
  \/ FailRecord(w) \/ FailPush(w) \/ Fail(w)

MishapStep(w) ==
  \/ CreateFails(w) \/ RecordTemplateFails(w) \/ RedriveFails(w) \/ AnswerLost(w)
  \/ CompleteFails(w) \/ FailNoticeErrs(w) \/ Crash(w)

WorldStep(o) ==
  TimePasses(o) \/ CenterStarts(o) \/ CenterCompletes(o) \/ CenterFails(o) \/ RefundMoves(o)

Next ==
  \/ \E w \in Workers : StartStep(w) \/ WorkStep(w) \/ MishapStep(w)
  \/ \E o \in Orders : WorldStep(o)

Spec == Init /\ [][Next]_vars

\* Requests and goroutines end, the recovery loop runs every thirty seconds and has a
\* free slot again and again, and the message center finishes what it took, not always
\* in the moment between the two statements of a worker that redrives the order.
Fairness ==
  /\ \A w \in Workers : WF_vars(WorkStep(w))
  /\ \A o \in Orders : SF_vars(\E w \in Workers : Recover(w, o))
  /\ \A o \in Orders : WF_vars(TimePasses(o))
  /\ \A o \in Orders : SF_vars(CenterCompletes(o) /\ \A w \in Workers : ~Working(w, o))

FairSpec == Spec /\ Fairness

(***************************************************************************)
(* Properties.                                                             *)
(***************************************************************************)
\* A claim is for one delivery attempt: no two workers deliver an order at once,
\* whatever callbacks, recovery, retries and requests of the user there are.
\* (Refuted for SMS notices, whose claim is given back too early: see README.md.)
OneDeliveryAtATime ==
  \A o \in Orders, v, w \in Workers : Delivering(v, o) /\ Delivering(w, o) => v = w

\* So it is for email promotions, which never give a claim back.
OnePromotionAtATime ==
  \A o \in Orders, v, w \in Workers :
    kind[o] = "email" /\ Delivering(v, o) /\ Delivering(w, o) => v = w

\* What the message center completed stays completed in the shared record, although
\* submissions time out, are repeated and report failure late.
\* (Refuted for SMS notices, whose record is written back whole: see README.md.)
CompletionIsFinal ==
  [][\A o \in Orders : rec[o] = "completed" => rec'[o] = "completed"]_vars

\* So it does in the record of an email promotion, which is submitted as it stands.
PromotionsStayComplete ==
  [][\A o \in Orders : kind[o] = "email" /\ rec[o] = "completed" => rec'[o] = "completed"]_vars

\* A delivery that succeeded is never shown as failed, pending or unclaimed again by a
\* worker that is late.
SuccessIsFinal ==
  [][\A o \in Orders : push[o] = "success" => push'[o] = "success"]_vars

\* Success, of an order or of a record, is the message center's: it took the message.
SuccessMeansAccepted ==
  \A o \in Orders : push[o] = "success" \/ rec[o] = "completed" => accepted[o]

\* A failed delivery is not taken up again but by the user's retry, which is counted.
FailedWaitsForUser ==
  [][\A o \in Orders : push[o] = "failed" /\ push'[o] \in {"null", "pending"}
       => retries'[o] = retries[o] + 1]_vars

\* A paid order whose delivery is wanted ends as delivered or as failed (or its refund
\* is asked for), through crashes, lost answers and abandoned claims.
DeliverySettles ==
  \A o \in Orders :
    push[o] \in {"null", "pending"} ~> push[o] \in {"success", "failed"} \/ refund[o] # "none"
=============================================================================
