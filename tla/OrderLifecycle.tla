--------------------------- MODULE OrderLifecycle ---------------------------
(***************************************************************************)
(* The row of an order and everything that writes it up to the moment a    *)
(* paid order is handed to delivery: creation, the user's cancellation,    *)
(* the payment callbacks of WeChat Pay (JSAPI) and of virtual payment, the *)
(* refund requests of users and school administrators, and the commission  *)
(* settlement of the school's administrators.                              *)
(*                                                                         *)
(* Every SQL statement, and every transaction that locks the rows it       *)
(* reads, is one action.  A handler that reads a row without a lock and    *)
(* writes it in a later statement is two actions, with the values it read  *)
(* kept in between: the cancellation, the two callbacks, and the refund    *)
(* decisions of a school administrator.                                    *)
(***************************************************************************)
EXTENDS Naturals, FiniteSets

CONSTANTS
  Orders,           \* order rows
  BenefitOrders,    \* those of a benefit product: delivered afterwards, buying no quota
  Attempts,         \* out_trade_no's: each InitiatePayment makes a new one
  VirtualAttempts,  \* those signed by InitiateVirtualPayment
  Callbacks,        \* callback requests the server can be executing at once
  SchoolAdmins,     \* school super administrators who apply for and decide refunds
  Beneficiaries,    \* school super administrators who earn commission
  FailureReports,   \* whether the provider reports trade states other than SUCCESS
  None              \* the NULL of a column, or no session

ASSUME OrderConstants ==
  /\ BenefitOrders \subseteq Orders
  /\ VirtualAttempts \subseteq Attempts
  /\ FailureReports \in BOOLEAN
  /\ None \notin Orders \cup Attempts \cup SchoolAdmins
  /\ "consumer" \notin SchoolAdmins

VARIABLES
  status,       \* order.status, "absent" before the INSERT
  refund,       \* order.refund_status
  settle,       \* order.settlement_status
  applicant,    \* order.refund_applicant_type and refund_applicant_admin_id
  paidBy,       \* order.wx_pay_no: the attempt the recorded payment came from
  push,         \* order.push_status
  grants,       \* how many times the quota the order buys was added to its user
  attempt,      \* the provider's side of each attempt: [order, state, covers]
  cancelling,   \* orders whose CancelOrder has read "pending" and not yet written
  callback,     \* the callback requests being executed: [pc, attempt]
  decision,     \* the refund decision a school administrator is executing: [act, order]
  payouts,      \* settlement_record_order rows, counted per order and beneficiary
  related,      \* beneficiaries with a row in admin_school_relation
  enabled       \* beneficiaries whose admin_user.status is enabled

rowVars == <<status, refund, settle, applicant, paidBy, push, grants>>
refundVars == <<refund, settle, applicant>>
settlementVars == <<payouts, related, enabled>>
sessionVars == <<cancelling, callback, decision>>
vars == <<rowVars, attempt, sessionVars, settlementVars>>

Statuses == {"absent", "pending", "paid", "cancelled", "refunded"}
RefundStatuses == {"none", "requested", "refunded", "rejected", "withdrawn"}
DecidedRefunds == {"refunded", "rejected", "withdrawn"}
SettlementStatuses == {"unsettled", "settled", "na", "frozen"}
PushStatuses == {"null", "pending", "success", "failed"}
AttemptStates == {"unused", "open", "paid", "acked", "failed", "reported"}
Applicants == {"consumer"} \cup SchoolAdmins

AttemptRecords ==
  [order : Orders \cup {None}, state : AttemptStates, covers : SUBSET Beneficiaries]
CallbackRequests == [pc : {"idle", "process", "deliver"}, attempt : Attempts \cup {None}]
RefundDecisions == [act : {"none", "reject", "withdraw"}, order : Orders \cup {None}]

IdleCallback == [pc |-> "idle", attempt |-> None]
IdleDecision == [act |-> "none", order |-> None]

TypeOK ==
  /\ status \in [Orders -> Statuses]
  /\ refund \in [Orders -> RefundStatuses]
  /\ settle \in [Orders -> SettlementStatuses]
  /\ applicant \in [Orders -> Applicants \cup {None}]
  /\ paidBy \in [Orders -> Attempts \cup {None}]
  /\ push \in [Orders -> PushStatuses]
  /\ grants \in [Orders -> Nat]
  /\ attempt \in [Attempts -> AttemptRecords]
  /\ \A a \in Attempts : attempt[a].state # "unused" => attempt[a].order \in Orders
  /\ cancelling \subseteq Orders
  /\ callback \in [Callbacks -> CallbackRequests]
  /\ \A c \in Callbacks :
       callback[c].pc # "idle" => /\ callback[c].attempt \in Attempts
                                  /\ attempt[callback[c].attempt].order \in Orders
  /\ decision \in [SchoolAdmins -> RefundDecisions]
  /\ \A adm \in SchoolAdmins : decision[adm].act # "none" => decision[adm].order \in Orders
  /\ payouts \in [Orders -> [Beneficiaries -> Nat]]
  /\ related \subseteq Beneficiaries
  /\ enabled \subseteq Beneficiaries

Init ==
  /\ status = [o \in Orders |-> "absent"]
  /\ refund = [o \in Orders |-> "none"]
  /\ settle = [o \in Orders |-> "na"]
  /\ applicant = [o \in Orders |-> None]
  /\ paidBy = [o \in Orders |-> None]
  /\ push = [o \in Orders |-> "null"]
  /\ grants = [o \in Orders |-> 0]
  /\ attempt = [a \in Attempts |-> [order |-> None, state |-> "unused", covers |-> {}]]
  /\ cancelling = {}
  /\ callback = [c \in Callbacks |-> IdleCallback]
  /\ decision = [adm \in SchoolAdmins |-> IdleDecision]
  /\ payouts = [o \in Orders |-> [b \in Beneficiaries |-> 0]]
  /\ related \in SUBSET Beneficiaries
  /\ enabled = Beneficiaries

(***************************************************************************)
(* The user: create, start a payment, cancel.                              *)
(***************************************************************************)
CreateOrder(o) ==
  /\ status[o] = "absent"
  /\ status' = [status EXCEPT ![o] = "pending"]
  /\ UNCHANGED <<refund, settle, applicant, paidBy, push, grants,
                 attempt, sessionVars, settlementVars>>

\* InitiatePayment and InitiateVirtualPayment: the unlocked read of a pending
\* order is followed by a prepay order (or a signature) that nobody has paid
\* yet; what can happen to the order between the two can as well happen before
\* the user pays, so one action stands for both.
InitiatePayment(a, o) ==
  /\ attempt[a].state = "unused"
  /\ status[o] = "pending"
  /\ attempt' = [attempt EXCEPT ![a].order = o, ![a].state = "open"]
  /\ UNCHANGED <<rowVars, sessionVars, settlementVars>>

CancelRead(o) ==
  /\ status[o] = "pending"
  /\ o \notin cancelling
  /\ cancelling' = cancelling \cup {o}
  /\ UNCHANGED <<rowVars, attempt, callback, decision, settlementVars>>

\* UpdateStatus has no condition on the status the row has by now.
CancelWrite(o) ==
  /\ o \in cancelling
  /\ status' = [status EXCEPT ![o] = "cancelled"]
  /\ cancelling' = cancelling \ {o}
  /\ UNCHANGED <<refund, settle, applicant, paidBy, push, grants,
                 attempt, callback, decision, settlementVars>>

(***************************************************************************)
(* The payment provider (external): it takes the money of an open attempt, *)
(* or closes the attempt without success, and notifies the outcome.  The   *)
(* pay_time of an order is that of the attempt, so the beneficiaries whose *)
(* relation is not younger than the payment are known when the user pays.  *)
(***************************************************************************)
UserPays(a) ==
  /\ attempt[a].state = "open"
  /\ attempt' = [attempt EXCEPT ![a].state = "paid", ![a].covers = related]
  /\ UNCHANGED <<rowVars, sessionVars, settlementVars>>

AttemptFails(a) ==
  /\ FailureReports
  /\ attempt[a].state = "open"
  /\ a \notin VirtualAttempts
  /\ attempt' = [attempt EXCEPT ![a].state = "failed"]
  /\ UNCHANGED <<rowVars, sessionVars, settlementVars>>

(***************************************************************************)
(* The callbacks.                                                          *)
(***************************************************************************)
\* WechatPayCallback and VirtualPaymentCallback up to the unlocked read of the
\* order.  The provider sends the notice again until it is acknowledged, and
\* may send it again afterwards.
ReceiveSuccess(c, a) ==
  /\ callback[c].pc = "idle"
  /\ attempt[a].state \in {"paid", "acked"}
  /\ callback' = [callback EXCEPT ![c] =
       [pc |-> IF status[attempt[a].order] = "paid" THEN "deliver" ELSE "process",
        attempt |-> a]]
  /\ UNCHANGED <<rowVars, attempt, cancelling, decision, settlementVars>>

\* (Mutant: a failure notice leaves the status of a paid order alone, not its number.)
ReceiveFailure_KeepsPaid(a) ==
  /\ attempt[a].state = "failed"
  /\ attempt' = [attempt EXCEPT ![a].state = "reported"]
  /\ LET o == attempt[a].order IN
       /\ status' = [status EXCEPT ![o] = IF @ = "paid" THEN @ ELSE "cancelled"]
       /\ paidBy' = [paidBy EXCEPT ![o] = None]
  /\ UNCHANGED <<refund, settle, applicant, push, grants, sessionVars, settlementVars>>

\* WechatPayCallback on any other trade state: MarkPaymentFailed updates the row
\* whatever its status, drops the error of the update, and the notice is
\* acknowledged.  (A bound: the provider reports a failed attempt once.)
ReceiveFailure(a) ==
  /\ attempt[a].state = "failed"
  /\ attempt' = [attempt EXCEPT ![a].state = "reported"]
  /\ LET o == attempt[a].order IN
       \/ /\ status' = [status EXCEPT ![o] = "cancelled"]
          /\ paidBy' = [paidBy EXCEPT ![o] = None]
       \/ UNCHANGED <<status, paidBy>>
  /\ UNCHANGED <<refund, settle, applicant, push, grants, sessionVars, settlementVars>>

\* (Mutants: a cancelled order may be paid, always or never; anything not yet paid may.)
canProcessPaymentStatus_Cancelled(st, acceptCancelled) == st \in {"pending", "cancelled"}
canProcessPaymentStatus_Pending(st, acceptCancelled) == st = "pending"
canProcessPaymentStatus_Unpaid(st, acceptCancelled) == st # "paid"

canProcessPaymentStatus(st, acceptCancelled) ==
  st = "pending" \/ (acceptCancelled /\ st = "cancelled")

\* (Mutant: a payment opens the order to settlement whatever became of its refund.)
SettlementOfPaid_Always(o) == "unsettled"

\* The CASE of UpdatePaymentStatusTx.
SettlementOfPaid(o) == IF refund[o] = "none" THEN "unsettled" ELSE settle[o]

\* processPayment: SELECT ... FOR UPDATE, UpdatePaymentStatusTx, the quota of a
\* virtual product, COMMIT.  An order found paid is not written.
ProcessPayment(c) ==
  /\ callback[c].pc = "process"
  /\ LET a == callback[c].attempt
         o == attempt[a].order
     IN \/ /\ status[o] = "paid"
           /\ UNCHANGED rowVars
        \/ /\ canProcessPaymentStatus(status[o], a \in VirtualAttempts)
           /\ status' = [status EXCEPT ![o] = "paid"]
           /\ settle' = [settle EXCEPT ![o] = SettlementOfPaid(o)]
           /\ paidBy' = [paidBy EXCEPT ![o] = a]
           /\ grants' = [grants EXCEPT ![o] = IF o \in BenefitOrders THEN @ ELSE @ + 1]
           /\ UNCHANGED <<refund, applicant, push>>
  /\ callback' = [callback EXCEPT ![c].pc = "deliver"]
  /\ UNCHANGED <<attempt, cancelling, decision, settlementVars>>

\* EnsurePaidOrderDelivery claims the delivery of a benefit order, once; the notice
\* is acknowledged also when the claim fails, which is then left to the recovery.
EnsurePaidOrderDelivery(c) ==
  /\ callback[c].pc = "deliver"
  /\ LET a == callback[c].attempt
         o == attempt[a].order
     IN /\ \/ /\ o \in BenefitOrders
              /\ status[o] = "paid"
              /\ refund[o] = "none"
              /\ push[o] = "null"
              /\ push' = [push EXCEPT ![o] = "pending"]
           \/ UNCHANGED push
        /\ attempt' = [attempt EXCEPT ![a].state = "acked"]
  /\ callback' = [callback EXCEPT ![c] = IdleCallback]
  /\ UNCHANGED <<status, refund, settle, applicant, paidBy, grants,
                 cancelling, decision, settlementVars>>

\* A status that cannot be paid, an error of the database (also one reported by
\* a COMMIT that took effect), or a crash: the provider sees no success.
CallbackFails(c) ==
  /\ callback[c].pc # "idle"
  /\ callback' = [callback EXCEPT ![c] = IdleCallback]
  /\ UNCHANGED <<rowVars, attempt, cancelling, decision, settlementVars>>

(***************************************************************************)
(* Refunds.  The reads of ApplyRefund and of the user's WithdrawRefund test *)
(* no more than the conditions of their UPDATE, so the UPDATE is the action.*)
(***************************************************************************)
\* UpdateRefundApply, by the user or by a school administrator.
ApplyRefund(o, who) ==
  /\ status[o] = "paid"
  /\ refund[o] = "none"
  /\ refund' = [refund EXCEPT ![o] = "requested"]
  /\ applicant' = [applicant EXCEPT ![o] = who]
  /\ settle' = [settle EXCEPT ![o] = IF @ = "unsettled" THEN "frozen" ELSE @]
  /\ UNCHANGED <<status, paidBy, push, grants, attempt, sessionVars, settlementVars>>

\* AdminRejectRefund and repository.WithdrawRefund: a pending request is closed
\* and the order goes back to where settlement left it.
CloseRefund(o, outcome) ==
  /\ refund[o] = "requested"
  /\ refund' = [refund EXCEPT ![o] = outcome]
  /\ settle' = [settle EXCEPT ![o] = IF @ = "frozen" THEN "unsettled" ELSE @]
  /\ UNCHANGED <<status, applicant, paidBy, push, grants>>

UserWithdrawRefund(o) ==
  /\ CloseRefund(o, "withdrawn")
  /\ UNCHANGED <<attempt, sessionVars, settlementVars>>

\* ReviewOrderRefund or RejectOrderRefund by the super administrator: any applicant.
SuperAdminRejectRefund(o) ==
  /\ CloseRefund(o, "rejected")
  /\ UNCHANGED <<attempt, sessionVars, settlementVars>>

\* (Mutant: the review does not test that the request is still pending.)
ReviewOrderRefund_Anytime(o) ==
  /\ refund[o] # "none"
  /\ refund' = [refund EXCEPT ![o] = "refunded"]
  /\ status' = [status EXCEPT ![o] = "refunded"]
  /\ settle' = [settle EXCEPT ![o] = IF @ = "frozen" THEN "na" ELSE @]
  /\ UNCHANGED <<applicant, paidBy, push, grants, attempt, sessionVars, settlementVars>>

\* AdminReviewRefund: only the refund status is tested.
ReviewOrderRefund(o) ==
  /\ refund[o] = "requested"
  /\ refund' = [refund EXCEPT ![o] = "refunded"]
  /\ status' = [status EXCEPT ![o] = "refunded"]
  /\ settle' = [settle EXCEPT ![o] = IF @ = "frozen" THEN "na" ELSE @]
  /\ UNCHANGED <<applicant, paidBy, push, grants, attempt, sessionVars, settlementVars>>

\* A school administrator may reject only a request of a consumer, and withdraw
\* only a request of their own: both are tested on an unlocked read.
SchoolAdminReads(adm, act, o) ==
  /\ decision[adm] = IdleDecision
  /\ refund[o] = "requested"
  /\ \/ act = "reject" /\ applicant[o] = "consumer"
     \/ act = "withdraw" /\ applicant[o] = adm
  /\ decision' = [decision EXCEPT ![adm] = [act |-> act, order |-> o]]
  /\ UNCHANGED <<rowVars, attempt, cancelling, callback, settlementVars>>

SchoolAdminRejects(adm) ==
  /\ decision[adm].act = "reject"
  /\ CloseRefund(decision[adm].order, "rejected")
  /\ decision' = [decision EXCEPT ![adm] = IdleDecision]
  /\ UNCHANGED <<attempt, cancelling, callback, settlementVars>>

SchoolAdminWithdraws(adm) ==
  /\ decision[adm].act = "withdraw"
  /\ CloseRefund(decision[adm].order, "withdrawn")
  /\ decision' = [decision EXCEPT ![adm] = IdleDecision]
  /\ UNCHANGED <<attempt, cancelling, callback, settlementVars>>

\* The conditional UPDATE finds the request closed, or fails.
SchoolAdminGivesUp(adm) ==
  /\ decision[adm] # IdleDecision
  /\ decision' = [decision EXCEPT ![adm] = IdleDecision]
  /\ UNCHANGED <<rowVars, attempt, cancelling, callback, settlementVars>>

(***************************************************************************)
(* Settlement.                                                             *)
(***************************************************************************)
\* The beneficiaries whose relation is not younger than the recorded payment.
Due(o) == IF paidBy[o] = None THEN {} ELSE attempt[paidBy[o]].covers

\* (Mutant: the NOT EXISTS on settlement_record_order is missing.)
Settleable_Repeatedly(b) ==
  {o \in Orders : status[o] = "paid" /\ settle[o] = "unsettled" /\ refund[o] = "none" /\ b \in Due(o)}

Settleable(b) ==
  {o \in Orders : /\ status[o] = "paid"
                  /\ settle[o] = "unsettled"
                  /\ refund[o] = "none"
                  /\ b \in Due(o)
                  /\ payouts[o][b] = 0}

\* SettleSchoolPendingOrders: one transaction that locks the relation and the
\* orders, records a payout per order, and marks an order settled when no
\* enabled beneficiary it is due to is still unpaid.
Settle(b) ==
  /\ b \in related \cap enabled
  /\ Settleable(b) # {}
  /\ payouts' = [o \in Orders |-> IF o \in Settleable(b)
                                  THEN [payouts[o] EXCEPT ![b] = @ + 1]
                                  ELSE payouts[o]]
  /\ settle' = [o \in Orders |->
       IF o \in Settleable(b)
       THEN IF \A x \in Due(o) \cap enabled : payouts'[o][x] > 0
            THEN "settled" ELSE "unsettled"
       ELSE settle[o]]
  /\ UNCHANGED <<status, refund, applicant, paidBy, push, grants,
                 attempt, sessionVars, related, enabled>>

AddRelation(b) ==
  /\ b \notin related
  /\ related' = related \cup {b}
  /\ UNCHANGED <<rowVars, attempt, sessionVars, payouts, enabled>>

\* A relation created again later is younger than every payment made so far.
RemoveRelation(b) ==
  /\ b \in related
  /\ related' = related \ {b}
  /\ attempt' = [a \in Attempts |-> [attempt[a] EXCEPT !.covers = @ \ {b}]]
  /\ UNCHANGED <<rowVars, sessionVars, payouts, enabled>>

SetAdminStatus(b) ==
  /\ enabled' = IF b \in enabled THEN enabled \ {b} ELSE enabled \cup {b}
  /\ UNCHANGED <<rowVars, attempt, sessionVars, payouts, related>>

(***************************************************************************)
(* The system.                                                             *)
(***************************************************************************)
UserStep(o) ==
  \/ CreateOrder(o)
  \/ \E a \in Attempts : InitiatePayment(a, o)
  \/ CancelRead(o)
  \/ CancelWrite(o)

ProviderStep(a) == UserPays(a) \/ AttemptFails(a) \/ ReceiveFailure(a)

CallbackStep(c) ==
  \/ \E a \in Attempts : ReceiveSuccess(c, a)
  \/ ProcessPayment(c)
  \/ EnsurePaidOrderDelivery(c)
  \/ CallbackFails(c)

RefundStep(o) ==
  \/ \E who \in Applicants : ApplyRefund(o, who)
  \/ UserWithdrawRefund(o)
  \/ SuperAdminRejectRefund(o)
  \/ ReviewOrderRefund(o)

SchoolAdminStep(adm) ==
  \/ \E act \in {"reject", "withdraw"}, o \in Orders : SchoolAdminReads(adm, act, o)
  \/ SchoolAdminRejects(adm)
  \/ SchoolAdminWithdraws(adm)
  \/ SchoolAdminGivesUp(adm)

SettlementStep(b) == Settle(b) \/ AddRelation(b) \/ RemoveRelation(b) \/ SetAdminStatus(b)

Next ==
  \/ \E o \in Orders : UserStep(o) \/ RefundStep(o)
  \/ \E a \in Attempts : ProviderStep(a)
  \/ \E c \in Callbacks : CallbackStep(c)
  \/ \E adm \in SchoolAdmins : SchoolAdminStep(adm)
  \/ \E b \in Beneficiaries : SettlementStep(b)

Spec == Init /\ [][Next]_vars

(***************************************************************************)
(* Fairness.  The provider sends a notice again until it is acknowledged,  *)
(* a callback request ends, and a transaction that is tried again and      *)
(* again succeeds at last.                                                 *)
(***************************************************************************)
ProcessAttempt(a) == \E c \in Callbacks : callback[c].attempt = a /\ ProcessPayment(c)

Fairness ==
  /\ \A a \in Attempts : SF_vars(attempt[a].state = "paid"
                                 /\ \E c \in Callbacks : ReceiveSuccess(c, a))
  /\ \A c \in Callbacks : WF_vars(EnsurePaidOrderDelivery(c) \/ CallbackFails(c))
  /\ \A a \in Attempts : SF_vars(ProcessAttempt(a))

FairSpec == Spec /\ Fairness

(***************************************************************************)
(* Properties.                                                             *)
(***************************************************************************)
\* The quota an order buys is added to its user at most once, however often
\* the provider repeats a notice, whichever callbacks overlap, and even when a
\* late cancellation or failure notice overwrites the paid status.  (Of orders
\* paid through WeChat Pay; see CancelOnlyUnpaid for virtual payment.)
BenefitGrantedOnce == \A o \in Orders : grants[o] <= 1

\* An order whose refund was carried out is not taken for paid again by a late
\* or repeated notice.  (Again of orders paid through WeChat Pay.)
RefundedOrderNeverPaidAgain ==
  \A o \in Orders : refund[o] = "refunded" => status[o] # "paid"

\* A paid order carries the number of a transaction the provider did take the
\* money of, for that very order, although failure notices erase the number and
\* several attempts of one order may be open at once.
PaidOrderHasItsPayment ==
  \A o \in Orders : status[o] = "paid" =>
    /\ paidBy[o] # None
    /\ attempt[paidBy[o]].order = o
    /\ attempt[paidBy[o]].state \in {"paid", "acked"}

\* The two status columns agree: settlement is frozen only while a refund is
\* pending, and while one is pending the order is frozen or was settled before,
\* never open to settlement.
RefundFreezesSettlement ==
  \A o \in Orders :
    /\ settle[o] = "frozen" => refund[o] = "requested"
    /\ refund[o] = "requested" => settle[o] \in {"frozen", "settled"}

\* A beneficiary is paid for an order at most once, although the settlement
\* status of an order returns to "unsettled" for its other beneficiaries, after a
\* refund that was not carried out and after a repeated payment, and although
\* relations are removed and created again.
PayoutsNeverRepeat ==
  \A o \in Orders, b \in Beneficiaries : payouts[o][b] <= 1

\* When a school administrator's decision on a refund takes effect, what was
\* read of the applicant still holds: a request that was closed in between is
\* never followed by another one of somebody else.
RefundDecisionStillAllowed ==
  \A adm \in SchoolAdmins :
    LET o == decision[adm].order IN
      /\ decision[adm].act = "reject" /\ refund[o] = "requested"
           => applicant[o] = "consumer"
      /\ decision[adm].act = "withdraw" /\ refund[o] = "requested"
           => applicant[o] = adm

\* A refund that was decided or withdrawn stays so: of a user, a school
\* administrator and a super administrator who decide at the same time, one wins.
RefundDecidedOnce ==
  [][\A o \in Orders : refund[o] \in DecidedRefunds => refund'[o] = refund[o]]_vars

\* CancelOrder "cancels an unpaid order (status must be 0)": the step that
\* writes the cancellation never finds the order paid.
\* (Refuted, as no transaction joins the test to the write: see README.md.)
CancelOnlyUnpaid ==
  [][\A o \in Orders : o \in cancelling /\ o \notin cancelling' => status[o] # "paid"]_vars

\* Money taken by a virtual payment is honoured in the end: the quota its order
\* buys is granted, also when it was cancelled here while the user paid.
VirtualPaymentHonoured ==
  \A a \in VirtualAttempts, o \in Orders \ BenefitOrders :
    attempt[a].order = o /\ attempt[a].state = "paid" ~> grants[o] > 0
=============================================================================
