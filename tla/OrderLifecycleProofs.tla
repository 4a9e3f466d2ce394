------------------------ MODULE OrderLifecycleProofs ------------------------
(***************************************************************************)
(* Theorems of OrderLifecycle, for any orders, attempts, callback requests *)
(* and administrators: type correctness; that the refund and the           *)
(* settlement column agree; that no beneficiary is paid twice for an order *)
(* and no refund decided twice; that a decision of a school administrator  *)
(* is still theirs to take when it takes effect; that a paid order has its *)
(* payment; and, of orders paid through WeChat Pay, that their benefits    *)
(* are granted once and that a refunded one is never paid again.           *)
(*                                                                         *)
(* The argument.  A refund request exists only for an order that was paid, *)
(* and an order never returns to pending: so a payment that is processed   *)
(* finds no refund, nor benefits.  (A virtual payment is also processed    *)
(* for a cancelled order, which may have had both.)  No request is ever    *)
(* followed by another, so what a decision has read of it stays true.      *)
(***************************************************************************)
EXTENDS OrderLifecycle, TLAPS

LEMMA IdleTypes ==
  /\ IdleCallback \in CallbackRequests /\ IdleCallback.pc = "idle"
  /\ IdleDecision \in RefundDecisions /\ IdleDecision.act = "none"
  BY DEF IdleCallback, IdleDecision, CallbackRequests, RefundDecisions

\* An attempt keeps its order when its state changes or a relation goes away.
LEMMA AttemptChange ==
  ASSUME NEW r \in AttemptRecords
  PROVE  /\ \A s \in AttemptStates :
              /\ [r EXCEPT !.state = s] \in AttemptRecords
              /\ [r EXCEPT !.state = s].order = r.order
              /\ [r EXCEPT !.state = s].state = s
         /\ \A B \in SUBSET Beneficiaries :
              /\ [r EXCEPT !.covers = B] \in AttemptRecords
              /\ [r EXCEPT !.covers = B].order = r.order
              /\ [r EXCEPT !.covers = B].state = r.state
         /\ \A o \in Orders :
              /\ [r EXCEPT !.order = o] \in AttemptRecords
              /\ [r EXCEPT !.order = o].order = o
         /\ r.order \in Orders \cup {None}
         /\ r.covers \subseteq Beneficiaries
  BY DEF AttemptRecords

\* An attempt that keeps an order, or gets one, leaves the attempts well typed.
LEMMA AttemptTyping ==
  ASSUME TypeOK, NEW a \in Attempts, NEW r \in AttemptRecords, r.order \in Orders,
         attempt' = [attempt EXCEPT ![a] = r]
  PROVE  /\ attempt' \in [Attempts -> AttemptRecords]
         /\ \A x \in Attempts : attempt'[x].state # "unused" => attempt'[x].order \in Orders
         /\ \A x \in Attempts : attempt[x].order \in Orders => attempt'[x].order \in Orders
  BY DEF TypeOK

LEMMA TypeInit == Init => TypeOK
<1>1. [order |-> None, state |-> "unused", covers |-> {}] \in AttemptRecords
  BY SMTT(30) DEF AttemptRecords, AttemptStates
<1> QED
  BY <1>1, IdleTypes DEF Init, TypeOK, Statuses, RefundStatuses, SettlementStatuses, PushStatuses

LEMMA TypeStep == TypeOK /\ [Next]_vars => TypeOK'
<1> SUFFICES ASSUME TypeOK, [Next]_vars PROVE TypeOK'
  OBVIOUS
<1> USE DEF TypeOK, rowVars, sessionVars, settlementVars
<1>1. ASSUME NEW o \in Orders, CreateOrder(o) PROVE TypeOK'
  BY <1>1 DEF CreateOrder, Statuses
<1>2. ASSUME NEW o \in Orders, NEW a \in Attempts, InitiatePayment(a, o) PROVE TypeOK'
  <2> DEFINE q == [attempt[a] EXCEPT !.order = o]
             r == [q EXCEPT !.state = "open"]
  <2>1. attempt' = [attempt EXCEPT ![a] = r]
    BY <1>2 DEF InitiatePayment
  <2>2. q \in AttemptRecords /\ q.order = o
    BY AttemptChange
  <2> HIDE DEF q
  <2>3. r \in AttemptRecords /\ r.order = o
    BY <2>2, AttemptChange DEF AttemptStates
  <2> HIDE DEF r
  <2> QED
    BY ZenonT(30), <1>2, <2>1, <2>3, AttemptTyping DEF InitiatePayment
<1>3. ASSUME NEW o \in Orders, CancelRead(o) \/ CancelWrite(o) PROVE TypeOK'
  <2>1. status' \in [Orders -> Statuses] /\ cancelling' \subseteq Orders
    BY <1>3 DEF CancelRead, CancelWrite, Statuses
  <2> QED
    BY <1>3, <2>1 DEF CancelRead, CancelWrite
<1>4. ASSUME NEW a \in Attempts, UserPays(a) \/ AttemptFails(a) PROVE TypeOK'
  <2>1. PICK r \in AttemptRecords : attempt' = [attempt EXCEPT ![a] = r] /\ r.order = attempt[a].order
    <3>1. CASE UserPays(a)
      <4> DEFINE q == [attempt[a] EXCEPT !.state = "paid"]
                 r == [q EXCEPT !.covers = related]
      <4>2. attempt' = [attempt EXCEPT ![a] = r]
        BY <3>1 DEF UserPays
      <4>3. q \in AttemptRecords /\ q.order = attempt[a].order
        BY AttemptChange DEF AttemptStates
      <4> HIDE DEF q
      <4>1. r \in AttemptRecords /\ r.order = attempt[a].order
        BY <4>3, AttemptChange
      <4> HIDE DEF r
      <4> QED
        BY <4>1, <4>2
    <3>2. CASE AttemptFails(a)
      <4> DEFINE r == [attempt[a] EXCEPT !.state = "failed"]
      <4>1. r \in AttemptRecords /\ r.order = attempt[a].order
        BY AttemptChange DEF AttemptStates
      <4>2. attempt' = [attempt EXCEPT ![a] = r]
        BY <3>2 DEF AttemptFails
      <4> QED
        BY <4>1, <4>2
    <3> QED
      BY <1>4, <3>1, <3>2
  <2>2. attempt[a].order \in Orders
    BY <1>4 DEF UserPays, AttemptFails
  <2> QED
    BY <1>4, <2>1, <2>2, AttemptTyping DEF UserPays, AttemptFails
<1>5. ASSUME NEW a \in Attempts, ReceiveFailure(a) PROVE TypeOK'
  <2> DEFINE r == [attempt[a] EXCEPT !.state = "reported"]
  <2>1. attempt[a].order \in Orders
    BY <1>5 DEF ReceiveFailure
  <2>2. status' \in [Orders -> Statuses] /\ paidBy' \in [Orders -> Attempts \cup {None}]
    BY <1>5, <2>1 DEF ReceiveFailure, Statuses
  <2>3. r \in AttemptRecords /\ r.order = attempt[a].order
    BY AttemptChange DEF AttemptStates
  <2>4. attempt' = [attempt EXCEPT ![a] = r]
    BY <1>5 DEF ReceiveFailure
  <2> HIDE DEF r
  <2> QED
    BY <1>5, <2>1, <2>2, <2>3, <2>4, AttemptTyping DEF ReceiveFailure
<1>6. ASSUME NEW c \in Callbacks, NEW a \in Attempts, ReceiveSuccess(c, a) PROVE TypeOK'
  <2> DEFINE request == [pc |-> IF status[attempt[a].order] = "paid" THEN "deliver" ELSE "process",
                         attempt |-> a]
  <2>1. request \in CallbackRequests /\ request.attempt = a
    BY DEF CallbackRequests
  <2>2. attempt[a].order \in Orders
    BY <1>6 DEF ReceiveSuccess
  <2>3. callback' = [callback EXCEPT ![c] = request]
    BY <1>6 DEF ReceiveSuccess
  <2> HIDE DEF request
  <2> QED
    BY <1>6, <2>1, <2>2, <2>3 DEF ReceiveSuccess
<1>7. ASSUME NEW c \in Callbacks, ProcessPayment(c) PROVE TypeOK'
  <2> DEFINE request == [callback[c] EXCEPT !.pc = "deliver"]
             a == callback[c].attempt
             o == attempt[a].order
  <2>1. a \in Attempts /\ o \in Orders
    BY <1>7 DEF ProcessPayment
  <2>2. request \in CallbackRequests /\ request.attempt = a
    BY DEF CallbackRequests
  <2>3. callback' = [callback EXCEPT ![c] = request]
    BY <1>7 DEF ProcessPayment
  <2>4. /\ status' \in [Orders -> Statuses]
        /\ settle' \in [Orders -> SettlementStatuses]
        /\ paidBy' \in [Orders -> Attempts \cup {None}]
        /\ grants' \in [Orders -> Nat]
    <3>1. CASE UNCHANGED rowVars
      BY <3>1
    <3>2. CASE ~UNCHANGED rowVars
      <4>1. /\ status' = [status EXCEPT ![o] = "paid"]
            /\ settle' = [settle EXCEPT ![o] = IF refund[o] = "none" THEN "unsettled" ELSE @]
            /\ paidBy' = [paidBy EXCEPT ![o] = a]
            /\ grants' = [grants EXCEPT ![o] = IF o \in BenefitOrders THEN @ ELSE @ + 1]
        BY <1>7, <3>2 DEF ProcessPayment, SettlementOfPaid
      <4> HIDE DEF a, o
      <4> QED
        BY SMTT(30), <2>1, <4>1 DEF Statuses, SettlementStatuses
    <3> QED
      BY <3>1, <3>2
  <2>5. UNCHANGED <<refund, applicant, push, attempt, cancelling, decision, settlementVars>>
    BY <1>7 DEF ProcessPayment
  <2> HIDE DEF request, a, o
  <2> QED
    BY <2>1, <2>2, <2>3, <2>4, <2>5 DEF a, o
<1>8. ASSUME NEW c \in Callbacks, EnsurePaidOrderDelivery(c) PROVE TypeOK'
  <2> DEFINE a == callback[c].attempt
             r == [attempt[a] EXCEPT !.state = "acked"]
  <2>1. a \in Attempts /\ attempt[a].order \in Orders
    BY <1>8 DEF EnsurePaidOrderDelivery
  <2>2. r \in AttemptRecords /\ r.order = attempt[a].order
    BY <2>1, AttemptChange DEF AttemptStates
  <2>3. attempt' = [attempt EXCEPT ![a] = r]
    BY <1>8 DEF EnsurePaidOrderDelivery
  <2>4. push' \in [Orders -> PushStatuses]
    BY SMTT(30), <1>8, <2>1 DEF EnsurePaidOrderDelivery, PushStatuses
  <2>5. /\ callback' = [callback EXCEPT ![c] = IdleCallback]
        /\ UNCHANGED <<status, refund, settle, applicant, paidBy, grants, cancelling, decision,
                       settlementVars>>
    BY <1>8 DEF EnsurePaidOrderDelivery
  <2> HIDE DEF a, r
  <2> QED
    BY <2>1, <2>2, <2>3, <2>4, <2>5, IdleTypes, AttemptTyping
<1>9. ASSUME NEW c \in Callbacks, CallbackFails(c) PROVE TypeOK'
  BY <1>9, IdleTypes DEF CallbackFails
<1>10. ASSUME NEW o \in Orders, NEW who \in Applicants, ApplyRefund(o, who) PROVE TypeOK'
  BY <1>10 DEF ApplyRefund, RefundStatuses, SettlementStatuses
<1>11. ASSUME NEW o \in Orders,
              UserWithdrawRefund(o) \/ SuperAdminRejectRefund(o) \/ ReviewOrderRefund(o)
       PROVE TypeOK'
  BY <1>11 DEF UserWithdrawRefund, SuperAdminRejectRefund, ReviewOrderRefund, CloseRefund,
     Statuses, RefundStatuses, SettlementStatuses
<1>12. ASSUME NEW adm \in SchoolAdmins, NEW act \in {"reject", "withdraw"}, NEW o \in Orders,
              SchoolAdminReads(adm, act, o)
       PROVE TypeOK'
  BY <1>12 DEF SchoolAdminReads, RefundDecisions
<1>13. ASSUME NEW adm \in SchoolAdmins,
              SchoolAdminRejects(adm) \/ SchoolAdminWithdraws(adm) \/ SchoolAdminGivesUp(adm)
       PROVE TypeOK'
  <2>1. /\ refund' \in [Orders -> RefundStatuses] /\ settle' \in [Orders -> SettlementStatuses]
        /\ decision' = [decision EXCEPT ![adm] = IdleDecision]
        /\ UNCHANGED <<status, applicant, paidBy, push, grants, attempt, cancelling, callback,
                       settlementVars>>
    BY <1>13 DEF SchoolAdminRejects, SchoolAdminWithdraws, SchoolAdminGivesUp, CloseRefund,
       RefundStatuses, SettlementStatuses
  <2> QED
    BY <2>1, IdleTypes
<1>14. ASSUME NEW b \in Beneficiaries, Settle(b) PROVE TypeOK'
  <2>1. payouts' \in [Orders -> [Beneficiaries -> Nat]]
    BY <1>14 DEF Settle
  <2>2. settle' \in [Orders -> SettlementStatuses]
    BY <1>14 DEF Settle, SettlementStatuses
  <2> QED
    BY <1>14, <2>1, <2>2 DEF Settle
<1>15. ASSUME NEW b \in Beneficiaries, AddRelation(b) \/ SetAdminStatus(b) PROVE TypeOK'
  BY <1>15 DEF AddRelation, SetAdminStatus
<1>16. ASSUME NEW b \in Beneficiaries, RemoveRelation(b) PROVE TypeOK'
  <2> DEFINE kept(x) == [attempt[x] EXCEPT !.covers = @ \ {b}]
  <2>1. \A x \in Attempts : /\ kept(x) \in AttemptRecords
                            /\ kept(x).order = attempt[x].order /\ kept(x).state = attempt[x].state
    <3> TAKE x \in Attempts
    <3>1. attempt[x] \in AttemptRecords /\ attempt[x].covers \ {b} \in SUBSET Beneficiaries
      BY AttemptChange
    <3> QED
      BY <3>1, AttemptChange
  <2>2. attempt' = [x \in Attempts |-> kept(x)]
    BY <1>16 DEF RemoveRelation
  <2> HIDE DEF kept
  <2> QED
    BY ZenonT(30), <1>16, <2>1, <2>2 DEF RemoveRelation
<1>17. CASE UNCHANGED vars
  BY <1>17 DEF vars
<1> QED
  BY <1>1, <1>2, <1>3, <1>4, <1>5, <1>6, <1>7, <1>8, <1>9, <1>10, <1>11, <1>12, <1>13, <1>14,
     <1>15, <1>16, <1>17
  DEF Next, UserStep, ProviderStep, CallbackStep, RefundStep, SchoolAdminStep, SettlementStep

\* Every column and session keeps its type; in particular a callback that is being
\* executed has an attempt of an existing order.
THEOREM TypeCorrect == Spec => []TypeOK
  BY TypeInit, TypeStep, PTL DEF Spec

(***************************************************************************)
(* What a step, whichever it is, can do to one order.                      *)
(***************************************************************************)
Untouched(o) ==
  /\ status'[o] = status[o] /\ refund'[o] = refund[o] /\ settle'[o] = settle[o]
  /\ applicant'[o] = applicant[o] /\ grants'[o] = grants[o]

\* Created, or cancelled.
Restated(o) ==
  /\ \/ status[o] = "absent" /\ status'[o] = "pending"
     \/ status'[o] = "cancelled"
  /\ refund'[o] = refund[o] /\ settle'[o] = settle[o]
  /\ applicant'[o] = applicant[o] /\ grants'[o] = grants[o]

Paid(o) ==
  /\ status[o] = "pending" \/ (VirtualAttempts # {} /\ status[o] = "cancelled")
  /\ status'[o] = "paid"
  /\ refund'[o] = refund[o]
  /\ settle'[o] = IF refund[o] = "none" THEN "unsettled" ELSE settle[o]
  /\ applicant'[o] = applicant[o] /\ grants'[o] \in {grants[o], grants[o] + 1}

Requested(o) ==
  /\ status[o] = "paid" /\ refund[o] = "none" /\ refund'[o] = "requested"
  /\ settle'[o] = IF settle[o] = "unsettled" THEN "frozen" ELSE settle[o]
  /\ status'[o] = status[o] /\ grants'[o] = grants[o]

Decided(o) ==
  /\ refund[o] = "requested"
  /\ \/ /\ refund'[o] \in {"rejected", "withdrawn"} /\ status'[o] = status[o]
        /\ settle'[o] = IF settle[o] = "frozen" THEN "unsettled" ELSE settle[o]
     \/ /\ refund'[o] = "refunded" /\ status'[o] = "refunded"
        /\ settle'[o] = IF settle[o] = "frozen" THEN "na" ELSE settle[o]
  /\ applicant'[o] = applicant[o] /\ grants'[o] = grants[o]

Settled(o) ==
  /\ status[o] = "paid" /\ refund[o] = "none" /\ settle'[o] \in {"settled", "unsettled"}
  /\ status'[o] = status[o] /\ refund'[o] = refund[o]
  /\ applicant'[o] = applicant[o] /\ grants'[o] = grants[o]

RowMove(o) ==
  Untouched(o) \/ Restated(o) \/ Paid(o) \/ Requested(o) \/ Decided(o) \/ Settled(o)

LEMMA CloseMoves ==
  ASSUME TypeOK, NEW o \in Orders, NEW p \in Orders, NEW outcome \in {"rejected", "withdrawn"},
         CloseRefund(p, outcome)
  PROVE  RowMove(o)
<1>1. CASE o = p
  BY <1>1 DEF TypeOK, CloseRefund, RowMove, Decided
<1>2. CASE o # p
  BY <1>2 DEF TypeOK, CloseRefund, RowMove, Untouched
<1> QED
  BY <1>1, <1>2

LEMMA RowStep == TypeOK /\ [Next]_vars => \A o \in Orders : RowMove(o)
<1> SUFFICES ASSUME TypeOK, [Next]_vars, NEW o \in Orders PROVE RowMove(o)
  OBVIOUS
<1> USE DEF TypeOK
<1>1. ASSUME NEW p \in Orders, UserStep(p) PROVE RowMove(o)
  BY <1>1 DEF UserStep, CreateOrder, InitiatePayment, CancelRead, CancelWrite, rowVars, RowMove,
     Untouched, Restated
<1>2. ASSUME NEW a \in Attempts, ProviderStep(a) PROVE RowMove(o)
  <2>1. CASE ReceiveFailure(a)
    BY <2>1 DEF ReceiveFailure, RowMove, Untouched, Restated
  <2> QED
    BY <1>2, <2>1 DEF ProviderStep, UserPays, AttemptFails, rowVars, RowMove, Untouched
<1>3. ASSUME NEW c \in Callbacks, CallbackStep(c) PROVE RowMove(o)
  <2>1. CASE ProcessPayment(c) /\ ~UNCHANGED rowVars
    <3> DEFINE a == callback[c].attempt
               p == attempt[a].order
    <3>1. a \in Attempts /\ p \in Orders
      BY SMTT(30), <2>1 DEF ProcessPayment
    <3>2. /\ status[p] = "pending" \/ (VirtualAttempts # {} /\ status[p] = "cancelled")
          /\ status' = [status EXCEPT ![p] = "paid"]
          /\ settle' = [settle EXCEPT ![p] = IF refund[p] = "none" THEN "unsettled" ELSE @]
          /\ grants' = [grants EXCEPT ![p] = IF p \in BenefitOrders THEN @ ELSE @ + 1]
          /\ UNCHANGED <<refund, applicant>>
      BY <2>1, <3>1 DEF ProcessPayment, SettlementOfPaid, canProcessPaymentStatus
    <3> HIDE DEF a, p
    <3> QED
      BY <3>1, <3>2 DEF RowMove, Paid, Untouched
  <2> QED
    BY <1>3, <2>1 DEF CallbackStep, ReceiveSuccess, ProcessPayment, EnsurePaidOrderDelivery,
       CallbackFails, rowVars, RowMove, Untouched
<1>4. ASSUME NEW p \in Orders, RefundStep(p) PROVE RowMove(o)
  <2>1. ASSUME NEW who \in Applicants, ApplyRefund(p, who) PROVE RowMove(o)
    BY <2>1 DEF ApplyRefund, RowMove, Untouched, Requested
  <2>2. CASE ReviewOrderRefund(p)
    BY <2>2 DEF ReviewOrderRefund, RowMove, Untouched, Decided
  <2> QED
    BY <1>4, <2>1, <2>2, CloseMoves DEF RefundStep, UserWithdrawRefund, SuperAdminRejectRefund
<1>5. ASSUME NEW adm \in SchoolAdmins, SchoolAdminStep(adm) PROVE RowMove(o)
  <2>1. CASE SchoolAdminRejects(adm) \/ SchoolAdminWithdraws(adm)
    <3>1. decision[adm].order \in Orders
      BY <2>1 DEF SchoolAdminRejects, SchoolAdminWithdraws
    <3> QED
      BY <2>1, <3>1, CloseMoves DEF SchoolAdminRejects, SchoolAdminWithdraws
  <2> QED
    BY <1>5, <2>1 DEF SchoolAdminStep, SchoolAdminReads, SchoolAdminGivesUp, rowVars, RowMove,
       Untouched
<1>6. ASSUME NEW b \in Beneficiaries, SettlementStep(b) PROVE RowMove(o)
  <2>1. CASE Settle(b)
    BY <2>1 DEF Settle, Settleable, RowMove, Untouched, Settled
  <2> QED
    BY <1>6, <2>1 DEF SettlementStep, AddRelation, RemoveRelation, SetAdminStatus, rowVars,
       RowMove, Untouched
<1>7. CASE UNCHANGED vars
  BY <1>7 DEF vars, rowVars, RowMove, Untouched
<1> QED
  BY <1>1, <1>2, <1>3, <1>4, <1>5, <1>6, <1>7 DEF Next

(***************************************************************************)
(* Refunds and settlement.                                                 *)
(***************************************************************************)
\* Only an order that was paid has a refund request, and an order that was paid
\* and has none is open to settlement or settled.
PaidBeforeRefund ==
  \A o \in Orders :
    /\ status[o] \in {"absent", "pending"} => refund[o] = "none"
    /\ status[o] = "paid" /\ refund[o] = "none" => settle[o] \in {"unsettled", "settled"}

\* The decision a school administrator is executing is about a request that exists.
DecisionOfARequest ==
  \A adm \in SchoolAdmins : decision[adm].act # "none" => refund[decision[adm].order] # "none"

RefundInv ==
  /\ TypeOK
  /\ PaidBeforeRefund
  /\ RefundFreezesSettlement
  /\ DecisionOfARequest
  /\ RefundDecisionStillAllowed

LEMMA RefundInit == Init => RefundInv
  BY TypeInit, IdleTypes DEF Init, RefundInv, PaidBeforeRefund, RefundFreezesSettlement,
     DecisionOfARequest, RefundDecisionStillAllowed

\* A decision is dropped or was begun on what the row says, unless it is unchanged.
LEMMA DecisionMove ==
  ASSUME TypeOK, [Next]_vars, NEW adm \in SchoolAdmins
  PROVE  \/ decision'[adm] = decision[adm]
         \/ decision'[adm].act = "none"
         \/ LET o == decision'[adm].order IN
              /\ o \in Orders /\ refund[o] = "requested" /\ refund'[o] = "requested"
              /\ applicant'[o] = applicant[o]
              /\ decision'[adm].act = "reject" => applicant[o] = "consumer"
              /\ decision'[adm].act = "withdraw" => applicant[o] = adm
<1> USE DEF TypeOK
<1>1. ASSUME NEW x \in SchoolAdmins, SchoolAdminStep(x)
      PROVE  \/ decision'[adm] = decision[adm]
             \/ decision'[adm].act = "none"
             \/ LET o == decision'[adm].order IN
                  /\ o \in Orders /\ refund[o] = "requested" /\ refund'[o] = "requested"
                  /\ applicant'[o] = applicant[o]
                  /\ decision'[adm].act = "reject" => applicant[o] = "consumer"
                  /\ decision'[adm].act = "withdraw" => applicant[o] = adm
  <2>1. ASSUME NEW act \in {"reject", "withdraw"}, NEW o \in Orders, SchoolAdminReads(x, act, o), x = adm
        PROVE  /\ decision'[adm].order = o /\ decision'[adm].act = act
               /\ refund[o] = "requested" /\ refund' = refund /\ applicant' = applicant
               /\ (act = "reject" /\ applicant[o] = "consumer") \/ (act = "withdraw" /\ applicant[o] = adm)
    BY <2>1 DEF SchoolAdminReads, rowVars
  <2>2. CASE x # adm
    BY <1>1, <2>2 DEF SchoolAdminStep, SchoolAdminReads, SchoolAdminRejects, SchoolAdminWithdraws,
       SchoolAdminGivesUp
  <2>3. CASE x = adm /\ (SchoolAdminRejects(x) \/ SchoolAdminWithdraws(x) \/ SchoolAdminGivesUp(x))
    BY <2>3, IdleTypes DEF SchoolAdminRejects, SchoolAdminWithdraws, SchoolAdminGivesUp
  <2> QED
    BY <1>1, <2>1, <2>2, <2>3 DEF SchoolAdminStep
<1>2. ASSUME NEW o \in Orders, UserStep(o) \/ RefundStep(o) PROVE decision' = decision
  BY <1>2 DEF UserStep, RefundStep, CreateOrder, InitiatePayment, CancelRead, CancelWrite,
     ApplyRefund, UserWithdrawRefund, SuperAdminRejectRefund, ReviewOrderRefund, sessionVars
<1>3. ASSUME NEW a \in Attempts, ProviderStep(a) PROVE decision' = decision
  BY <1>3 DEF ProviderStep, UserPays, AttemptFails, ReceiveFailure, sessionVars
<1>4. ASSUME NEW c \in Callbacks, CallbackStep(c) PROVE decision' = decision
  BY <1>4 DEF CallbackStep, ReceiveSuccess, ProcessPayment, EnsurePaidOrderDelivery, CallbackFails
<1>5. ASSUME NEW b \in Beneficiaries, SettlementStep(b) PROVE decision' = decision
  BY <1>5 DEF SettlementStep, Settle, AddRelation, RemoveRelation, SetAdminStatus, sessionVars
<1> QED
  BY <1>1, <1>2, <1>3, <1>4, <1>5 DEF Next, vars, sessionVars

LEMMA RefundStepKeeps == RefundInv /\ [Next]_vars => RefundInv'
<1> SUFFICES ASSUME RefundInv, [Next]_vars PROVE RefundInv'
  OBVIOUS
<1> USE DEF RefundInv
<1>1. TypeOK'
  BY TypeStep
<1>2. \A o \in Orders : RowMove(o)
  BY RowStep
<1>3. \A o \in Orders :
        /\ status'[o] \in {"absent", "pending"} => refund'[o] = "none"
        /\ status'[o] = "paid" /\ refund'[o] = "none" => settle'[o] \in {"unsettled", "settled"}
        /\ settle'[o] = "frozen" => refund'[o] = "requested"
        /\ refund'[o] = "requested" => settle'[o] \in {"frozen", "settled"}
        /\ refund[o] # "none" => refund'[o] # "none" /\ applicant'[o] = applicant[o]
        /\ refund'[o] = "requested" => refund[o] \in {"none", "requested"}
  <2> TAKE o \in Orders
  <2> QED
    BY <1>2 DEF RowMove, Untouched, Restated, Paid, Requested, Decided, Settled,
       PaidBeforeRefund, RefundFreezesSettlement
<1>4. PaidBeforeRefund' /\ RefundFreezesSettlement'
  BY <1>3 DEF PaidBeforeRefund, RefundFreezesSettlement
<1>5. DecisionOfARequest' /\ RefundDecisionStillAllowed'
  <2> SUFFICES ASSUME NEW adm \in SchoolAdmins, decision'[adm].act # "none"
               PROVE  LET o == decision'[adm].order IN
                        /\ refund'[o] # "none"
                        /\ decision'[adm].act = "reject" /\ refund'[o] = "requested"
                             => applicant'[o] = "consumer"
                        /\ decision'[adm].act = "withdraw" /\ refund'[o] = "requested"
                             => applicant'[o] = adm
    BY Zenon DEF DecisionOfARequest, RefundDecisionStillAllowed
  <2>1. CASE decision'[adm] = decision[adm]
    <3>1. decision[adm].order \in Orders /\ refund[decision[adm].order] # "none"
      BY <2>1 DEF TypeOK, DecisionOfARequest
    <3> QED
      BY <1>3, <2>1, <3>1 DEF RefundDecisionStillAllowed
  <2> QED
    BY <2>1, DecisionMove
<1> QED
  BY <1>1, <1>4, <1>5

LEMMA RefundInvariant == Spec => []RefundInv
  BY RefundInit, RefundStepKeeps, PTL DEF Spec

\* While a refund is pending its order is out of settlement's reach, and it gets back
\* there when the request is closed.
THEOREM RefundsFreeze == Spec => []RefundFreezesSettlement
<1>1. RefundInv => RefundFreezesSettlement
  BY DEF RefundInv
<1> QED
  BY <1>1, RefundInvariant, PTL

\* The unlocked read on which a school administrator rejects or withdraws a refund
\* request still holds when the conditional UPDATE finds a pending request.
THEOREM DecisionsStayAllowed == Spec => []RefundDecisionStillAllowed
<1>1. RefundInv => RefundDecisionStillAllowed
  BY DEF RefundInv
<1> QED
  BY <1>1, RefundInvariant, PTL

\* Of all who decide on a refund at the same time, one wins, for good.
THEOREM OneRefundDecision == Spec => RefundDecidedOnce
<1>1. TypeOK /\ [Next]_vars
        => [\A o \in Orders : refund[o] \in DecidedRefunds => refund'[o] = refund[o]]_vars
  BY RowStep DEF RowMove, Untouched, Restated, Paid, Requested, Decided, Settled, DecidedRefunds
<1> QED
  BY <1>1, TypeCorrect, PTL DEF Spec, RefundDecidedOnce

\* A beneficiary is paid for an order once at most.
THEOREM PaidOutOnce == Spec => []PayoutsNeverRepeat
<1>1. Init => PayoutsNeverRepeat
  BY DEF Init, PayoutsNeverRepeat
<1>2. TypeOK /\ PayoutsNeverRepeat /\ [Next]_vars => PayoutsNeverRepeat'
  <2> SUFFICES ASSUME TypeOK, PayoutsNeverRepeat, [Next]_vars PROVE PayoutsNeverRepeat'
    OBVIOUS
  <2>1. ASSUME NEW b \in Beneficiaries, Settle(b) PROVE PayoutsNeverRepeat'
    <3> SUFFICES ASSUME NEW o \in Orders, NEW x \in Beneficiaries PROVE payouts'[o][x] <= 1
      BY DEF PayoutsNeverRepeat
    <3>1. CASE o \in Settleable(b)
      BY <2>1, <3>1 DEF Settle, Settleable, TypeOK, PayoutsNeverRepeat
    <3>2. CASE o \notin Settleable(b)
      BY SMTT(30), <2>1, <3>2 DEF Settle, PayoutsNeverRepeat
    <3> QED
      BY <3>1, <3>2
  <2>2. payouts' = payouts \/ \E b \in Beneficiaries : Settle(b)
    BY DEF Next, UserStep, RefundStep, CreateOrder, InitiatePayment, CancelRead, CancelWrite,
       ApplyRefund, UserWithdrawRefund, SuperAdminRejectRefund, ReviewOrderRefund, ProviderStep,
       UserPays, AttemptFails, ReceiveFailure, CallbackStep, ReceiveSuccess, ProcessPayment,
       EnsurePaidOrderDelivery, CallbackFails, SchoolAdminStep, SchoolAdminReads,
       SchoolAdminRejects, SchoolAdminWithdraws, SchoolAdminGivesUp, SettlementStep, AddRelation,
       RemoveRelation, SetAdminStatus, vars, sessionVars, settlementVars
  <2> QED
    BY <2>1, <2>2 DEF PayoutsNeverRepeat
<1> QED
  BY <1>1, <1>2, TypeCorrect, PTL DEF Spec

(***************************************************************************)
(* Payments.                                                               *)
(***************************************************************************)
\* An order that is paid for the first time has neither benefits nor a refund.
FirstPayment ==
  \A o \in Orders : status[o] \in {"absent", "pending"} => grants[o] = 0 /\ refund[o] = "none"

WeChatInv ==
  TypeOK /\ FirstPayment /\ BenefitGrantedOnce /\ RefundedOrderNeverPaidAgain

LEMMA WeChatInvariant ==
  ASSUME VirtualAttempts = {}
  PROVE  Spec => []WeChatInv
<1>1. Init => WeChatInv
  BY TypeInit DEF Init, WeChatInv, FirstPayment, BenefitGrantedOnce, RefundedOrderNeverPaidAgain
<1>2. WeChatInv /\ [Next]_vars => WeChatInv'
  <2> SUFFICES ASSUME WeChatInv, [Next]_vars PROVE WeChatInv'
    OBVIOUS
  <2>1. TypeOK' /\ \A o \in Orders : RowMove(o)
    BY TypeStep, RowStep DEF WeChatInv
  <2>2. ASSUME NEW o \in Orders
        PROVE  /\ status'[o] \in {"absent", "pending"} => grants'[o] = 0 /\ refund'[o] = "none"
               /\ grants'[o] <= 1
               /\ refund'[o] = "refunded" => status'[o] # "paid"
    <3>1. RowMove(o) /\ grants[o] \in Nat
      BY <2>1 DEF WeChatInv, TypeOK
    <3> QED
      BY <3>1 DEF WeChatInv, FirstPayment, BenefitGrantedOnce, RefundedOrderNeverPaidAgain, RowMove,
         Untouched, Restated, Paid, Requested, Decided, Settled
  <2> QED
    BY <2>1, <2>2 DEF WeChatInv, FirstPayment, BenefitGrantedOnce, RefundedOrderNeverPaidAgain
<1> QED
  BY <1>1, <1>2, PTL DEF Spec

\* Without virtual payment, no sequence of notices, cancellations and refunds grants
\* the benefits of an order twice.
THEOREM GrantedOnce ==
  ASSUME VirtualAttempts = {}
  PROVE  Spec => []BenefitGrantedOnce
<1>1. WeChatInv => BenefitGrantedOnce
  BY DEF WeChatInv
<1> QED
  BY <1>1, WeChatInvariant, PTL

\* Without virtual payment, a refunded order is never marked paid again.
THEOREM RefundedStaysUnpaid ==
  ASSUME VirtualAttempts = {}
  PROVE  Spec => []RefundedOrderNeverPaidAgain
<1>1. WeChatInv => RefundedOrderNeverPaidAgain
  BY DEF WeChatInv
<1> QED
  BY <1>1, WeChatInvariant, PTL

Taken == {"paid", "acked"}

\* A callback that is being executed is about money the provider took.
CallbackOfAPayment ==
  \A c \in Callbacks :
    callback[c].pc # "idle" => attempt[callback[c].attempt].state \in Taken

PaymentInv == TypeOK /\ CallbackOfAPayment /\ PaidOrderHasItsPayment

\* Money that was taken stays taken, for the same order.
LEMMA TakenStays ==
  ASSUME TypeOK, CallbackOfAPayment, [Next]_vars, NEW a \in Attempts, attempt[a].state \in Taken
  PROVE  attempt'[a].state \in Taken /\ attempt'[a].order = attempt[a].order
<1> USE DEF TypeOK, Taken
<1>1. ASSUME NEW o \in Orders, UserStep(o) \/ RefundStep(o)
      PROVE  attempt'[a] = attempt[a]
  BY <1>1 DEF UserStep, RefundStep, CreateOrder, InitiatePayment, CancelRead, CancelWrite,
     ApplyRefund, UserWithdrawRefund, SuperAdminRejectRefund, ReviewOrderRefund
<1>2. ASSUME NEW x \in Attempts, ProviderStep(x) PROVE attempt'[a] = attempt[a]
  BY <1>2 DEF ProviderStep, UserPays, AttemptFails, ReceiveFailure
<1>3. ASSUME NEW c \in Callbacks, EnsurePaidOrderDelivery(c)
      PROVE  attempt'[a].state \in Taken /\ attempt'[a].order = attempt[a].order
  <2>1. CASE callback[c].attempt = a
    <3>1. attempt'[a] = [attempt[a] EXCEPT !.state = "acked"]
      BY <1>3, <2>1 DEF EnsurePaidOrderDelivery
    <3> QED
      BY <3>1, AttemptChange DEF AttemptStates
  <2>2. CASE callback[c].attempt # a
    BY SMTT(30), <1>3, <2>2 DEF EnsurePaidOrderDelivery
  <2> QED
    BY <2>1, <2>2
<1>4. ASSUME NEW c \in Callbacks, CallbackStep(c), ~EnsurePaidOrderDelivery(c)
      PROVE  attempt'[a] = attempt[a]
  BY <1>4 DEF CallbackStep, ReceiveSuccess, ProcessPayment, CallbackFails
<1>5. ASSUME NEW adm \in SchoolAdmins, SchoolAdminStep(adm) PROVE attempt'[a] = attempt[a]
  BY <1>5 DEF SchoolAdminStep, SchoolAdminReads, SchoolAdminRejects, SchoolAdminWithdraws,
     SchoolAdminGivesUp
<1>6. ASSUME NEW b \in Beneficiaries, RemoveRelation(b)
      PROVE  attempt'[a].state \in Taken /\ attempt'[a].order = attempt[a].order
  <2>1. attempt'[a] = [attempt[a] EXCEPT !.covers = @ \ {b}]
    BY <1>6 DEF RemoveRelation
  <2>2. attempt[a] \in AttemptRecords /\ attempt[a].covers \ {b} \in SUBSET Beneficiaries
    BY AttemptChange
  <2> QED
    BY <2>1, <2>2, AttemptChange
<1>7. ASSUME NEW b \in Beneficiaries, SettlementStep(b), ~RemoveRelation(b)
      PROVE  attempt'[a] = attempt[a]
  BY <1>7 DEF SettlementStep, Settle, AddRelation, SetAdminStatus
<1> QED
  BY <1>1, <1>2, <1>3, <1>4, <1>5, <1>6, <1>7 DEF Next, vars

\* A callback is unchanged, gives up, goes on with its attempt or begins with one
\* that was paid.
LEMMA CallbackMove ==
  ASSUME TypeOK, [Next]_vars, NEW c \in Callbacks
  PROVE  \/ callback'[c].pc = "idle"
         \/ callback[c].pc # "idle" /\ callback'[c].attempt = callback[c].attempt
         \/ /\ callback'[c].attempt \in Attempts
            /\ attempt[callback'[c].attempt].state \in Taken
<1> USE DEF TypeOK, Taken
<1>1. ASSUME NEW x \in Callbacks, CallbackStep(x)
      PROVE  \/ callback'[c].pc = "idle"
             \/ callback[c].pc # "idle" /\ callback'[c].attempt = callback[c].attempt
             \/ /\ callback'[c].attempt \in Attempts
                /\ attempt[callback'[c].attempt].state \in Taken
  <2>1. CASE x # c
    BY <1>1, <2>1 DEF CallbackStep, ReceiveSuccess, ProcessPayment, EnsurePaidOrderDelivery,
       CallbackFails
  <2>2. CASE EnsurePaidOrderDelivery(c) \/ CallbackFails(c)
    BY <2>2, IdleTypes DEF EnsurePaidOrderDelivery, CallbackFails
  <2>3. CASE ProcessPayment(c)
    <3>1. callback[c].pc # "idle" /\ callback' = [callback EXCEPT ![c].pc = "deliver"]
      BY <2>3 DEF ProcessPayment
    <3>2. callback \in [Callbacks -> CallbackRequests]
      OBVIOUS
    <3> HIDE DEF TypeOK
    <3> QED
      BY <3>1, <3>2 DEF CallbackRequests
  <2>4. ASSUME NEW a \in Attempts, ReceiveSuccess(c, a)
        PROVE  callback'[c].attempt = a /\ attempt[a].state \in Taken
    BY <2>4 DEF ReceiveSuccess
  <2> QED
    BY SMTT(30), <1>1, <2>1, <2>2, <2>3, <2>4 DEF CallbackStep
<1>2. CASE callback' = callback
  BY <1>2
<1>3. callback' = callback \/ \E x \in Callbacks : CallbackStep(x)
  BY DEF Next, UserStep, RefundStep, CreateOrder, InitiatePayment, CancelRead, CancelWrite,
     ApplyRefund, UserWithdrawRefund, SuperAdminRejectRefund, ReviewOrderRefund, ProviderStep,
     UserPays, AttemptFails, ReceiveFailure, SchoolAdminStep, SchoolAdminReads, SchoolAdminRejects,
     SchoolAdminWithdraws, SchoolAdminGivesUp, SettlementStep, Settle, AddRelation, RemoveRelation,
     SetAdminStatus, vars, sessionVars
<1> QED
  BY <1>1, <1>2, <1>3

\* The number of an order's payment is written together with its paid status, and
\* erased together with it.
LEMMA PaymentMove ==
  ASSUME TypeOK, [Next]_vars, NEW o \in Orders, status'[o] = "paid"
  PROVE  \/ status[o] = "paid" /\ paidBy'[o] = paidBy[o]
         \/ \E c \in Callbacks : /\ callback[c].pc # "idle"
                                /\ paidBy'[o] = callback[c].attempt
                                /\ attempt[callback[c].attempt].order = o
<1> USE DEF TypeOK
<1>1. ASSUME NEW p \in Orders, UserStep(p) \/ RefundStep(p)
      PROVE  status[o] = "paid" /\ paidBy'[o] = paidBy[o]
  BY <1>1 DEF UserStep, RefundStep, CreateOrder, InitiatePayment, CancelRead, CancelWrite,
     ApplyRefund, UserWithdrawRefund, SuperAdminRejectRefund, ReviewOrderRefund, CloseRefund, rowVars
<1>2. ASSUME NEW a \in Attempts, ProviderStep(a)
      PROVE  status[o] = "paid" /\ paidBy'[o] = paidBy[o]
  BY <1>2 DEF ProviderStep, UserPays, AttemptFails, ReceiveFailure, rowVars
<1>3. ASSUME NEW c \in Callbacks, ProcessPayment(c)
      PROVE  \/ status[o] = "paid" /\ paidBy'[o] = paidBy[o]
             \/ paidBy'[o] = callback[c].attempt /\ attempt[callback[c].attempt].order = o
  BY <1>3 DEF ProcessPayment, rowVars
<1>4. ASSUME NEW c \in Callbacks, CallbackStep(c), ~ProcessPayment(c)
      PROVE  status[o] = "paid" /\ paidBy'[o] = paidBy[o]
  BY <1>4 DEF CallbackStep, ReceiveSuccess, EnsurePaidOrderDelivery, CallbackFails, rowVars
<1>5. ASSUME NEW adm \in SchoolAdmins, SchoolAdminStep(adm)
      PROVE  status[o] = "paid" /\ paidBy'[o] = paidBy[o]
  BY <1>5 DEF SchoolAdminStep, SchoolAdminReads, SchoolAdminRejects, SchoolAdminWithdraws,
     SchoolAdminGivesUp, CloseRefund, rowVars
<1>6. ASSUME NEW b \in Beneficiaries, SettlementStep(b)
      PROVE  status[o] = "paid" /\ paidBy'[o] = paidBy[o]
  BY <1>6 DEF SettlementStep, Settle, AddRelation, RemoveRelation, SetAdminStatus, rowVars
<1>7. ASSUME NEW c \in Callbacks, ProcessPayment(c) PROVE callback[c].pc # "idle"
  BY <1>7 DEF ProcessPayment
<1> QED
  BY <1>1, <1>2, <1>3, <1>4, <1>5, <1>6, <1>7 DEF Next, vars, rowVars

\* A paid order names a transaction whose money was taken for that order, whatever
\* attempts, failure notices and repeated notices there are.
THEOREM PaidOrdersHavePayments == Spec => []PaidOrderHasItsPayment
<1>1. Init => PaymentInv
  BY TypeInit, IdleTypes DEF Init, PaymentInv, CallbackOfAPayment, PaidOrderHasItsPayment
<1>2. PaymentInv /\ [Next]_vars => PaymentInv'
  <2> SUFFICES ASSUME PaymentInv, [Next]_vars PROVE PaymentInv'
    OBVIOUS
  <2>0. TypeOK /\ TypeOK' /\ CallbackOfAPayment
    BY TypeStep DEF PaymentInv
  <2>1. CallbackOfAPayment'
    <3> SUFFICES ASSUME NEW c \in Callbacks, callback'[c].pc # "idle"
                 PROVE  attempt'[callback'[c].attempt].state \in Taken
      BY DEF CallbackOfAPayment
    <3>1. callback'[c].attempt \in Attempts /\ attempt[callback'[c].attempt].state \in Taken
      BY <2>0, CallbackMove DEF TypeOK, CallbackOfAPayment
    <3> QED
      BY <2>0, <3>1, TakenStays
  <2>2. PaidOrderHasItsPayment'
    <3> SUFFICES ASSUME NEW o \in Orders, status'[o] = "paid"
                 PROVE  /\ paidBy'[o] # None
                        /\ attempt'[paidBy'[o]].order = o
                        /\ attempt'[paidBy'[o]].state \in Taken
      BY DEF PaidOrderHasItsPayment, Taken
    <3>1. /\ paidBy'[o] \in Attempts /\ attempt[paidBy'[o]].order = o
          /\ attempt[paidBy'[o]].state \in Taken
      <4>1. CASE status[o] = "paid" /\ paidBy'[o] = paidBy[o]
        BY <4>1 DEF PaymentInv, TypeOK, PaidOrderHasItsPayment, Taken
      <4>2. ASSUME NEW c \in Callbacks, callback[c].pc # "idle",
                   paidBy'[o] = callback[c].attempt, attempt[callback[c].attempt].order = o
            PROVE  /\ paidBy'[o] \in Attempts /\ attempt[paidBy'[o]].order = o
                   /\ attempt[paidBy'[o]].state \in Taken
        BY <2>0, <4>2 DEF TypeOK, CallbackOfAPayment
      <4> QED
        BY <2>0, <4>1, <4>2, PaymentMove
    <3> QED
      BY <2>0, <3>1, TakenStays, OrderConstants
  <2> QED
    BY <2>0, <2>1, <2>2 DEF PaymentInv
<1>3. PaymentInv => PaidOrderHasItsPayment
  BY DEF PaymentInv
<1> QED
  BY <1>1, <1>2, <1>3, PTL DEF Spec
=============================================================================
