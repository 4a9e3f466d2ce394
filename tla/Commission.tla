------------------------------ MODULE Commission -------------------------------
(***************************************************************************)
(* The money of one school's settlements: which part of an order goes to   *)
(* whom, what is recorded, and what the dashboards show as pending.        *)
(* (Who is paid, as payments, refunds and settlements interleave, is in    *)
(* OrderLifecycle.)                                                        *)
(*                                                                         *)
(* Amounts are in fen, rates are parts of Whole.  Arithmetic is exact here, *)
(* as in the database; the service computes with doubles.  Tables are      *)
(* changed in transactions that lock what they read.                       *)
(***************************************************************************)
EXTENDS Integers, Sequences, FiniteSets, Functions

CONSTANTS
  None,
  Orders,
  Beneficiaries,  \* school super administrators
  Amounts,        \* actual_paid
  Whole,          \* 100 percent
  MaxRevisions    \* bound: changes of the beneficiaries

VARIABLES
  paid,       \* what an order was paid, if it was
  due,        \* whose relation with the school is not younger than the payment
  barred,     \* orders with a refund_status other than 0
  settled,    \* orders with settlement_status 1
  rates,      \* admin_school_relation of the school
  enabled,    \* beneficiaries with role 2 and status 1
  detail,     \* settlement_record_order: what of an order went to whom
  batch,      \* settlement_record, with the orders its details name
  revisions

vars == <<paid, due, barred, settled, rates, enabled, detail, batch, revisions>>

Batches == [b : Beneficiaries, rate : 1..Whole, orders : SUBSET Orders, total : Int]

TypeOK ==
  /\ paid \in [Orders -> Amounts \cup {None}]
  /\ due \in [Orders -> SUBSET Beneficiaries]
  /\ barred \subseteq Orders /\ settled \subseteq Orders
  /\ rates \in [Beneficiaries -> (0..Whole) \cup {None}]
  /\ enabled \subseteq Beneficiaries
  /\ detail \in [Orders -> [Beneficiaries -> Int \cup {None}]]
  /\ batch \in Seq(Batches)
  /\ revisions \in Nat

\* trg_admin_school_rate_before_insert and _update
TriggerAllows(r) ==
  SumFunction([b \in Beneficiaries |-> IF r[b] = None THEN 0 ELSE r[b]]) <= Whole

Init ==
  /\ paid = [o \in Orders |-> None]
  /\ due = [o \in Orders |-> {}]
  /\ barred = {} /\ settled = {}
  /\ rates \in [Beneficiaries -> (0..Whole) \cup {None}] /\ TriggerAllows(rates)
  /\ enabled = Beneficiaries
  /\ detail = [o \in Orders |-> [b \in Beneficiaries |-> None]]
  /\ batch = << >>
  /\ revisions = 0

-----------------------------------------------------------------------------
(* The amounts.                                                            *)

\* x * rate / 100, rounded half up.
Share(x, rate) == (2 * x * rate + Whole) \div (2 * Whole)

Paid(S) == SumFunction([o \in S |-> paid[o]])

\* Each order's share, rounded; the last row takes what is left of the rounded
\* share of all.  (The query names no order: any row may be the last.)
calculateCommissionAmounts(S, rate, last) ==
  LET amount == [o \in S |-> Share(paid[o], rate)]
      total  == Share(Paid(S), rate)
  IN [total |-> total,
      amounts |-> [amount EXCEPT ![last] = @ + total - SumFunction(amount)]]

-----------------------------------------------------------------------------
(* Settlements.                                                            *)

Earns(b) == b \in enabled /\ rates[b] \notin {None, 0}

\* The rows that SettleSchoolPendingOrders locks.
Rows(b) ==
  {o \in Orders : /\ paid[o] # None /\ o \notin settled /\ o \notin barred
                  /\ b \in due[o] /\ detail[o][b] = None}

SettleSchoolPendingOrders(b, last) ==
  LET S == Rows(b)
      c == calculateCommissionAmounts(S, rates[b], last)
  IN /\ Earns(b) /\ last \in S
     /\ detail' = [o \in Orders |-> IF o \in S THEN [detail[o] EXCEPT ![b] = c.amounts[o]] ELSE detail[o]]
     /\ batch' = Append(batch, [b |-> b, rate |-> rates[b], orders |-> S, total |-> c.total])
     /\ settled' = settled \cup
          {o \in S : \A x \in due[o] : Earns(x) => detail'[o][x] # None}
     /\ UNCHANGED <<paid, due, barred, rates, enabled, revisions>>

-----------------------------------------------------------------------------
(* What happens to the rows meanwhile.                                     *)

\* Where a cancellation overwrote the payment, the order may be paid again: it is
\* open again for whoever is related by then.
Pay(o) ==
  /\ \E x \in Amounts : paid[o] \in {None, x} /\ paid' = [paid EXCEPT ![o] = x]
  /\ due' = [due EXCEPT ![o] = {b \in Beneficiaries : rates[b] # None}]
  /\ settled' = IF o \in barred THEN settled ELSE settled \ {o}
  /\ UNCHANGED <<barred, rates, enabled, detail, batch, revisions>>

\* refund_status never returns to 0.
UpdateRefundApply(o) ==
  /\ paid[o] # None
  /\ barred' = barred \cup {o}
  /\ UNCHANGED <<paid, due, settled, rates, enabled, detail, batch, revisions>>

\* Creation, update and delegation of administrators.  A relation that is made
\* again later is younger than the payments so far.
ReplaceRates(r) ==
  /\ revisions < MaxRevisions
  /\ TriggerAllows(r)
  /\ rates' = r
  /\ due' = [o \in Orders |-> {b \in due[o] : r[b] # None}]
  /\ revisions' = revisions + 1
  /\ UNCHANGED <<paid, barred, settled, enabled, detail, batch>>

UpdateStatus(b) ==
  /\ revisions < MaxRevisions
  /\ enabled' = IF b \in enabled THEN enabled \ {b} ELSE enabled \cup {b}
  /\ revisions' = revisions + 1
  /\ UNCHANGED <<paid, due, barred, settled, rates, detail, batch>>

Next ==
  \/ \E b \in Beneficiaries, last \in Orders : SettleSchoolPendingOrders(b, last)
  \/ \E o \in Orders : Pay(o) \/ UpdateRefundApply(o)
  \/ \E r \in [Beneficiaries -> (0..Whole) \cup {None}] : ReplaceRates(r)
  \/ \E b \in Beneficiaries : UpdateStatus(b)

Spec == Init /\ [][Next]_vars

-----------------------------------------------------------------------------
(* What the dashboards show.                                               *)

\* The rows of the join, for one beneficiary.
Pending(b) ==
  {o \in Orders : /\ b \in enabled /\ rates[b] # None /\ rates[b] # 0
                  /\ paid[o] # None /\ o \notin settled /\ o \notin barred
                  /\ b \in due[o]
                  /\ detail[o][b] = None}

\* To a beneficiary: his pending orders are added up, then his share is rounded.
AdminRevenueStats(b) ==
  IF Pending(b) = {} THEN 0 ELSE Share(Paid(Pending(b)), rates[b])

\* To everybody else: the shares are added up, then the sum is rounded.
RevenueStats ==
  LET shares == [b \in Beneficiaries |->
                   SumFunction([o \in Pending(b) |-> paid[o] * rates[b]])]
  IN (2 * SumFunction(shares) + Whole) \div (2 * Whole)

-----------------------------------------------------------------------------
(* Properties.                                                             *)

Within(x, y, n) == x - y <= n /\ y - x <= n

\* The details of a settlement add up to its total, although each is rounded by
\* itself; the total is the exact share but for half a fen, a detail but for half
\* a fen per order of its settlement; and a detail belongs to one settlement.
BooksBalance ==
  /\ \A i \in DOMAIN batch :
       LET r == batch[i]
       IN /\ SumFunction([o \in r.orders |-> detail[o][r.b]]) = r.total
          /\ Within(2 * Whole * r.total, 2 * Paid(r.orders) * r.rate, Whole)
          /\ \A o \in r.orders :
               Within(2 * Whole * detail[o][r.b], 2 * paid[o] * r.rate, Whole * Cardinality(r.orders))
  /\ \A o \in Orders, b \in Beneficiaries :
       Cardinality({i \in DOMAIN batch : batch[i].b = b /\ o \in batch[i].orders})
         = IF detail[o][b] = None THEN 0 ELSE 1

\* What a beneficiary is shown as pending is what a settlement pays him now; and
\* the school's number differs from theirs by the rounding only, half a fen for
\* each of them and for itself.
PendingIsPaid ==
  /\ \A b \in Beneficiaries :
       IF Earns(b) /\ Rows(b) # {}
       THEN \A last \in Rows(b) :
              AdminRevenueStats(b) = calculateCommissionAmounts(Rows(b), rates[b], last).total
       ELSE AdminRevenueStats(b) = 0
  /\ Within(2 * RevenueStats,
            2 * SumFunction([b \in Beneficiaries |-> AdminRevenueStats(b)]),
            Cardinality(Beneficiaries) + 1)
=============================================================================
