---------------------------- MODULE BranchQuota ----------------------------
(***************************************************************************)
(* What the quota of olive branches promises: some free branches a day,    *)
(* then those that were bought, each charge at one instant.                *)
(***************************************************************************)
EXTENDS Naturals

CONSTANTS
  Users,
  DailyFreeQuota  \* a number

VARIABLES
  used,   \* user.free_branch_used_today
  paid,   \* user.olive_branch_count
  active, \* user.last_active_date
  today

vars == <<used, paid, active, today>>

Init ==
  /\ used = [u \in Users |-> 0]
  /\ paid = [u \in Users |-> 0]
  /\ active = [u \in Users |-> 0]
  /\ today = 0

\* The free branches that count on day d.
UsedOn(u, d) == IF active[u] < d THEN 0 ELSE used[u]

\* A charge belongs to the day on which its transaction began to count.
Charge(u, d) ==
  /\ d <= today /\ active[u] <= d
  /\ active' = [active EXCEPT ![u] = d]
  /\ \/ /\ UsedOn(u, d) < DailyFreeQuota
        /\ used' = [used EXCEPT ![u] = UsedOn(u, d) + 1]
        /\ UNCHANGED paid
     \/ /\ UsedOn(u, d) >= DailyFreeQuota
        /\ paid[u] > 0
        /\ paid' = [paid EXCEPT ![u] = @ - 1]
        /\ used' = [used EXCEPT ![u] = UsedOn(u, d)]
  /\ UNCHANGED today

Buy(u) ==
  /\ paid'[u] \in Nat /\ paid'[u] > paid[u]
  /\ paid' = [paid EXCEPT ![u] = paid'[u]]
  /\ UNCHANGED <<used, active, today>>

Visit(u) ==
  /\ active[u] < today
  /\ active' = [active EXCEPT ![u] = today]
  /\ used' = [used EXCEPT ![u] = 0]
  /\ UNCHANGED <<paid, today>>

NextDay ==
  /\ today' = today + 1
  /\ UNCHANGED <<used, paid, active>>

Next ==
  \/ \E u \in Users : (\E d \in 0..today : Charge(u, d)) \/ Buy(u) \/ Visit(u)
  \/ NextDay

Spec == Init /\ [][Next]_vars
=============================================================================
