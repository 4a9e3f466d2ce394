-------------------------- MODULE MCOrderLifecycle --------------------------
(***************************************************************************)
(* Instances of OrderLifecycle for TLC: its constants are sets of model    *)
(* values, and attempts, callback requests, administrators and             *)
(* beneficiaries are interchangeable.  (Not under liveness.)               *)
(***************************************************************************)
EXTENDS OrderLifecycle, TLC

\* All the attempts of the instances that use it are of one kind.
MCSymmetry ==
  Permutations(Attempts) \cup Permutations(Callbacks)
    \cup Permutations(SchoolAdmins) \cup Permutations(Beneficiaries)
=============================================================================
