----------------------------- MODULE MCBackOffice -----------------------------
(***************************************************************************)
(* BackOffice for TLC.                                                     *)
(***************************************************************************)
EXTENDS BackOffice, TLC

\* Nothing tells the members of these sets apart.
Symmetry == Permutations(Users) \cup Permutations(Keys) \cup Permutations(Calls)
=============================================================================
