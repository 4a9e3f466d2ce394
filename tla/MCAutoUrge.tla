----------------------------- MODULE MCAutoUrge -----------------------------
(***************************************************************************)
(* Instances of AutoUrge for TLC: users and workers are model values.      *)
(* Liveness is checked, so that no symmetry is used.                       *)
(***************************************************************************)
EXTENDS AutoUrge
=============================================================================
