----------------------------- MODULE MCWxOutbox -----------------------------
(***************************************************************************)
(* Instances of WxOutbox for TLC: deliveries and workers are model values. *)
(* Liveness is checked, so that no symmetry is used.                       *)
(***************************************************************************)
EXTENDS WxOutbox
=============================================================================
