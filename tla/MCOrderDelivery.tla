-------------------------- MODULE MCOrderDelivery --------------------------
(***************************************************************************)
(* Small instances of OrderDelivery for TLC.                               *)
(***************************************************************************)
EXTENDS OrderDelivery, TLC

\* Workers are interchangeable, and so are orders: kind is a function on them.
MCSymmetry == Permutations(Workers) \cup Permutations(Orders)
=============================================================================
