--------------------------- MODULE MCOliveBranch ---------------------------
(***************************************************************************)
(* Instances of OliveBranch for TLC: requests are interchangeable, and so  *)
(* are the users besides the creator.                                      *)
(***************************************************************************)
EXTENDS OliveBranch, TLC

Symmetry == Permutations(Calls) \cup Permutations(Users \ {Creator})
=============================================================================
