--------------------------- MODULE MCRecruitment ---------------------------
(***************************************************************************)
(* Instances of Recruitment for TLC.  Requests are interchangeable, so     *)
(* that Calls is a symmetry set; the users besides the creator are too.    *)
(***************************************************************************)
EXTENDS Recruitment, TLC

Symmetry == Permutations(Calls) \cup Permutations(Users \ {Creator})
=============================================================================
