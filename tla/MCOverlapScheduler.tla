------------------------- MODULE MCOverlapScheduler -------------------------
(***************************************************************************)
(* Instances of OverlapScheduler for TLC.                                  *)
(***************************************************************************)
EXTENDS OverlapScheduler, TLC

Symmetry == Permutations(Requests)
=============================================================================
