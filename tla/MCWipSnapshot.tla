--------------------------- MODULE MCWipSnapshot ---------------------------
(***************************************************************************)
(* Instances of WipSnapshot for TLC.  Nothing tells the paths apart.       *)
(***************************************************************************)
EXTENDS WipSnapshot, TLC

Symmetry == Permutations(Paths)
============================================================================
