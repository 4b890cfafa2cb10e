---------------------------- MODULE MCFixLoop ----------------------------
(***************************************************************************)
(* Instances of FixLoop for TLC.                                           *)
(***************************************************************************)
EXTENDS FixLoop
==========================================================================
