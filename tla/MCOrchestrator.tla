--------------------------- MODULE MCOrchestrator ---------------------------
(***************************************************************************)
(* Instances of Orchestrator for TLC.                                      *)
(***************************************************************************)
EXTENDS Orchestrator

\* The files of the repository under work.
NoFile  == {}
OneFile == {"a.py"}

\* The exhaustive flags its workers declare.
Always == {TRUE}
Either == BOOLEAN
=============================================================================
