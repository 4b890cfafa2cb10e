--------------------------- MODULE MCCloudDispatch ---------------------------
(***************************************************************************)
(* Instances of CloudDispatch for TLC: invocations a and b of dispatch,    *)
(* and s of runStatus.                                                     *)
(***************************************************************************)
EXTENDS CloudDispatch

CONSTANTS a, b, s

Retries   == {a, b}
OnePoller == {s}
Nobody    == {}
=============================================================================
