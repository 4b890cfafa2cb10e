----------------------------- MODULE MCRotation -----------------------------
(***************************************************************************)
(* Instances of Rotation for TLC: two threads of a run, each of which may  *)
(* also be a call of another app; two pools, the second with two routes,   *)
(* one of each family.                                                     *)
(***************************************************************************)
EXTENDS Rotation, TLC

CONSTANTS v, w, a, b, a1, b1, b2, x, y

AnyThread == Permutations({v, w})
PoolOfRoute == [r \in Routes |-> IF r = a1 THEN a ELSE b]
FamilyOfRoute == [r \in Routes |-> IF r = b2 THEN y ELSE x]

\* A run is followed until a lock file is taken from its holder.
UntilBroken == ~broken
=============================================================================
