----------------------------- MODULE MCCapacity -----------------------------
(***************************************************************************)
(* Instances of Capacity for TLC: processes p, q on one host and r on      *)
(* another one, each with one call on the same allowance.                  *)
(***************************************************************************)
EXTENDS Capacity

CONSTANTS p, q, r, free, here, there

Apps == {p, q, r}

\* Each process makes one call; the call carries its name.
Owners     == [c \in Apps |-> c]
Ledgers    == {free}
OneLedger  == [c \in Apps |-> free]
OneAtATime == [a \in Ledgers |-> 1]
Hosts      == [x \in Apps |-> IF x = r THEN there ELSE here]

Pauses == {2, 4}
Nobody == {}
OnlyP  == {p}
OnlyR  == {r}
=============================================================================
