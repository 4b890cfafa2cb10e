--------------------------- MODULE SequentialQueue ---------------------------
(***************************************************************************)
(* What a target queue promises, without receipts, passes or processes:    *)
(* "exactly one target may execute at a time", every target is attempted   *)
(* in the order given, and a verdict once given is final.  Orchestrator    *)
(* implements this specification with the statuses of the receipt on disk. *)
(***************************************************************************)
EXTENDS Integers

CONSTANT NTargets

VARIABLE outcome    \* [1..NTargets -> {"waiting", "working", "passed", "failed"}]

IsDecided(i) == outcome[i] \in {"passed", "failed"}

Init == outcome = [i \in 1 .. NTargets |-> "waiting"]

\* The first undecided target starts; every earlier one has its verdict.
Start(i) ==
    /\ outcome[i] = "waiting"
    /\ \A j \in 1 .. i - 1 : IsDecided(j)
    /\ outcome' = [outcome EXCEPT ![i] = "working"]

\* The work on a target ends with a verdict.
Decide(i, verdict) ==
    /\ outcome[i] = "working"
    /\ outcome' = [outcome EXCEPT ![i] = verdict]

\* The work on a target was interrupted, and the target waits again.
Requeue(i) ==
    /\ outcome[i] = "working"
    /\ outcome' = [outcome EXCEPT ![i] = "waiting"]

Next ==
    \E i \in 1 .. NTargets :
        \/ Start(i)
        \/ \E verdict \in {"passed", "failed"} : Decide(i, verdict)
        \/ Requeue(i)

Spec == Init /\ [][Next]_outcome

=============================================================================
