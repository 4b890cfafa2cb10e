---------------------------- MODULE MCAuditLoop ----------------------------
(***************************************************************************)
(* Instances of AuditLoop for TLC.                                         *)
(***************************************************************************)
EXTENDS AuditLoop

\* The numbers of bytes mean nothing but equality: of two states that differ in them
\* only, one is looked at.
Known(f) == <<disk[f], head[f], verdict[f].of, saved.start[f], saved.reviewed[f].of,
              mem.start[f], mem.reviewed[f].of>>
SameBytes(f) == LET known == Known(f)
                IN  [i \in 1 .. 7 |-> CHOOSE j \in 1 .. 7 : known[j] = known[i]]
UpToNumbers ==
    <<[f \in Files |-> <<SameBytes(f), verdict[f].is, saved.reviewed[f].is, mem.reviewed[f].is>>],
      saved.live, saved.anchored, saved.applied, mem.live, mem.anchored, mem.applied,
      enabled, pc, place, pass, run, restarts>>
============================================================================
