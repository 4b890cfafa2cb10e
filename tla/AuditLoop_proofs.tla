-------------------------- MODULE AuditLoop_proofs --------------------------
(***************************************************************************)
(* Proofs about AuditLoop, for every number of files, batch size, limit of *)
(* passes, attempts and rounds, and any number of restarts.                *)
(*                                                                         *)
(* The argument: during the passes every file is covered (Covers): its     *)
(* last review saw the bytes on disk, or its findings are open, or this    *)
(* pass changed it, or this pass has still to review it.  A pass that      *)
(* repairs nothing empties the last two, a pass that repairs something     *)
(* hands them to the next one.  After the passes the rescans keep the      *)
(* same account for what the bridge changes (Rescanned), and what the      *)
(* readiness remediation edits after them is known by name (Ended).        *)
(***************************************************************************)
EXTENDS AuditLoop, FiniteSetTheorems, TLAPS

\* The part of the run up to the end of the passes, and the part after it.
Repairing == pc \in {"repair", "record", "commit"}
BeforePasses == phase \in {"baseline", "early"}
InPasses ==
    \/ pc \in {"early", "purpose", "review", "decide"}
    \/ Repairing /\ (BeforePasses \/ phase \in {"pass", "competitor"})
InBridge == pc = "rescan" \/ (Repairing /\ phase \in {"bridge", "rescan"})

\* The last completed review of the file found these very bytes clean.
Clean(f) == verdict[f] = [of |-> disk[f], is |-> "clean"]
Exempt(f) == f \in Ungated \cap run.applied

\* Readiness remediation has edited it after the last review.
Remediated(f) == f \in run.remediated

\* A pass that goes on has batches left before it must stop.
ZeroLeft == pass.stopped \/ pass.zero < ZeroBatches

\* Replayed findings are real ones, and are taken by the first batch.
Replays ==
    /\ \A f \in replay : mem.reviewed[f].is # "none"
    /\ replay # {} => BeforePasses /\ (Repairing \/ pc \in {"early", "purpose", "review"})

\* A process begins without reviews of its own.
StartsBlank == pc \in {"down", "changed"} => \A f \in Files : verdict[f].is = "none"

\* The first pass covers all files; its early repairs precede its reviews.
EarlyFirst ==
    InPasses => /\ pc \in {"early", "purpose"} => BeforePasses
                /\ phase = "baseline" => Repairing \/ pc = "purpose"
                /\ BeforePasses => scope = Files /\ pass.reviewed = {}
                /\ phase = "pass" \/ cycle = 1
                /\ phase = "pass" /\ Repairing => pass.fixable
                /\ ~run.converged

\* Follow-up passes take their batches from their scope.
Shrinks ==
    InPasses /\ pc # "decide" /\ phase = "pass" /\ cycle > 1 =>
        todo \subseteq scope /\ (pass.fixable => todo # scope)

\* The accounting that lets a pass lead to a decision.
Accounted ==
    pc = "decide" \/ (Repairing /\ phase = "competitor") =>
        work = {} /\ scope \subseteq pass.reviewed

\* Outside a repair the tree is clean, inside it differs where the pass says.
Tree ==
    InPasses /\ ~run.dirty =>
        \A f \in Files :
            \/ disk[f] = head[f]
            \/ /\ pc = "commit" \/ (pc = "record" /\ phase # "competitor")
               /\ f \in pass.changed
               /\ BeforePasses \/ pass.fixable

\* Every file is accounted for.
Awaited(f) == f \in scope \ pass.reviewed
Covers ==
    InPasses /\ ~run.dirty =>
        \A f \in Files :
            \/ verdict[f].of = disk[f]
            \/ f \in run.unresolved
            \/ pass.fixable /\ f \in pass.changed
            \/ Awaited(f)
Seen == InPasses => \A f \in Files : verdict[f].is # "none" \/ Awaited(f)
Open == InPasses => \A f \in Files : verdict[f].is = "faulty" => f \in run.unresolved

\* A run that leaves the passes converged.
Bridged ==
    pc = "bridge" /\ run.converged /\ ~run.dirty =>
        /\ ~run.manual /\ scope = {} /\ work = {} /\ disk = head
        /\ \A f \in Files : Clean(f)

\* What the bridge and the rescans change stays accounted for.
Rescanned ==
    InBridge /\ run.converged /\ ~run.dirty /\ ~run.manual =>
        /\ pc = "repair" => scope = {} /\ (phase = "bridge" => work = {})
        /\ \A f \in Files :
              \/ Clean(f) \/ f \in scope \/ Exempt(f)
              \/ pc = "repair" /\ f \in work
        /\ \A f \in Files :
              \/ disk[f] = head[f]
              \/ pc \in {"record", "commit"} /\ (f \in scope \/ Exempt(f))

\* A run that ends converged: what remediation leaves alone stays reviewed, and when
\* its commit is refused the reset brings back what had been reviewed.
Ended ==
    pc \in {"settle", "ship", "close", "done"} /\ run.converged /\ ~run.dirty /\ ~run.manual =>
        \A f \in Files :
            /\ Clean(f) \/ Exempt(f) \/ Remediated(f)
            /\ pc = "settle" => disk[f] = head[f]
            /\ pc = "ship" => verdict[f] = [of |-> head[f], is |-> "clean"] \/ Exempt(f)
Unremediated == pc \notin {"ship", "close", "done"} => run.remediated = {}

DoneSettled == pc = "done" /\ run.converged => ~run.manual

IInv ==
    /\ TypeOK /\ ZeroLeft /\ Replays /\ StartsBlank
    /\ EarlyFirst /\ Shrinks /\ Accounted
    /\ Tree /\ Covers /\ Seen /\ Open
    /\ Bridged /\ Rescanned /\ Ended /\ DoneSettled /\ Unremediated

(***************************************************************************)
(* Values                                                                  *)
(***************************************************************************)

PassType == [reviewed : SUBSET Files, incomplete : SUBSET Files,
             candidates : SUBSET Files, attempted : SUBSET Files,
             changed : SUBSET Files, fixable : BOOLEAN, applied : BOOLEAN,
             stopped : BOOLEAN, zero : 0 .. ZeroBatches]

RunType == [unresolved : SUBSET Files, manual : BOOLEAN, applied : SUBSET Files,
            attempts : [Files -> 0 .. MaxFixAttempts],
            dirty : BOOLEAN, abort : BOOLEAN, converged : BOOLEAN,
            remediated : SUBSET Files]

\* A set of small numbers that is not empty has a least element.
LEMMA MinOK ==
  ASSUME NEW S \in SUBSET Bytes, S # {}
  PROVE  Min(S) \in S
<1>1. \E x \in S : \A y \in S : x =< y
  <2>1. S \subseteq 0 .. 7
    BY DEF Bytes
  <2>2. CASE 0 \in S
    BY <2>1, <2>2
  <2>3. CASE 0 \notin S /\ 1 \in S
    BY <2>1, <2>3
  <2>4. CASE 0 \notin S /\ 1 \notin S /\ 2 \in S
    BY <2>1, <2>4
  <2>5. CASE 0 \notin S /\ 1 \notin S /\ 2 \notin S /\ 3 \in S
    BY <2>1, <2>5
  <2>6. CASE 0 \notin S /\ 1 \notin S /\ 2 \notin S /\ 3 \notin S /\ 4 \in S
    BY <2>1, <2>6
  <2>7. CASE 0 \notin S /\ 1 \notin S /\ 2 \notin S /\ 3 \notin S /\ 4 \notin S /\ 5 \in S
    BY <2>1, <2>7
  <2>8. CASE /\ 0 \notin S /\ 1 \notin S /\ 2 \notin S /\ 3 \notin S /\ 4 \notin S /\ 5 \notin S
             /\ 6 \in S
    BY <2>1, <2>8
  <2>9. CASE /\ 0 \notin S /\ 1 \notin S /\ 2 \notin S /\ 3 \notin S /\ 4 \notin S /\ 5 \notin S
             /\ 6 \notin S
    <3>1. \A y \in S : y = 7
      BY <2>1, <2>9
    <3> QED
      BY <3>1
  <2> QED
    BY <2>2, <2>3, <2>4, <2>5, <2>6, <2>7, <2>8, <2>9
<1> QED
  BY <1>1 DEF Min

\* The least of two numbers is one of them.
LEMMA MinOfTwo ==
  ASSUME NEW a \in Nat, NEW b \in Nat
  PROVE  Min({a, b}) \in 0 .. b
<1>1. \E x \in {a, b} : \A y \in {a, b} : x =< y
  <2>1. a =< b \/ b =< a
    OBVIOUS
  <2> QED
    BY <2>1
<1>2. Min({a, b}) \in {a, b} /\ \A y \in {a, b} : Min({a, b}) =< y
  BY <1>1 DEF Min
<1> QED
  BY <1>2

\* What a review leaves are verdicts.
LEMMA RememberOK ==
  ASSUME TypeOK, NEW S, NEW a \in Answers(S),
         NEW STATE old, old \in [Files -> Review]
  PROVE  Remember(old, a) \in [Files -> Review]
<1>1. \A f \in Reviewed(a) : a[f] \in {"clean", "faulty"}
  BY DEF Reviewed, Answers
<1>2. \A f \in Files : disk[f] \in Bytes
  BY DEF TypeOK
<1>3. ASSUME NEW f \in Files, f \in DOMAIN a, a[f] # "incomplete"
      PROVE  [of |-> disk[f], is |-> a[f]] \in Review
  BY <1>1, <1>2, <1>3 DEF Review, Reviewed
<1> QED
  BY <1>3 DEF Remember

\* There are enough numbers for the bytes a file has at one time.
LEMMA NewBytesOK ==
  ASSUME TypeOK, NEW f \in Files
  PROVE  NewBytes(f) \in Bytes
<1> DEFINE a == disk[f]
           b == head[f]
           c == verdict[f].of
           d == saved.start[f]
           h == mem.start[f]
           e == saved.reviewed[f].of
           g == mem.reviewed[f].of
           S == Bytes \ {a, b, c, d, h, e, g}
<1>1. ~ \A n \in Bytes : n \in {a, b, c, d, h, e, g}
  <2> HIDE DEF a, b, c, d, h, e, g
  <2> QED
    BY DEF Bytes
<1>2. S \in SUBSET Bytes /\ S # {}
  BY <1>1
<1> HIDE DEF S
<1>3. Min(S) \in S
  BY <1>2, MinOK
<1> QED
  BY <1>2, <1>3 DEF NewBytes, S

\* An edited tree is a tree, and only the edited files differ.
LEMMA EditedOK ==
  ASSUME TypeOK, NEW A \in SUBSET Files
  PROVE  /\ Edited(A) \in [Files -> Bytes]
         /\ \A f \in Files : f \notin A => Edited(A)[f] = disk[f]
<1>1. \A f \in Files : NewBytes(f) \in Bytes
  BY NewBytesOK
<1>2. \A f \in Files : disk[f] \in Bytes
  BY DEF TypeOK
<1> QED
  BY <1>1, <1>2 DEF Edited

\* Renumbering stays within the small numbers.
LEMMA RenumberedOK ==
  ASSUME NEW f \in Files, NEW b \in {head[f], saved.start[f], saved.reviewed[f].of}
  PROVE  Renumbered(f, b) \in Bytes
<1> DEFINE x == head[f]
           y == saved.start[f]
           z == saved.reviewed[f].of
           known == <<x, y, z>>
           J == {j \in DOMAIN known : known[j] = b}
           m == Min(J)
           K == {known[i] : i \in 1 .. m}
<1> HIDE DEF x, y, z
<1>1. /\ DOMAIN known = {1, 2, 3}
      /\ known[1] = x /\ known[2] = y /\ known[3] = z
  OBVIOUS
<1>2. J \in SUBSET Bytes /\ J # {} /\ J \subseteq {1, 2, 3}
  BY <1>1 DEF Bytes, x, y, z
<1> HIDE DEF J
<1>3. m \in {1, 2, 3}
  BY <1>2, MinOK
<1> HIDE DEF m
<1>4. K = {x} \/ K = {x, y} \/ K = {x, y, z}
  <2>1. CASE m = 1
    <3>1. 1 .. m = {1}
      BY <2>1
    <3>2. K = {x}
      BY <1>1, <3>1
    <3> QED
      BY <3>2
  <2>2. CASE m = 2
    <3>1. 1 .. m = {1, 2}
      BY <2>2
    <3>2. K = {x, y}
      BY <1>1, <3>1
    <3> QED
      BY <3>2
  <2>3. CASE m = 3
    <3>1. 1 .. m = {1, 2, 3}
      BY <2>3
    <3>2. K = {x, y, z}
      BY <1>1, <3>1
    <3> QED
      BY <3>2
  <2> QED
    BY <1>3, <2>1, <2>2, <2>3
<1> HIDE DEF K, known
<1>5. IsFiniteSet({x}) /\ Cardinality({x}) = 1
  BY FS_Singleton
<1>6. IsFiniteSet({x} \cup {y}) /\ Cardinality({x} \cup {y}) \in 1 .. 2
  BY <1>5, FS_AddElement
<1>7. IsFiniteSet(({x} \cup {y}) \cup {z}) /\ Cardinality(({x} \cup {y}) \cup {z}) \in 1 .. 3
  BY <1>6, FS_AddElement
<1>8. {x, y} = {x} \cup {y} /\ {x, y, z} = ({x} \cup {y}) \cup {z}
  OBVIOUS
<1>9. Cardinality(K) \in 1 .. 3
  BY <1>4, <1>5, <1>6, <1>7, <1>8
<1>10. Renumbered(f, b) = Cardinality(K) - 1
  BY DEF Renumbered, K, m, J, known, x, y, z
<1> QED
  BY <1>9, <1>10 DEF Bytes

\* A save leaves two checkpoints, of which memory is the one given.
LEMMA SaveOK ==
  ASSUME TypeOK, NEW d \in Checkpoint, Save(d)
  PROVE  mem' = d /\ mem' \in Checkpoint /\ saved' \in Checkpoint /\ enabled' \in BOOLEAN
  BY DEF Save, TypeOK

\* The records a run and a pass begin with.
LEMMA FreshOK ==
  /\ NewRun \in Checkpoint /\ FreshPass \in PassType /\ FreshRun \in RunType
  /\ NoReview \in Review
<1>1. 0 \in Bytes /\ 0 \in 0 .. ZeroBatches /\ 0 \in 0 .. MaxFixAttempts
  BY AuditAssumption DEF AuditAssumption, Bytes
<1>2. NoReview \in Review
  BY <1>1 DEF NoReview, Review
<1>3. NewRun \in Checkpoint
  BY <1>1, <1>2 DEF NewRun, Checkpoint
<1>4. FreshPass \in PassType
  BY <1>1 DEF FreshPass, PassType
<1>5. FreshRun \in RunType
  BY <1>1 DEF FreshRun, RunType
<1> QED
  BY <1>2, <1>3, <1>4, <1>5

(***************************************************************************)
(* Steps: beginning and ending                                             *)
(***************************************************************************)

\* The initial state satisfies the invariant.
LEMMA InitOK == Init => IInv
<1>1. SUFFICES ASSUME Init PROVE IInv
  OBVIOUS
<1>2. disk \in [Files -> Bytes] /\ head \in [Files -> Bytes]
  BY <1>1 DEF Init, Bytes
<1>3. verdict \in [Files -> Review] /\ \A f \in Files : verdict[f].is = "none"
  BY <1>1, FreshOK DEF Init, NoReview
<1>4. saved \in Checkpoint /\ mem \in Checkpoint
  BY <1>1, FreshOK DEF Init, Checkpoint
<1>5. pass \in PassType /\ run \in RunType
  BY <1>1, FreshOK DEF Init
<1>6. cycle \in 0 .. CycleCap + LastRound /\ restarts \in 0 .. MaxRestarts
  BY <1>1, AuditAssumption DEF Init, AuditAssumption
<1>7. TypeOK
  BY <1>1, <1>2, <1>3, <1>4, <1>5, <1>6 DEF Init, TypeOK, PassType, RunType
<1>8. ZeroLeft
  BY <1>1, AuditAssumption DEF Init, ZeroLeft, FreshPass, AuditAssumption
<1>9. pc = "down" /\ replay = {}
  BY <1>1 DEF Init
<1>10. Replays /\ StartsBlank
  BY <1>3, <1>9 DEF Replays, StartsBlank, BeforePasses
<1>11. ~InPasses /\ ~InBridge /\ ~Repairing /\ run.remediated = {}
  BY <1>1, <1>9 DEF Init, FreshRun, InPasses, InBridge, Repairing
<1> QED
  BY <1>7, <1>8, <1>9, <1>10, <1>11 DEF IInv, EarlyFirst, Shrinks, Accounted, Tree, Covers,
     Seen, Open, Bridged, Rescanned, Ended, DoneSettled, Unremediated, BeforePasses

\* A state outside the passes and the rescans owes little.
LEMMA Outside ==
  ASSUME TypeOK', ZeroLeft', replay' = {}, StartsBlank',
         pc' \in {"down", "changed", "bridge", "settle", "ship", "close", "done"},
         Bridged', Ended', DoneSettled' /\ Unremediated'
  PROVE  IInv'
<1>1. ~InPasses' /\ ~InBridge' /\ ~Repairing' /\ pc' # "decide"
  BY DEF InPasses, InBridge, Repairing, BeforePasses
<1>2. Replays'
  BY DEF Replays, BeforePasses
<1> QED
  BY <1>1, <1>2 DEF IInv, EarlyFirst, Shrinks, Accounted, Tree, Covers, Seen, Open, Rescanned, BeforePasses

\* A process begins with everything to review.
LEMMA StartOK == IInv /\ Start => IInv'
<1>1. SUFFICES ASSUME IInv, Start PROVE IInv'
  OBVIOUS
<1>2. TypeOK /\ \A f \in Files : verdict[f].is = "none"
  BY <1>1 DEF IInv, StartsBlank, Start
<1>3. /\ verdict' = verdict /\ restarts' = restarts
      /\ head' = [f \in Files |-> 0] /\ disk' = head'
      /\ pc' = "early" /\ phase' = "early" /\ cycle' = 1
      /\ scope' = Files /\ todo' = Files /\ work' = {}
  BY <1>1 DEF Start
<1>4. PICK policyHolds \in BOOLEAN, descends \in BOOLEAN :
        LET resumed == Resumable /\ policyHolds
            carried == IF resumed /\ descends THEN Carried ELSE {}
        IN  /\ mem' = [(IF resumed THEN OnDisk ELSE NewRun) EXCEPT !.live = TRUE, !.anchored = TRUE]
            /\ replay' = IF resumed THEN Replayable ELSE {}
            /\ run' = [FreshRun EXCEPT !.applied = carried]
            /\ pass' = [FreshPass EXCEPT !.changed = carried]
  BY <1>1 DEF Start
<1> DEFINE resumed == Resumable /\ policyHolds
           carried == IF resumed /\ descends THEN Carried ELSE {}
<1>5. /\ mem' = [(IF resumed THEN OnDisk ELSE NewRun) EXCEPT !.live = TRUE, !.anchored = TRUE]
      /\ replay' = IF resumed THEN Replayable ELSE {}
      /\ run' = [FreshRun EXCEPT !.applied = carried]
      /\ pass' = [FreshPass EXCEPT !.changed = carried]
  BY <1>4
<1>6. saved \in Checkpoint
  BY <1>2 DEF TypeOK
<1>7. [f \in Files |-> Renumbered(f, saved.start[f])] \in [Files -> Bytes]
  BY RenumberedOK
<1>8. ASSUME NEW f \in Files
      PROVE  Reread(f) \in Review /\ Reread(f).is = saved.reviewed[f].is
  <2>1. saved.reviewed[f] \in Review
    BY <1>6 DEF Checkpoint
  <2>2. Renumbered(f, saved.reviewed[f].of) \in Bytes
    BY RenumberedOK
  <2> QED
    BY <2>1, <2>2 DEF Reread, Review
<1>9. [f \in Files |-> Reread(f)] \in [Files -> Review]
  BY <1>8
<1>10. OnDisk \in Checkpoint /\ \A f \in Files : OnDisk.reviewed[f].is = saved.reviewed[f].is
  BY <1>6, <1>7, <1>8, <1>9 DEF OnDisk, Checkpoint
<1>11. /\ mem' \in Checkpoint
       /\ resumed => \A f \in Files : mem'.reviewed[f].is = saved.reviewed[f].is
  <2>1. CASE resumed
    <3>1. mem' = [OnDisk EXCEPT !.live = TRUE, !.anchored = TRUE]
      BY <1>5, <2>1
    <3> QED
      BY <1>10, <3>1 DEF Checkpoint
  <2>2. CASE ~resumed
    <3>1. mem' = [NewRun EXCEPT !.live = TRUE, !.anchored = TRUE]
      BY <1>5, <2>2
    <3> QED
      BY <2>2, <3>1, FreshOK DEF Checkpoint
  <2> QED
    BY <2>1, <2>2
<1>12. saved' \in Checkpoint /\ enabled' \in BOOLEAN
  <2>1. \/ saved' = mem' /\ UNCHANGED enabled
        \/ saved' = OnDisk /\ enabled' = FALSE
    BY <1>1 DEF Start
  <2>2. enabled \in BOOLEAN
    BY <1>2 DEF TypeOK
  <2> QED
    BY <1>10, <1>11, <2>1, <2>2
<1>13. Replayable \subseteq Files /\ \A f \in Replayable : saved.reviewed[f].is # "none"
  BY DEF Replayable
<1>14. carried \subseteq Files
  <2>1. Carried \subseteq Files
    BY <1>2 DEF Carried, TypeOK, Checkpoint
  <2> QED
    BY <2>1
<1> HIDE DEF carried
<1>15. /\ run' \in RunType /\ pass' \in PassType
       /\ ~run'.converged /\ run'.remediated = {}
       /\ ~pass'.stopped /\ pass'.zero = 0 /\ pass'.reviewed = {}
  <2>1. run' \in RunType /\ ~run'.converged /\ run'.remediated = {}
    BY <1>5, <1>14, FreshOK DEF RunType, FreshRun
  <2>2. pass' \in PassType
    BY <1>5, <1>14, FreshOK DEF PassType
  <2>3. ~pass'.stopped /\ pass'.zero = 0 /\ pass'.reviewed = {}
    BY <1>5 DEF FreshPass
  <2> QED
    BY <2>1, <2>2, <2>3
<1>16. replay' \subseteq Files /\ \A f \in replay' : mem'.reviewed[f].is # "none"
  <2>1. CASE resumed
    <3>1. replay' = Replayable
      BY <1>5, <2>1
    <3> QED
      BY <1>11, <1>13, <2>1, <3>1
  <2>2. CASE ~resumed
    BY <1>5, <2>2
  <2> QED
    BY <2>1, <2>2
<1>17. disk' \in [Files -> Bytes] /\ head' \in [Files -> Bytes]
  BY <1>3 DEF Bytes
<1>18. cycle' \in 0 .. CycleCap + LastRound
  BY <1>3, AuditAssumption DEF AuditAssumption
<1>19. TypeOK'
  BY <1>2, <1>3, <1>11, <1>12, <1>15, <1>16, <1>17, <1>18 DEF TypeOK, PassType, RunType
<1>20. ZeroLeft'
  BY <1>15, AuditAssumption DEF ZeroLeft, AuditAssumption
<1>21. Replays' /\ StartsBlank'
  BY <1>2, <1>3, <1>16 DEF Replays, StartsBlank, BeforePasses
<1>22. EarlyFirst' /\ Shrinks' /\ Accounted'
  BY <1>3, <1>15 DEF BeforePasses, EarlyFirst, Shrinks, Accounted, Repairing
<1>23. Tree'
  BY <1>3 DEF Tree, BeforePasses
<1>24. Covers' /\ Seen' /\ Open'
  BY <1>2, <1>3, <1>15 DEF Covers, Seen, Open, Awaited
<1>25. Bridged' /\ Rescanned' /\ Ended' /\ DoneSettled' /\ Unremediated'
  BY <1>1, <1>2, <1>3, <1>15 DEF IInv, Bridged, Rescanned, InBridge, Repairing, Ended, DoneSettled, Unremediated
<1> QED
  BY <1>19, <1>20, <1>21, <1>22, <1>23, <1>24, <1>25 DEF IInv

\* The process dies.
LEMMA StopOK == IInv /\ Stop => IInv'
<1>1. SUFFICES ASSUME IInv, Stop PROVE IInv'
  OBVIOUS
<1>2. TypeOK
  BY <1>1 DEF IInv
<1>3. /\ saved' \in {saved, mem} /\ mem' = saved' /\ enabled' = TRUE
      /\ pc' = "down" /\ restarts' = restarts + 1 /\ restarts < MaxRestarts
      /\ phase' = "early" /\ cycle' = 0 /\ scope' = {} /\ todo' = {} /\ replay' = {} /\ work' = {}
      /\ pass' = FreshPass /\ run' = FreshRun
      /\ verdict' = [f \in Files |-> NoReview]
      /\ disk' = disk /\ head' = head
  BY <1>1 DEF Stop, Forget
<1>4. cycle' \in 0 .. CycleCap + LastRound /\ restarts' \in 0 .. MaxRestarts
  BY <1>2, <1>3, AuditAssumption DEF AuditAssumption, TypeOK
<1>5. pass' \in PassType /\ run' \in RunType /\ verdict' \in [Files -> Review]
  BY <1>3, FreshOK
<1>6. TypeOK'
  BY <1>2, <1>3, <1>4, <1>5 DEF TypeOK, PassType, RunType
<1>7. ZeroLeft' /\ StartsBlank'
  BY <1>3, AuditAssumption DEF ZeroLeft, FreshPass, AuditAssumption, StartsBlank, NoReview
<1>8. Bridged' /\ Ended' /\ DoneSettled' /\ Unremediated'
  BY <1>3 DEF Bridged, Ended, DoneSettled, Unremediated, FreshRun
<1> QED
  BY <1>3, <1>6, <1>7, <1>8, Outside

\* Somebody else commits while no process runs.
LEMMA OwnerCommitsOK == IInv /\ OwnerCommits => IInv'
<1>1. SUFFICES ASSUME IInv, OwnerCommits PROVE IInv'
  OBVIOUS
<1>2. TypeOK /\ pc = "down" /\ pc' = "changed" /\ replay = {}
  BY <1>1 DEF IInv, OwnerCommits, Replays, Repairing, BeforePasses
<1>3. UNCHANGED <<verdict, saved, mem, enabled, phase, cycle, scope, todo, replay, work,
                  pass, run, restarts>>
  BY <1>1 DEF OwnerCommits, stored, place
<1>4. PICK f \in Files :
         \E b \in {NewBytes(f), saved.start[f]} :
            disk' = [disk EXCEPT ![f] = b] /\ head' = [head EXCEPT ![f] = b]
  BY <1>1 DEF OwnerCommits
<1>10. PICK b \in {NewBytes(f), saved.start[f]} :
          disk' = [disk EXCEPT ![f] = b] /\ head' = [head EXCEPT ![f] = b]
  BY <1>4
<1>5. b \in Bytes
  BY <1>2, <1>10, NewBytesOK DEF TypeOK, Checkpoint
<1>6. disk' \in [Files -> Bytes] /\ head' \in [Files -> Bytes]
  BY <1>2, <1>10, <1>5 DEF TypeOK
<1>7. TypeOK'
  BY <1>2, <1>3, <1>6 DEF TypeOK
<1>8. ZeroLeft' /\ StartsBlank'
  BY <1>1, <1>2, <1>3 DEF IInv, ZeroLeft, StartsBlank
<1>9. Bridged' /\ Ended' /\ DoneSettled' /\ Unremediated'
  BY <1>1, <1>2, <1>3 DEF IInv, Bridged, Ended, DoneSettled, Unremediated
<1> QED
  BY <1>2, <1>3, <1>7, <1>8, <1>9, Outside

\* The early phases hand over to a repair or to the first pass.
LEMMA EarlyOK == IInv /\ Early => IInv'
<1>1. SUFFICES ASSUME IInv, Early PROVE IInv'
  OBVIOUS
<1>2. /\ \/ pc = "early" /\ pc' = "repair" /\ phase' = "baseline"
         \/ pc \in {"early", "purpose"} /\ pc' \in {"repair", "review"} /\ phase' = "early"
      /\ UNCHANGED <<disk, head, verdict, saved, mem, enabled, cycle, scope, todo,
                     replay, work, pass, run, restarts>>
  BY <1>1 DEF Early, bytes, stored
<1>3. TypeOK' /\ ZeroLeft' /\ StartsBlank'
  BY <1>1, <1>2 DEF IInv, TypeOK, ZeroLeft, StartsBlank
<1>4. InPasses /\ BeforePasses /\ BeforePasses'
  BY <1>1, <1>2 DEF IInv, InPasses, BeforePasses, EarlyFirst
<1>5. InPasses' /\ ~InBridge'
  BY <1>2, <1>4 DEF InPasses, InBridge, Repairing, BeforePasses
<1>6. Replays'
  BY <1>1, <1>2, <1>4 DEF IInv, Replays, Repairing, BeforePasses
<1>7. EarlyFirst' /\ Shrinks' /\ Accounted'
  BY <1>1, <1>2, <1>4 DEF IInv, EarlyFirst, Shrinks, Accounted, Repairing, BeforePasses
<1>8. Tree'
  BY <1>1, <1>2, <1>4 DEF IInv, Tree, BeforePasses
<1>9. Covers' /\ Seen' /\ Open'
  BY <1>1, <1>2, <1>4 DEF IInv, Covers, Seen, Open, Awaited
<1>10. Bridged' /\ Rescanned' /\ Ended' /\ DoneSettled' /\ Unremediated'
  BY <1>1, <1>2, <1>5 DEF IInv, Bridged, Rescanned, Ended, DoneSettled, Unremediated
<1> QED
  BY <1>3, <1>6, <1>7, <1>8, <1>9, <1>10 DEF IInv

(***************************************************************************)
(* Steps: review and repair                                                *)
(***************************************************************************)

\* A batch is reviewed.
LEMMA ReviewBatchOK == IInv /\ ReviewBatch => IInv'
<1>1. SUFFICES ASSUME IInv, ReviewBatch PROVE IInv'
  OBVIOUS
<1>2. TypeOK /\ pc = "review" /\ Batch # {} /\ ~pass.stopped /\ pass.zero < ZeroBatches
  BY <1>1 DEF IInv, ReviewBatch, ZeroLeft
<1>3. PICK a \in Answers(Batch \ replay), paid \in BOOLEAN :
         LET faulty == Faulty(a) \cup replay
             clean  == Reviewed(a) \ Faulty(a)
             zero   == IF DOMAIN a # {} /\ Reviewed(a) = {} THEN pass.zero + 1 ELSE 0
             seen   == pass.reviewed \cup Reviewed(a) \cup replay
             halted == zero >= ZeroBatches
             fixing == IF halted \/ ~paid THEN {} ELSE faulty \ Spent(faulty)
         IN /\ verdict' = [f \in Files |-> IF f \in replay THEN mem.reviewed[f]
                                           ELSE Remember(verdict, a)[f]]
            /\ Save([mem EXCEPT !.reviewed = Remember(mem.reviewed, a)])
            /\ pass' = [pass EXCEPT !.reviewed = seen, !.zero = zero,
                           !.incomplete = @ \cup (DOMAIN a \ Reviewed(a)),
                           !.candidates = @ \cup (IF halted THEN {} ELSE faulty),
                           !.fixable = @ \/ fixing # {},
                           !.stopped = halted \/ ~paid]
            /\ run' = [run EXCEPT !.unresolved = StillUnresolved(faulty, clean),
                          !.manual = @ \/ (~halted /\ paid /\ Spent(faulty) # {}),
                          !.attempts = [f \in Files |-> IF f \in fixing THEN @[f] + 1 ELSE @[f]],
                          !.abort = halted /\ MostlyUnreviewed({f \in Files : verdict'[f].is # "none"})]
            /\ disk' \in IF run'.abort THEN {head, disk} ELSE {disk}
            /\ todo' = todo \ Batch /\ replay' = {}
            /\ work' = fixing
            /\ pc' = IF fixing = {} THEN "review" ELSE "repair"
  BY <1>1 DEF ReviewBatch
<1> DEFINE faulty == Faulty(a) \cup replay
           clean  == Reviewed(a) \ Faulty(a)
           zero   == IF DOMAIN a # {} /\ Reviewed(a) = {} THEN pass.zero + 1 ELSE 0
           seen   == pass.reviewed \cup Reviewed(a) \cup replay
           halted == zero >= ZeroBatches
           fixing == IF halted \/ ~paid THEN {} ELSE faulty \ Spent(faulty)
           manual == run.manual \/ (~halted /\ paid /\ Spent(faulty) # {})
           attempts == [f \in Files |-> IF f \in fixing THEN run.attempts[f] + 1
                                        ELSE run.attempts[f]]
           abort  == halted /\ MostlyUnreviewed({f \in Files : verdict'[f].is # "none"})
<1>4. /\ verdict' = [f \in Files |-> IF f \in replay THEN mem.reviewed[f]
                                     ELSE Remember(verdict, a)[f]]
      /\ Save([mem EXCEPT !.reviewed = Remember(mem.reviewed, a)])
      /\ disk' \in (IF run'.abort THEN {head, disk} ELSE {disk})
      /\ todo' = todo \ Batch /\ replay' = {} /\ work' = fixing
      /\ pc' = (IF fixing = {} THEN "review" ELSE "repair")
      /\ phase' = "pass" /\ UNCHANGED <<head, cycle, scope, restarts>>
  BY <1>1, <1>3 DEF ReviewBatch
<1>5. /\ pass' = [pass EXCEPT !.reviewed = seen, !.zero = zero,
                     !.incomplete = @ \cup (DOMAIN a \ Reviewed(a)),
                     !.candidates = @ \cup (IF halted THEN {} ELSE faulty),
                     !.fixable = @ \/ fixing # {},
                     !.stopped = halted \/ ~paid]
      /\ run' = [run EXCEPT !.unresolved = StillUnresolved(faulty, clean),
                    !.manual = manual, !.attempts = attempts, !.abort = abort]
  BY <1>3
<1>6. /\ Batch \subseteq Files /\ replay \subseteq Batch /\ Batch \subseteq todo \cup replay
      /\ a \in [Batch \ replay -> {"clean", "faulty", "incomplete"}]
      /\ DOMAIN a = Batch \ replay
  BY <1>2 DEF TypeOK, Batch, Answers
<1>7. /\ faulty \subseteq Files /\ clean \subseteq Files /\ seen \subseteq Files
      /\ Reviewed(a) \subseteq Batch \ replay /\ Faulty(a) \subseteq Reviewed(a)
      /\ clean \cap replay = {} /\ fixing \subseteq faulty
      /\ zero \in 0 .. ZeroBatches
  <2>1. pass.zero \in 0 .. ZeroBatches /\ pass.reviewed \subseteq Files /\ replay \subseteq Files
    BY <1>2 DEF TypeOK
  <2>2. zero \in 0 .. ZeroBatches
    BY <1>2, <2>1, AuditAssumption DEF AuditAssumption
  <2>3. Reviewed(a) \subseteq Batch \ replay /\ Faulty(a) \subseteq Reviewed(a)
    BY <1>6 DEF Reviewed, Faulty
  <2> QED
    BY <1>6, <2>1, <2>2, <2>3
<1>8. attempts \in [Files -> 0 .. MaxFixAttempts]
  <2>1. run.attempts \in [Files -> 0 .. MaxFixAttempts]
    BY <1>2 DEF TypeOK
  <2>2. \A f \in fixing : run.attempts[f] < MaxFixAttempts
    <3>1. SUFFICES ASSUME NEW f \in faulty, f \notin Spent(faulty)
                   PROVE  run.attempts[f] < MaxFixAttempts
      OBVIOUS
    <3>2. f \in Files
      BY <1>7
    <3> QED
      BY <2>1, <3>1, <3>2, AuditAssumption DEF Spent, AuditAssumption
  <2> HIDE DEF fixing
  <2> QED
    BY <2>1, <2>2, AuditAssumption DEF AuditAssumption
<1>9. /\ manual \in BOOLEAN /\ abort \in BOOLEAN /\ halted \in BOOLEAN
      /\ (pass.fixable \/ fixing # {}) \in BOOLEAN
      /\ StillUnresolved(faulty, clean) \in SUBSET Files
  BY <1>2, <1>7 DEF TypeOK, StillUnresolved
<1> HIDE DEF faulty, clean, zero, seen, halted, fixing, manual, attempts, abort
<1>10. /\ run' \in RunType /\ run'.remediated = run.remediated
       /\ run'.unresolved = StillUnresolved(faulty, clean)
       /\ run'.dirty = run.dirty /\ run'.converged = run.converged
  <2>1. run \in RunType
    BY <1>2 DEF TypeOK, RunType
  <2> QED
    BY <1>5, <1>8, <1>9, <2>1 DEF RunType
<1>11. /\ pass' \in PassType
       /\ pass'.reviewed = seen /\ pass'.changed = pass.changed
       /\ pass'.zero = zero
  <2>1. pass \in PassType
    BY <1>2 DEF TypeOK, PassType
  <2>2. /\ (pass.incomplete \cup (DOMAIN a \ Reviewed(a))) \in SUBSET Files
        /\ (pass.candidates \cup (IF halted THEN {} ELSE faulty)) \in SUBSET Files
    BY <1>6, <1>7, <2>1 DEF PassType
  <2>3. (halted \/ ~paid) \in BOOLEAN
    OBVIOUS
  <2> QED
    BY <1>5, <1>7, <1>9, <2>1, <2>2, <2>3 DEF PassType
<1>12. /\ pass'.fixable <=> (pass.fixable \/ fixing # {})
       /\ pass'.stopped <=> (halted \/ ~paid)
  <2>1. pass \in PassType
    BY <1>2 DEF TypeOK, PassType
  <2> QED
    BY <1>5, <2>1 DEF PassType
<1>13. /\ Remember(mem.reviewed, a) \in [Files -> Review]
       /\ Remember(verdict, a) \in [Files -> Review]
  BY <1>2, RememberOK DEF TypeOK, Checkpoint
<1>14. /\ mem.reviewed \in [Files -> Review] /\ verdict \in [Files -> Review]
       /\ mem \in Checkpoint
  BY <1>2 DEF TypeOK, Checkpoint
<1>15. [mem EXCEPT !.reviewed = Remember(mem.reviewed, a)] \in Checkpoint
  BY <1>13, <1>14 DEF Checkpoint
<1>16. mem' \in Checkpoint /\ saved' \in Checkpoint /\ enabled' \in BOOLEAN
  BY <1>2, <1>4, <1>15, SaveOK
<1>17. verdict' \in [Files -> Review]
  BY <1>4, <1>13, <1>14
<1>18. disk' \in [Files -> Bytes] /\ work' \subseteq Files
  BY <1>2, <1>4, <1>7 DEF TypeOK
<1>19. TypeOK'
  BY <1>2, <1>4, <1>10, <1>11, <1>16, <1>17, <1>18 DEF TypeOK, PassType, RunType
<1>20. ZeroLeft'
  BY <1>7, <1>11, <1>12, AuditAssumption DEF ZeroLeft, halted, AuditAssumption
<1>21. Replays' /\ StartsBlank'
  BY <1>4 DEF Replays, StartsBlank, BeforePasses
<1>22. InPasses /\ InPasses' /\ ~run.converged /\ (phase = "pass" \/ cycle = 1)
  BY <1>1, <1>2, <1>4 DEF IInv, EarlyFirst, InPasses, Repairing, BeforePasses
<1>23. EarlyFirst' /\ Accounted'
  BY <1>4, <1>10, <1>12, <1>22 DEF EarlyFirst, Accounted, Repairing, BeforePasses
<1>24. Shrinks'
  <2>1. SUFFICES ASSUME cycle > 1 PROVE todo' \subseteq scope /\ todo' # scope
    BY <1>4 DEF Shrinks
  <2>2. phase = "pass" /\ replay = {} /\ todo \subseteq scope
    BY <1>1, <1>2, <1>22, <2>1 DEF IInv, Replays, Shrinks, BeforePasses
  <2> QED
    BY <1>2, <1>4, <1>6, <2>2
<1>25. run.dirty \/ disk' = disk
  BY <1>1, <1>2, <1>4, <1>22 DEF IInv, Tree, TypeOK, BeforePasses
<1>26. Tree'
  <2>1. SUFFICES ASSUME ~run.dirty PROVE \A f \in Files : disk'[f] = head'[f]
    BY <1>10 DEF Tree, BeforePasses
  <2> QED
    BY <1>1, <1>2, <1>4, <1>22, <1>25, <2>1 DEF IInv, Tree, BeforePasses
<1>27. ASSUME NEW f \in Files
       PROVE  \/ f \in replay /\ verdict'[f] = mem.reviewed[f] /\ f \in run'.unresolved
              \/ f \in Reviewed(a) /\ verdict'[f].of = disk[f] /\ verdict'[f].is = a[f]
                   /\ a[f] \in {"clean", "faulty"} /\ (a[f] = "faulty" => f \in run'.unresolved)
              \/ /\ verdict'[f] = verdict[f] /\ f \notin replay \cup Reviewed(a)
                 /\ f \in run.unresolved => f \in run'.unresolved
  <2>1. CASE f \in replay
    BY <1>4, <1>10, <2>1 DEF StillUnresolved, faulty
  <2>2. CASE f \notin replay /\ f \in Reviewed(a)
    <3>1. f \in DOMAIN a /\ a[f] # "incomplete"
      BY <2>2 DEF Reviewed
    <3>2. verdict'[f] = [of |-> disk[f], is |-> a[f]]
      BY <1>4, <2>2, <3>1 DEF Remember
    <3>3. a[f] \in {"clean", "faulty"}
      BY <1>6, <3>1
    <3>4. a[f] = "faulty" => f \in run'.unresolved
      BY <1>10, <3>1 DEF StillUnresolved, faulty, Faulty
    <3>5. verdict'[f].of = disk[f] /\ verdict'[f].is = a[f]
      BY <3>2
    <3> QED
      BY <2>2, <3>3, <3>4, <3>5
  <2>3. CASE f \notin replay /\ f \notin Reviewed(a)
    <3>1. ~(f \in DOMAIN a /\ a[f] # "incomplete")
      BY <2>3 DEF Reviewed
    <3>2. verdict'[f] = verdict[f]
      BY <1>4, <2>3, <3>1 DEF Remember
    <3>3. f \in run.unresolved => f \in run'.unresolved
      BY <1>10, <2>3 DEF StillUnresolved, clean
    <3> QED
      BY <2>3, <3>2, <3>3
  <2> QED
    BY <2>1, <2>2, <2>3
<1>28. \A f \in Files : Awaited(f) /\ f \notin replay \cup Reviewed(a) => Awaited(f)'
  BY <1>4, <1>11 DEF Awaited, seen
<1>29. Covers'
  <2>1. SUFFICES ASSUME ~run.dirty, NEW f \in Files
                 PROVE  \/ verdict'[f].of = disk'[f]
                        \/ f \in run'.unresolved
                        \/ pass'.fixable /\ f \in pass'.changed
                        \/ Awaited(f)'
    BY <1>10 DEF Covers
  <2>2. \/ verdict[f].of = disk[f]
        \/ f \in run.unresolved
        \/ pass.fixable /\ f \in pass.changed
        \/ Awaited(f)
    BY <1>1, <1>22, <2>1 DEF IInv, Covers
  <2>3. disk' = disk
    BY <1>25, <2>1
  <2>4. CASE f \in run'.unresolved
    BY <2>4
  <2>5. CASE f \in Reviewed(a) /\ verdict'[f].of = disk[f]
    BY <2>3, <2>5
  <2>6. CASE /\ verdict'[f] = verdict[f] /\ f \notin replay \cup Reviewed(a)
             /\ f \in run.unresolved => f \in run'.unresolved
    BY <1>11, <1>12, <1>28, <2>2, <2>3, <2>6
  <2> QED
    BY <1>27, <2>4, <2>5, <2>6
<1>30. Seen'
  <2>1. SUFFICES ASSUME NEW f \in Files PROVE verdict'[f].is # "none" \/ Awaited(f)'
    BY DEF Seen
  <2>2. verdict[f].is # "none" \/ Awaited(f)
    BY <1>1, <1>22 DEF IInv, Seen
  <2>3. f \in replay => mem.reviewed[f].is # "none"
    BY <1>1 DEF IInv, Replays, BeforePasses
  <2>4. CASE f \in replay /\ verdict'[f] = mem.reviewed[f]
    BY <2>3, <2>4
  <2>5. CASE verdict'[f].is = a[f] /\ a[f] \in {"clean", "faulty"}
    BY <2>5
  <2>6. CASE verdict'[f] = verdict[f] /\ f \notin replay \cup Reviewed(a)
    BY <1>28, <2>2, <2>6
  <2> QED
    BY <1>27, <2>4, <2>5, <2>6
<1>31. Open'
  <2>1. SUFFICES ASSUME NEW f \in Files, verdict'[f].is = "faulty"
                 PROVE  f \in run'.unresolved
    BY DEF Open
  <2>2. verdict[f].is = "faulty" => f \in run.unresolved
    BY <1>1, <1>22 DEF IInv, Open
  <2>3. CASE verdict'[f].is = a[f] /\ (a[f] = "faulty" => f \in run'.unresolved)
    BY <2>1, <2>3
  <2>4. CASE verdict'[f] = verdict[f] /\ (f \in run.unresolved => f \in run'.unresolved)
    BY <2>1, <2>2, <2>4
  <2> QED
    BY <1>27, <2>3, <2>4
<1>32. Bridged' /\ Rescanned' /\ Ended' /\ DoneSettled' /\ Unremediated'
  BY <1>1, <1>2, <1>4, <1>10 DEF IInv, Bridged, Rescanned, InBridge, Repairing, Ended, DoneSettled, Unremediated
<1> QED
  BY <1>19, <1>20, <1>21, <1>23, <1>24, <1>26, <1>29, <1>30, <1>31, <1>32 DEF IInv

\* A repair changes files in the phase it serves.
LEMMA RepairOK == IInv /\ Repair => IInv'
<1>1. SUFFICES ASSUME IInv, Repair PROVE IInv'
  OBVIOUS
<1>2. TypeOK /\ pc = "repair"
  BY <1>1 DEF IInv, Repair
<1>3. PICK A \in SUBSET Files, all \in BOOLEAN :
          /\ disk' = Edited(A)
          /\ head' \in IF phase = "pass" THEN {head, disk'} ELSE {head}
          /\ run' = [run EXCEPT !.applied = @ \cup A,
                                !.manual = @ \/ (phase = "rescan" /\ ~(work \subseteq A))]
          /\ pass' = IF phase \in {"bridge", "rescan"} THEN pass
                     ELSE [pass EXCEPT !.changed = @ \cup A,
                              !.applied = @ \/ (phase \in {"pass", "competitor"} /\ A # {}),
                              !.fixable = @ \/ (phase = "competitor" /\ A # {}),
                              !.attempted = @ \cup IF all THEN work ELSE work \cap A]
          /\ scope' = Pending(A)
  BY <1>1 DEF Repair
<1>4. /\ UNCHANGED <<verdict, saved, mem, enabled, phase, cycle, todo, replay, work, restarts>>
      /\ pc' = IF phase \in {"baseline", "competitor"} THEN "commit" ELSE "record"
  BY <1>1 DEF Repair, stored
<1>5. /\ disk' \in [Files -> Bytes] /\ \A f \in Files : f \notin A => disk'[f] = disk[f]
      /\ head' \in [Files -> Bytes]
  BY <1>2, <1>3, EditedOK DEF TypeOK
<1>6. /\ run' \in RunType /\ run'.applied = run.applied \cup A
      /\ run'.remediated = run.remediated
      /\ run'.unresolved = run.unresolved /\ run'.dirty = run.dirty
      /\ run'.converged = run.converged
      /\ run'.manual = (run.manual \/ (phase = "rescan" /\ ~(work \subseteq A)))
  <2>1. run \in RunType
    BY <1>2 DEF TypeOK, RunType
  <2> QED
    BY <1>3, <2>1 DEF RunType
<1>7. /\ pass' \in PassType
      /\ phase \notin {"bridge", "rescan"} => pass'.changed = pass.changed \cup A
      /\ pass'.reviewed = pass.reviewed
      /\ pass'.fixable = (pass.fixable \/ (phase = "competitor" /\ A # {}))
      /\ pass'.stopped = pass.stopped /\ pass'.zero = pass.zero
  <2>1. pass \in PassType /\ work \subseteq Files
    BY <1>2 DEF TypeOK, PassType
  <2>2. (pass.attempted \cup IF all THEN work ELSE work \cap A) \in SUBSET Files
    BY <2>1 DEF PassType
  <2> QED
    BY <1>3, <2>1, <2>2 DEF PassType
<1>8. scope' \subseteq Files /\ (phase \notin {"bridge", "rescan"} => scope' = scope)
  <2>1. Ungated \subseteq Files /\ scope \subseteq Files
    BY <1>2, AuditAssumption DEF AuditAssumption, Files, TypeOK
  <2>2. scope' = Pending(A)
    BY <1>3
  <2>3. CASE phase \notin {"bridge", "rescan"}
    BY <2>1, <2>2, <2>3 DEF Pending
  <2>4. CASE phase \in {"bridge", "rescan"} /\ work \subseteq A
    BY <2>2, <2>4 DEF Pending
  <2>5. CASE phase \in {"bridge", "rescan"} /\ ~(work \subseteq A)
    BY <2>2, <2>5 DEF Pending
  <2> QED
    BY <2>3, <2>4, <2>5
<1>9. TypeOK'
  BY <1>2, <1>4, <1>5, <1>6, <1>7, <1>8 DEF TypeOK, PassType, RunType
<1>10. ZeroLeft' /\ Replays' /\ StartsBlank'
  <2>1. ZeroLeft'
    BY <1>1, <1>4, <1>7 DEF IInv, ZeroLeft
  <2>2. Replays'
    BY <1>1, <1>2, <1>4 DEF IInv, Replays, Repairing, BeforePasses
  <2>3. StartsBlank'
    BY <1>4 DEF StartsBlank
  <2> QED
    BY <2>1, <2>2, <2>3
<1>11. Bridged' /\ Ended' /\ DoneSettled' /\ Unremediated'
  BY <1>1, <1>2, <1>4, <1>6 DEF IInv, Bridged, Ended, DoneSettled, Unremediated
<1>12. CASE BeforePasses \/ phase \in {"pass", "competitor"}
  <2>1. /\ InPasses /\ InPasses' /\ Repairing /\ Repairing' /\ ~InBridge'
        /\ scope' = scope /\ pass'.changed = pass.changed \cup A
    BY <1>2, <1>4, <1>7, <1>8, <1>12 DEF InPasses, InBridge, Repairing, BeforePasses
  <2>2. EarlyFirst'
    BY <1>1, <1>4, <1>6, <1>7, <2>1 DEF IInv, EarlyFirst, BeforePasses
  <2>3. Shrinks'
    BY <1>1, <1>2, <1>4, <1>7, <2>1 DEF IInv, Shrinks
  <2>4. Accounted'
    BY <1>1, <1>4, <1>7, <2>1 DEF IInv, Accounted
  <2>5. \A f \in A : \/ BeforePasses /\ f \in scope \ pass.reviewed
                     \/ pass'.fixable
    BY <1>1, <1>7, <1>12, <2>1 DEF IInv, EarlyFirst, BeforePasses
  <2>6. Tree'
    <3>1. SUFFICES ASSUME ~run.dirty, NEW f \in Files, disk'[f] # head'[f]
                   PROVE  f \in A
      BY <1>4, <1>6, <2>1, <2>5 DEF Tree, BeforePasses
    <3>2. disk[f] = head[f]
      BY <1>1, <1>2, <2>1, <3>1 DEF IInv, Tree
    <3> QED
      BY <1>3, <1>5, <3>1, <3>2
  <2>7. Covers'
    <3>1. SUFFICES ASSUME ~run.dirty, NEW f \in Files
                   PROVE  \/ verdict'[f].of = disk'[f]
                          \/ f \in run'.unresolved
                          \/ pass'.fixable /\ f \in pass'.changed
                          \/ Awaited(f)'
      BY <1>6 DEF Covers
    <3>2. Awaited(f)' <=> Awaited(f)
      BY <1>7, <2>1 DEF Awaited
    <3>3. CASE f \in A
      BY <2>1, <2>5, <3>2, <3>3 DEF Awaited
    <3>4. CASE f \notin A
      BY <1>1, <1>4, <1>5, <1>6, <1>7, <2>1, <3>1, <3>2, <3>4 DEF IInv, Covers
    <3> QED
      BY <3>3, <3>4
  <2>8. Seen' /\ Open'
    BY <1>1, <1>4, <1>6, <1>7, <2>1 DEF IInv, Seen, Open, Awaited
  <2>9. Rescanned'
    BY <2>1 DEF Rescanned
  <2> QED
    BY <1>9, <1>10, <1>11, <2>2, <2>3, <2>4, <2>6, <2>7, <2>8, <2>9 DEF IInv
<1>13. CASE phase \in {"bridge", "rescan"}
  <2>1. ~InPasses' /\ InBridge /\ pc' # "decide" /\ phase' # "competitor"
    BY <1>2, <1>4, <1>13 DEF InPasses, InBridge, Repairing, BeforePasses
  <2>2. EarlyFirst' /\ Shrinks' /\ Accounted' /\ Tree' /\ Covers' /\ Seen' /\ Open'
    BY <2>1 DEF EarlyFirst, Shrinks, Accounted, Tree, Covers, Seen, Open, BeforePasses
  <2>3. Rescanned'
    <3>1. SUFFICES ASSUME run.converged, ~run.dirty, ~run'.manual, NEW f \in Files
                   PROVE  /\ Clean(f)' \/ f \in scope' \/ Exempt(f)'
                          /\ disk'[f] = head'[f] \/ f \in scope' \/ Exempt(f)'
      BY <1>4, <1>6 DEF Rescanned
    <3>2. ~run.manual
      BY <1>6, <3>1
    <3>3. /\ phase = "bridge" => work = {}
          /\ Clean(f) \/ Exempt(f) \/ f \in work
          /\ disk[f] = head[f]
      BY <1>1, <1>2, <2>1, <3>1, <3>2 DEF IInv, Rescanned
    <3>4. work \subseteq A
      BY <1>6, <1>13, <3>1, <3>3
    <3>5. scope' = A \ Ungated
      BY <1>3, <1>13, <3>4 DEF Pending
    <3>6. CASE f \in A
      BY <1>6, <3>5, <3>6 DEF Exempt
    <3>7. CASE f \notin A
      <4>1. f \notin work /\ disk'[f] = disk[f] /\ head' = head
        BY <1>3, <1>5, <1>13, <3>4, <3>7
      <4>2. Exempt(f) => Exempt(f)'
        BY <1>6 DEF Exempt
      <4> QED
        BY <1>4, <3>3, <4>1, <4>2 DEF Clean
    <3> QED
      BY <3>6, <3>7
  <2> QED
    BY <1>9, <1>10, <1>11, <2>2, <2>3 DEF IInv
<1> QED
  BY <1>2, <1>12, <1>13 DEF TypeOK, BeforePasses

\* A repair that leaves a dirty tree ends the loop, or marks the run.
LEMMA RepairDirtyOK == IInv /\ RepairDirty => IInv'
<1>1. SUFFICES ASSUME IInv, RepairDirty PROVE IInv'
  OBVIOUS
<1>2. /\ TypeOK /\ pc = "repair" /\ phase # "baseline"
      /\ run' = (IF phase = "rescan" THEN [run EXCEPT !.manual = TRUE]
                 ELSE [run EXCEPT !.dirty = TRUE])
      /\ pass' = [pass EXCEPT !.stopped = @ \/ phase = "pass"]
      /\ pc' = (IF phase \in {"early", "pass"} THEN "review" ELSE "settle")
      /\ UNCHANGED <<head, verdict, saved, mem, enabled, phase, cycle, scope, todo, replay,
                     work, restarts>>
  BY <1>1 DEF IInv, RepairDirty, stored, place
<1>3. disk' \in [Files -> Bytes]
  BY <1>1, <1>2, EditedOK DEF RepairDirty, TypeOK
<1>4. /\ run' \in RunType
      /\ run'.unresolved = run.unresolved /\ run'.converged = run.converged
      /\ phase = "rescan" => run'.manual
      /\ phase # "rescan" => run'.dirty
  <2>1. run \in RunType
    BY <1>2 DEF TypeOK, RunType
  <2> QED
    BY <1>2, <2>1 DEF RunType
<1>5. /\ pass' \in PassType /\ pass'.reviewed = pass.reviewed
      /\ pass'.fixable = pass.fixable /\ pass'.zero = pass.zero
      /\ pass.stopped => pass'.stopped
  <2>1. pass \in PassType
    BY <1>2 DEF TypeOK, PassType
  <2> QED
    BY <1>2, <2>1 DEF PassType
<1>6. TypeOK'
  BY <1>2, <1>3, <1>4, <1>5 DEF TypeOK, PassType, RunType
<1>7. ZeroLeft'
  BY <1>1, <1>5 DEF IInv, ZeroLeft
<1>8. CASE phase \in {"early", "pass"}
  <2>1. pc' = "review" /\ phase # "rescan" /\ run'.dirty
    BY <1>2, <1>4, <1>8
  <2>2. InPasses /\ InPasses' /\ ~Repairing' /\ ~InBridge'
    BY <1>2, <1>8, <2>1 DEF InPasses, InBridge, Repairing, BeforePasses
  <2>3. Replays' /\ StartsBlank'
    BY <1>1, <1>2, <2>1 DEF IInv, Replays, StartsBlank, BeforePasses
  <2>4. EarlyFirst'
    BY <1>1, <1>2, <1>4, <1>5, <2>1, <2>2 DEF IInv, EarlyFirst, BeforePasses
  <2>5. Shrinks'
    BY <1>1, <1>2, <1>5, <2>1, <2>2 DEF IInv, Shrinks
  <2>6. Accounted'
    BY <2>1, <2>2 DEF Accounted
  <2>7. Tree' /\ Covers'
    BY <2>1 DEF Tree, Covers, BeforePasses
  <2>8. Seen' /\ Open'
    BY <1>1, <1>2, <1>4, <1>5, <2>2 DEF IInv, Seen, Open, Awaited
  <2>9. Bridged' /\ Rescanned' /\ Ended' /\ DoneSettled' /\ Unremediated'
    BY <1>1, <1>2, <2>1, <2>2 DEF IInv, Bridged, Rescanned, Ended, DoneSettled, Unremediated
  <2> QED
    BY <1>6, <1>7, <2>3, <2>4, <2>5, <2>6, <2>7, <2>8, <2>9 DEF IInv
<1>9. CASE phase \notin {"early", "pass"}
  <2>1. pc' = "settle" /\ replay' = {}
    BY <1>1, <1>2, <1>9 DEF IInv, Replays, BeforePasses
  <2>2. StartsBlank' /\ Bridged' /\ Ended' /\ DoneSettled' /\ Unremediated'
    BY <1>1, <1>2, <1>4, <2>1 DEF IInv, StartsBlank, Bridged, Ended, DoneSettled, Unremediated
  <2> QED
    BY <1>6, <1>7, <2>1, <2>2, Outside
<1> QED
  BY <1>8, <1>9

\* The applied files are recorded.
LEMMA RecordOK == IInv /\ Record => IInv'
<1>1. SUFFICES ASSUME IInv, Record PROVE IInv'
  OBVIOUS
<1>2. /\ TypeOK /\ pc = "record"
      /\ Save([mem EXCEPT !.applied = run.applied])
      /\ pc' = (IF phase = "competitor" THEN "decide" ELSE "commit")
      /\ UNCHANGED <<disk, head, verdict, phase, cycle, scope, todo, replay, work, pass, run,
                     restarts>>
  BY <1>1 DEF IInv, Record, Onward, bytes, place
<1>3. /\ [mem EXCEPT !.applied = run.applied] \in Checkpoint
      /\ [mem EXCEPT !.applied = run.applied].reviewed = mem.reviewed
  BY <1>2 DEF TypeOK, Checkpoint
<1>4. /\ mem' \in Checkpoint /\ saved' \in Checkpoint /\ enabled' \in BOOLEAN
      /\ mem'.reviewed = mem.reviewed
  BY <1>2, <1>3, SaveOK
<1>5. TypeOK'
  BY <1>2, <1>4 DEF TypeOK
<1>6. ZeroLeft'
  BY <1>1, <1>2 DEF IInv, ZeroLeft
<1>7. Replays' /\ StartsBlank'
  BY <1>1, <1>2, <1>4 DEF IInv, Replays, StartsBlank, Repairing, BeforePasses
<1>8. Bridged' /\ Ended' /\ DoneSettled' /\ Unremediated'
  BY <1>1, <1>2 DEF IInv, Bridged, Ended, DoneSettled, Unremediated
<1>9. Repairing /\ (pc' = "decide" <=> phase = "competitor") /\ pc' \in {"decide", "commit"}
  BY <1>2 DEF Repairing
<1>10. CASE BeforePasses \/ phase \in {"pass", "competitor"}
  <2>1. InPasses /\ InPasses' /\ ~InBridge'
    BY <1>9, <1>10, <1>2 DEF InPasses, InBridge, Repairing, BeforePasses
  <2>2. EarlyFirst' /\ Accounted'
    BY <1>1, <1>2, <1>9, <2>1 DEF IInv, EarlyFirst, Accounted, Repairing, BeforePasses
  <2>3. Shrinks'
    BY <1>1, <1>2, <2>1 DEF IInv, Shrinks
  <2>4. Tree'
    BY <1>1, <1>2, <1>9, <2>1 DEF IInv, Tree, BeforePasses
  <2>5. Covers'
    BY <1>1, <1>2, <2>1 DEF IInv, Covers, Awaited
  <2>6. Seen' /\ Open'
    BY <1>1, <1>2, <2>1 DEF IInv, Seen, Open, Awaited
  <2>7. Rescanned'
    BY <2>1 DEF Rescanned
  <2> QED
    BY <1>5, <1>6, <1>7, <1>8, <2>2, <2>3, <2>4, <2>5, <2>6, <2>7 DEF IInv
<1>11. CASE phase \in {"bridge", "rescan"}
  <2>1. ~InPasses' /\ InBridge /\ pc' = "commit" /\ phase' # "competitor"
    BY <1>2, <1>9, <1>11 DEF InPasses, InBridge, Repairing, BeforePasses
  <2>2. EarlyFirst' /\ Shrinks' /\ Accounted' /\ Tree' /\ Covers' /\ Seen' /\ Open'
    BY <2>1 DEF EarlyFirst, Shrinks, Accounted, Tree, Covers, Seen, Open, BeforePasses
  <2>3. Rescanned'
    BY <1>1, <1>2, <2>1 DEF IInv, Rescanned, Clean, Exempt
  <2> QED
    BY <1>5, <1>6, <1>7, <1>8, <2>2, <2>3 DEF IInv
<1> QED
  BY <1>2, <1>10, <1>11 DEF TypeOK, BeforePasses

\* The tree is committed, or reset when the publication gate is red.
LEMMA CommitOK == IInv /\ Commit => IInv'
<1>1. SUFFICES ASSUME IInv, Commit PROVE IInv'
  OBVIOUS
<1>2. /\ TypeOK /\ pc = "commit"
      /\ (head' = disk /\ disk' = disk) \/ (disk' = head /\ head' = head)
      /\ UNCHANGED <<verdict, saved, mem, enabled, phase, cycle, scope, todo, replay, work,
                     run, restarts>>
  BY <1>1 DEF IInv, Commit, stored, place
<1>3. pc' = IF phase = "competitor" THEN "record"
            ELSE IF phase = "baseline" THEN "purpose"
            ELSE IF phase \in {"early", "pass"} THEN "review" ELSE "rescan"
  BY <1>1, <1>2 DEF Commit, Onward, TypeOK
<1>4. /\ pass' \in PassType /\ pass'.reviewed = pass.reviewed
      /\ pass'.fixable = pass.fixable /\ pass'.changed = pass.changed
      /\ pass'.zero = pass.zero /\ (pass.stopped => pass'.stopped)
  <2>1. pass \in PassType
    BY <1>2 DEF TypeOK, PassType
  <2>2. PICK cut \in BOOLEAN : pass' = [pass EXCEPT !.stopped = @ \/ cut]
    BY <1>1 DEF Commit
  <2> QED
    BY <2>1, <2>2 DEF PassType
<1>5. TypeOK'
  BY <1>2, <1>3, <1>4 DEF TypeOK, PassType
<1>6. ZeroLeft'
  BY <1>1, <1>4 DEF IInv, ZeroLeft
<1>7. Replays' /\ StartsBlank'
  BY <1>1, <1>2, <1>3 DEF IInv, Replays, StartsBlank, Repairing, BeforePasses
<1>8. Bridged' /\ Ended' /\ DoneSettled' /\ Unremediated'
  BY <1>1, <1>2, <1>3 DEF IInv, Bridged, Ended, DoneSettled, Unremediated
<1>9. \A f \in Files : disk'[f] = head'[f] /\ (disk[f] = head[f] => disk'[f] = disk[f])
  BY <1>2
<1>10. CASE BeforePasses \/ phase \in {"pass", "competitor"}
  <2>1. InPasses /\ InPasses' /\ ~InBridge' /\ Repairing
    BY <1>2, <1>3, <1>10 DEF InPasses, InBridge, Repairing, BeforePasses
  <2>2. EarlyFirst'
    BY <1>1, <1>2, <1>3, <1>4, <2>1 DEF IInv, EarlyFirst, Repairing, BeforePasses
  <2>3. Accounted'
    BY <1>1, <1>2, <1>3, <1>4, <1>10, <2>1 DEF IInv, Accounted, Repairing
  <2>4. Shrinks'
    BY <1>1, <1>2, <1>4, <2>1 DEF IInv, Shrinks
  <2>5. Tree'
    BY <1>9 DEF Tree, BeforePasses
  <2>6. Covers'
    <3>1. SUFFICES ASSUME ~run.dirty, NEW f \in Files
                   PROVE  \/ verdict[f].of = disk'[f]
                          \/ f \in run.unresolved
                          \/ pass.fixable /\ f \in pass.changed
                          \/ Awaited(f)
      BY <1>2, <1>4 DEF Covers, Awaited
    <3>2. CASE disk[f] = head[f]
      BY <1>1, <1>9, <2>1, <3>1, <3>2 DEF IInv, Covers
    <3>3. CASE disk[f] # head[f]
      BY <1>1, <2>1, <3>1, <3>3 DEF IInv, Tree, EarlyFirst, Awaited
    <3> QED
      BY <3>2, <3>3
  <2>7. Seen' /\ Open'
    BY <1>1, <1>2, <1>4, <2>1 DEF IInv, Seen, Open, Awaited
  <2>8. Rescanned'
    BY <2>1 DEF Rescanned
  <2> QED
    BY <1>5, <1>6, <1>7, <1>8, <2>2, <2>3, <2>4, <2>5, <2>6, <2>7, <2>8 DEF IInv
<1>11. CASE phase \in {"bridge", "rescan"}
  <2>1. ~InPasses' /\ InBridge /\ pc' = "rescan" /\ ~Repairing'
    BY <1>2, <1>3, <1>11 DEF InPasses, InBridge, Repairing, BeforePasses
  <2>2. EarlyFirst' /\ Shrinks' /\ Accounted' /\ Tree' /\ Covers' /\ Seen' /\ Open'
    BY <2>1 DEF EarlyFirst, Shrinks, Accounted, Tree, Covers, Seen, Open, BeforePasses
  <2>3. Rescanned'
    <3>1. SUFFICES ASSUME run.converged, ~run.dirty, ~run.manual, NEW f \in Files
                   PROVE  Clean(f)' \/ f \in scope \/ Exempt(f)
      BY <1>2, <1>9, <2>1 DEF Rescanned, Exempt
    <3>2. /\ Clean(f) \/ f \in scope \/ Exempt(f)
          /\ disk[f] = head[f] \/ f \in scope \/ Exempt(f)
      BY <1>1, <1>2, <2>1, <3>1 DEF IInv, Rescanned
    <3> QED
      BY <1>2, <1>9, <3>2 DEF Clean
  <2> QED
    BY <1>5, <1>6, <1>7, <1>8, <2>2, <2>3 DEF IInv
<1> QED
  BY <1>2, <1>10, <1>11 DEF TypeOK, BeforePasses

(***************************************************************************)
(* Steps: the passes, the bridge and the end                               *)
(***************************************************************************)

\* A pass ends: the gate, the decision or the way out.
LEMMA EndPassOK == IInv /\ EndPass => IInv'
<1>1. SUFFICES ASSUME IInv, EndPass PROVE IInv'
  OBVIOUS
<1>2. /\ TypeOK /\ pc = "review"
      /\ work' = {} /\ todo' = {} /\ replay' = {}
      /\ UNCHANGED <<disk, head, verdict, saved, mem, enabled, run, restarts>>
  BY <1>1 DEF IInv, EndPass, bytes, stored
<1>3. \/ /\ Complete /\ cycle = 1 /\ pc' = "repair" /\ phase' = "competitor"
         /\ UNCHANGED <<cycle, scope, pass>>
      \/ Leave
      \/ /\ Complete /\ cycle # 1 /\ pc' = "decide" /\ UNCHANGED <<phase, cycle, scope, pass>>
  BY <1>1 DEF EndPass
<1>4. InPasses /\ ~run.converged
  BY <1>1, <1>2 DEF IInv, InPasses, EarlyFirst, BeforePasses
<1>5. \A f \in Files : ~run.dirty => disk[f] = head[f]
  BY <1>1, <1>2, <1>4 DEF IInv, Tree, BeforePasses
<1>6. CASE Leave
  <2>1. /\ pc' = "bridge" /\ scope' = {} /\ pass' = FreshPass
        /\ phase' = phase /\ cycle' = cycle
    BY <1>6 DEF Leave
  <2>2. TypeOK'
    BY <1>2, <2>1, FreshOK DEF TypeOK, PassType
  <2>3. ZeroLeft'
    BY <2>1, AuditAssumption DEF ZeroLeft, FreshPass, AuditAssumption
  <2>4. StartsBlank' /\ Bridged' /\ Ended' /\ DoneSettled' /\ Unremediated'
    BY <1>1, <1>2, <1>4, <2>1 DEF IInv, StartsBlank, Bridged, Ended, DoneSettled, Unremediated
  <2> QED
    BY <1>2, <2>1, <2>2, <2>3, <2>4, Outside
<1>7. CASE /\ Complete /\ UNCHANGED <<cycle, scope, pass>>
           /\ \/ cycle = 1 /\ pc' = "repair" /\ phase' = "competitor"
              \/ cycle # 1 /\ pc' = "decide" /\ phase' = phase
  <2>1. InPasses' /\ ~InBridge' /\ scope \subseteq pass.reviewed
    BY <1>7 DEF InPasses, InBridge, Repairing, Complete, BeforePasses
  <2>2. TypeOK' /\ ZeroLeft'
    BY <1>1, <1>2, <1>7 DEF IInv, TypeOK, ZeroLeft
  <2>3. Replays' /\ StartsBlank'
    BY <1>2, <1>7 DEF Replays, StartsBlank, BeforePasses
  <2>4. EarlyFirst'
    BY <1>1, <1>2, <1>4, <1>7 DEF IInv, EarlyFirst, Repairing, BeforePasses
  <2>5. Shrinks' /\ Accounted'
    BY <1>2, <1>7, <2>1 DEF Shrinks, Accounted
  <2>6. Tree'
    BY <1>2, <1>5 DEF Tree, BeforePasses
  <2>7. Covers' /\ Seen' /\ Open'
    BY <1>1, <1>2, <1>4, <1>7 DEF IInv, Covers, Seen, Open, Awaited
  <2>8. Bridged' /\ Rescanned' /\ Ended' /\ DoneSettled' /\ Unremediated'
    BY <1>1, <1>2, <1>7, <2>1 DEF IInv, Bridged, Rescanned, Ended, DoneSettled, Unremediated
  <2> QED
    BY <2>2, <2>3, <2>4, <2>5, <2>6, <2>7, <2>8 DEF IInv
<1> QED
  BY <1>3, <1>6, <1>7

\* After a complete pass: another one, over what has changed, or the way out.
LEMMA DecideOK == IInv /\ Decide => IInv'
<1>1. SUFFICES ASSUME IInv, Decide PROVE IInv'
  OBVIOUS
<1>2. /\ TypeOK /\ pc = "decide"
      /\ run' = [run EXCEPT !.converged = ~pass.fixable /\ run.unresolved = {} /\ ~run.manual]
      /\ UNCHANGED <<disk, head, verdict, saved, mem, enabled, replay, work, restarts>>
  BY <1>1 DEF IInv, Decide, bytes, stored
<1>3. \/ /\ pass.fixable /\ cycle < CycleCap
         /\ pc' = "review" /\ phase' = "pass" /\ cycle' = cycle + 1
         /\ scope' = NextScope /\ todo' = NextScope /\ pass' = FreshPass
      \/ /\ pc' = "bridge" /\ scope' = {} /\ pass' = FreshPass
         /\ UNCHANGED <<phase, cycle, todo>>
  BY <1>1 DEF Decide, Leave
<1>4. /\ InPasses /\ replay = {} /\ work = {} /\ scope \subseteq pass.reviewed
      /\ \A f \in Files : ~Awaited(f)
  BY <1>1, <1>2 DEF IInv, InPasses, Replays, Repairing, Accounted, Awaited, BeforePasses
<1>5. /\ run' \in RunType
      /\ run'.unresolved = run.unresolved /\ run'.dirty = run.dirty
      /\ run'.manual = run.manual
      /\ run'.converged <=> ~pass.fixable /\ run.unresolved = {} /\ ~run.manual
  <2>1. run \in RunType
    BY <1>2 DEF TypeOK, RunType
  <2> QED
    BY <1>2, <2>1 DEF RunType
<1>6. pass' \in PassType /\ ZeroLeft'
  <2>1. pass' = FreshPass
    BY <1>3
  <2>2. pass' \in PassType
    BY <2>1, FreshOK
  <2>3. pass'.zero = 0
    BY <2>1 DEF FreshPass
  <2> QED
    BY <2>2, <2>3, AuditAssumption DEF ZeroLeft, AuditAssumption
<1>7. pass'.reviewed = {} /\ pass'.changed = {} /\ pass'.fixable = FALSE
  BY <1>3 DEF FreshPass
<1>8. \A f \in Files : ~run.dirty => disk[f] = head[f]
  BY <1>1, <1>2, <1>4 DEF IInv, Tree, BeforePasses
<1>9. CASE /\ pass.fixable /\ cycle < CycleCap
           /\ pc' = "review" /\ phase' = "pass" /\ cycle' = cycle + 1
           /\ scope' = NextScope /\ todo' = NextScope
  <2>1. pass.changed \subseteq Files /\ cycle' \in 0 .. CycleCap + LastRound
    BY <1>2, <1>9, AuditAssumption DEF TypeOK, AuditAssumption
  <2>2. TypeOK'
    BY <1>2, <1>5, <1>6, <1>9, <2>1 DEF TypeOK, PassType, RunType, NextScope
  <2>3. Replays' /\ StartsBlank'
    BY <1>2, <1>4, <1>9 DEF Replays, StartsBlank, BeforePasses
  <2>4. InPasses' /\ ~InBridge' /\ ~Repairing' /\ ~run'.converged
    BY <1>5, <1>9 DEF InPasses, InBridge, Repairing, BeforePasses
  <2>5. EarlyFirst' /\ Shrinks' /\ Accounted'
    BY <1>7, <1>9, <2>4 DEF EarlyFirst, Shrinks, Accounted, BeforePasses
  <2>6. Tree'
    BY <1>2, <1>5, <1>8 DEF Tree, BeforePasses
  <2>7. Covers'
    <3>1. SUFFICES ASSUME ~run.dirty, NEW f \in Files
                   PROVE  \/ verdict[f].of = disk[f]
                          \/ f \in run.unresolved
                          \/ f \in pass.changed
      BY <1>2, <1>5, <1>7, <1>9 DEF Covers, Awaited, NextScope
    <3> QED
      BY <1>1, <1>4, <3>1 DEF IInv, Covers
  <2>8. Seen' /\ Open'
    BY <1>1, <1>2, <1>4, <1>5 DEF IInv, Seen, Open
  <2>9. Bridged' /\ Rescanned' /\ Ended' /\ DoneSettled' /\ Unremediated'
    BY <1>1, <1>2, <1>9, <2>4 DEF IInv, Bridged, Rescanned, Ended, DoneSettled, Unremediated
  <2> QED
    BY <1>6, <2>2, <2>3, <2>5, <2>6, <2>7, <2>8, <2>9 DEF IInv
<1>10. CASE pc' = "bridge" /\ scope' = {} /\ UNCHANGED <<phase, cycle, todo>>
  <2>1. TypeOK'
    BY <1>2, <1>5, <1>6, <1>10 DEF TypeOK, PassType, RunType
  <2>2. Bridged'
    <3>1. SUFFICES ASSUME run'.converged, ~run.dirty
                   PROVE  disk = head /\ \A f \in Files : Clean(f)
      BY <1>2, <1>4, <1>5, <1>10 DEF Bridged, Clean
    <3>2. disk = head
      BY <1>2, <1>8, <3>1 DEF TypeOK
    <3>3. ASSUME NEW f \in Files PROVE Clean(f)
      <4>1. verdict[f] \in Review
        BY <1>2 DEF TypeOK
      <4>2. verdict[f].of = disk[f]
        BY <1>1, <1>4, <1>5, <3>1 DEF IInv, Covers
      <4>3. verdict[f].is # "none" /\ verdict[f].is # "faulty"
        BY <1>1, <1>4, <1>5, <3>1 DEF IInv, Seen, Open
      <4> QED
        BY <4>1, <4>2, <4>3 DEF Clean, Review
    <3> QED
      BY <3>2, <3>3
  <2>3. StartsBlank' /\ Ended' /\ DoneSettled' /\ Unremediated'
    BY <1>1, <1>2, <1>10 DEF IInv, StartsBlank, Ended, DoneSettled, Unremediated
  <2> QED
    BY <1>2, <1>4, <1>6, <1>10, <2>1, <2>2, <2>3, Outside
<1> QED
  BY <1>3, <1>9, <1>10

\* Purpose gaps are bridged, or the run goes to its end.
LEMMA BridgeOK == IInv /\ Bridge => IInv'
<1>1. SUFFICES ASSUME IInv, Bridge PROVE IInv'
  OBVIOUS
<1>2. /\ TypeOK /\ pc = "bridge" /\ cycle' = 2
      /\ run' = [run EXCEPT !.unresolved = {}, !.attempts = FreshRun.attempts]
      /\ UNCHANGED <<disk, head, verdict, saved, mem, enabled, scope, todo, replay, work, pass,
                     restarts>>
      /\ \/ pc' = "settle" /\ phase' = phase
         \/ pc' = "repair" /\ phase' = "bridge"
  BY <1>1 DEF IInv, Bridge, bytes, stored
<1>3. /\ run' \in RunType
      /\ run'.applied = run.applied /\ run'.dirty = run.dirty
      /\ run'.manual = run.manual /\ run'.converged = run.converged
  <2>1. run \in RunType
    BY <1>2 DEF TypeOK, RunType
  <2>2. FreshRun.attempts \in [Files -> 0 .. MaxFixAttempts]
    BY FreshOK DEF RunType
  <2> QED
    BY <1>2, <2>1, <2>2 DEF RunType
<1>4. 2 \in 0 .. CycleCap + LastRound
  BY AuditAssumption DEF AuditAssumption
<1>5. TypeOK' /\ ZeroLeft'
  BY <1>1, <1>2, <1>3, <1>4 DEF IInv, TypeOK, ZeroLeft, RunType
<1>6. replay' = {}
  BY <1>1, <1>2 DEF IInv, Replays, Repairing, BeforePasses
<1>7. StartsBlank' /\ Bridged' /\ DoneSettled' /\ Unremediated'
  BY <1>1, <1>2 DEF IInv, StartsBlank, Bridged, DoneSettled, Unremediated
<1>8. CASE pc' = "settle"
  <2>1. Ended'
    BY <1>1, <1>2, <1>3, <1>8 DEF IInv, Bridged, Ended, Clean
  <2> QED
    BY <1>5, <1>6, <1>7, <1>8, <2>1, Outside
<1>9. CASE pc' = "repair" /\ phase' = "bridge"
  <2>1. ~InPasses'
    BY <1>9 DEF InPasses, Repairing, BeforePasses
  <2>2. EarlyFirst' /\ Shrinks' /\ Accounted' /\ Tree' /\ Covers' /\ Seen' /\ Open'
    BY <1>9, <2>1 DEF EarlyFirst, Shrinks, Accounted, Tree, Covers, Seen, Open, BeforePasses
  <2>3. Rescanned'
    BY <1>1, <1>2, <1>3, <1>9 DEF IInv, Bridged, Rescanned, Clean
  <2>4. Replays' /\ Ended'
    BY <1>6, <1>9 DEF Replays, Ended, BeforePasses
  <2> QED
    BY <1>5, <1>7, <2>2, <2>3, <2>4 DEF IInv
<1> QED
  BY <1>2, <1>8, <1>9

\* What the bridge changed is looked at again.
LEMMA RescanOK == IInv /\ Rescan => IInv'
<1>1. SUFFICES ASSUME IInv, Rescan PROVE IInv'
  OBVIOUS
<1>2. TypeOK /\ pc = "rescan" /\ replay = {}
  BY <1>1 DEF IInv, Rescan, Replays, Repairing, BeforePasses
<1>3. PICK a \in Answers(scope) :
          /\ verdict' = Remember(verdict, a)
          /\ run' = [run EXCEPT !.manual = @ \/ Reviewed(a) # DOMAIN a \/ Escalate(Faulty(a))]
          /\ IF Faulty(a) = {} \/ Escalate(Faulty(a))
             THEN pc' = "settle" /\ UNCHANGED <<phase, cycle, work>>
             ELSE /\ pc' = "repair" /\ phase' = "rescan" /\ work' = Faulty(a)
                  /\ cycle' = Min({cycle + 1, LastRound})
  BY <1>1 DEF Rescan
<1>4. /\ scope' = {}
      /\ UNCHANGED <<disk, head, saved, mem, enabled, todo, replay, pass, restarts>>
  BY <1>1 DEF Rescan, stored
<1>5. /\ a \in [scope -> {"clean", "faulty", "incomplete"}] /\ DOMAIN a = scope
      /\ scope \subseteq Files /\ Faulty(a) \subseteq Files
  BY <1>2, <1>3 DEF Answers, TypeOK, Faulty
<1>6. /\ run' \in RunType /\ run'.remediated = run.remediated
      /\ run'.applied = run.applied /\ run'.dirty = run.dirty
      /\ run'.converged = run.converged
      /\ run'.manual <=> (run.manual \/ Reviewed(a) # scope \/ Escalate(Faulty(a)))
  <2>1. run \in RunType
    BY <1>2 DEF TypeOK, RunType
  <2> QED
    BY <1>3, <1>5, <2>1 DEF RunType
<1>7. verdict' \in [Files -> Review]
  BY <1>2, <1>3, RememberOK DEF TypeOK
<1>8. ASSUME ~run'.manual, NEW f \in Files
      PROVE  \/ f \in scope /\ (Clean(f)' \/ f \in Faulty(a))
             \/ f \notin scope /\ (Clean(f)' <=> Clean(f))
  <2>1. CASE f \in scope
    <3>1. f \in Reviewed(a)
      BY <1>6, <1>8, <2>1
    <3>2. a[f] \in {"clean", "faulty"} /\ verdict'[f] = [of |-> disk[f], is |-> a[f]]
      BY <1>3, <1>5, <2>1, <3>1 DEF Reviewed, Remember
    <3>3. a[f] = "faulty" => f \in Faulty(a)
      BY <1>5, <2>1 DEF Faulty
    <3> QED
      BY <1>4, <2>1, <3>2, <3>3 DEF Clean
  <2>2. CASE f \notin scope
    <3>1. verdict'[f] = verdict[f]
      BY <1>3, <1>5, <2>2 DEF Remember
    <3> QED
      BY <1>4, <2>2, <3>1 DEF Clean
  <2> QED
    BY <2>1, <2>2
<1>9. ASSUME run.converged, ~run.dirty, ~run'.manual, NEW f \in Files
      PROVE  /\ Clean(f)' \/ f \in Faulty(a) \/ Exempt(f)'
             /\ disk[f] = head[f]
  <2>1. InBridge /\ ~run.manual
    BY <1>2, <1>6, <1>9 DEF InBridge
  <2>2. (Clean(f) \/ f \in scope \/ Exempt(f)) /\ disk[f] = head[f]
    BY <1>1, <1>2, <1>9, <2>1 DEF IInv, Rescanned
  <2> QED
    BY <1>6, <1>8, <1>9, <2>2 DEF Exempt
<1>10. ZeroLeft'
  BY <1>1, <1>4 DEF IInv, ZeroLeft
<1>11. StartsBlank' /\ Bridged' /\ DoneSettled' /\ Unremediated'
  BY <1>1, <1>2, <1>3 DEF IInv, StartsBlank, Bridged, DoneSettled, Unremediated
<1>12. CASE pc' = "settle" /\ UNCHANGED <<phase, cycle, work>> /\ (Faulty(a) = {} \/ Escalate(Faulty(a)))
  <2>1. TypeOK'
    BY <1>2, <1>4, <1>6, <1>7, <1>12 DEF TypeOK, RunType
  <2>2. Ended'
    <3>1. SUFFICES ASSUME run.converged, ~run.dirty, ~run'.manual, NEW f \in Files
                   PROVE  (Clean(f)' \/ Exempt(f)') /\ disk[f] = head[f]
      BY <1>4, <1>6, <1>12 DEF Ended
    <3>2. Faulty(a) = {}
      BY <1>6, <1>12, <3>1
    <3> QED
      BY <1>9, <3>1, <3>2
  <2> QED
    BY <1>2, <1>4, <1>10, <1>11, <1>12, <2>1, <2>2, Outside
<1>13. CASE /\ pc' = "repair" /\ phase' = "rescan" /\ work' = Faulty(a)
            /\ cycle' = Min({cycle + 1, LastRound})
  <2>1. cycle' \in 0 .. CycleCap + LastRound
    <3>1. cycle \in Nat /\ LastRound \in Nat /\ CycleCap \in Nat
      BY <1>2, AuditAssumption DEF TypeOK, AuditAssumption
    <3>2. Min({cycle + 1, LastRound}) \in 0 .. LastRound
      BY <3>1, MinOfTwo
    <3> QED
      BY <1>13, <3>1, <3>2
  <2>2. TypeOK'
    BY <1>2, <1>4, <1>5, <1>6, <1>7, <1>13, <2>1 DEF TypeOK, RunType
  <2>3. ~InPasses'
    BY <1>13 DEF InPasses, Repairing, BeforePasses
  <2>4. EarlyFirst' /\ Shrinks' /\ Accounted' /\ Tree' /\ Covers' /\ Seen' /\ Open'
    BY <1>13, <2>3 DEF EarlyFirst, Shrinks, Accounted, Tree, Covers, Seen, Open, BeforePasses
  <2>5. Rescanned'
    BY <1>4, <1>6, <1>9, <1>13 DEF Rescanned
  <2>6. Replays' /\ Ended'
    BY <1>2, <1>4, <1>13 DEF Replays, Ended, BeforePasses
  <2> QED
    BY <1>10, <1>11, <2>2, <2>4, <2>5, <2>6 DEF IInv
<1> QED
  BY <1>3, <1>12, <1>13

\* What the loops of a process kept is forgotten.
LEMMA ForgetOK ==
  ASSUME Forget
  PROVE  /\ phase' \in {"baseline", "early", "pass", "competitor", "bridge", "rescan"}
         /\ cycle' \in 0 .. CycleCap + LastRound /\ scope' \subseteq Files
         /\ todo' \subseteq Files /\ replay' \subseteq Files /\ work' \subseteq Files
         /\ pass' \in PassType /\ replay' = {} /\ ZeroLeft'
<1>1. pass' = FreshPass
  BY DEF Forget
<1>2. ZeroLeft'
  BY <1>1, AuditAssumption DEF ZeroLeft, FreshPass, AuditAssumption
<1>3. pass' \in PassType
  BY <1>1, FreshOK
<1> QED
  BY <1>2, <1>3, AuditAssumption DEF Forget, AuditAssumption

\* Remediation edits files after the last review; the others stay as they are.
LEMMA RemediateOK == IInv /\ Remediate => IInv'
<1>1. SUFFICES ASSUME IInv, Remediate PROVE IInv'
  OBVIOUS
<1>2. /\ TypeOK /\ pc = "settle" /\ pc' \in {"ship", "close"} /\ run.remediated = {}
      /\ UNCHANGED <<head, verdict, saved, mem, enabled, restarts>>
  BY <1>1 DEF IInv, Remediate, stored, Unremediated
<1>3. PICK A \in SUBSET Files :
         /\ disk' = Edited(A)
         /\ \/ pc' = "ship" /\ run' = [run EXCEPT !.remediated = A]
            \/ pc' = "close" /\ run' = [run EXCEPT !.dirty = TRUE, !.manual = TRUE]
  BY <1>1 DEF Remediate
<1>4. /\ phase' \in {"baseline", "early", "pass", "competitor", "bridge", "rescan"}
      /\ cycle' \in 0 .. CycleCap + LastRound /\ scope' \subseteq Files
      /\ todo' \subseteq Files /\ replay' \subseteq Files /\ work' \subseteq Files
      /\ pass' \in PassType /\ replay' = {} /\ ZeroLeft'
  <2>1. Forget
    BY <1>1 DEF Remediate
  <2> QED
    BY <2>1, ForgetOK
<1>5. disk' \in [Files -> Bytes] /\ \A f \in Files : f \notin A => disk'[f] = disk[f]
  BY <1>2, <1>3, EditedOK
<1>6. run \in RunType
  BY <1>2 DEF TypeOK, RunType
<1>7. run' \in RunType
  BY <1>3, <1>6 DEF RunType
<1>8. TypeOK'
  BY <1>2, <1>4, <1>5, <1>7 DEF TypeOK, PassType, RunType
<1>9. StartsBlank' /\ Bridged' /\ DoneSettled' /\ Unremediated'
  BY <1>2 DEF StartsBlank, Bridged, DoneSettled, Unremediated
<1>10. Ended'
  <2>1. CASE pc' = "close" /\ run' = [run EXCEPT !.dirty = TRUE, !.manual = TRUE]
    <3>1. run'.dirty
      BY <1>6, <2>1 DEF RunType
    <3> QED
      BY <3>1 DEF Ended
  <2>2. CASE pc' = "ship" /\ run' = [run EXCEPT !.remediated = A]
    <3>1. /\ run'.converged = run.converged /\ run'.dirty = run.dirty
          /\ run'.manual = run.manual /\ run'.applied = run.applied /\ run'.remediated = A
      BY <1>6, <2>2 DEF RunType
    <3>2. SUFFICES ASSUME run.converged, ~run.dirty, ~run.manual, NEW f \in Files
                   PROVE  /\ Clean(f)' \/ Exempt(f)' \/ f \in A
                          /\ verdict[f] = [of |-> head[f], is |-> "clean"] \/ Exempt(f)'
      BY <1>2, <2>2, <3>1 DEF Ended, Remediated
    <3>3. (Clean(f) \/ Exempt(f)) /\ disk[f] = head[f]
      BY <1>1, <1>2, <3>2 DEF IInv, Ended, Remediated
    <3>4. Exempt(f)' <=> Exempt(f)
      BY <3>1 DEF Exempt
    <3> QED
      BY <1>2, <1>5, <3>3, <3>4 DEF Clean
  <2> QED
    BY <1>3, <2>1, <2>2
<1> QED
  BY <1>2, <1>4, <1>8, <1>9, <1>10, Outside

\* What remediation did is committed; a reset brings back what had been reviewed.
LEMMA ShipOK == IInv /\ Ship => IInv'
<1>1. SUFFICES ASSUME IInv, Ship PROVE IInv'
  OBVIOUS
<1>2. /\ TypeOK /\ pc = "ship" /\ pc' = "close" /\ replay' = {}
      /\ UNCHANGED <<verdict, saved, mem, enabled, phase, cycle, scope, todo, replay, work, pass,
                     restarts>>
      /\ \/ head' = disk /\ disk' = disk /\ run' = run
         \/ disk' = head /\ head' = head /\ run' = [run EXCEPT !.remediated = {}]
  BY <1>1 DEF IInv, Ship, stored, place, Replays, Repairing
<1>3. run \in RunType
  BY <1>2 DEF TypeOK, RunType
<1>4. /\ run' \in RunType
      /\ run'.converged = run.converged /\ run'.dirty = run.dirty
      /\ run'.manual = run.manual /\ run'.applied = run.applied
  BY <1>2, <1>3 DEF RunType
<1>5. TypeOK' /\ ZeroLeft'
  BY <1>1, <1>2, <1>4 DEF IInv, TypeOK, ZeroLeft, RunType
<1>6. StartsBlank' /\ Bridged' /\ DoneSettled' /\ Unremediated'
  BY <1>2 DEF StartsBlank, Bridged, DoneSettled, Unremediated
<1>7. Ended'
  <2>1. SUFFICES ASSUME run.converged, ~run.dirty, ~run.manual, NEW f \in Files
                 PROVE  Clean(f)' \/ Exempt(f) \/ Remediated(f)'
    BY <1>2, <1>4 DEF Ended, Exempt
  <2>2. /\ Clean(f) \/ Exempt(f) \/ Remediated(f)
        /\ verdict[f] = [of |-> head[f], is |-> "clean"] \/ Exempt(f)
    BY <1>1, <1>2, <2>1 DEF IInv, Ended
  <2>3. CASE disk' = disk /\ run' = run
    BY <1>2, <2>2, <2>3 DEF Clean, Remediated
  <2>4. CASE disk' = head
    BY <1>2, <2>2, <2>4 DEF Clean
  <2> QED
    BY <1>2, <2>3, <2>4
<1> QED
  BY <1>2, <1>5, <1>6, <1>7, Outside

\* The run ends.
LEMMA SettleOK == IInv /\ Settle => IInv'
<1>1. SUFFICES ASSUME IInv, Settle PROVE IInv'
  OBVIOUS
<1>2. /\ TypeOK /\ pc \in {"settle", "close"} /\ pc' = "done"
      /\ UNCHANGED <<disk, head, verdict, enabled, restarts>>
      /\ run' = [run EXCEPT !.converged = @ /\ ~run.manual]
  BY <1>1 DEF IInv, Settle, bytes
<1>3. PICK green \in BOOLEAN, written \in BOOLEAN :
          /\ saved' = IF written
                      THEN [mem EXCEPT !.live = ~(run.converged /\ ~run.manual /\ green)]
                      ELSE saved
          /\ mem' = saved'
  BY <1>1 DEF Settle
<1>4. saved' \in Checkpoint /\ mem' \in Checkpoint
  <2>1. (~(run.converged /\ ~run.manual /\ green)) \in BOOLEAN
    OBVIOUS
  <2> QED
    BY <1>2, <1>3, <2>1 DEF TypeOK, Checkpoint
<1>5. /\ run' \in RunType
      /\ run'.applied = run.applied /\ run'.dirty = run.dirty /\ run'.manual = run.manual
      /\ run'.remediated = run.remediated
      /\ run'.converged <=> run.converged /\ ~run.manual
  <2>1. run \in RunType
    BY <1>2 DEF TypeOK, RunType
  <2> QED
    BY <1>2, <2>1 DEF RunType
<1>6. /\ phase' \in {"baseline", "early", "pass", "competitor", "bridge", "rescan"}
      /\ cycle' \in 0 .. CycleCap + LastRound /\ scope' \subseteq Files
      /\ todo' \subseteq Files /\ replay' \subseteq Files /\ work' \subseteq Files
      /\ pass' \in PassType /\ replay' = {} /\ ZeroLeft'
  <2>1. Forget
    BY <1>1 DEF Settle
  <2> QED
    BY <2>1, ForgetOK
<1>7. TypeOK'
  BY <1>2, <1>4, <1>5, <1>6 DEF TypeOK, PassType, RunType
<1>8. StartsBlank' /\ Bridged' /\ DoneSettled' /\ Unremediated'
  BY <1>2, <1>5 DEF StartsBlank, Bridged, DoneSettled, Unremediated
<1>9. Ended'
  BY <1>1, <1>2, <1>5 DEF IInv, Ended, Clean, Exempt, Remediated
<1> QED
  BY <1>2, <1>6, <1>7, <1>8, <1>9, Outside

\* The invariant is inductive.
LEMMA StepInv == IInv /\ [Next]_vars => IInv'
<1>1. SUFFICES ASSUME IInv, [Next]_vars PROVE IInv'
  OBVIOUS
<1>2. CASE UNCHANGED vars
  <2>1. UNCHANGED <<disk, head, verdict, saved, mem, enabled, pc, phase, cycle, scope, todo,
                    replay, work, pass, run, restarts>>
    BY <1>2 DEF vars, bytes, stored, place
  <2>2. TypeOK' /\ ZeroLeft' /\ Replays' /\ StartsBlank'
    BY <1>1, <2>1 DEF IInv, TypeOK, ZeroLeft, Replays, StartsBlank, Repairing, BeforePasses
  <2>3. (InPasses' <=> InPasses) /\ (InBridge' <=> InBridge) /\ (Repairing' <=> Repairing)
    BY <2>1 DEF InPasses, InBridge, Repairing, BeforePasses
  <2>4. EarlyFirst' /\ Shrinks' /\ Accounted' /\ Tree'
    BY <1>1, <2>1, <2>3 DEF IInv, EarlyFirst, Shrinks, Accounted, Tree, BeforePasses
  <2>5. Covers' /\ Seen' /\ Open'
    BY <1>1, <2>1, <2>3 DEF IInv, Covers, Seen, Open, Awaited
  <2>6. Bridged' /\ Rescanned' /\ Ended' /\ DoneSettled' /\ Unremediated'
    BY <1>1, <2>1, <2>3 DEF IInv, Bridged, Rescanned, Ended, DoneSettled, Unremediated, Clean,
       Exempt, Remediated
  <2> QED
    BY <2>2, <2>4, <2>5, <2>6 DEF IInv
<1> QED
  BY <1>1, <1>2, StartOK, EarlyOK, ReviewBatchOK, RepairOK, RepairDirtyOK, RecordOK, CommitOK,
     EndPassOK, DecideOK, BridgeOK, RescanOK, RemediateOK, ShipOK, SettleOK, StopOK,
     OwnerCommitsOK DEF Next

(***************************************************************************)
(* Theorems                                                                *)
(***************************************************************************)

\* The strengthened invariant holds in every reachable state.
THEOREM Invariance == Spec => []IInv
  BY InitOK, StepInv, PTL DEF Spec

\* The tree, the checkpoints, the counters of a pass and of a run stay within
\* their types: in particular no file gets more attempts than the limit, and a
\* number for new bytes can always be found.
THEOREM TypeCorrect == Spec => []TypeOK
<1>1. IInv => TypeOK
  BY DEF IInv
<1> QED
  BY <1>1, Invariance, PTL

\* A run that leaves its passes converged, or ends so, has every file on disk in
\* the bytes its last completed review found clean, but for the bridged files that no
\* gate judges and the files that readiness remediation edited after the last review:
\* for any number of files, batches, passes, rounds and restarts.
THEOREM ConvergedIsReviewed == Spec => []ConvergedMeansReviewed
<1>1. IInv => ConvergedMeansReviewed
  BY DEF IInv, ConvergedMeansReviewed, Bridged, Ended, DoneSettled, Clean, Exempt, Remediated
<1> QED
  BY <1>1, Invariance, PTL

\* The scope of a follow-up pass leaves out only files whose bytes are those of
\* their last review, or whose findings are still open.
THEOREM ScopeCoversChanges == Spec => []DeltaScopeCoversChanges
<1>1. IInv => DeltaScopeCoversChanges
  <2>1. SUFFICES ASSUME IInv, pc = "review", phase = "pass", cycle > 1, todo = scope,
                        ~run.dirty, NEW f \in Files \ scope
                 PROVE  verdict[f].of = disk[f] \/ f \in run.unresolved
    BY DEF DeltaScopeCoversChanges
  <2>2. InPasses /\ ~pass.fixable
    BY <2>1 DEF IInv, InPasses, Shrinks, BeforePasses
  <2> QED
    BY <2>1, <2>2 DEF IInv, Covers, Awaited
<1> QED
  BY <1>1, Invariance, PTL

=============================================================================
