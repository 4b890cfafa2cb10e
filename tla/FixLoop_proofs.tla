---------------------------- MODULE FixLoop_proofs ----------------------------
(***************************************************************************)
(* Proofs about FixLoop, for any number of files, tries, rounds and        *)
(* threads, and any distance between the commits.                          *)
(*                                                                         *)
(* The argument: what a rollback would write back is known, that is, it is *)
(* what HEAD has or was let stay; the candidate is the only content that   *)
(* is not, and it lies in the file at work or in the files of a structural *)
(* attempt.  Every way out of an attempt either lets the candidate stay,   *)
(* or writes back what is known, or stops the pass with a dirty file.      *)
(***************************************************************************)
EXTENDS FixLoop, TLAPS

(***************************************************************************)
(* The inductive invariant                                                 *)
(***************************************************************************)

\* HEAD has these bytes of file f, or they were let stay.
Known(f, b) == b = committed[f] \/ b \in accepted[f]
Judged(f) == Known(f, disk[f])

Labels == {"pick", "attempt", "gate", "verify", "settle", "structural", "commit", "finish",
           "returned", "dirty", "aborted"}
Outcomes == {"none", "noop", "oversized", "skip", "invalid", "revert", "reject", "timeout", "fixed"}
Generations == [st : {"none", "submitted", "ready", "useless"}, of : Bytes]

TreeTypes ==
    /\ disk \in [Files -> Bytes] /\ committed \in [Files -> Bytes]
    /\ snapshots \in [Files -> Bytes] /\ accepted \in [Files -> SUBSET Bytes]
    /\ touched \subseteq Files /\ dirtyFiles \subseteq Files

\* While the loop may go on, its counters have room for one more attempt.
TurnTypes ==
    /\ rel \in 1 .. NumFiles + 1 /\ original \in Bytes /\ base \in Bytes
    /\ mode \in {"edits", "whole"} /\ editRetries \in {0, 1}
    /\ attempt \in 1 .. MaxTries + 1 /\ buildTries \in 0 .. MaxFixTries
    /\ advRounds \in 0 .. AdversarialRounds + 1
    /\ pc \in {"pick", "attempt", "gate", "verify"} =>
          buildTries < MaxFixTries /\ (advRounds = 0 \/ advRounds < AdversarialRounds)
    /\ pc \in {"gate", "verify"} => attempt <= MaxTries

RestTypes ==
    /\ prefetched \in [Files -> Generations]
    /\ reviewer \in {"none", "veto", "adversarial"}
    /\ pc \in Labels /\ outcome \in Outcomes
    /\ applied \subseteq Files /\ unverified \subseteq Files
    /\ structuralUsed \in 0 .. StructuralMax /\ sinceCommit \in 0 .. CommitEvery
    /\ pc \notin {"commit", "aborted"} => sinceCommit < CommitEvery

FlagTypes == keptOk \in BOOLEAN /\ outage \in BOOLEAN /\ goesOn \in BOOLEAN

\* What is on disk at each step of the main thread.
Content ==
    /\ pc \notin {"finish", "dirty", "returned", "aborted"} => dirtyFiles = {}
    /\ pc \in {"attempt", "gate", "verify", "settle", "structural", "commit"} => rel \in Files
    /\ pc \in {"pick", "attempt", "settle", "commit"} => \A f \in Files : Judged(f)
    /\ pc \in {"attempt", "gate", "verify", "settle"} => Known(rel, original)
    /\ pc = "attempt" => base = original /\ disk[rel] = original
    /\ pc \in {"gate", "verify"} => \A f \in Files \ {rel} : Judged(f)
    /\ pc = "structural" => \A f \in Files : /\ Known(f, snapshots[f])
                                             /\ f \notin touched => disk[f] = snapshots[f]
    /\ pc \in {"finish", "dirty", "returned"} => \A f \in Files \ dirtyFiles : Judged(f)

IInv == TreeTypes /\ TurnTypes /\ RestTypes /\ FlagTypes /\ Content

(***************************************************************************)
(* Bytes and counters                                                      *)
(***************************************************************************)

\* The least of a set of bytes.
LEMMA MinByte ==
  ASSUME NEW S, S \subseteq Bytes, S # {}
  PROVE  Min(S) \in S
<1>1. \E x \in S : \A y \in S : x <= y
  <2>1. CASE 0 \in S
    BY <2>1 DEF Bytes
  <2>2. CASE 0 \notin S /\ 1 \in S
    BY <2>2 DEF Bytes
  <2>3. CASE 0 \notin S /\ 1 \notin S /\ 2 \in S
    BY <2>3 DEF Bytes
  <2>4. CASE 0 \notin S /\ 1 \notin S /\ 2 \notin S /\ 3 \in S
    BY <2>4 DEF Bytes
  <2>5. CASE 0 \notin S /\ 1 \notin S /\ 2 \notin S /\ 3 \notin S /\ 4 \in S
    BY <2>5 DEF Bytes
  <2>6. CASE 0 \notin S /\ 1 \notin S /\ 2 \notin S /\ 3 \notin S /\ 4 \notin S
    <3>1. ASSUME NEW y \in S
          PROVE  y = 5
      <4>1. y \in 0 .. 5 /\ y # 0 /\ y # 1 /\ y # 2 /\ y # 3 /\ y # 4
        BY <2>6 DEF Bytes
      <4> QED
        BY <4>1
    <3> QED
      BY <3>1
  <2> QED
    BY <2>1, <2>2, <2>3, <2>4, <2>5, <2>6
<1> QED
  BY <1>1 DEF Min

\* There are always bytes that nothing refers to.
LEMMA NewBytesFacts ==
  ASSUME NEW f \in Files
  PROVE  /\ NewBytes(f) \in Bytes /\ NewBytes(f) # disk[f] /\ NewBytes(f) # committed[f]
         /\ NewBytes(f) # snapshots[f] /\ (f = rel => NewBytes(f) # original)
<1> DEFINE old == IF f = rel THEN original ELSE disk[f]
           S == Bytes \ {disk[f], committed[f], snapshots[f], prefetched[f].of, old}
<1>1. S # {}
  <2>1. ASSUME NEW a, NEW b, NEW c, NEW d, NEW e
        PROVE  Bytes \ {a, b, c, d, e} # {}
    BY DEF Bytes
  <2> QED
    BY <2>1
<1>2. S \subseteq Bytes
  OBVIOUS
<1>3. NewBytes(f) = Min(S)
  BY DEF NewBytes
<1>4. Min(S) \in S
  BY <1>1, <1>2, MinByte
<1> QED
  BY <1>3, <1>4

\* The counts are natural numbers, and there is an attempt.
LEMMA Counts ==
  /\ NumFiles \in Nat \ {0} /\ MaxFixTries \in Nat \ {0} /\ AdversarialRounds \in Nat
  /\ CommitEvery \in Nat \ {0} /\ StructuralMax \in Nat
  /\ MaxTries \in Nat \ {0} /\ 0 \in Bytes
BY CountsAssumption DEF MaxTries, Bytes

\* The prefetched generations stay generations.
LEMMA TopUpType ==
  ASSUME RestTypes
  PROVE  /\ TopUp \in [Files -> Generations]
         /\ \A f \in Files : [TopUp EXCEPT ![f] = NoGeneration] \in [Files -> Generations]
<1>1. /\ NoGeneration \in Generations
      /\ [NoGeneration EXCEPT !.st = "submitted"] \in Generations
  BY DEF NoGeneration, Generations, Bytes
<1>2. TopUp \in [Files -> Generations]
  BY <1>1 DEF TopUp, RestTypes
<1> QED
  BY <1>1, <1>2

(***************************************************************************)
(* What the parts of the steps do                                          *)
(***************************************************************************)

\* The next file begins with fresh counters.
LEMMA NextFileFacts ==
  ASSUME TurnTypes, rel \in Files, NextFile, reviewer' = reviewer
  PROVE  /\ TurnTypes'
         /\ snapshots' \in [Files -> Bytes] /\ touched' \subseteq Files
         /\ pc' = "pick" /\ outcome' = "none" /\ keptOk' = TRUE
<1>1. MaxTries' = MaxTries
  BY DEF MaxTries, Adversarial
<1>2. rel' \in 1 .. NumFiles + 1
  BY Counts DEF NextFile, Files
<1> QED
  BY <1>1, <1>2, Counts DEF NextFile, TurnTypes

\* One more attempt of the loop.
LEMMA AgainTypes ==
  ASSUME TurnTypes, pc \in {"attempt", "gate", "verify"}, attempt <= MaxTries,
         reviewer' = reviewer, pc' \in {"attempt", "settle"}, rel' = rel, original' = original,
         base' \in {base, original}, mode' \in {mode, "whole"}, editRetries' \in {editRetries, 0},
         \/ buildTries' = buildTries
         \/ buildTries' = buildTries + 1 /\ (pc' = "attempt" => buildTries' < MaxFixTries),
         \/ advRounds' = advRounds
         \/ advRounds' = advRounds + 1 /\ (pc' = "attempt" => advRounds' < AdversarialRounds),
         \/ attempt' = attempt
         \/ attempt' = attempt + 1
  PROVE  TurnTypes'
<1>1. MaxTries' = MaxTries
  BY DEF MaxTries, Adversarial
<1>2. /\ attempt' \in 1 .. MaxTries + 1 /\ buildTries' \in 0 .. MaxFixTries
      /\ advRounds' \in 0 .. AdversarialRounds + 1
      /\ pc' = "attempt" => buildTries' < MaxFixTries
                            /\ (advRounds' = 0 \/ advRounds' < AdversarialRounds)
  BY Counts DEF TurnTypes
<1> QED
  BY <1>1, <1>2 DEF TurnTypes

\* The counters of a turn that goes nowhere are good at every label with less to promise.
LEMMA SameTurnTypes ==
  ASSUME TurnTypes, UNCHANGED turn, reviewer' = reviewer,
         pc' \in {"pick", "attempt", "gate", "verify"} => pc \in {"pick", "attempt", "gate", "verify"},
         pc' \in {"gate", "verify"} => attempt <= MaxTries
  PROVE  TurnTypes'
<1>1. MaxTries' = MaxTries
  BY DEF MaxTries, Adversarial
<1> QED
  BY <1>1 DEF turn, TurnTypes

\* With the original bytes back, every file is judged.
LEMMA RolledBack ==
  ASSUME TreeTypes, Content, pc \in {"attempt", "gate", "verify", "settle"},
         disk' = [disk EXCEPT ![rel] = original], UNCHANGED <<committed, accepted>>
  PROVE  /\ \A f \in Files : Judged(f)'
         /\ disk'[rel] = original /\ rel \in Files
<1>1. rel \in Files /\ Known(rel, original) /\ \A f \in Files \ {rel} : Judged(f)
  BY DEF Content
<1>2. disk'[rel] = original /\ \A f \in Files \ {rel} : disk'[f] = disk[f]
  BY <1>1 DEF TreeTypes
<1> QED
  BY <1>1, <1>2 DEF Judged, Known

\* A refused rollback stops the pass; the other files are judged.
LEMMA Refused ==
  ASSUME Content, pc \in {"attempt", "gate", "verify", "settle"}, disk' = disk, pc' = "finish",
         dirtyFiles' = dirtyFiles \cup {rel}, UNCHANGED <<committed, accepted>>
  PROVE  Content'
BY DEF Content, Judged, Known

\* At the labels between the attempts nothing is on disk but what is judged.
LEMMA RestContent ==
  ASSUME rel' \in Files, dirtyFiles' = {}, \A f \in Files : Judged(f)',
         \/ pc' \in {"pick", "commit"}
         \/ pc' = "settle" /\ Known(rel, original)'
         \/ pc' = "attempt" /\ base' = original' /\ disk'[rel'] = original'
  PROVE  Content'
BY DEF Content, Judged, Known

\* After the last file the loop rests, or it stops.
LEMMA StopContent ==
  ASSUME dirtyFiles' = {}, \A f \in Files : Judged(f)', pc' \in {"pick", "finish", "returned"}
  PROVE  Content'
BY DEF Content

(***************************************************************************)
(* The steps                                                               *)
(***************************************************************************)

LEMMA FirstAttemptOK ==
  ASSUME IInv, NEW f \in Files, FirstAttempt(f)
  PROVE  IInv'
<1>1. /\ UNCHANGED <<reviewer, goesOn, disk, committed, accepted, rel, original, base, mode, attempt,
                     editRetries, buildTries, advRounds, applied, unverified, structuralUsed,
                     sinceCommit, pc, outcome, keptOk, snapshots, touched, dirtyFiles, outage>>
  BY DEF FirstAttempt, quiet, tree, turn, answer, scratch
<1>2. prefetched' \in [Files -> Generations]
  <2>1. PICK r \in {[st |-> "ready", of |-> disk[f]], [st |-> "useless", of |-> 0]} :
           prefetched' = [prefetched EXCEPT ![f] = r]
    BY DEF FirstAttempt
  <2>2. r \in Generations
    BY <2>1, Counts DEF IInv, TreeTypes, Generations
  <2> QED
    BY <2>1, <2>2 DEF IInv, RestTypes
<1>3. RestTypes'
  BY <1>1, <1>2 DEF IInv, RestTypes
<1>4. TurnTypes'
  BY <1>1, SameTurnTypes DEF IInv, TurnTypes, turn
<1> QED
  BY <1>1, <1>3, <1>4 DEF IInv, TreeTypes, FlagTypes, Content, Judged, Known

LEMMA PickOK ==
  ASSUME IInv, Pick
  PROVE  IInv'
<1>1. /\ pc = "pick" /\ rel \in Files /\ UNCHANGED <<reviewer, goesOn, dirtyFiles, outage>>
      /\ UNCHANGED <<disk, committed, accepted, applied, unverified, structuralUsed, sinceCommit>>
  BY DEF Pick, quiet, tree, answer
<1>2. dirtyFiles = {} /\ \A f \in Files : Judged(f)
  BY <1>1 DEF IInv, Content
<1>3. \A f \in Files : Judged(f)' /\ Known(f, disk[f])'
  BY <1>1, <1>2 DEF Judged, Known
<1>4. prefetched' \in [Files -> Generations] /\ pc' \in {"finish", "pick", "attempt"}
  BY <1>1, TopUpType DEF IInv, Pick, RestTypes, NextFile
<1>5. CASE NextFile
  <2>1. /\ TurnTypes' /\ snapshots' \in [Files -> Bytes] /\ touched' \subseteq Files
        /\ pc' = "pick" /\ outcome' = "none" /\ keptOk' = TRUE
    BY <1>1, <1>5, NextFileFacts DEF IInv
  <2>2. TreeTypes' /\ FlagTypes'
    BY <1>1, <2>1 DEF IInv, TreeTypes, FlagTypes
  <2>3. RestTypes'
    BY <1>1, <1>4, <2>1 DEF IInv, RestTypes, Labels, Outcomes
  <2>4. Content'
    BY <1>1, <1>2, <1>3, <2>1, StopContent
  <2> QED
    BY <2>1, <2>2, <2>3, <2>4 DEF IInv
<1>6. CASE pc' = "finish" /\ UNCHANGED <<turn, scratch>>
  <2>1. TurnTypes'
    BY <1>1, <1>6, SameTurnTypes DEF IInv
  <2>2. TreeTypes' /\ FlagTypes'
    BY <1>1, <1>6 DEF IInv, TreeTypes, FlagTypes, scratch
  <2>3. RestTypes'
    BY <1>1, <1>4, <1>6 DEF IInv, RestTypes, Labels, scratch
  <2>4. Content'
    BY <1>1, <1>2, <1>3, <1>6, StopContent
  <2> QED
    BY <2>1, <2>2, <2>3, <2>4 DEF IInv
<1>7. CASE /\ pc' = "attempt" /\ original' = disk[rel]
           /\ base' = (IF Usable(rel) THEN prefetched[rel].of ELSE disk[rel])
           /\ UNCHANGED <<rel, mode, attempt, editRetries, buildTries, advRounds, scratch>>
  <2>1. base' = disk[rel] /\ disk[rel] \in Bytes
    BY <1>1, <1>7 DEF Usable, IInv, TreeTypes
  <2>2. MaxTries' = MaxTries
    BY <1>1 DEF MaxTries, Adversarial
  <2>3. TurnTypes'
    BY <1>1, <1>7, <2>1, <2>2 DEF IInv, TurnTypes
  <2>4. TreeTypes' /\ FlagTypes'
    BY <1>1, <1>7 DEF IInv, TreeTypes, FlagTypes, scratch
  <2>5. RestTypes'
    BY <1>1, <1>4, <1>7 DEF IInv, RestTypes, Labels, scratch
  <2>6. Content'
    BY <1>1, <1>2, <1>3, <1>7, <2>1 DEF Content
  <2> QED
    BY <2>3, <2>4, <2>5, <2>6 DEF IInv
<1> QED
  BY <1>5, <1>6, <1>7 DEF Pick

\* A build break ends the loop or leaves room for another attempt.
LEMMA BuildBreakTypes ==
  ASSUME TurnTypes, RestTypes, pc \in {"attempt", "gate"}, attempt <= MaxTries,
         reviewer' = reviewer, NEW o \in Outcomes, BuildBreak(o)
  PROVE  /\ TurnTypes' /\ pc' \in {"attempt", "settle"} /\ outcome' = o
         /\ rel' = rel /\ original' = original /\ (pc' = "attempt" => base' = original)
<1>1. /\ pc' \in {"attempt", "settle"} /\ outcome' = o /\ rel' = rel /\ original' = original
      /\ base' \in {base, original} /\ (pc' = "attempt" => base' = original)
      /\ mode' = mode /\ editRetries' = editRetries /\ advRounds' = advRounds
      /\ attempt' = attempt \/ attempt' = attempt + 1
      /\ \/ buildTries' = buildTries
         \/ buildTries' = buildTries + 1 /\ (pc' = "attempt" => ~(buildTries + 1 >= MaxFixTries))
  BY DEF BuildBreak, Again
<1>2. buildTries \in Nat /\ MaxFixTries \in Nat
  BY Counts DEF TurnTypes
<1>3. \/ buildTries' = buildTries
      \/ buildTries' = buildTries + 1 /\ (pc' = "attempt" => buildTries' < MaxFixTries)
  BY <1>1, <1>2
<1>4. TurnTypes'
  BY <1>1, <1>3, AgainTypes
<1> QED
  BY <1>1, <1>4

LEMMA GenerateOK ==
  ASSUME IInv, Generate
  PROVE  IInv'
<1>1. /\ pc = "attempt" /\ attempt <= MaxTries
      /\ UNCHANGED <<reviewer, goesOn, disk, committed, accepted, applied, unverified, structuralUsed,
                     sinceCommit, prefetched, keptOk, snapshots, touched, dirtyFiles, outage>>
  BY DEF Generate, quiet, tree, answer
<1>2. /\ rel \in Files /\ dirtyFiles = {} /\ \A f \in Files : Judged(f)
      /\ base = original /\ disk[rel] = original
  BY <1>1 DEF IInv, Content
<1>3. \A f \in Files : Judged(f)' /\ Known(f, disk[f])'
  BY <1>1, <1>2 DEF Judged, Known
<1>4. /\ TurnTypes' /\ pc' \in {"attempt", "settle"} /\ outcome' \in Outcomes
      /\ rel' = rel /\ original' = original /\ (pc' = "attempt" => base' = original)
  <2>1. ASSUME NEW o \in Outcomes, Settles(o)
        PROVE  /\ TurnTypes' /\ pc' \in {"attempt", "settle"} /\ outcome' \in Outcomes
               /\ rel' = rel /\ original' = original /\ (pc' = "attempt" => base' = original)
    BY <1>1, <2>1, SameTurnTypes DEF Settles, IInv, turn
  <2>2. CASE /\ outcome' = outcome /\ pc' = "attempt" /\ attempt' = attempt + 1
             /\ base' = original /\ editRetries' = 0
             /\ UNCHANGED <<rel, original, mode, buildTries, advRounds>>
    BY <1>1, <2>2, AgainTypes DEF IInv, RestTypes
  <2>3. CASE /\ mode' = "whole" /\ base' = original
             /\ UNCHANGED <<rel, original, attempt, editRetries, buildTries, advRounds, pc, outcome>>
    BY <1>1, <2>3, AgainTypes DEF IInv, RestTypes
  <2>4. CASE BuildBreak("invalid")
    BY <1>1, <2>4, BuildBreakTypes DEF IInv, Outcomes
  <2> QED
    BY <2>1, <2>2, <2>3, <2>4 DEF Generate, Outcomes
<1>5. TreeTypes' /\ FlagTypes'
  BY <1>1 DEF IInv, TreeTypes, FlagTypes
<1>6. RestTypes'
  BY <1>1, <1>4 DEF IInv, RestTypes, Labels
<1>7. Content'
  BY <1>1, <1>2, <1>3, <1>4, RestContent
<1> QED
  BY <1>4, <1>5, <1>6, <1>7 DEF IInv

LEMMA WriteCandidateOK ==
  ASSUME IInv, WriteCandidate
  PROVE  IInv'
<1>1. /\ pc = "attempt" /\ attempt <= MaxTries /\ pc' = "gate"
      /\ UNCHANGED <<reviewer, goesOn, committed, turn, applied, unverified, structuralUsed,
                     sinceCommit, prefetched, outcome, keptOk, snapshots, touched, dirtyFiles, outage>>
  BY DEF WriteCandidate, quiet, answer, scratch
<1>2. /\ rel \in Files /\ dirtyFiles = {} /\ \A f \in Files : Judged(f)
      /\ disk[rel] = original /\ original \in Bytes
  BY <1>1 DEF IInv, Content, TurnTypes
<1>3. PICK b \in {NewBytes(rel)} \cup (IF mode = "whole" THEN {original} ELSE {}) :
         /\ disk' = [disk EXCEPT ![rel] = b]
         /\ accepted' = [accepted EXCEPT ![rel] = @ \ ({b} \ {original})]
  BY DEF WriteCandidate
<1>4. b \in Bytes
  BY <1>2, <1>3, NewBytesFacts
<1>5. TreeTypes'
  BY <1>1, <1>2, <1>3, <1>4 DEF IInv, TreeTypes
<1>6. TurnTypes'
  BY <1>1, SameTurnTypes DEF IInv
<1>7. RestTypes' /\ FlagTypes'
  BY <1>1 DEF IInv, RestTypes, FlagTypes, Labels
<1>8. \A f \in Files \ {rel} : Judged(f)'
  BY <1>1, <1>2, <1>3 DEF Judged, Known, IInv, TreeTypes
<1>9. Known(rel, original)' /\ rel' = rel
  BY <1>1, <1>2, <1>3 DEF Judged, Known, IInv, TreeTypes, turn
<1>10. Content'
  BY <1>1, <1>2, <1>8, <1>9 DEF Content
<1> QED
  BY <1>5, <1>6, <1>7, <1>10 DEF IInv

LEMMA AttemptStopsOK ==
  ASSUME IInv, AttemptStops
  PROVE  IInv'
<1>1. /\ pc = "attempt"
      /\ UNCHANGED <<reviewer, goesOn, committed, accepted, applied, unverified, structuralUsed,
                     sinceCommit, prefetched, keptOk, snapshots, touched, outage>>
  BY DEF AttemptStops, quiet, answer
<1>2. /\ rel \in Files /\ dirtyFiles = {} /\ \A f \in Files : Judged(f)
      /\ Known(rel, original) /\ original \in Bytes
  BY <1>1 DEF IInv, Content, TurnTypes
<1>3. /\ pc' \in {"settle", "finish"} /\ UNCHANGED turn /\ outcome' \in Outcomes
      /\ disk' \in {disk, [disk EXCEPT ![rel] = original]}
      /\ dirtyFiles' \in {dirtyFiles, dirtyFiles \cup {rel}}
      /\ pc' = "settle" => dirtyFiles' = dirtyFiles
      /\ disk' # disk => dirtyFiles' = dirtyFiles
  BY <1>1 DEF AttemptStops, Settles, Rollback, IInv, RestTypes, Outcomes
<1>4. TreeTypes'
  BY <1>1, <1>2, <1>3 DEF IInv, TreeTypes
<1>5. TurnTypes'
  BY <1>1, <1>3, SameTurnTypes DEF IInv
<1>6. RestTypes' /\ FlagTypes'
  BY <1>1, <1>3 DEF IInv, RestTypes, FlagTypes, Labels
<1>7. \A f \in Files : Judged(f)'
  <2>1. CASE disk' = disk
    BY <1>1, <1>2, <2>1 DEF Judged, Known
  <2>2. CASE disk' = [disk EXCEPT ![rel] = original]
    BY <1>1, <2>2, RolledBack DEF IInv
  <2> QED
    BY <1>3, <2>1, <2>2
<1>8. Known(rel, original)' /\ rel' = rel
  BY <1>1, <1>2, <1>3 DEF Known, turn
<1>9. Content'
  BY <1>2, <1>3, <1>7, <1>8 DEF Content
<1> QED
  BY <1>4, <1>5, <1>6, <1>9 DEF IInv

\* A rollback of the file at work either restores it, and the loop goes on or settles,
\* or is refused, and the pass stops.
LEMMA RollbackOK ==
  ASSUME IInv, pc \in {"gate", "verify", "settle"}, TurnTypes', RestTypes', FlagTypes',
         UNCHANGED <<committed, accepted, snapshots, touched, rel, original>>,
         \/ /\ disk' = [disk EXCEPT ![rel] = original] /\ dirtyFiles' = dirtyFiles
            /\ pc' \in {"attempt", "settle", "finish"} /\ (pc' = "attempt" => base' = original)
         \/ /\ disk' = disk /\ dirtyFiles' = dirtyFiles \cup {rel} /\ pc' = "finish"
  PROVE  IInv'
<1>1. rel \in Files /\ dirtyFiles = {} /\ original \in Bytes
  BY DEF IInv, Content, TurnTypes
<1>2. TreeTypes'
  BY <1>1 DEF IInv, TreeTypes
<1>3. CASE /\ disk' = [disk EXCEPT ![rel] = original] /\ dirtyFiles' = dirtyFiles
           /\ pc' \in {"attempt", "settle", "finish"} /\ (pc' = "attempt" => base' = original)
  <2>1. (\A f \in Files : Judged(f)') /\ disk'[rel] = original
    BY <1>3, RolledBack DEF IInv
  <2>2. Known(rel, original)'
    BY <1>1, <2>1 DEF Judged, Known
  <2>3. Content'
    BY <1>1, <1>3, <2>1, <2>2 DEF Content
  <2> QED
    BY <1>2, <2>3 DEF IInv
<1>4. CASE disk' = disk /\ dirtyFiles' = dirtyFiles \cup {rel} /\ pc' = "finish"
  <2>1. Content'
    BY <1>4, Refused DEF IInv
  <2> QED
    BY <1>2, <2>1 DEF IInv
<1> QED
  BY <1>3, <1>4

LEMMA GateOK ==
  ASSUME IInv, Gate
  PROVE  IInv'
<1>1. /\ pc = "gate"
      /\ UNCHANGED <<reviewer, goesOn, committed, accepted, applied, unverified, structuralUsed,
                     sinceCommit, prefetched, snapshots, touched, outage>>
  BY DEF Gate, quiet, answer
<1>2. attempt <= MaxTries
  BY <1>1 DEF IInv, TurnTypes
<1>3. CASE Rollback(BuildBreak("revert")) /\ UNCHANGED keptOk
  <2>1. \/ /\ disk' = [disk EXCEPT ![rel] = original] /\ dirtyFiles' = dirtyFiles
           /\ BuildBreak("revert")
        \/ /\ disk' = disk /\ dirtyFiles' = dirtyFiles \cup {rel} /\ pc' = "finish"
           /\ UNCHANGED <<turn, outcome>>
    BY <1>3 DEF Rollback
  <2>2. /\ TurnTypes' /\ pc' \in {"attempt", "settle", "finish"} /\ outcome' \in Outcomes
        /\ UNCHANGED <<rel, original>> /\ (pc' = "attempt" => base' = original)
    <3>1. CASE BuildBreak("revert")
      BY <1>1, <1>2, <3>1, BuildBreakTypes DEF IInv, Outcomes
    <3>2. CASE pc' = "finish" /\ UNCHANGED <<turn, outcome>>
      BY <1>1, <3>2, SameTurnTypes DEF IInv, RestTypes, turn
    <3> QED
      BY <2>1, <3>1, <3>2
  <2>3. RestTypes' /\ FlagTypes'
    BY <1>1, <1>3, <2>2 DEF IInv, RestTypes, FlagTypes, Labels
  <2> QED
    BY <1>1, <2>1, <2>2, <2>3, RollbackOK
<1>4. CASE keptOk' \in BOOLEAN /\ pc' = "verify" /\ UNCHANGED <<disk, turn, outcome, dirtyFiles>>
  <2>1. TurnTypes'
    BY <1>1, <1>2, <1>4, SameTurnTypes DEF IInv
  <2>2. TreeTypes'
    BY <1>1, <1>4 DEF IInv, TreeTypes
  <2>3. RestTypes' /\ FlagTypes'
    BY <1>1, <1>4 DEF IInv, RestTypes, FlagTypes, Labels
  <2>4. Content'
    BY <1>1, <1>4 DEF IInv, Content, Judged, Known, turn
  <2> QED
    BY <2>1, <2>2, <2>3, <2>4 DEF IInv
<1> QED
  BY <1>3, <1>4 DEF Gate

\* A rejected candidate is written back, and the loop goes on, settles or stops.
LEMMA RejectOK ==
  ASSUME IInv, pc = "verify",
         UNCHANGED <<reviewer, goesOn, committed, accepted, applied, unverified, structuralUsed,
                     sinceCommit, prefetched, keptOk, snapshots, touched>>,
         outage' \in BOOLEAN, outcome' \in Outcomes, TurnTypes', UNCHANGED <<rel, original>>,
         \/ /\ disk' = [disk EXCEPT ![rel] = original] /\ dirtyFiles' = dirtyFiles
            /\ pc' \in {"attempt", "settle", "finish"} /\ (pc' = "attempt" => base' = original)
         \/ /\ disk' = disk /\ dirtyFiles' = dirtyFiles \cup {rel} /\ pc' = "finish"
  PROVE  IInv'
<1>1. FlagTypes'
  BY DEF IInv, FlagTypes
<1>2. pc' \in Labels
  BY DEF Labels
<1>3. RestTypes'
  BY <1>2 DEF IInv, RestTypes
<1> QED
  BY <1>1, <1>3, RollbackOK

LEMMA VerifyOK ==
  ASSUME IInv, Verify
  PROVE  IInv'
<1>1. /\ pc = "verify"
      /\ UNCHANGED <<reviewer, goesOn, committed, applied, unverified, structuralUsed,
                     sinceCommit, prefetched, keptOk, snapshots, touched>>
  BY DEF Verify, quiet, answer
<1>2. attempt <= MaxTries /\ outage \in BOOLEAN /\ outcome \in Outcomes
  BY <1>1 DEF IInv, TurnTypes, FlagTypes, RestTypes
<1>3. rel \in Files /\ dirtyFiles = {} /\ \A f \in Files \ {rel} : Judged(f)
  BY <1>1 DEF IInv, Content
<1>4. CASE Accept
  <2>1. /\ accepted' = [accepted EXCEPT ![rel] = @ \cup {disk[rel]}]
        /\ outcome' = "fixed" /\ pc' = "settle" /\ UNCHANGED turn
        /\ UNCHANGED <<disk, dirtyFiles, outage>>
    BY <1>4 DEF Accept, Settles
  <2>2. TurnTypes'
    BY <1>1, <2>1, SameTurnTypes DEF IInv
  <2>3. TreeTypes'
    BY <1>1, <1>3, <2>1 DEF IInv, TreeTypes
  <2>4. RestTypes' /\ FlagTypes'
    BY <1>1, <2>1 DEF IInv, RestTypes, FlagTypes, Labels, Outcomes
  <2>5. \A f \in Files : Judged(f)'
    BY <1>1, <1>3, <2>1 DEF Judged, Known, IInv, TreeTypes
  <2>6. Known(rel, original)' /\ rel' = rel
    <3>1. Known(rel, original)
      BY <1>1 DEF IInv, Content
    <3> QED
      BY <1>1, <1>3, <2>1, <3>1 DEF Known, turn, IInv, TreeTypes
  <2>7. Content'
    BY <1>3, <2>1, <2>5, <2>6 DEF Content
  <2> QED
    BY <2>2, <2>3, <2>4, <2>7 DEF IInv
<1>5. CASE Rollback(Again("reject") /\ UNCHANGED buildTries) /\ UNCHANGED <<accepted, outage>>
  <2>1. \/ /\ disk' = [disk EXCEPT ![rel] = original] /\ dirtyFiles' = dirtyFiles
           /\ Again("reject") /\ UNCHANGED buildTries
        \/ /\ disk' = disk /\ dirtyFiles' = dirtyFiles \cup {rel} /\ pc' = "finish"
           /\ UNCHANGED <<turn, outcome>>
    BY <1>5 DEF Rollback
  <2>2. CASE Again("reject") /\ UNCHANGED buildTries
    <3>1. /\ outcome' = "reject" /\ pc' = "attempt" /\ attempt' = attempt + 1 /\ base' = original
          /\ UNCHANGED <<rel, original, mode, editRetries, advRounds, buildTries>>
      BY <2>2 DEF Again
    <3>2. TurnTypes'
      BY <1>1, <1>2, <3>1, AgainTypes DEF IInv
    <3> QED
      BY <1>1, <1>2, <1>5, <2>1, <3>1, <3>2, RejectOK DEF Outcomes
  <2>3. CASE pc' = "finish" /\ UNCHANGED <<turn, outcome>>
    <3>1. TurnTypes' /\ UNCHANGED <<rel, original>>
      BY <1>1, <2>3, SameTurnTypes DEF IInv, turn
    <3> QED
      BY <1>1, <1>2, <1>5, <2>1, <2>3, <3>1, RejectOK DEF Again
  <2> QED
    BY <2>1, <2>2, <2>3
<1>6. CASE UNCHANGED accepted /\ VerifierOutage
  <2>1. /\ outage' = TRUE /\ pc' \in {"settle", "finish"} /\ UNCHANGED turn
        /\ outcome' \in {outcome, "reject"}
        /\ \/ disk' = [disk EXCEPT ![rel] = original] /\ dirtyFiles' = dirtyFiles
           \/ disk' = disk /\ dirtyFiles' = dirtyFiles \cup {rel} /\ pc' = "finish"
    BY <1>6 DEF VerifierOutage, Rollback, Settles
  <2>2. TurnTypes' /\ UNCHANGED <<rel, original>>
    BY <1>1, <2>1, SameTurnTypes DEF IInv, turn
  <2> QED
    BY <1>1, <1>2, <1>6, <2>1, <2>2, RejectOK DEF Outcomes
<1>7. CASE UNCHANGED <<accepted, outage>> /\ Rollback(pc' = "finish" /\ UNCHANGED <<turn, outcome>>)
  <2>1. /\ pc' = "finish" /\ UNCHANGED <<turn, outcome>>
        /\ \/ disk' = [disk EXCEPT ![rel] = original] /\ dirtyFiles' = dirtyFiles
           \/ disk' = disk /\ dirtyFiles' = dirtyFiles \cup {rel}
    BY <1>7 DEF Rollback
  <2>2. TurnTypes' /\ UNCHANGED <<rel, original>>
    BY <1>1, <2>1, SameTurnTypes DEF IInv, turn
  <2> QED
    BY <1>1, <1>2, <1>7, <2>1, <2>2, RejectOK
<1>8. CASE /\ UNCHANGED <<accepted, outage>>
           /\ Rollback(/\ advRounds' = advRounds + 1 /\ outcome' = "reject"
                       /\ UNCHANGED <<rel, original, mode, editRetries, buildTries>>
                       /\ IF advRounds + 1 >= AdversarialRounds
                          THEN pc' = "settle" /\ UNCHANGED <<base, attempt>>
                          ELSE /\ pc' = "attempt" /\ attempt' = attempt + 1
                               /\ base' = original)
  <2>1. \/ /\ disk' = [disk EXCEPT ![rel] = original] /\ dirtyFiles' = dirtyFiles
           /\ advRounds' = advRounds + 1 /\ outcome' = "reject"
           /\ UNCHANGED <<rel, original, mode, editRetries, buildTries>>
           /\ IF advRounds + 1 >= AdversarialRounds
              THEN pc' = "settle" /\ UNCHANGED <<base, attempt>>
              ELSE pc' = "attempt" /\ attempt' = attempt + 1 /\ base' = original
        \/ /\ disk' = disk /\ dirtyFiles' = dirtyFiles \cup {rel} /\ pc' = "finish"
           /\ UNCHANGED <<turn, outcome>>
    BY <1>8 DEF Rollback
  <2>2. CASE /\ disk' = [disk EXCEPT ![rel] = original] /\ dirtyFiles' = dirtyFiles
             /\ advRounds' = advRounds + 1 /\ outcome' = "reject"
             /\ UNCHANGED <<rel, original, mode, editRetries, buildTries>>
             /\ IF advRounds + 1 >= AdversarialRounds
                THEN pc' = "settle" /\ UNCHANGED <<base, attempt>>
                ELSE pc' = "attempt" /\ attempt' = attempt + 1 /\ base' = original
    <3>1. advRounds \in Nat /\ AdversarialRounds \in Nat
      BY Counts DEF IInv, TurnTypes
    <3>2. /\ pc' \in {"attempt", "settle"} /\ (pc' = "attempt" => advRounds' < AdversarialRounds)
          /\ pc' = "attempt" => base' = original
          /\ base' \in {base, original} /\ (attempt' = attempt \/ attempt' = attempt + 1)
      BY <2>2, <3>1
    <3>3. TurnTypes'
      BY <1>1, <1>2, <2>2, <3>2, AgainTypes DEF IInv
    <3> QED
      BY <1>1, <1>2, <1>8, <2>2, <3>2, <3>3, RejectOK DEF Outcomes
  <2>3. CASE disk' = disk /\ dirtyFiles' = dirtyFiles \cup {rel} /\ pc' = "finish"
             /\ UNCHANGED <<turn, outcome>>
    <3>1. TurnTypes' /\ UNCHANGED <<rel, original>>
      BY <1>1, <2>3, SameTurnTypes DEF IInv, turn
    <3> QED
      BY <1>1, <1>2, <1>8, <2>3, <3>1, RejectOK
  <2> QED
    BY <2>1, <2>2, <2>3
<1> QED
  BY <1>4, <1>5, <1>6, <1>7, <1>8 DEF Verify

\* The turn ends and the next file begins.
LEMMA NextFileOK ==
  ASSUME IInv, rel \in Files, NextFile,
         disk' \in [Files -> Bytes], committed' \in [Files -> Bytes], \A f \in Files : Judged(f)',
         dirtyFiles' = {}, accepted' = accepted, applied' \subseteq Files, unverified' \subseteq Files,
         UNCHANGED <<reviewer, goesOn, prefetched, outage, structuralUsed>>,
         sinceCommit' \in 0 .. CommitEvery, sinceCommit' < CommitEvery
  PROVE  IInv'
<1>1. /\ TurnTypes' /\ snapshots' \in [Files -> Bytes] /\ touched' \subseteq Files
      /\ pc' = "pick" /\ outcome' = "none" /\ keptOk' = TRUE
  BY NextFileFacts DEF IInv
<1>2. TreeTypes' /\ FlagTypes'
  BY <1>1 DEF IInv, TreeTypes, FlagTypes
<1>3. RestTypes'
  BY <1>1 DEF IInv, RestTypes, Labels, Outcomes
<1>4. Content'
  BY <1>1, StopContent
<1> QED
  BY <1>1, <1>2, <1>3, <1>4 DEF IInv

LEMMA SettleOK ==
  ASSUME IInv, Settle
  PROVE  IInv'
<1>1. /\ pc = "settle" /\ UNCHANGED <<reviewer, goesOn, committed, accepted, prefetched, outage>>
  BY DEF Settle, quiet
<1>2. /\ rel \in Files /\ dirtyFiles = {} /\ \A f \in Files : Judged(f)
      /\ sinceCommit \in 0 .. CommitEvery /\ sinceCommit < CommitEvery
  BY <1>1 DEF IInv, Content, RestTypes
<1>3. CASE /\ outcome = "fixed" /\ Kept({rel}, IF keptOk THEN {} ELSE {rel}) /\ pc' = "commit"
           /\ UNCHANGED <<disk, turn, dirtyFiles, structuralUsed, snapshots, touched, outcome, keptOk>>
  <2>1. /\ applied' = applied \cup {rel} /\ sinceCommit' = sinceCommit + 1
        /\ unverified' = unverified \cup (IF keptOk THEN {} ELSE {rel})
    BY <1>3 DEF Kept
  <2>2. applied' \subseteq Files /\ unverified' \subseteq Files /\ sinceCommit' \in 0 .. CommitEvery
    BY <1>2, <2>1, Counts DEF IInv, RestTypes
  <2>3. RestTypes' /\ FlagTypes'
    BY <1>1, <1>3, <2>2 DEF IInv, RestTypes, FlagTypes, Labels
  <2>4. TurnTypes'
    BY <1>1, <1>3, SameTurnTypes DEF IInv
  <2>5. TreeTypes'
    BY <1>1, <1>3 DEF IInv, TreeTypes
  <2>6. Content'
    BY <1>1, <1>2, <1>3 DEF Content, Judged, Known, turn
  <2> QED
    BY <2>3, <2>4, <2>5, <2>6 DEF IInv
<1>4. CASE /\ Rollback(outcome' = "skip" /\ pc' = "settle" /\ UNCHANGED turn)
           /\ UNCHANGED <<answer, snapshots, touched, keptOk>>
  <2>1. /\ pc' \in {"settle", "finish"} /\ UNCHANGED turn /\ outcome' \in {outcome, "skip"}
        /\ UNCHANGED <<applied, unverified, structuralUsed, sinceCommit, snapshots, touched, keptOk>>
        /\ \/ disk' = [disk EXCEPT ![rel] = original] /\ dirtyFiles' = dirtyFiles
           \/ disk' = disk /\ dirtyFiles' = dirtyFiles \cup {rel} /\ pc' = "finish"
    BY <1>4 DEF Rollback, answer
  <2>2. TurnTypes' /\ UNCHANGED <<rel, original>>
    BY <1>1, <2>1, SameTurnTypes DEF IInv, turn
  <2>3. pc' \in Labels /\ outcome' \in Outcomes
    BY <2>1 DEF IInv, RestTypes, Labels, Outcomes
  <2>4. RestTypes' /\ FlagTypes'
    BY <1>1, <1>2, <2>1, <2>3 DEF IInv, RestTypes, FlagTypes
  <2> QED
    BY <1>1, <2>1, <2>2, <2>4, RollbackOK
<1>5. CASE NextFile /\ UNCHANGED <<disk, answer, dirtyFiles>>
  <2>1. UNCHANGED <<disk, applied, unverified, structuralUsed, sinceCommit, dirtyFiles>>
    BY <1>5 DEF answer
  <2>2. \A f \in Files : Judged(f)'
    BY <1>1, <1>2, <2>1 DEF Judged, Known
  <2>3. /\ disk' \in [Files -> Bytes] /\ committed' \in [Files -> Bytes]
        /\ applied' \subseteq Files /\ unverified' \subseteq Files
    BY <1>1, <2>1 DEF IInv, TreeTypes, RestTypes
  <2> QED
    BY <1>1, <1>2, <1>5, <2>1, <2>2, <2>3, NextFileOK
<1> QED
  BY <1>3, <1>4, <1>5 DEF Settle

LEMMA StructuralWriteOK ==
  ASSUME IInv, StructuralWrite
  PROVE  IInv'
<1>1. /\ pc = "settle" /\ pc' = "structural" /\ snapshots' = disk
      /\ structuralUsed < StructuralMax /\ structuralUsed' = structuralUsed + 1
      /\ UNCHANGED <<reviewer, goesOn, committed, turn, applied, unverified, sinceCommit, prefetched,
                     outcome, keptOk, dirtyFiles, outage>>
  BY DEF StructuralWrite, quiet
<1>2. PICK T \in SUBSET Files \ {{}} :
         /\ touched' = T
         /\ disk' = [f \in Files |-> IF f \in T THEN NewBytes(f) ELSE disk[f]]
         /\ accepted' = [f \in Files |->
                            IF f \in T THEN accepted[f] \ {NewBytes(f)} ELSE accepted[f]]
  BY DEF StructuralWrite
<1>3. \A f \in Files : NewBytes(f) \in Bytes /\ NewBytes(f) # disk[f]
  BY NewBytesFacts
<1>4. TreeTypes'
  BY <1>1, <1>2, <1>3 DEF IInv, TreeTypes
<1>5. TurnTypes'
  BY <1>1, SameTurnTypes DEF IInv
<1>6. RestTypes' /\ FlagTypes'
  BY <1>1, Counts DEF IInv, RestTypes, FlagTypes, Labels
<1>7. Content'
  <2>1. rel \in Files /\ dirtyFiles = {} /\ \A f \in Files : Judged(f)
    BY <1>1 DEF IInv, Content
  <2>2. ASSUME NEW f \in Files
        PROVE  Known(f, snapshots[f])' /\ (f \notin touched' => disk'[f] = snapshots'[f])
    BY <1>1, <1>2, <1>3, <2>1 DEF Judged, Known
  <2>3. rel' = rel
    BY <1>1 DEF turn
  <2> QED
    BY <1>1, <2>1, <2>2, <2>3 DEF Content
<1> QED
  BY <1>4, <1>5, <1>6, <1>7 DEF IInv

LEMMA StructuralOK ==
  ASSUME IInv, Structural
  PROVE  IInv'
<1>1. /\ pc = "structural"
      /\ UNCHANGED <<reviewer, goesOn, committed, structuralUsed, prefetched, outage>>
  BY DEF Structural, quiet
<1>2. /\ rel \in Files /\ dirtyFiles = {}
      /\ \A f \in Files : /\ Known(f, snapshots[f])
                          /\ f \notin touched => disk[f] = snapshots[f]
      /\ sinceCommit \in 0 .. CommitEvery /\ sinceCommit < CommitEvery
      /\ touched \subseteq Files
  BY <1>1 DEF IInv, Content, RestTypes, TreeTypes
<1>3. ASSUME NEW U \in SUBSET touched, Kept(touched, U), pc' = "commit",
             accepted' = [f \in Files |->
                             IF f \in touched THEN accepted[f] \cup {disk[f]} ELSE accepted[f]],
             UNCHANGED <<disk, turn, dirtyFiles, scratch>>
      PROVE  IInv'
  <2>1. applied' = applied \cup touched /\ unverified' = unverified \cup U
        /\ sinceCommit' = sinceCommit + 1
    BY <1>3 DEF Kept
  <2>2. applied' \subseteq Files /\ unverified' \subseteq Files /\ sinceCommit' \in 0 .. CommitEvery
    BY <1>2, <1>3, <2>1, Counts DEF IInv, RestTypes
  <2>3. RestTypes' /\ FlagTypes'
    BY <1>1, <1>3, <2>2 DEF IInv, RestTypes, FlagTypes, Labels, scratch
  <2>4. TurnTypes'
    BY <1>1, <1>3, SameTurnTypes DEF IInv
  <2>5. TreeTypes'
    BY <1>1, <1>3 DEF IInv, TreeTypes, scratch
  <2>6. \A f \in Files : Judged(f)'
    BY <1>1, <1>2, <1>3 DEF Judged, Known
  <2>7. Content'
    BY <1>2, <1>3, <2>6, RestContent DEF turn
  <2> QED
    BY <2>3, <2>4, <2>5, <2>7 DEF IInv
<1>4. CASE StructuralFailed /\ UNCHANGED <<applied, unverified, sinceCommit, accepted>>
  <2>1. CASE disk' = snapshots /\ NextFile /\ UNCHANGED dirtyFiles
    <3>1. \A f \in Files : Judged(f)'
      BY <1>1, <1>2, <1>4, <2>1 DEF Judged, Known
    <3>2. /\ disk' \in [Files -> Bytes] /\ committed' \in [Files -> Bytes]
          /\ applied' \subseteq Files /\ unverified' \subseteq Files
      BY <1>1, <1>4, <2>1 DEF IInv, TreeTypes, RestTypes
    <3> QED
      BY <1>1, <1>2, <1>4, <2>1, <3>1, <3>2, NextFileOK
  <2>2. ASSUME NEW R \in SUBSET touched,
               disk' = [f \in Files |-> IF f \in R THEN snapshots[f] ELSE disk[f]],
               dirtyFiles' = dirtyFiles \cup touched \cup {rel}, pc' = "finish",
               UNCHANGED <<turn, scratch>>
        PROVE  IInv'
    <3>1. TreeTypes'
      BY <1>1, <1>2, <1>4, <2>2 DEF IInv, TreeTypes, scratch
    <3>2. TurnTypes'
      BY <1>1, <2>2, SameTurnTypes DEF IInv
    <3>3. RestTypes' /\ FlagTypes'
      BY <1>1, <1>2, <1>4, <2>2 DEF IInv, RestTypes, FlagTypes, Labels, scratch
    <3>4. \A f \in Files \ dirtyFiles' : Judged(f)'
      BY <1>1, <1>2, <1>4, <2>2 DEF Judged, Known
    <3>5. Content'
      BY <2>2, <3>4 DEF Content
    <3> QED
      BY <3>1, <3>2, <3>3, <3>5 DEF IInv
  <2> QED
    BY <1>4, <2>1, <2>2 DEF StructuralFailed
<1> QED
  BY <1>3, <1>4 DEF Structural

\* A commit leaves no difference between the tree and HEAD.
LEMMA CommitAndSyncFacts ==
  ASSUME TreeTypes, CommitAndSync
  PROVE  /\ disk' \in [Files -> Bytes] /\ committed' \in [Files -> Bytes]
         /\ \A f \in Files : Judged(f)'
BY DEF TreeTypes, CommitAndSync, Judged, Known

LEMMA CommitCallbackOK ==
  ASSUME IInv, CommitCallback
  PROVE  IInv'
<1>1. /\ pc = "commit"
      /\ UNCHANGED <<reviewer, goesOn, accepted, applied, unverified, structuralUsed, prefetched,
                     dirtyFiles, outage>>
  BY DEF CommitCallback, quiet
<1>2. /\ rel \in Files /\ dirtyFiles = {} /\ \A f \in Files : Judged(f)
      /\ sinceCommit \in 0 .. CommitEvery /\ applied \subseteq Files /\ unverified \subseteq Files
  BY <1>1 DEF IInv, Content, RestTypes
<1>3. CASE sinceCommit < CommitEvery /\ NextFile /\ UNCHANGED <<disk, committed, sinceCommit>>
  <2>1. /\ \A f \in Files : Judged(f)'
        /\ disk' \in [Files -> Bytes] /\ committed' \in [Files -> Bytes]
    BY <1>1, <1>2, <1>3 DEF Judged, Known, IInv, TreeTypes
  <2> QED
    BY <1>1, <1>2, <1>3, <2>1, NextFileOK
<1>4. CASE CommitAndSync /\ sinceCommit' = 0 /\ NextFile
  <2>1. /\ \A f \in Files : Judged(f)'
        /\ disk' \in [Files -> Bytes] /\ committed' \in [Files -> Bytes]
    BY <1>4, CommitAndSyncFacts DEF IInv
  <2>2. sinceCommit' \in 0 .. CommitEvery /\ sinceCommit' < CommitEvery
    BY <1>4, Counts
  <2> QED
    BY <1>1, <1>2, <1>4, <2>1, <2>2, NextFileOK
<1>5. CASE pc' = "aborted" /\ UNCHANGED <<disk, committed, sinceCommit, turn, scratch>>
  <2>1. TurnTypes'
    BY <1>1, <1>5, SameTurnTypes DEF IInv
  <2>2. TreeTypes' /\ FlagTypes' /\ Content'
    BY <1>1, <1>2, <1>5 DEF IInv, TreeTypes, FlagTypes, Content, scratch
  <2>3. RestTypes'
    BY <1>1, <1>5 DEF IInv, RestTypes, Labels, scratch
  <2> QED
    BY <2>1, <2>2, <2>3 DEF IInv
<1> QED
  BY <1>3, <1>4, <1>5 DEF CommitCallback

\* A pass that ends leaves its counters alone.
LEMMA EndTypes ==
  ASSUME IInv, pc \notin {"commit", "aborted"}, pc' \in {"returned", "dirty"},
         disk' \in [Files -> Bytes], committed' \in [Files -> Bytes], goesOn' \in BOOLEAN,
         UNCHANGED <<reviewer, accepted, turn, answer, prefetched, scratch, dirtyFiles, outage>>
  PROVE  TreeTypes' /\ TurnTypes' /\ RestTypes' /\ FlagTypes'
<1>1. TurnTypes'
  BY SameTurnTypes DEF IInv
<1>2. RestTypes'
  BY DEF IInv, RestTypes, Labels, answer, scratch
<1>3. TreeTypes' /\ FlagTypes'
  BY DEF IInv, TreeTypes, FlagTypes, scratch
<1> QED
  BY <1>1, <1>2, <1>3

LEMMA FinishOK ==
  ASSUME IInv, Finish
  PROVE  IInv'
<1>1. /\ pc \in {"finish", "pick"} /\ Ended
      /\ UNCHANGED <<reviewer, accepted, turn, answer, prefetched, scratch, dirtyFiles, outage>>
  BY DEF Finish
<1>2. \A f \in Files \ dirtyFiles : Judged(f)
  BY <1>1 DEF IInv, Content
<1>3. CASE dirtyFiles = {}
  <2>1. /\ pc' = "returned" /\ goesOn' = goesOn
        /\ UNCHANGED <<disk, committed>> \/ CommitAndSync
    BY <1>1, <1>3 DEF Ended
  <2>2. /\ \A f \in Files : Judged(f)'
        /\ disk' \in [Files -> Bytes] /\ committed' \in [Files -> Bytes]
    <3>1. CASE CommitAndSync
      BY <3>1, CommitAndSyncFacts DEF IInv
    <3>2. CASE UNCHANGED <<disk, committed>>
      BY <1>1, <1>2, <1>3, <3>2 DEF Judged, Known, IInv, TreeTypes
    <3> QED
      BY <2>1, <3>1, <3>2
  <2>3. goesOn' \in BOOLEAN
    BY <2>1 DEF IInv, FlagTypes
  <2>4. TreeTypes' /\ TurnTypes' /\ RestTypes' /\ FlagTypes'
    BY <1>1, <2>1, <2>2, <2>3, EndTypes
  <2>5. Content'
    BY <1>1, <1>3, <2>1, <2>2, StopContent
  <2> QED
    BY <2>4, <2>5 DEF IInv
<1>4. CASE dirtyFiles # {}
  <2>1. /\ pc' = "dirty" /\ committed' = committed /\ goesOn' \in BOOLEAN
        /\ \/ disk' = disk
           \/ disk' = [f \in Files |-> IF f \in dirtyFiles THEN committed[f] ELSE disk[f]]
    BY <1>1, <1>4 DEF Ended
  <2>2. disk' \in [Files -> Bytes] /\ committed' \in [Files -> Bytes]
    BY <2>1 DEF IInv, TreeTypes
  <2>3. \A f \in Files \ dirtyFiles' : Judged(f)'
    BY <1>1, <1>2, <2>1 DEF Judged, Known
  <2>4. TreeTypes' /\ TurnTypes' /\ RestTypes' /\ FlagTypes'
    BY <1>1, <2>1, <2>2, EndTypes
  <2>5. Content'
    BY <2>1, <2>3 DEF Content
  <2> QED
    BY <2>4, <2>5 DEF IInv
<1> QED
  BY <1>3, <1>4

LEMMA LaterCommitOK ==
  ASSUME IInv, LaterCommit
  PROVE  IInv'
<1>1. /\ pc = "dirty" /\ pc' = "returned" /\ CommitAndSync /\ goesOn' = goesOn
      /\ UNCHANGED <<reviewer, accepted, turn, answer, prefetched, scratch, dirtyFiles, outage>>
  BY DEF LaterCommit, quiet
<1>2. /\ \A f \in Files : Judged(f)'
      /\ disk' \in [Files -> Bytes] /\ committed' \in [Files -> Bytes]
  BY <1>1, CommitAndSyncFacts DEF IInv
<1>3. goesOn' \in BOOLEAN
  BY <1>1 DEF IInv, FlagTypes
<1>4. TreeTypes' /\ TurnTypes' /\ RestTypes' /\ FlagTypes'
  BY <1>1, <1>2, <1>3, EndTypes
<1>5. Content'
  BY <1>1, <1>2 DEF Content
<1> QED
  BY <1>4, <1>5 DEF IInv

(***************************************************************************)
(* The theorems                                                            *)
(***************************************************************************)

LEMMA InitInv == Init => IInv
<1> SUFFICES ASSUME Init
             PROVE  IInv
  OBVIOUS
<1>1. NoGeneration \in Generations
  BY DEF NoGeneration, Generations, Bytes
<1>2. TreeTypes
  BY Counts DEF Init, TreeTypes
<1>3. TurnTypes
  BY Counts DEF Init, TurnTypes
<1>4. RestTypes
  BY <1>1, Counts DEF Init, RestTypes, Labels, Outcomes
<1>5. FlagTypes
  BY DEF Init, FlagTypes
<1>6. Content
  BY DEF Init, Content, Judged, Known
<1> QED
  BY <1>2, <1>3, <1>4, <1>5, <1>6 DEF IInv

LEMMA StepInv == IInv /\ [Next]_vars => IInv'
<1> SUFFICES ASSUME IInv, [Next]_vars
             PROVE  IInv'
  OBVIOUS
<1>1. CASE UNCHANGED vars
  <2>1. UNCHANGED <<tree, turn, answer, reviewer, prefetched, pc, scratch, outage, dirtyFiles, goesOn>>
    BY <1>1 DEF vars
  <2>2. TurnTypes'
    BY <2>1, SameTurnTypes DEF IInv, TurnTypes
  <2>3. TreeTypes' /\ RestTypes' /\ FlagTypes'
    BY <2>1 DEF IInv, TreeTypes, RestTypes, FlagTypes, tree, answer, scratch
  <2>4. Content'
    BY <2>1 DEF IInv, Content, Judged, Known, tree, turn, scratch
  <2> QED
    BY <2>2, <2>3, <2>4 DEF IInv
<1>2. CASE MainThread
  BY <1>2, PickOK, GenerateOK, WriteCandidateOK, AttemptStopsOK, GateOK, VerifyOK, SettleOK,
     StructuralWriteOK, StructuralOK, CommitCallbackOK, FinishOK, LaterCommitOK DEF MainThread
<1>3. ASSUME NEW f \in Files, FirstAttempt(f)
      PROVE  IInv'
  BY <1>3, FirstAttemptOK
<1> QED
  BY <1>1, <1>2, <1>3 DEF Next

\* The inductive invariant holds in every reachable state.
THEOREM Invariance == FairSpec => []IInv
BY InitInv, StepInv, PTL DEF FairSpec

\* Types, and the bounds of the counters of a turn.
THEOREM TypeCorrect == FairSpec => []TypeOK
<1>1. IInv => TypeOK
  BY DEF IInv, TreeTypes, TurnTypes, RestTypes, FlagTypes, TypeOK, Labels, Outcomes, Generations
<1> QED
  BY <1>1, Invariance, PTL

\* Between the files, and when the pass has ended, nothing that was not let stay is on
\* disk except where a rollback was refused.
THEOREM NothingUnjudged == FairSpec => []NothingUnjudgedLeftOnDisk
<1>1. IInv => NothingUnjudgedLeftOnDisk
  <2> SUFFICES ASSUME IInv, pc \in {"pick", "commit", "finish", "returned", "dirty"},
                      NEW f \in Files \ dirtyFiles
               PROVE  disk[f] = committed[f] \/ disk[f] \in accepted[f]
    BY DEF NothingUnjudgedLeftOnDisk
  <2> QED
    BY DEF IInv, Content, Judged, Known
<1> QED
  BY <1>1, Invariance, PTL

\* HEAD changes only when a pass commits, and a pass that is not dirty commits only
\* what was let stay.
THEOREM CommitsAreAccepted == FairSpec => CommitsOnlyAccepted
<1>1. ASSUME IInv, [Next]_vars, pc # "dirty", NEW f \in Files, committed'[f] # committed[f]
      PROVE  committed'[f] \in accepted[f]
  <2>1. CASE CommitCallback
    <3>1. committed' = disk /\ Judged(f)
      BY <1>1, <2>1 DEF CommitCallback, CommitAndSync, IInv, Content
    <3> QED
      BY <1>1, <3>1 DEF Judged, Known
  <2>2. CASE Finish
    <3>1. dirtyFiles = {} /\ committed' = disk
      BY <1>1, <2>2 DEF Finish, Ended, CommitAndSync
    <3>2. pc \in {"finish", "pick"}
      BY <2>2 DEF Finish
    <3>3. Judged(f)
      BY <1>1, <3>1, <3>2 DEF IInv, Content
    <3> QED
      BY <1>1, <3>1, <3>3 DEF Judged, Known
  <2>3. CASE LaterCommit
    BY <1>1, <2>3 DEF LaterCommit
  <2>4. CASE \/ Pick \/ Generate \/ WriteCandidate \/ AttemptStops \/ Gate \/ Verify \/ Settle
             \/ StructuralWrite \/ Structural \/ UNCHANGED vars
    <3>1. committed' = committed
      BY <2>4 DEF Pick, Generate, WriteCandidate, AttemptStops, Gate, Verify, Settle,
            StructuralWrite, Structural, vars, tree
    <3> QED
      BY <1>1, <3>1
  <2>5. ASSUME NEW g \in Files, FirstAttempt(g)
        PROVE  committed' = committed
    BY <2>5 DEF FirstAttempt, tree
  <2> QED
    BY <1>1, <2>1, <2>2, <2>3, <2>4, <2>5 DEF Next, MainThread
<1>2. IInv /\ [Next]_vars =>
        (pc # "dirty" =>
           \A f \in Files : committed'[f] # committed[f] => committed'[f] \in accepted[f])
  BY <1>1
<1> QED
  BY <1>2, Invariance, PTL DEF FairSpec, CommitsOnlyAccepted

\* A candidate is written over exactly the text it was generated from.
THEOREM CandidatesAreFresh == FairSpec => CandidateReplacesWhatItSaw
<1>1. IInv => \A f \in Files : (pc = "attempt" /\ pc' = "gate" /\ f = rel) => base = disk[f]
  BY DEF IInv, Content
<1> QED
  BY <1>1, Invariance, PTL DEF FairSpec, CandidateReplacesWhatItSaw

===============================================================================
