-------------------------- MODULE WipSnapshot_proofs --------------------------
(***************************************************************************)
(* Proofs about WipSnapshot, for any set of paths and any number of runs.  *)
(*                                                                         *)
(* The argument: from the moment the snapshot has its ref until the end of *)
(* the restore, every blob of the owner is under a ref (Stored), whatever  *)
(* the run does to the tree; before that it is in the tree or under the    *)
(* ref of the index.  A blob the snapshot holds has left its mark in the   *)
(* fingerprint, so a restore that reproduces the fingerprint has put it    *)
(* back before the ref is dropped.  A run only ever begins on a tree       *)
(* without the owner's blobs.  The owner's saves during the capture, the   *)
(* blob "late", are outside all of this, as in the properties.             *)
(***************************************************************************)
EXTENDS WipSnapshot, TLAPS

(***************************************************************************)
(* The inductive invariant                                                 *)
(***************************************************************************)

\* The owner's blobs that are promised to survive.
Held == OwnerBlobs \ {"late"}

Snapshots == [work : Trees, index : Trees, base : Trees]

\* Is blob b of path p under a ref?
Stored(p, b) ==
    \/ \E s \in snapshots : b \in {s.work[p], s.index[p]}
    \/ \E t \in indexRefs : t[p] = b

\* Does fingerprint F say that path p had these bytes on disk, or staged?
OnDisk(F, p, b) == \E t \in F : t[1] = p /\ t[6] = b
InIndex(F, p, b) == \E t \in F : t[1] = p /\ t[7] = b

\* The blobs of two trees, on disk and in the index, are in the fingerprint.
Marked(d, i) ==
    \A p \in Paths, b \in Held :
        /\ d[p] = b => OnDisk(active.fingerprint, p, b)
        /\ i[p] = b => InIndex(active.fingerprint, p, b)

\* The record has its three fields.
ActiveForm == active \in [snapshot : Snapshots, fingerprint : {active.fingerprint}, ref : BOOLEAN]

\* What a capture has done so far.
Capturing ==
    /\ pc = "indexed" => index = staged /\ Marked(disk, staged)
    /\ pc = "staged" => Marked(index, staged)
    /\ pc \in {"indexed", "staged"} => staged \in indexRefs /\ ~active.ref
    /\ pc \in {"staged", "captured"} => \A p \in Paths : disk[p] \in {index[p], "late"}

\* A snapshot with its ref says no more than its fingerprint does.
Recorded == active.ref => Marked(active.snapshot.work, active.snapshot.index)

\* The run finds nothing of the owner's.
OwnTree == pc \in {"removing", "run"} => \A p \in Paths : disk[p] \notin Held

\* Where the owner's work is.
Kept ==
    \A m \in mine : m[2] # "late" =>
        /\ Survives(m[1], m[2])
        /\ pc \in {"captured", "removing", "run", "restoring"} => Stored(m[1], m[2])
        /\ pc = "staged" => m[2] = disk[m[1]] \/ Stored(m[1], m[2])

\* A restore has a snapshot, and touches the owner's paths only.
Restoring ==
    pc = "restoring" =>
        /\ active.ref /\ staged = NoTree /\ todo \subseteq OwnerPaths(active.snapshot)
        /\ \A p \in Paths \ OwnerPaths(active.snapshot) : disk[p] = head[p]

\* Only a restore has paths to restore.
TodoFree == pc # "restoring" => todo = {}

IInv ==
    /\ TypeOK /\ ActiveForm /\ TodoFree
    /\ OwnerWorkIsNotCommitted
    /\ Capturing /\ Recorded /\ OwnTree /\ Kept /\ Restoring

(***************************************************************************)
(* Trees, snapshots and fingerprints                                       *)
(***************************************************************************)

LEMMA Blank ==
  /\ NoTree \in Trees /\ NoSnapshot \in Snapshots
  /\ Inactive \in [snapshot : Snapshots, fingerprint : {{}}, ref : {FALSE}]
  /\ Inactive.ref = FALSE /\ Inactive.fingerprint = {}
<1>1. NoTree \in Trees
  BY DEF NoTree, Trees, Blobs
<1>2. NoSnapshot \in Snapshots
  BY <1>1 DEF NoSnapshot, Snapshots
<1> QED
  BY <1>1, <1>2 DEF Inactive

\* What is the owner's and not in HEAD makes its path dirty, and leaves its mark.
LEMMA FingerprintHolds ==
  ASSUME NEW STATE h, NEW STATE i, NEW STATE d, NEW p \in Paths, NEW b \in Held, h[p] # b
  PROVE  /\ d[p] = b => OnDisk(Fingerprint(h, i, d), p, b)
         /\ i[p] = b => InIndex(Fingerprint(h, i, d), p, b)
<1> DEFINE t == <<p, h[p] = "none", i[p] = "none", i[p] = h[p], d[p] = i[p], d[p],
                  IF i[p] = h[p] THEN "none" ELSE i[p]>>
<1>1. ASSUME d[p] = b \/ i[p] = b
      PROVE  t \in Fingerprint(h, i, d)
  <2>1. p \in Dirty(h, i, d)
    BY <1>1 DEF Dirty
  <2> QED
    BY <2>1 DEF Fingerprint
<1>2. t[1] = p /\ t[6] = d[p] /\ t[7] = IF i[p] = h[p] THEN "none" ELSE i[p]
  OBVIOUS
<1> HIDE DEF t
<1>3. d[p] = b => OnDisk(Fingerprint(h, i, d), p, b)
  BY <1>1, <1>2 DEF OnDisk
<1>4. i[p] = b => InIndex(Fingerprint(h, i, d), p, b)
  BY <1>1, <1>2 DEF InIndex
<1> QED
  BY <1>3, <1>4

\* And a mark means that it is there.
LEMMA FingerprintTells ==
  ASSUME NEW STATE h, NEW STATE i, NEW STATE d, NEW p, NEW b \in Held
  PROVE  /\ OnDisk(Fingerprint(h, i, d), p, b) => d[p] = b
         /\ InIndex(Fingerprint(h, i, d), p, b) => i[p] = b
<1>1. ASSUME NEW t \in Fingerprint(h, i, d)
      PROVE  t[6] = d[t[1]] /\ (t[7] = "none" \/ t[7] = i[t[1]])
  <2>1. PICK q \in Dirty(h, i, d) :
           t = <<q, h[q] = "none", i[q] = "none", i[q] = h[q], d[q] = i[q], d[q],
                 IF i[q] = h[q] THEN "none" ELSE i[q]>>
    BY <1>1 DEF Fingerprint
  <2>2. t[1] = q /\ t[6] = d[q] /\ t[7] = IF i[q] = h[q] THEN "none" ELSE i[q]
    BY <2>1
  <2> QED
    BY <2>2
<1>2. b # "none"
  BY DEF Held, OwnerBlobs
<1> QED
  BY <1>1, <1>2 DEF OnDisk, InIndex

\* A record that is set aside.
LEMMA Forgotten ==
  ASSUME active' = Inactive
  PROVE  ActiveForm' /\ Recorded' /\ active'.ref = FALSE /\ active'.snapshot \in Snapshots
BY Blank DEF ActiveForm, Recorded

\* A record that stays.
LEMMA SameActive ==
  ASSUME ActiveForm, Recorded, active' = active
  PROVE  ActiveForm' /\ Recorded'
BY DEF ActiveForm, Recorded, Marked

\* What is under a ref survives; refs that grow keep what they hold.
LEMMA StoredSurvives ==
  ASSUME NEW p, NEW b, snapshots \subseteq snapshots', indexRefs \subseteq indexRefs', Stored(p, b)
  PROVE  Stored(p, b)' /\ Survives(p, b)'
BY DEF Stored, Survives

\* The labels at which nothing but survival is promised.
LEMMA AtRest ==
  ASSUME pc' \in {"down", "end"}, \A m \in mine' : m[2] # "late" => Survives(m[1], m[2])'
  PROVE  Capturing' /\ OwnTree' /\ Kept' /\ Restoring'
BY DEF Capturing, OwnTree, Kept, Restoring

\* The pairs of `mine`.
LEMMA MinePairs ==
  ASSUME TypeOK, NEW m \in mine
  PROVE  /\ m[1] \in Paths /\ m[2] \in OwnerBlobs /\ m = <<m[1], m[2]>>
         /\ m[2] # "late" => m[2] \in Held
BY DEF TypeOK, Held

(***************************************************************************)
(* The steps                                                               *)
(***************************************************************************)

LEMMA BeginOK ==
  ASSUME IInv, Begin
  PROVE  IInv'
<1>1. /\ pc = "down" /\ runs < MaxRuns /\ runs' = runs + 1
      /\ UNCHANGED <<head, index, disk, snapshots, mine>>
  BY DEF Begin, tree
<1>2. active = Inactive /\ todo = {} /\ staged = NoTree /\ head \in Trees /\ index \in Trees
      /\ disk \in Trees
  BY <1>1 DEF IInv, TypeOK
<1>0. TodoFree'
  BY <1>1, <1>2 DEF Begin, memory, TodoFree
<1>3. OwnerWorkIsNotCommitted' /\ \A p \in Paths : head[p] \notin Held
  BY <1>1 DEF IInv, OwnerWorkIsNotCommitted, Held
<1>4. runs' \in 0 .. MaxRuns
  BY <1>1, WipAssumption DEF IInv, TypeOK
<1>5. \A m \in mine' : m[2] # "late" => Survives(m[1], m[2])
  BY <1>1 DEF IInv, Kept
<1>6. CASE Clean /\ pc' = "run" /\ UNCHANGED <<indexRefs, memory>>
  <2>1. UNCHANGED <<indexRefs, staged, active, todo>>
    BY <1>6 DEF memory
  <2>2. TypeOK'
    BY <1>1, <1>4, <1>6, <2>1 DEF IInv, TypeOK
  <2>3. ActiveForm' /\ Recorded'
    BY <2>1, SameActive DEF IInv
  <2>4. \A p \in Paths : index[p] = head[p] /\ disk[p] = head[p]
    BY <1>6 DEF Clean, Dirty
  <2>5. OwnTree'
    BY <1>1, <1>3, <2>4 DEF OwnTree
  <2>6. ASSUME NEW m \in mine', m[2] # "late"
        PROVE  Stored(m[1], m[2])' /\ Survives(m[1], m[2])'
    <3>1. m[1] \in Paths /\ m[2] \in Held /\ Survives(m[1], m[2])
      BY <1>1, <1>5, <2>6, MinePairs DEF IInv
    <3>2. Stored(m[1], m[2])
      BY <1>0, <1>3, <2>4, <3>1 DEF Survives, Stored
    <3> QED
      BY <1>1, <2>1, <3>2, StoredSurvives
  <2>7. Capturing' /\ Kept' /\ Restoring'
    BY <1>6, <2>6 DEF Capturing, Kept, Restoring
  <2> QED
    BY <1>0, <1>3, <2>2, <2>3, <2>5, <2>7 DEF IInv
<1>7. CASE pc' = "end" /\ UNCHANGED <<indexRefs, memory>>
  <2>1. UNCHANGED <<indexRefs, staged, active, todo>>
    BY <1>7 DEF memory
  <2>2. TypeOK'
    BY <1>1, <1>4, <1>7, <2>1 DEF IInv, TypeOK
  <2>3. ActiveForm' /\ Recorded'
    BY <2>1, SameActive DEF IInv
  <2>4. \A m \in mine' : m[2] # "late" => Survives(m[1], m[2])'
    BY <1>1, <1>5, <2>1 DEF Survives
  <2>5. Capturing' /\ OwnTree' /\ Kept' /\ Restoring'
    BY <1>7, <2>4, AtRest
  <2> QED
    BY <1>0, <1>3, <2>2, <2>3, <2>5 DEF IInv
<1>8. CASE /\ pc' = "indexed" /\ staged' = index /\ indexRefs' = indexRefs \cup {index}
           /\ active' = [Inactive EXCEPT !.fingerprint = Fingerprint(head, index, disk)]
           /\ todo' = todo
  <2>1. /\ active' \in [snapshot : Snapshots, fingerprint : {Fingerprint(head, index, disk)},
                        ref : {FALSE}]
    <3> DEFINE F == Fingerprint(head, index, disk)
    <3> HIDE DEF F
    <3>1. active' = [Inactive EXCEPT !.fingerprint = F]
      BY <1>8 DEF F
    <3>2. active' \in [snapshot : Snapshots, fingerprint : {F}, ref : {FALSE}]
      BY <3>1, Blank
    <3> QED
      BY <3>2 DEF F
  <2>2. active'.fingerprint = Fingerprint(head, index, disk) /\ active'.ref = FALSE
        /\ active'.snapshot \in Snapshots
    BY <2>1
  <2>3. ActiveForm' /\ Recorded'
    BY <2>1, <2>2 DEF ActiveForm, Recorded
  <2>4. TypeOK'
    BY <1>1, <1>2, <1>4, <1>8, <2>2 DEF IInv, TypeOK, Snapshots
  <2>5. ASSUME NEW p \in Paths, NEW b \in Held
        PROVE  /\ disk[p] = b => OnDisk(active'.fingerprint, p, b)
               /\ index[p] = b => InIndex(active'.fingerprint, p, b)
    <3>1. head[p] # b
      BY <1>3
    <3> QED
      BY <2>2, <3>1, FingerprintHolds
  <2>6. Capturing'
    BY <1>1, <1>8, <2>2, <2>5 DEF Capturing, Marked
  <2>7. \A m \in mine' : m[2] # "late" => Survives(m[1], m[2])'
    BY <1>1, <1>5, <1>8 DEF Survives
  <2>8. OwnTree' /\ Kept' /\ Restoring'
    BY <1>8, <2>7 DEF OwnTree, Kept, Restoring
  <2> QED
    BY <1>0, <1>3, <2>3, <2>4, <2>6, <2>8 DEF IInv
<1> QED
  BY <1>6, <1>7, <1>8 DEF Begin

LEMMA StageOK ==
  ASSUME IInv, Stage
  PROVE  IInv'
<1>1. /\ pc = "indexed" /\ UNCHANGED <<head, disk, snapshots, staged, active, todo, mine, runs>>
  BY DEF Stage, memory, refs, Unwind
<1>2. index = staged /\ Marked(disk, staged) /\ staged \in indexRefs /\ ~active.ref
  BY <1>1 DEF IInv, Capturing
<1>3. OwnerWorkIsNotCommitted' /\ TodoFree' /\ ActiveForm' /\ Recorded'
  BY <1>1, SameActive DEF IInv, OwnerWorkIsNotCommitted, TodoFree
<1>4. CASE index' = disk /\ pc' = "staged" /\ indexRefs' = indexRefs
  <2>1. TypeOK'
    BY <1>1, <1>4 DEF IInv, TypeOK
  <2>2. Capturing'
    BY <1>1, <1>2, <1>4 DEF Capturing, Marked
  <2>3. ASSUME NEW m \in mine', m[2] # "late"
        PROVE  /\ Survives(m[1], m[2])'
               /\ m[2] = disk'[m[1]] \/ Stored(m[1], m[2])'
    <3>1. m[1] \in Paths /\ m[2] \in Held /\ Survives(m[1], m[2])
      BY <1>1, <2>3, MinePairs DEF IInv, Kept
    <3>2. head[m[1]] # m[2]
      BY <3>1 DEF IInv, OwnerWorkIsNotCommitted, Held
    <3>3. m[2] = disk[m[1]] \/ Stored(m[1], m[2])
      BY <1>2, <3>1, <3>2 DEF Survives, Stored
    <3>4. CASE m[2] = disk[m[1]]
      BY <1>1, <3>4 DEF Survives
    <3>5. CASE Stored(m[1], m[2])
      BY <1>1, <1>4, <3>5, StoredSurvives
    <3> QED
      BY <3>3, <3>4, <3>5
  <2>4. Kept' /\ OwnTree' /\ Restoring'
    BY <1>4, <2>3 DEF Kept, OwnTree, Restoring
  <2> QED
    BY <1>3, <2>1, <2>2, <2>4 DEF IInv
<1>5. CASE Unwind
  <2>1. /\ pc' = "end" /\ index' = staged
        /\ indexRefs' = indexRefs \ {staged} \/ indexRefs' = indexRefs
    BY <1>2, <1>5 DEF Unwind
  <2>2. TypeOK'
    BY <1>1, <2>1 DEF IInv, TypeOK
  <2>3. ASSUME NEW m \in mine', m[2] # "late"
        PROVE  Survives(m[1], m[2])'
    <3>1. Survives(m[1], m[2])
      BY <1>1, <2>3 DEF IInv, Kept
    <3> QED
      BY <1>1, <1>2, <2>1, <3>1 DEF Survives
  <2>4. Capturing' /\ OwnTree' /\ Kept' /\ Restoring'
    BY <2>1, <2>3, AtRest
  <2> QED
    BY <1>3, <2>2, <2>4 DEF IInv
<1> QED
  BY <1>4, <1>5 DEF Stage, refs

LEMMA WriteRefOK ==
  ASSUME IInv, WriteRef
  PROVE  IInv'
<1>1. /\ pc = "staged" /\ UNCHANGED <<head, disk, staged, todo, mine, runs>>
  BY DEF WriteRef
<1>2. /\ Marked(index, staged) /\ staged \in indexRefs /\ ~active.ref
      /\ \A p \in Paths : disk[p] \in {index[p], "late"}
  BY <1>1 DEF IInv, Capturing
<1>3. OwnerWorkIsNotCommitted' /\ TodoFree'
  BY <1>1 DEF IInv, OwnerWorkIsNotCommitted, TodoFree
<1>4. CASE /\ snapshots' = snapshots \cup {Snapshot} /\ pc' = "captured"
           /\ active' = [active EXCEPT !.snapshot = Snapshot, !.ref = TRUE]
           /\ UNCHANGED <<index, indexRefs>>
  <2>1. Snapshot \in Snapshots /\ Snapshot.work = index /\ Snapshot.index = staged
    BY DEF Snapshot, Snapshots, IInv, TypeOK
  <2>2. /\ active'.snapshot = Snapshot /\ active'.ref = TRUE
        /\ active'.fingerprint = active.fingerprint /\ ActiveForm'
    <3>1. active' = [active EXCEPT !.snapshot = Snapshot, !.ref = TRUE]
      BY <1>4
    <3> QED
      BY <2>1, <3>1 DEF IInv, ActiveForm
  <2>3. TypeOK'
    BY <1>1, <1>4, <2>1, <2>2 DEF IInv, TypeOK, Snapshots
  <2>4. Recorded'
    BY <1>2, <2>1, <2>2 DEF Recorded, Marked
  <2>5. ASSUME NEW m \in mine', m[2] # "late"
        PROVE  Stored(m[1], m[2])' /\ Survives(m[1], m[2])'
    <3>1. m[1] \in Paths /\ (m[2] = disk[m[1]] \/ Stored(m[1], m[2]))
      BY <1>1, <2>5, MinePairs DEF IInv, Kept
    <3>2. CASE Stored(m[1], m[2])
      BY <1>4, <3>2, StoredSurvives
    <3>3. CASE m[2] = disk[m[1]]
      <4>1. m[2] = Snapshot.work[m[1]]
        BY <1>2, <2>1, <2>5, <3>1, <3>3
      <4> QED
        BY <1>4, <4>1 DEF Stored, Survives
    <3> QED
      BY <3>1, <3>2, <3>3
  <2>6. Capturing' /\ OwnTree' /\ Kept' /\ Restoring'
    BY <1>1, <1>2, <1>4, <2>5 DEF Capturing, OwnTree, Kept, Restoring
  <2> QED
    BY <1>3, <2>2, <2>3, <2>4, <2>6 DEF IInv
<1>5. CASE Unwind /\ UNCHANGED active
  <2>1. /\ pc' = "end" /\ snapshots' = snapshots
        /\ \/ index' = staged /\ indexRefs' = indexRefs \ {staged}
           \/ UNCHANGED <<index, indexRefs>>
    BY <1>5 DEF Unwind
  <2>2. TypeOK'
    BY <1>1, <1>5, <2>1 DEF IInv, TypeOK
  <2>3. ASSUME NEW m \in mine', m[2] # "late"
        PROVE  Survives(m[1], m[2])'
    <3>1. m[2] = disk[m[1]] \/ Stored(m[1], m[2])
      BY <1>1, <2>3 DEF IInv, Kept
    <3> QED
      BY <1>1, <2>1, <3>1 DEF Survives, Stored
  <2>4. Capturing' /\ OwnTree' /\ Kept' /\ Restoring'
    BY <2>1, <2>3, AtRest
  <2>5. ActiveForm' /\ Recorded'
    BY <1>5, SameActive DEF IInv
  <2> QED
    BY <1>3, <2>2, <2>4, <2>5 DEF IInv
<1> QED
  BY <1>4, <1>5 DEF WriteRef

\* Once everything is under a ref, the run may do to the tree what it likes.
LEMMA StoredKept ==
  ASSUME IInv, pc \in {"captured", "removing", "run", "restoring"},
         UNCHANGED <<snapshots, indexRefs, mine>>
  PROVE  /\ \A m \in mine' : m[2] # "late" => Stored(m[1], m[2])' /\ Survives(m[1], m[2])'
         /\ pc' \in {"captured", "removing", "run", "end", "restoring", "down"} => Kept'
<1>1. ASSUME NEW m \in mine', m[2] # "late"
      PROVE  Stored(m[1], m[2])' /\ Survives(m[1], m[2])'
  <2>1. Stored(m[1], m[2])
    BY <1>1 DEF IInv, Kept
  <2> QED
    BY <2>1, StoredSurvives
<1> QED
  BY <1>1 DEF Kept

LEMMA ResetTreeOK ==
  ASSUME IInv, ResetTree
  PROVE  IInv'
<1>1. /\ pc = "captured" /\ UNCHANGED <<head, snapshots, indexRefs, staged, active, todo, mine, runs>>
      /\ pc' \in {"removing", "end"}
  BY DEF ResetTree, refs, memory, KeepRef
<1>2. /\ \A p \in Paths : disk[p] \in {index[p], "late"}
      /\ \A p \in Paths : head[p] \notin Held
      /\ head \in Trees /\ index \in Trees /\ disk \in Trees /\ staged \in Trees
  BY <1>1 DEF IInv, Capturing, OwnerWorkIsNotCommitted, TypeOK, Held
<1>3. disk' \in Trees /\ index' \in Trees
  BY <1>2 DEF ResetTree, KeepRef, Trees
<1>4. TypeOK'
  BY <1>1, <1>3 DEF IInv, TypeOK
<1>5. OwnerWorkIsNotCommitted' /\ TodoFree' /\ ActiveForm' /\ Recorded'
  BY <1>1, SameActive DEF IInv, TodoFree, OwnerWorkIsNotCommitted
<1>6. OwnTree'
  <2> SUFFICES ASSUME pc' = "removing", NEW p \in Paths
               PROVE  disk'[p] \notin Held
    BY <1>1 DEF OwnTree
  <2>1. disk'[p] = IF head[p] = "none" /\ index[p] = "none" THEN disk[p] ELSE head[p]
    BY DEF ResetTree, KeepRef
  <2> QED
    BY <1>2, <2>1 DEF Held, OwnerBlobs
<1>7. Kept' /\ Capturing' /\ Restoring'
  BY <1>1, StoredKept DEF Capturing, Restoring
<1> QED
  BY <1>4, <1>5, <1>6, <1>7 DEF IInv

LEMMA RemoveUntrackedOK ==
  ASSUME IInv, RemoveUntracked
  PROVE  IInv'
<1>1. /\ pc = "removing" /\ UNCHANGED <<head, snapshots, indexRefs, active, todo, mine, runs>>
      /\ pc' \in {"run", "end"}
  BY DEF RemoveUntracked, refs, KeepRef
<1>2. /\ \A p \in Paths : disk[p] \notin Held
      /\ index \in Trees /\ disk \in Trees /\ staged \in Trees
  BY <1>1 DEF IInv, OwnTree, TypeOK
<1>3. disk' \in Trees /\ index' \in Trees /\ staged' \in Trees
  BY <1>2, Blank DEF RemoveUntracked, KeepRef, Trees, Blobs
<1>4. TypeOK'
  BY <1>1, <1>3 DEF IInv, TypeOK
<1>5. OwnerWorkIsNotCommitted' /\ TodoFree' /\ ActiveForm' /\ Recorded'
  BY <1>1, SameActive DEF IInv, TodoFree, OwnerWorkIsNotCommitted
<1>6. OwnTree'
  <2> SUFFICES ASSUME pc' = "run", NEW p \in Paths
               PROVE  disk'[p] \notin Held
    BY <1>1 DEF OwnTree
  <2>1. disk'[p] = IF p \in untracked THEN "none" ELSE disk[p]
    BY DEF RemoveUntracked, KeepRef
  <2> QED
    BY <1>2, <2>1 DEF Held, OwnerBlobs
<1>7. Kept' /\ Capturing' /\ Restoring'
  BY <1>1, StoredKept DEF Capturing, Restoring
<1> QED
  BY <1>4, <1>5, <1>6, <1>7 DEF IInv

LEMMA RunCommitsOK ==
  ASSUME IInv, RunCommits
  PROVE  IInv'
<1>1. /\ pc = "run" /\ UNCHANGED <<snapshots, indexRefs, staged, active, todo, mine, runs>>
  BY DEF RunCommits, refs, memory
<1>2. PICK A \in SUBSET Paths \ {{}} :
         LET edited == [p \in Paths |-> IF p \in A THEN "run" ELSE disk[p]]
         IN  \/ head' = edited /\ index' = edited /\ disk' = edited /\ UNCHANGED pc
             \/ disk' = edited /\ pc' = "end" /\ UNCHANGED <<head, index>>
  BY DEF RunCommits
<1> DEFINE edited == [p \in Paths |-> IF p \in A THEN "run" ELSE disk[p]]
<1>3. /\ \A p \in Paths : disk[p] \notin Held
      /\ head \in Trees /\ index \in Trees /\ disk \in Trees
  BY <1>1 DEF IInv, OwnTree, TypeOK
<1>4. edited \in Trees /\ \A p \in Paths : edited[p] \notin Held
  BY <1>3 DEF Trees, Blobs, Held, OwnerBlobs
<1>5. \/ head' = edited /\ disk' = edited /\ index' = edited /\ pc' = "run"
      \/ head' = head /\ disk' = edited /\ index' = index /\ pc' = "end"
  BY <1>1, <1>2
<1> HIDE DEF edited
<1>6. TypeOK'
  BY <1>1, <1>3, <1>4, <1>5 DEF IInv, TypeOK
<1>7. OwnerWorkIsNotCommitted' /\ TodoFree' /\ OwnTree'
  BY <1>1, <1>4, <1>5 DEF IInv, TodoFree, OwnerWorkIsNotCommitted, OwnTree, Held
<1>8. ActiveForm' /\ Recorded'
  BY <1>1, SameActive DEF IInv
<1>9. Kept' /\ Capturing' /\ Restoring'
  BY <1>1, <1>5, StoredKept DEF Capturing, Restoring
<1> QED
  BY <1>6, <1>7, <1>8, <1>9 DEF IInv

LEMMA RunEndsOK ==
  ASSUME IInv, RunEnds
  PROVE  IInv'
<1>1. /\ pc = "run" /\ pc' = "end"
      /\ UNCHANGED <<head, index, disk, snapshots, indexRefs, staged, active, todo, mine, runs>>
  BY DEF RunEnds, tree, refs, memory
<1>2. TypeOK'
  BY <1>1 DEF IInv, TypeOK
<1>3. OwnerWorkIsNotCommitted' /\ TodoFree' /\ ActiveForm' /\ Recorded' /\ OwnTree'
  BY <1>1, SameActive DEF IInv, TodoFree, OwnerWorkIsNotCommitted, OwnTree
<1>4. Kept' /\ Capturing' /\ Restoring'
  BY <1>1, StoredKept DEF Capturing, Restoring
<1> QED
  BY <1>2, <1>3, <1>4 DEF IInv

LEMMA EndOfRunOK ==
  ASSUME IInv, EndOfRun
  PROVE  IInv'
<1>1. /\ pc = "end" /\ staged' = NoTree
      /\ UNCHANGED <<head, index, disk, snapshots, indexRefs, mine, runs>>
  BY DEF EndOfRun, tree, refs
<1>2. OwnerWorkIsNotCommitted' /\ \A p \in Paths : head[p] \notin Held
  BY <1>1 DEF IInv, OwnerWorkIsNotCommitted, Held
<1>3. CASE /\ active.ref /\ Clean /\ pc' = "restoring" /\ todo' = OwnerPaths(active.snapshot)
           /\ UNCHANGED active
  <2>1. \A p \in Paths : index[p] = head[p] /\ disk[p] = head[p]
    BY <1>3 DEF Clean, Dirty
  <2>2. TypeOK'
    BY <1>1, <1>3, Blank DEF IInv, TypeOK, OwnerPaths
  <2>3. ActiveForm' /\ Recorded'
    BY <1>3, SameActive DEF IInv
  <2>4. Restoring' /\ Capturing' /\ OwnTree' /\ TodoFree'
    BY <1>1, <1>3, <2>1 DEF Restoring, Capturing, OwnTree, TodoFree
  <2>5. ASSUME NEW m \in mine', m[2] # "late"
        PROVE  Stored(m[1], m[2])' /\ Survives(m[1], m[2])'
    <3>1. m[1] \in Paths /\ m[2] \in Held /\ Survives(m[1], m[2])
      BY <1>1, <2>5, MinePairs DEF IInv, Kept
    <3>2. Stored(m[1], m[2])
      BY <1>2, <2>1, <3>1 DEF Survives, Stored
    <3> QED
      BY <1>1, <3>2, StoredSurvives
  <2>6. Kept'
    BY <1>3, <2>5 DEF Kept
  <2> QED
    BY <1>2, <2>2, <2>3, <2>4, <2>6 DEF IInv
<1>4. CASE pc' = "down" /\ active' = Inactive /\ UNCHANGED todo
  <2>1. todo = {} /\ TodoFree'
    BY <1>1, <1>4 DEF IInv, TodoFree
  <2>2. ActiveForm' /\ Recorded' /\ active'.snapshot \in Snapshots
    BY <1>4, Forgotten
  <2>3. TypeOK'
    BY <1>1, <1>4, <2>1, <2>2, Blank DEF IInv, TypeOK, Snapshots
  <2>4. \A m \in mine' : m[2] # "late" => Survives(m[1], m[2])'
    BY <1>1 DEF IInv, Kept, Survives
  <2>5. Capturing' /\ OwnTree' /\ Kept' /\ Restoring'
    BY <1>4, <2>4, AtRest
  <2> QED
    BY <1>2, <2>1, <2>2, <2>3, <2>5 DEF IInv
<1> QED
  BY <1>3, <1>4 DEF EndOfRun

\* The ways back to an idle program with everything still under a ref.
LEMMA BackDown ==
  ASSUME IInv, pc' = "down", active' = Inactive, todo' = {}, staged' = NoTree, UNCHANGED <<head, runs>>,
         disk' \in Trees, index' \in Trees, mine' = mine, snapshots' \subseteq snapshots,
         indexRefs' \subseteq indexRefs, \A m \in mine : m[2] # "late" => Survives(m[1], m[2])'
  PROVE  IInv'
<1>1. ActiveForm' /\ Recorded' /\ active'.snapshot \in Snapshots
  BY Forgotten
<1>2. TypeOK'
  BY <1>1, Blank DEF IInv, TypeOK, Snapshots
<1>3. OwnerWorkIsNotCommitted' /\ TodoFree'
  BY DEF IInv, OwnerWorkIsNotCommitted, TodoFree
<1>4. Capturing' /\ OwnTree' /\ Kept' /\ Restoring'
  BY AtRest
<1> QED
  BY <1>1, <1>2, <1>3, <1>4 DEF IInv

LEMMA RestorePathOK ==
  ASSUME IInv, RestorePath
  PROVE  IInv'
<1>1. /\ pc = "restoring" /\ UNCHANGED <<head, snapshots, indexRefs, staged, mine, runs>>
  BY DEF RestorePath, refs
<1>2. /\ active.ref /\ todo \subseteq OwnerPaths(active.snapshot) /\ todo \subseteq Paths
      /\ \A p \in Paths \ OwnerPaths(active.snapshot) : disk[p] = head[p]
      /\ head \in Trees /\ index \in Trees /\ disk \in Trees
      /\ active.snapshot \in Snapshots
  BY <1>1 DEF IInv, Restoring, TypeOK, Snapshots
<1> DEFINE s == active.snapshot
<1>3. PICK p \in todo :
         /\ disk' = [disk EXCEPT ![p] = s.work[p]]
         /\ \/ /\ index' = [index EXCEPT ![p] = IF s.index[p] # s.base[p] THEN s.index[p]
                                                ELSE head[p]]
               /\ todo' = todo \ {p} /\ UNCHANGED <<pc, active>>
            \/ /\ index' \in {index, [index EXCEPT ![p] = s.work[p]]}
               /\ pc' = "down" /\ active' = Inactive /\ todo' = {}
  BY DEF RestorePath
<1>4. /\ s.work[p] \in Blobs /\ s.index[p] \in Blobs /\ head[p] \in Blobs
  BY <1>2, <1>3 DEF Snapshots, Trees
<1>5. disk' \in Trees /\ index' \in Trees
  BY <1>2, <1>3, <1>4 DEF Trees
<1>6. \A m \in mine' : m[2] # "late" => Stored(m[1], m[2])' /\ Survives(m[1], m[2])'
  BY <1>1, StoredKept
<1>7. CASE todo' = todo \ {p} /\ UNCHANGED <<pc, active>>
  <2>1. TypeOK'
    BY <1>1, <1>2, <1>5, <1>7 DEF IInv, TypeOK
  <2>2. ActiveForm' /\ Recorded' /\ OwnerWorkIsNotCommitted' /\ TodoFree'
    BY <1>1, <1>7, SameActive DEF IInv, OwnerWorkIsNotCommitted, TodoFree
  <2>3. Restoring'
    <3>1. staged = NoTree
      BY <1>1 DEF IInv, Restoring
    <3>2. p \in OwnerPaths(s)
      BY <1>2, <1>3
    <3>3. \A q \in Paths \ OwnerPaths(s) : disk'[q] = head'[q]
      BY <1>1, <1>2, <1>3, <3>2 DEF Trees
    <3> QED
      BY <1>1, <1>2, <1>7, <3>1, <3>3 DEF Restoring
  <2>4. Capturing' /\ OwnTree' /\ Kept'
    BY <1>1, <1>6, <1>7 DEF Capturing, OwnTree, Kept
  <2> QED
    BY <2>1, <2>2, <2>3, <2>4 DEF IInv
<1>8. CASE pc' = "down" /\ active' = Inactive /\ todo' = {}
  <2>1. staged = NoTree
    BY <1>1 DEF IInv, Restoring
  <2> QED
    BY <1>1, <1>5, <1>6, <1>8, <2>1, BackDown
<1> QED
  BY <1>3, <1>7, <1>8

LEMMA RestoreFailsOK ==
  ASSUME IInv, RestoreFails
  PROVE  IInv'
<1>1. /\ pc = "restoring" /\ pc' = "down" /\ active' = Inactive /\ todo' = {}
      /\ UNCHANGED <<head, index, disk, snapshots, indexRefs, staged, mine, runs>>
  BY DEF RestoreFails, tree, refs
<1>2. staged = NoTree /\ disk' \in Trees /\ index' \in Trees
  BY <1>1 DEF IInv, Restoring, TypeOK
<1>3. \A m \in mine' : m[2] # "late" => Survives(m[1], m[2])'
  BY <1>1, StoredKept
<1> QED
  BY <1>1, <1>2, <1>3, BackDown

\* A restore that has reproduced the fingerprint has put back what its snapshot holds.
LEMMA ProvenIsRestored ==
  ASSUME IInv, pc = "restoring", Proven, NEW p \in Paths, NEW b \in Held
  PROVE  /\ active.snapshot.work[p] = b => disk[p] = b
         /\ active.snapshot.index[p] = b => index[p] = b
<1>1. Marked(active.snapshot.work, active.snapshot.index)
  BY DEF IInv, Restoring, Recorded
<1>2. active.fingerprint = Fingerprint(head, index, disk)
  BY DEF Proven
<1>3. /\ active.snapshot.work[p] = b => OnDisk(Fingerprint(head, index, disk), p, b)
      /\ active.snapshot.index[p] = b => InIndex(Fingerprint(head, index, disk), p, b)
  BY <1>1, <1>2 DEF Marked
<1> QED
  BY <1>3, FingerprintTells

LEMMA DropOK ==
  ASSUME IInv, Drop
  PROVE  IInv'
<1>1. /\ pc = "restoring" /\ todo = {} /\ pc' = "down" /\ active' = Inactive
      /\ UNCHANGED <<head, index, disk, staged, todo, mine, runs>>
      /\ \/ UNCHANGED <<snapshots, indexRefs>>
         \/ /\ Proven /\ snapshots' = snapshots \ {active.snapshot}
            /\ indexRefs' \in {indexRefs, indexRefs \ {active.snapshot.index}}
  BY DEF Drop, tree, refs
<1>2. staged = NoTree /\ disk' \in Trees /\ index' \in Trees
  BY <1>1 DEF IInv, Restoring, TypeOK
<1>3. ASSUME NEW m \in mine, m[2] # "late"
      PROVE  Survives(m[1], m[2])'
  <2>1. m[1] \in Paths /\ m[2] \in Held /\ Stored(m[1], m[2])
    BY <1>1, <1>3, MinePairs DEF IInv, Kept
  <2>2. CASE UNCHANGED <<snapshots, indexRefs>>
    BY <2>1, <2>2, StoredSurvives
  <2>3. CASE /\ Proven /\ snapshots' = snapshots \ {active.snapshot}
             /\ indexRefs' \in {indexRefs, indexRefs \ {active.snapshot.index}}
    <3>1. CASE m[2] \in {active.snapshot.work[m[1]], active.snapshot.index[m[1]]}
      <4>1. m[2] \in {disk[m[1]], index[m[1]]}
        BY <1>1, <2>1, <2>3, <3>1, ProvenIsRestored
      <4> QED
        BY <1>1, <4>1 DEF Survives
    <3>2. CASE m[2] \notin {active.snapshot.work[m[1]], active.snapshot.index[m[1]]}
      <4>1. CASE \E s \in snapshots : m[2] \in {s.work[m[1]], s.index[m[1]]}
        BY <2>3, <3>2, <4>1 DEF Survives
      <4>2. CASE \E t \in indexRefs : t[m[1]] = m[2]
        BY <2>3, <3>2, <4>2 DEF Survives
      <4> QED
        BY <2>1, <4>1, <4>2 DEF Stored
    <3> QED
      BY <3>1, <3>2
  <2> QED
    BY <1>1, <2>2, <2>3
<1>4. snapshots' \subseteq snapshots /\ indexRefs' \subseteq indexRefs
  BY <1>1
<1> QED
  BY <1>1, <1>2, <1>3, <1>4, BackDown

LEMMA CrashOK ==
  ASSUME IInv, Crash
  PROVE  IInv'
<1>1. /\ pc' = "down" /\ active' = Inactive /\ todo' = {} /\ staged' = NoTree
      /\ UNCHANGED <<head, index, disk, snapshots, indexRefs, mine, runs>>
  BY DEF Crash, tree, refs
<1>2. disk' \in Trees /\ index' \in Trees
  BY <1>1 DEF IInv, TypeOK
<1>3. \A m \in mine : m[2] # "late" => Survives(m[1], m[2])'
  BY <1>1 DEF IInv, Kept, Survives
<1> QED
  BY <1>1, <1>2, <1>3, BackDown

\* The owner's newest bytes of a path take the place of the old ones, on disk and in
\* `mine`; everything else of his survives where it did.
LEMMA EditSurvives ==
  ASSUME IInv, NEW p \in Paths, NEW new \in OwnerBlobs, disk' = [disk EXCEPT ![p] = new],
         mine' = (mine \ {<<p, disk[p]>>}) \cup {<<p, new>>},
         UNCHANGED <<head, index, snapshots, indexRefs>>
  PROVE  /\ disk' \in Trees /\ mine' \subseteq Paths \X OwnerBlobs
         /\ \A m \in mine' : m[2] # "late" => Survives(m[1], m[2])'
         /\ \A m \in mine' \ {<<p, new>>} :
               m \in mine /\ (m[2] = disk[m[1]] => m[2] = disk'[m[1]])
<1>1. disk \in Trees /\ mine \subseteq Paths \X OwnerBlobs
  BY DEF IInv, TypeOK
<1>2. disk' \in Trees /\ mine' \subseteq Paths \X OwnerBlobs
  BY <1>1 DEF Trees, Blobs
<1>3. disk'[p] = new /\ \A q \in Paths \ {p} : disk'[q] = disk[q]
  BY <1>1 DEF Trees
<1>4. ASSUME NEW m \in mine' \ {<<p, new>>}
      PROVE  m \in mine /\ (m[2] = disk[m[1]] => m[2] = disk'[m[1]])
  <2>1. m \in mine /\ m # <<p, disk[p]>>
    BY <1>4
  <2>2. m[1] \in Paths /\ m = <<m[1], m[2]>>
    BY <2>1, MinePairs DEF IInv
  <2>3. m[1] # p \/ m[2] # disk[p]
    BY <2>1, <2>2
  <2> QED
    BY <1>3, <2>1, <2>2, <2>3
<1>5. ASSUME NEW m \in mine', m[2] # "late"
      PROVE  Survives(m[1], m[2])'
  <2>1. CASE m = <<p, new>>
    <3>1. m[1] = p /\ m[2] = new
      BY <2>1
    <3> QED
      BY <1>3, <3>1 DEF Survives
  <2>2. CASE m # <<p, new>>
    <3>1. m \in mine /\ (m[2] = disk[m[1]] => m[2] = disk'[m[1]])
      BY <1>4, <2>2
    <3>2. Survives(m[1], m[2])
      BY <1>5, <3>1 DEF IInv, Kept
    <3> QED
      BY <3>1, <3>2 DEF Survives
  <2> QED
    BY <2>1, <2>2
<1> QED
  BY <1>2, <1>4, <1>5

LEMMA OwnerEditsOK ==
  ASSUME IInv, OwnerEdits
  PROVE  IInv'
<1>1. /\ pc = "down" /\ pc' = "down"
      /\ UNCHANGED <<head, index, snapshots, indexRefs, staged, active, todo, runs>>
  BY DEF OwnerEdits, refs, memory
<1>2. PICK p \in Paths :
         /\ disk' = [disk EXCEPT ![p] = "again"]
         /\ mine' = (mine \ {<<p, disk[p]>>}) \cup {<<p, "again">>}
  BY DEF OwnerEdits
<1>3. /\ disk' \in Trees /\ mine' \subseteq Paths \X OwnerBlobs
      /\ \A m \in mine' : m[2] # "late" => Survives(m[1], m[2])'
  BY <1>1, <1>2, EditSurvives DEF OwnerBlobs
<1>4. TypeOK'
  BY <1>1, <1>3 DEF IInv, TypeOK
<1>5. ActiveForm' /\ Recorded' /\ OwnerWorkIsNotCommitted' /\ TodoFree'
  BY <1>1, SameActive DEF IInv, OwnerWorkIsNotCommitted, TodoFree
<1>6. Capturing' /\ OwnTree' /\ Kept' /\ Restoring'
  BY <1>1, <1>3, AtRest
<1> QED
  BY <1>4, <1>5, <1>6 DEF IInv

LEMMA LateEditOK ==
  ASSUME IInv, OwnerEditsDuringCapture
  PROVE  IInv'
<1>1. /\ pc \in {"indexed", "staged", "captured", "removing"}
      /\ UNCHANGED <<pc, head, index, snapshots, indexRefs, staged, active, todo, runs>>
  BY DEF OwnerEditsDuringCapture, refs, memory
<1>2. PICK p \in Paths :
         /\ disk' = [disk EXCEPT ![p] = "late"]
         /\ mine' = (mine \ {<<p, disk[p]>>}) \cup {<<p, "late">>}
  BY DEF OwnerEditsDuringCapture
<1>3. /\ disk' \in Trees /\ mine' \subseteq Paths \X OwnerBlobs
      /\ \A m \in mine' : m[2] # "late" => Survives(m[1], m[2])'
      /\ \A m \in mine' \ {<<p, "late">>} :
            m \in mine /\ (m[2] = disk[m[1]] => m[2] = disk'[m[1]])
  BY <1>1, <1>2, EditSurvives DEF OwnerBlobs
<1>4. TypeOK'
  BY <1>1, <1>3 DEF IInv, TypeOK
<1>5. ActiveForm' /\ Recorded' /\ OwnerWorkIsNotCommitted' /\ TodoFree'
  BY <1>1, SameActive DEF IInv, OwnerWorkIsNotCommitted, TodoFree
<1>6. \A q \in Paths : disk'[q] = disk[q] \/ disk'[q] = "late"
  BY <1>2 DEF IInv, TypeOK, Trees
<1>7. "late" \notin Held
  BY DEF Held
<1>8. Capturing'
  <2>1. pc = "indexed" => Marked(disk, staged)'
    BY <1>1, <1>6, <1>7 DEF IInv, Capturing, Marked
  <2>2. pc = "staged" => Marked(index, staged)'
    BY <1>1 DEF IInv, Capturing, Marked
  <2> QED
    BY <1>1, <1>6, <2>1, <2>2 DEF IInv, Capturing
<1>9. OwnTree' /\ Restoring'
  BY <1>1, <1>6, <1>7 DEF IInv, OwnTree, Restoring
<1>10. ASSUME NEW m \in mine', m[2] # "late"
       PROVE  /\ pc \in {"captured", "removing"} => Stored(m[1], m[2])'
              /\ pc = "staged" => m[2] = disk'[m[1]] \/ Stored(m[1], m[2])'
  <2>1. m # <<p, "late">>
    BY <1>10
  <2>2. m \in mine /\ (m[2] = disk[m[1]] => m[2] = disk'[m[1]])
    BY <1>3, <2>1
  <2>3. /\ pc \in {"captured", "removing"} => Stored(m[1], m[2])
        /\ pc = "staged" => m[2] = disk[m[1]] \/ Stored(m[1], m[2])
    BY <1>10, <2>2 DEF IInv, Kept
  <2> QED
    BY <1>1, <2>2, <2>3, StoredSurvives
<1>11. Kept'
  BY <1>1, <1>3, <1>10 DEF Kept
<1> QED
  BY <1>4, <1>5, <1>8, <1>9, <1>11 DEF IInv

(***************************************************************************)
(* The theorems                                                            *)
(***************************************************************************)

LEMMA InitInv == Init => IInv
<1> SUFFICES ASSUME Init
             PROVE  IInv
  OBVIOUS
<1>1. head \in Trees /\ index \in Trees /\ disk \in Trees
  BY DEF Init, Trees, Blobs, OwnerBlobs
<1>2. mine \subseteq Paths \X OwnerBlobs /\ runs \in 0 .. MaxRuns
  BY WipAssumption DEF Init
<1>3. active = Inactive /\ todo = {} /\ staged = NoTree /\ pc = "down" /\ snapshots = {}
      /\ indexRefs = {}
  BY DEF Init
<1>4. ActiveForm /\ Recorded /\ active.snapshot \in Snapshots
  BY <1>3, Blank DEF ActiveForm, Recorded
<1>5. TypeOK
  BY <1>1, <1>2, <1>3, <1>4, Blank DEF TypeOK, Snapshots
<1>6. OwnerWorkIsNotCommitted
  BY DEF Init, OwnerWorkIsNotCommitted, OwnerBlobs
<1>7. \A m \in mine : Survives(m[1], m[2])
  BY DEF Init, Survives
<1>8. Capturing /\ OwnTree /\ Kept /\ Restoring /\ TodoFree
  BY <1>3, <1>7 DEF Capturing, OwnTree, Kept, Restoring, TodoFree
<1> QED
  BY <1>4, <1>5, <1>6, <1>8 DEF IInv

LEMMA StepInv == IInv /\ [Next]_vars => IInv'
<1> SUFFICES ASSUME IInv, [Next]_vars
             PROVE  IInv'
  OBVIOUS
<1>1. CASE UNCHANGED vars
  <2>1. UNCHANGED <<head, index, disk, snapshots, indexRefs, pc, staged, active, todo, mine, runs>>
    BY <1>1 DEF vars, tree, refs, memory
  <2>2. TypeOK' /\ OwnerWorkIsNotCommitted' /\ TodoFree' /\ OwnTree' /\ Restoring'
    BY <2>1 DEF IInv, TypeOK, OwnerWorkIsNotCommitted, TodoFree, OwnTree, Restoring
  <2>3. ActiveForm' /\ Recorded' /\ Capturing'
    BY <2>1, SameActive DEF IInv, Capturing, Marked
  <2>4. Kept'
    BY <2>1 DEF IInv, Kept, Survives, Stored
  <2> QED
    BY <2>2, <2>3, <2>4 DEF IInv
<1>2. CASE Next
  BY <1>2, BeginOK, StageOK, WriteRefOK, ResetTreeOK, RemoveUntrackedOK, RunCommitsOK, RunEndsOK,
     EndOfRunOK, RestorePathOK, RestoreFailsOK, DropOK, CrashOK, OwnerEditsOK, LateEditOK DEF Next
<1> QED
  BY <1>1, <1>2

\* The inductive invariant holds in every reachable state.
THEOREM Invariance == Spec => []IInv
BY InitInv, StepInv, PTL DEF Spec

\* Types, and no record of a snapshot outlives its run.
THEOREM TypeCorrect == Spec => []TypeOK
<1>1. IInv => TypeOK
  BY DEF IInv
<1> QED
  BY <1>1, Invariance, PTL

\* The owner's work can be had back at any time, but for saves during the capture.
THEOREM WorkSurvives == Spec => []OwnerWorkSurvives
<1>1. IInv => OwnerWorkSurvives
  BY DEF IInv, Kept, OwnerWorkSurvives
<1> QED
  BY <1>1, Invariance, PTL

\* No commit of a run holds the owner's uncommitted work.
THEOREM WorkIsNotCommitted == Spec => []OwnerWorkIsNotCommitted
<1>1. IInv => OwnerWorkIsNotCommitted
  BY DEF IInv
<1> QED
  BY <1>1, Invariance, PTL

\* A restore does not reverse what the run has committed.
THEOREM RepairsStay == Spec => []RestoreKeepsRepairs
<1>1. IInv => RestoreKeepsRepairs
  BY DEF IInv, Restoring, RestoreKeepsRepairs, OwnerPaths
<1> QED
  BY <1>1, Invariance, PTL

===============================================================================
