---------------------------- MODULE WipSnapshot ----------------------------
(***************************************************************************)
(* The owner's uncommitted work during a run: flexfactor_wip.py and its    *)
(* use by audit_one_program.  A dirty tree is captured as orphan commits   *)
(* under refs/flexfactor-wip, the tree is reset to HEAD, the run commits   *)
(* its own changes, and the work is put back path by path.  Every git      *)
(* command may fail and the process may die between any two of them; the   *)
(* record of the active snapshot dies with it, the refs do not.            *)
(*                                                                         *)
(* A blob says where the content of a path came from: "base" is what HEAD  *)
(* held first, "staged", "work", "again" and "late" are the owner's, "run" *)
(* is the run's, and "none" is no file.                                    *)
(***************************************************************************)
EXTENDS Naturals, FiniteSets

CONSTANTS Paths, MaxRuns  \* MaxRuns bounds the runs, one after the other

ASSUME WipAssumption == Paths # {} /\ IsFiniteSet(Paths) /\ MaxRuns \in Nat \ {0}

VARIABLES
    head, index, disk,  \* the blob of each path in HEAD, in the index, in the tree
    snapshots,          \* what refs/flexfactor-wip/<id> name
    indexRefs,          \* the trees that refs/flexfactor-wip/<id>-index name
    pc,
    staged,             \* the tree of the index when the capture began
    active,             \* _WIP_ACTIVE: the snapshot of this process, with its fingerprint
    todo,               \* the paths still to restore
    mine,               \* history: the owner's blobs, by path, that must survive
    runs

tree == <<head, index, disk>>
refs == <<snapshots, indexRefs>>
memory == <<staged, active, todo>>
vars == <<tree, refs, pc, memory, mine, runs>>

OwnerBlobs == {"staged", "work", "again", "late"}
Blobs == OwnerBlobs \cup {"none", "base", "run"}
Trees == [Paths -> Blobs]
NoTree == [p \in Paths |-> "none"]
NoSnapshot == [work |-> NoTree, index |-> NoTree, base |-> NoTree]
Inactive == [snapshot |-> NoSnapshot, fingerprint |-> {}, ref |-> FALSE]

Dirty(h, i, d) == {p \in Paths : i[p] # h[p] \/ d[p] # i[p]}
Clean == Dirty(head, index, disk) = {}

\* porcelain_fingerprint: for each dirty path its two status letters, the bytes on
\* disk, and the staged bytes where something is staged.
Fingerprint(h, i, d) ==
    {<<p, h[p] = "none", i[p] = "none", i[p] = h[p], d[p] = i[p], d[p],
       IF i[p] = h[p] THEN "none" ELSE i[p]>> : p \in Dirty(h, i, d)}

Init ==
    /\ head \in [Paths -> {"none", "base"}]
    /\ index \in {t \in [Paths -> {"none", "base", "staged"}] :
                     \A p \in Paths : t[p] = "base" => head[p] = "base"}
    /\ disk \in {t \in [Paths -> {"none", "base", "staged", "work"}] :
                    \A p \in Paths : t[p] \in {"none", "work", index[p]}}
    /\ snapshots = {} /\ indexRefs = {} /\ pc = "down" /\ runs = 0
    /\ staged = NoTree /\ active = Inactive /\ todo = {}
    /\ mine = {m \in Paths \X OwnerBlobs : m[2] \in {index[m[1]], disk[m[1]]}}

----------------------------------------------------------------------------
(* Capture.                                                                *)

\* Mutant of Begin: a refused capture does not end the run.
BeginAnyway ==
    /\ pc = "down" /\ runs < MaxRuns /\ runs' = runs + 1
    /\ \/ pc' = "run" /\ UNCHANGED <<indexRefs, memory>>
       \/ /\ ~Clean /\ pc' = "indexed"
          /\ staged' = index /\ indexRefs' = indexRefs \cup {index}
          /\ active' = [Inactive EXCEPT !.fingerprint = Fingerprint(head, index, disk)]
          /\ UNCHANGED todo
    /\ UNCHANGED <<tree, snapshots, mine>>

\* A run begins.  A clean tree needs no snapshot; attributes, intent-to-add entries,
\* nested repositories and operations in progress are refused (snapshot_preflight
\* and the checks of capture_orphan_wip_snapshot); else the index gets its ref.
Begin ==
    /\ pc = "down" /\ runs < MaxRuns /\ runs' = runs + 1
    /\ \/ Clean /\ pc' = "run" /\ UNCHANGED <<indexRefs, memory>>
       \/ ~Clean /\ pc' = "end" /\ UNCHANGED <<indexRefs, memory>>
       \/ /\ ~Clean /\ pc' = "indexed"
          /\ staged' = index /\ indexRefs' = indexRefs \cup {index}
          /\ active' = [Inactive EXCEPT !.fingerprint = Fingerprint(head, index, disk)]
          /\ UNCHANGED todo
    /\ UNCHANGED <<tree, snapshots, mine>>

\* Before the snapshot has its ref a failure puts the index back and drops the ref of
\* the index; when that fails as well, the ref stays.
Unwind ==
    /\ pc' = "end" /\ UNCHANGED snapshots
    /\ \/ index' = staged /\ indexRefs' = indexRefs \ {staged}
       \/ UNCHANGED <<index, indexRefs>>

\* git add -A.
Stage ==
    /\ pc = "indexed"
    /\ \/ index' = disk /\ pc' = "staged" /\ UNCHANGED refs
       \/ Unwind
    /\ UNCHANGED <<head, disk, memory, mine, runs>>

\* The snapshot: the tree of the index as it is now, its base and the old index.
Snapshot == [work |-> index, index |-> staged, base |-> head]

\* write-tree, commit-tree, update-ref: an orphan commit under its ref.
WriteRef ==
    /\ pc = "staged"
    /\ \/ /\ snapshots' = snapshots \cup {Snapshot} /\ pc' = "captured"
          /\ active' = [active EXCEPT !.snapshot = Snapshot, !.ref = TRUE]
          /\ UNCHANGED <<index, indexRefs>>
       \/ Unwind /\ UNCHANGED active
    /\ UNCHANGED <<head, disk, staged, todo, mine, runs>>

\* The ref is kept; the index is put back, or is not.
KeepRef == pc' = "end" /\ index' \in {staged, index}

\* Mutant of ResetTree: the tree is reset before the snapshot has its ref.
ResetEarly ==
    /\ pc \in {"staged", "captured"}
    /\ disk' = head /\ index' = head
    /\ pc' = IF pc = "staged" THEN "staged" ELSE "removing"
    /\ UNCHANGED <<head, refs, memory, mine, runs>>

\* After the secret scan: git reset --hard HEAD.  Everything that is tracked, with the
\* untracked files that were staged for the snapshot, is as in HEAD; or it fails,
\* possibly after it has replaced some files.
ResetTree ==
    /\ pc = "captured"
    /\ \/ /\ disk' = [p \in Paths |-> IF head[p] = "none" /\ index[p] = "none"
                                      THEN disk[p] ELSE head[p]]
          /\ index' = head /\ pc' = "removing"
       \/ /\ \E R \in SUBSET Paths :
                disk' = [p \in Paths |-> IF p \in R /\ index[p] # "none" THEN head[p] ELSE disk[p]]
          /\ KeepRef
    /\ UNCHANGED <<head, refs, memory, mine, runs>>

\* What the owner had not tracked when the capture began.
untracked == {p \in Paths : head[p] = "none" /\ staged[p] = "none"}

\* _remove_captured_untracked: what the owner had not tracked is unlinked, one path
\* after the other; one refusal and the run is refused, the ref kept.
RemoveUntracked ==
    /\ pc = "removing"
    /\ \/ /\ disk' = [p \in Paths |-> IF p \in untracked THEN "none" ELSE disk[p]]
          /\ pc' = "run" /\ staged' = NoTree /\ UNCHANGED index
       \/ /\ untracked # {}
          /\ \E F \in SUBSET untracked \ {{}} :
                disk' = [p \in Paths |-> IF p \in untracked \ F THEN "none" ELSE disk[p]]
          /\ KeepRef /\ UNCHANGED staged
    /\ UNCHANGED <<head, refs, active, todo, mine, runs>>

----------------------------------------------------------------------------
(* The run.                                                                *)

\* Repairs are written and committed with git add -A, or rejected by the gate; a
\* refused rollback leaves one on disk.
RunCommits ==
    /\ pc = "run"
    /\ \E A \in SUBSET Paths \ {{}} :
          LET edited == [p \in Paths |-> IF p \in A THEN "run" ELSE disk[p]]
          IN  \/ head' = edited /\ index' = edited /\ disk' = edited /\ UNCHANGED pc
              \/ disk' = edited /\ pc' = "end" /\ UNCHANGED <<head, index>>
    /\ UNCHANGED <<refs, memory, mine, runs>>

RunEnds == pc = "run" /\ pc' = "end" /\ UNCHANGED <<tree, refs, memory, mine, runs>>

----------------------------------------------------------------------------
(* Restore.                                                                *)

\* Mutant of OwnerPaths: the whole tree of the snapshot is put back.
WholeTree(s) == Paths

\* The paths the owner had changed.
OwnerPaths(s) == {p \in Paths : s.work[p] # s.base[p] \/ s.index[p] # s.base[p]}

\* _restore_wip_if_active: the record is popped; a tree the run has left dirty is not
\* touched, and the preflight may refuse.
EndOfRun ==
    /\ pc = "end"
    /\ \/ active.ref /\ Clean /\ pc' = "restoring" /\ todo' = OwnerPaths(active.snapshot)
          /\ UNCHANGED active
       \/ pc' = "down" /\ active' = Inactive /\ UNCHANGED todo
    /\ staged' = NoTree
    /\ UNCHANGED <<tree, refs, mine, runs>>

\* One path: its bytes are checked out, or it is unlinked, then its staged blob is put
\* back.  A failure ends the restore where it is; the ref stays.
RestorePath ==
    /\ pc = "restoring"
    /\ \E p \in todo :
          LET s == active.snapshot IN
          /\ disk' = [disk EXCEPT ![p] = s.work[p]]
          /\ \/ /\ index' = [index EXCEPT ![p] = IF s.index[p] # s.base[p] THEN s.index[p]
                                                 ELSE head[p]]
                /\ todo' = todo \ {p} /\ UNCHANGED <<pc, active>>
             \/ /\ index' \in {index, [index EXCEPT ![p] = s.work[p]]}
                /\ pc' = "down" /\ active' = Inactive /\ todo' = {}
    /\ UNCHANGED <<head, refs, staged, mine, runs>>

RestoreFails ==
    /\ pc = "restoring" /\ todo # {}
    /\ pc' = "down" /\ active' = Inactive /\ todo' = {}
    /\ UNCHANGED <<tree, refs, staged, mine, runs>>

\* Mutant of Proven: the ref is dropped once every path was written.
WrittenBack == TRUE

\* The dirty state is byte for byte that from before the capture.
Proven == Fingerprint(head, index, disk) = active.fingerprint

\* drop_wip_ref: only then are the refs dropped, the one of the index second.
Drop ==
    /\ pc = "restoring" /\ todo = {}
    /\ pc' = "down" /\ active' = Inactive
    /\ IF Proven
       THEN /\ snapshots' = snapshots \ {active.snapshot}
            /\ indexRefs' \in {indexRefs, indexRefs \ {active.snapshot.index}}
       ELSE UNCHANGED refs
    /\ UNCHANGED <<tree, staged, todo, mine, runs>>

----------------------------------------------------------------------------
(* The process dies; the owner works.                                      *)

Crash ==
    /\ pc # "down" /\ pc' = "down"
    /\ staged' = NoTree /\ active' = Inactive /\ todo' = {}
    /\ UNCHANGED <<tree, refs, mine, runs>>

\* Between two runs the owner changes a file once more, over what is there.  (Bound:
\* once for each of the two edits.)
OwnerEdits ==
    /\ pc = "down" /\ runs \in 1 .. MaxRuns - 1
    /\ \A m \in mine : m[2] # "again"
    /\ \E p \in Paths :
          /\ disk' = [disk EXCEPT ![p] = "again"]
          /\ mine' = (mine \ {<<p, disk[p]>>}) \cup {<<p, "again">>}
    /\ UNCHANGED <<head, index, refs, pc, memory, runs>>

\* The owner saves a file while the capture is at work.
OwnerEditsDuringCapture ==
    /\ pc \in {"indexed", "staged", "captured", "removing"}
    /\ \A m \in mine : m[2] # "late"
    /\ \E p \in Paths :
          /\ disk' = [disk EXCEPT ![p] = "late"]
          /\ mine' = (mine \ {<<p, disk[p]>>}) \cup {<<p, "late">>}
    /\ UNCHANGED <<head, index, refs, pc, memory, runs>>

Next == \/ Begin \/ Stage \/ WriteRef \/ ResetTree \/ RemoveUntracked
        \/ RunCommits \/ RunEnds \/ EndOfRun \/ RestorePath \/ RestoreFails \/ Drop
        \/ Crash \/ OwnerEdits \/ OwnerEditsDuringCapture

Spec == Init /\ [][Next]_vars

----------------------------------------------------------------------------
(* Properties.                                                             *)

\* Types, and no record of a snapshot outlives the run that took it: the next run
\* would restore another run's work.
TypeOK ==
    /\ head \in Trees /\ index \in Trees /\ disk \in Trees
    /\ snapshots \subseteq [work : Trees, index : Trees, base : Trees]
    /\ indexRefs \subseteq Trees
    /\ pc \in {"down", "indexed", "staged", "captured", "removing", "run", "end", "restoring"}
    /\ staged \in Trees /\ todo \subseteq Paths
    /\ active.snapshot \in [work : Trees, index : Trees, base : Trees]
    /\ mine \subseteq Paths \X OwnerBlobs /\ runs \in 0 .. MaxRuns
    /\ pc = "down" => active = Inactive /\ todo = {} /\ staged = NoTree

\* Can the owner still get at blob b of path p, in the repository or under a ref?
Survives(p, b) ==
    \/ b \in {head[p], index[p], disk[p]}
    \/ \E s \in snapshots : b \in {s.work[p], s.index[p]}
    \/ \E t \in indexRefs : t[p] = b

\* Every file as the owner left it, and every version staged but not committed, can be
\* had back at any time, through failing commands, a restore that stops half way and a
\* process that dies between any two steps ("the work is never lost, only left under
\* the ref", src/flexfactor.py:20665).  Saves during the capture are exempt.
OwnerWorkSurvives == \A m \in mine : m[2] # "late" => Survives(m[1], m[2])

\* No commit of the run holds what the owner had not committed: a run begins on a tree
\* that was clean or made clean, and refuses any other.  Saves during the capture are
\* exempt again.
OwnerWorkIsNotCommitted == \A p \in Paths : head[p] \notin OwnerBlobs \ {"late"}

\* The restore leaves what the run has committed in the tree, except for paths the
\* owner had changed himself: repairs are not silently reversed.
RestoreKeepsRepairs ==
    pc = "restoring" =>
        \A p \in Paths :
            LET s == active.snapshot
            IN  s.work[p] = s.base[p] /\ s.index[p] = s.base[p] => disk[p] = head[p]
=============================================================================
