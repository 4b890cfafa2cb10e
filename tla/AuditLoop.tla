----------------------------- MODULE AuditLoop -----------------------------
(***************************************************************************)
(* audit_one_program in src/flexfactor.py, from the recovery of an         *)
(* interrupted run to its terminal checkpoint: the passes of batched       *)
(* review, repair and commit, the gate between passes one and two, the     *)
(* bridging of purpose gaps with its rescans, the readiness remediation,   *)
(* and what the checkpoint of flexfactor_runstate.py keeps for the process *)
(* that resumes the run.                                                   *)
(*                                                                         *)
(* One repair pass is a single step here (FixLoop models its inside) with  *)
(* the answers FixLoop allows; reviewers and gates answer arbitrarily, and *)
(* one file may be reviewed clean and faulty for the same bytes.  A run    *)
(* works on a branch of its own: while it is down somebody else may commit.*)
(***************************************************************************)
EXTENDS Naturals, FiniteSets, FiniteSetsExt

CONSTANTS
    NumFiles,        \* the reviewable files, in their order
    Ungated,         \* those _gate_file has no check for: their changes are unverified
    BatchSize,       \* REVIEW_FIX_BATCH_SIZE
    CycleCap,        \* the limit of passes of one process
    MaxFixAttempts,  \* MAX_FIX_ATTEMPTS, 3 in the code
    ZeroBatches,     \* batches without a completed review that stop a pass, 3 in the code
    LastRound,       \* the rescan round that escalates instead of repairing, 4 in the code
    MaxRestarts      \* bound: processes after the first one

ASSUME AuditAssumption ==
    /\ NumFiles \in Nat \ {0} /\ Ungated \subseteq 1 .. NumFiles /\ BatchSize \in Nat \ {0} /\ CycleCap \in Nat \ {0}
    /\ MaxFixAttempts \in Nat \ {0} /\ ZeroBatches \in Nat \ {0}
    /\ LastRound \in Nat \ {0, 1} /\ MaxRestarts \in Nat

VARIABLES
    disk, head,  \* the bytes of each file in the tree and in HEAD
    verdict,     \* history: the last completed review of each file that the process
                 \* made or replayed, and of which bytes
    saved,       \* the checkpoint on disk
    mem,         \* the checkpoint of the process
    enabled,     \* does the process still write it?
    pc,          \* what the process does next
    phase,       \* whose repair it is doing
    cycle,       \* the number of the pass, or of the rescan round
    scope,       \* the files of this pass, or those a rescan has to look at
    todo,        \* the files of the pass that no batch has taken
    replay,      \* files whose findings an earlier process has paid for
    work,        \* the files under repair
    pass,        \* what this pass has seen and done
    run,         \* what the run has seen and done
    restarts

bytes == <<disk, head, verdict>>
stored == <<saved, mem, enabled>>
place == <<phase, cycle, scope, todo, replay, work>>
vars == <<bytes, stored, pc, place, pass, run, restarts>>

Files == 1 .. NumFiles
\* Enough numbers for the bytes one file can have at a time: on disk, in HEAD,
\* those reviewed last, those of the two checkpoints, at the start, and new ones.
Bytes == 0 .. 7
Review == [of : Bytes, is : {"none", "clean", "faulty"}]
NoReview == [of |-> 0, is |-> "none"]
NewRun == [live |-> TRUE, anchored |-> FALSE, start |-> [f \in Files |-> 0],
           reviewed |-> [f \in Files |-> NoReview], applied |-> {}]
FreshPass == [reviewed |-> {}, incomplete |-> {}, candidates |-> {}, attempted |-> {},
              changed |-> {}, fixable |-> FALSE, applied |-> FALSE, stopped |-> FALSE,
              zero |-> 0]
FreshRun == [unresolved |-> {}, manual |-> FALSE, applied |-> {},
             attempts |-> [f \in Files |-> 0], dirty |-> FALSE, abort |-> FALSE,
             converged |-> FALSE, remediated |-> {}]

NewBytes(f) == Min(Bytes \ {disk[f], head[f], verdict[f].of, saved.start[f], mem.start[f],
                            saved.reviewed[f].of, mem.reviewed[f].of})
Edited(A) == [f \in Files |-> IF f \in A THEN NewBytes(f) ELSE disk[f]]

Init ==
    /\ disk = [f \in Files |-> 0] /\ head = disk
    /\ verdict = [f \in Files |-> NoReview]
    /\ saved = [NewRun EXCEPT !.live = FALSE] /\ mem = saved /\ enabled = TRUE
    /\ pc = "down" /\ phase = "early" /\ cycle = 0
    /\ scope = {} /\ todo = {} /\ replay = {} /\ work = {}
    /\ pass = FreshPass /\ run = FreshRun /\ restarts = 0

----------------------------------------------------------------------------
(* The checkpoint.                                                         *)

\* RunCheckpoint.save: one failed write disables the checkpoint.  (Nobody reads what
\* the last process writes: there the write succeeds.)
Save(data) ==
    /\ mem' = data
    /\ \/ enabled /\ saved' = data /\ UNCHANGED enabled
       \/ saved' = saved /\ enabled' = FALSE /\ restarts < MaxRestarts

\* is_resumable: no terminal status, and something to pick up.
Resumable == saved.live /\ \E f \in Files : saved.reviewed[f].is # "none"

\* verify_reviewed: findings are replayed for files that have not changed.
Replayable == {f \in Files : saved.reviewed[f] = [of |-> disk[f], is |-> "faulty"]}

\* _resume_carried_changes: what earlier processes of the run have applied and
\* git still shows as changed.
Carried == IF saved.anchored THEN {f \in saved.applied : head[f] # saved.start[f]} ELSE {}

\* Numbers mean nothing but equality: each file's are given anew, in the order HEAD,
\* start, last review.
Renumbered(f, b) ==
    LET known == <<head[f], saved.start[f], saved.reviewed[f].of>>
    IN  Cardinality({known[i] : i \in 1 .. Min({j \in DOMAIN known : known[j] = b})}) - 1
Reread(f) == LET r == saved.reviewed[f]
             IN  IF r.is = "none" THEN r ELSE [r EXCEPT !.of = Renumbered(f, r.of)]
OnDisk == [saved EXCEPT !.start = [f \in Files |-> Renumbered(f, saved.start[f])],
                        !.reviewed = [f \in Files |-> Reread(f)]]

\* A process begins.  It continues the checkpoint unless the policy is another
\* one; the reviews are verified against the tree before uncommitted changes are
\* set aside; nothing is carried over when HEAD does not descend from the start.
\* One failed write disables the checkpoint.
Start ==
    /\ pc \in {"down", "changed"}
    /\ \E policyHolds, descends \in BOOLEAN :
          LET resumed == Resumable /\ policyHolds
              carried == IF resumed /\ descends THEN Carried ELSE {}
          IN  /\ mem' = [(IF resumed THEN OnDisk ELSE NewRun) EXCEPT !.live = TRUE, !.anchored = TRUE]
              /\ replay' = IF resumed THEN Replayable ELSE {}
              /\ run' = [FreshRun EXCEPT !.applied = carried]
              /\ pass' = [FreshPass EXCEPT !.changed = carried]
    /\ \/ saved' = mem' /\ UNCHANGED enabled
       \/ saved' = OnDisk /\ enabled' = FALSE /\ restarts < MaxRestarts
    /\ head' = [f \in Files |-> 0] /\ disk' = head'
    /\ pc' = "early" /\ phase' = "early" /\ cycle' = 1 /\ scope' = Files /\ todo' = Files
    /\ work' = {}
    /\ UNCHANGED <<verdict, restarts>>

\* What the loops of a process keep is read no more.
Forget ==
    /\ phase' = "early" /\ cycle' = 0 /\ pass' = FreshPass
    /\ scope' = {} /\ todo' = {} /\ replay' = {} /\ work' = {}

\* The process dies, or an error ends it: then the checkpoint is armed again and
\* marked interrupted.  A run that has ended without completing is taken up again.
Stop ==
    /\ pc \notin {"down", "changed"} /\ restarts < MaxRestarts
    /\ saved' \in {saved, mem} /\ mem' = saved' /\ saved'.live
    /\ pc' = "down" /\ enabled' = TRUE /\ restarts' = restarts + 1
    /\ Forget /\ run' = FreshRun
    /\ verdict' = [f \in Files |-> NoReview]
    /\ UNCHANGED <<disk, head>>

\* Somebody else commits one file, or takes what the run has committed of it back.
OwnerCommits ==
    /\ pc = "down" /\ saved.live /\ pc' = "changed"
    /\ \E f \in Files : \E b \in {NewBytes(f), saved.start[f]} :
          disk' = [disk EXCEPT ![f] = b] /\ head' = [head EXCEPT ![f] = b]
    /\ UNCHANGED <<verdict, stored, place, pass, run, restarts>>

----------------------------------------------------------------------------
(* Review.                                                                 *)

\* The next batch in the order of the files; findings that are replayed come
\* with the first one.
Batch == LET rest == todo \ replay
         IN  replay \cup {f \in rest : Cardinality({g \in rest : g <= f}) <= BatchSize}

\* _review_all: each file is found clean or faulty, or its review fails.
Answers(files) == [files -> {"clean", "faulty", "incomplete"}]
Reviewed(a) == {f \in DOMAIN a : a[f] # "incomplete"}
Faulty(a) == {f \in DOMAIN a : a[f] = "faulty"}
Remember(old, a) ==
    [f \in Files |-> IF f \in DOMAIN a /\ a[f] # "incomplete"
                     THEN [of |-> disk[f], is |-> a[f]] ELSE old[f]]

\* Mutant of StillUnresolved: only this batch's findings stay open.
ForgottenUnresolved(faulty, clean) == faulty

\* _update_unresolved_fix_ledger: a finding is open until a later completed review
\* of its file is clean.
StillUnresolved(faulty, clean) == (run.unresolved \ clean) \cup faulty

\* Mutant of Spent: one attempt too many.
SpentLater(faulty) == {f \in faulty : run.attempts[f] > MaxFixAttempts}

\* Files that are set aside for a human instead of being repaired again.
Spent(faulty) == {f \in faulty : run.attempts[f] >= MaxFixAttempts}

\* _review_residue_is_not_an_outage, of completed_review_files and sweep_files.
MostlyUnreviewed(completed) == 2 * Cardinality(completed \cap scope) < Cardinality(scope)

\* One batch is reviewed and the checkpoint flushed.  After ZeroBatches batches in
\* a row without a completed review the pass stops; the run goes on to its gates
\* when the process has reviewed at least half of the scope, in this pass or in an
\* earlier one, else it is aborted and the tree reset, but not under --allow-dirty.
\* Faulty files that have used up their attempts need a human.
ReviewBatch ==
    /\ pc = "review" /\ Batch # {} /\ ~pass.stopped
    /\ \E a \in Answers(Batch \ replay), paid \in BOOLEAN :
         LET faulty == Faulty(a) \cup replay
             clean  == Reviewed(a) \ Faulty(a)
             zero   == IF DOMAIN a # {} /\ Reviewed(a) = {} THEN pass.zero + 1 ELSE 0
             seen   == pass.reviewed \cup Reviewed(a) \cup replay
             halted == zero >= ZeroBatches
             fixing == IF halted \/ ~paid THEN {} ELSE faulty \ Spent(faulty)
         IN /\ verdict' = [f \in Files |-> IF f \in replay THEN mem.reviewed[f]
                                           ELSE Remember(verdict, a)[f]]
            /\ Save([mem EXCEPT !.reviewed = Remember(mem.reviewed, a)])
            /\ pass' = [pass EXCEPT !.reviewed = seen, !.zero = zero,
                           !.incomplete = @ \cup (DOMAIN a \ Reviewed(a)),
                           !.candidates = @ \cup (IF halted THEN {} ELSE faulty),
                           !.fixable = @ \/ fixing # {},
                           !.stopped = halted \/ ~paid]
            /\ run' = [run EXCEPT !.unresolved = StillUnresolved(faulty, clean),
                          !.manual = @ \/ (~halted /\ paid /\ Spent(faulty) # {}),
                          !.attempts = [f \in Files |-> IF f \in fixing THEN @[f] + 1 ELSE @[f]],
                          !.abort = halted /\ MostlyUnreviewed({f \in Files : verdict'[f].is # "none"})]
            /\ disk' \in IF run'.abort THEN {head, disk} ELSE {disk}
            /\ todo' = todo \ Batch /\ replay' = {}
            /\ work' = fixing
            /\ pc' = IF fixing = {} THEN "review" ELSE "repair"
    /\ phase' = "pass"
    /\ UNCHANGED <<head, cycle, scope, restarts>>

----------------------------------------------------------------------------
(* Repair, record, commit.                                                 *)

\* The files a rescan has to look at: what the bridge or its last repair changed and
\* a gate could judge, unless that repair left some of its files alone.
Pending(A) ==
    IF phase \notin {"bridge", "rescan"} THEN scope
    ELSE IF work \subseteq A THEN A \ Ungated ELSE {}

\* _fix_files returns: the files A are changed, and all the files it was given had
\* their turn or only those.  It makes commits on the way in the passes only.
Repair ==
    /\ pc = "repair"
    /\ \E A \in SUBSET Files, all \in BOOLEAN :
          /\ disk' = Edited(A)
          /\ head' \in IF phase = "pass" THEN {head, disk'} ELSE {head}
          /\ run' = [run EXCEPT !.applied = @ \cup A,
                                !.manual = @ \/ (phase = "rescan" /\ ~(work \subseteq A))]
          /\ pass' = IF phase \in {"bridge", "rescan"} THEN pass
                     ELSE [pass EXCEPT !.changed = @ \cup A,
                              !.applied = @ \/ (phase \in {"pass", "competitor"} /\ A # {}),
                              !.fixable = @ \/ (phase = "competitor" /\ A # {}),
                              !.attempted = @ \cup IF all THEN work ELSE work \cap A]
          /\ scope' = Pending(A)
    /\ pc' = IF phase \in {"baseline", "competitor"} THEN "commit" ELSE "record"
    /\ UNCHANGED <<verdict, stored, phase, cycle, todo, replay, work, restarts>>

\* Where a phase goes on after its record and its commit.
Onward == pc' = CASE phase = "baseline"           -> "purpose"
                  [] phase \in {"early", "pass"} -> "review"
                  [] phase = "competitor"         -> "decide"
                  [] OTHER                        -> "rescan"

\* DirtyTreeError: candidates stay on disk, or are checked out.  A pass, the gate
\* and the bridge end the loop; phase one takes note and goes on all the same; a
\* rescan asks for a human; the repair of the baseline ends the process (Stop).
RepairDirty ==
    /\ pc = "repair" /\ phase # "baseline"
    /\ \E D \in SUBSET Files \ {{}} :
          disk' \in {Edited(D)} \cup (IF phase = "rescan" THEN {} ELSE {disk})
    /\ run' = IF phase = "rescan" THEN [run EXCEPT !.manual = TRUE]
              ELSE [run EXCEPT !.dirty = TRUE]
    /\ pass' = [pass EXCEPT !.stopped = @ \/ phase = "pass"]
    /\ pc' = IF phase \in {"early", "pass"} THEN "review" ELSE "settle"
    /\ UNCHANGED <<head, verdict, stored, place, restarts>>

\* _resume_record_applied.  The gate records after its commit, the others before.
Record ==
    /\ pc = "record"
    /\ Save([mem EXCEPT !.applied = run.applied])
    /\ IF phase = "competitor" THEN Onward ELSE pc' = "commit"
    /\ UNCHANGED <<bytes, place, pass, run, restarts>>

\* _commit_and_sync: everything on disk is committed, or reset when the publication
\* gate is red.  An outage of the verifier or the cost cap stops a pass after it.
Commit ==
    /\ pc = "commit"
    /\ \/ head' = disk /\ UNCHANGED disk
       \/ disk' = head /\ UNCHANGED head
    /\ IF phase = "competitor" THEN pc' = "record" ELSE Onward
    /\ \E cut \in IF phase = "pass" THEN BOOLEAN ELSE {FALSE} :
          pass' = [pass EXCEPT !.stopped = @ \/ cut]
    /\ UNCHANGED <<verdict, stored, place, run, restarts>>

----------------------------------------------------------------------------
(* The passes.                                                             *)

\* Phases zero and one: the red baseline is repaired, then the purpose gaps are, before
\* the first pass, or either or both are passed over.  (The first is not recorded.)
Early ==
    /\ \/ pc = "early" /\ pc' = "repair" /\ phase' = "baseline"
       \/ pc \in {"early", "purpose"} /\ pc' \in {"repair", "review"} /\ phase' = "early"
    /\ UNCHANGED <<bytes, stored, cycle, scope, todo, replay, work, pass, run, restarts>>

\* The accounting of a pass: every file of its scope has a completed review, and
\* every faulty one had its turn in a repair.
Complete ==
    /\ ~pass.stopped /\ pass.incomplete = {}
    /\ scope \subseteq pass.reviewed /\ pass.candidates \subseteq pass.attempted

\* The loop is left.
Leave == /\ pc' = "bridge" /\ scope' = {} /\ pass' = FreshPass
         /\ UNCHANGED <<phase, cycle>>

\* The last batch is done or the pass was stopped.  After the first pass comes the
\* competitor gate, whose failure ends the loop like an incomplete pass.
EndPass ==
    /\ pc = "review" /\ (Batch = {} \/ pass.stopped)
    /\ IF Complete /\ cycle = 1
       THEN \/ pc' = "repair" /\ phase' = "competitor" /\ UNCHANGED <<cycle, scope, pass>>
            \/ Leave
       ELSE IF Complete THEN pc' = "decide" /\ UNCHANGED <<phase, cycle, scope, pass>> ELSE Leave
    /\ work' = {} /\ todo' = {} /\ replay' = {}
    /\ UNCHANGED <<bytes, stored, run, restarts>>

\* Mutant of NextScope: the files changed by the gate or before the first pass are
\* not reviewed again.
NextScopeOfThePass == pass.changed \cap pass.attempted

\* _next_cycle_review_paths: exactly what the pass, the gate and the early phases
\* have changed.
NextScope == pass.changed

\* Converged when nothing was to be repaired and nothing is open; else the next pass
\* looks at what has changed, if anything has and the limit allows.
Decide ==
    /\ pc = "decide"
    /\ run' = [run EXCEPT !.converged = ~pass.fixable /\ run.unresolved = {} /\ ~run.manual]
    /\ IF pass.fixable /\ pass.applied /\ cycle < CycleCap
       THEN /\ pc' = "review" /\ phase' = "pass" /\ cycle' = cycle + 1
            /\ scope' = NextScope /\ todo' = NextScope /\ pass' = FreshPass
       ELSE Leave /\ UNCHANGED todo
    /\ UNCHANGED <<bytes, stored, replay, work, restarts>>

----------------------------------------------------------------------------
(* Purpose gaps, and the end.                                              *)

\* Purpose gaps are repaired once more, unless the run was stopped or has none.
Bridge ==
    /\ pc = "bridge"
    /\ \/ pc' = "settle" /\ phase' = phase
       \/ pc' = "repair" /\ phase' = "bridge" /\ ~run.dirty /\ ~run.abort
    /\ cycle' = 2
    /\ run' = [run EXCEPT !.unresolved = {}, !.attempts = FreshRun.attempts]
    /\ UNCHANGED <<bytes, stored, scope, todo, replay, work, pass, restarts>>

\* The last round repairs nothing any more.
Escalate(faulty) == faulty # {} /\ cycle >= LastRound

\* What the bridge changed is reviewed and repaired round after round.
Rescan ==
    /\ pc = "rescan"
    /\ \E a \in Answers(scope) :
          LET faulty == Faulty(a) IN
          /\ verdict' = Remember(verdict, a)
          /\ run' = [run EXCEPT !.manual = @ \/ Reviewed(a) # DOMAIN a \/ Escalate(faulty)]
          /\ IF faulty = {} \/ Escalate(faulty)
             THEN pc' = "settle" /\ UNCHANGED <<phase, cycle, work>>
             ELSE /\ pc' = "repair" /\ phase' = "rescan" /\ work' = faulty
                  /\ cycle' = Min({cycle + 1, LastRound})
    /\ scope' = {}
    /\ UNCHANGED <<disk, head, stored, todo, replay, pass, restarts>>

\* Readiness remediation, once: files that failing gates name are repaired after the
\* last review and without another.  It is not recorded, and it takes convergence back
\* only by leaving a candidate on disk.
Remediate ==
    /\ pc = "settle" /\ ~run.dirty /\ ~run.abort
    /\ \E A \in SUBSET Files \ {{}} :
          /\ disk' = Edited(A)
          /\ \/ pc' = "ship" /\ run' = [run EXCEPT !.remediated = A]
             \/ pc' = "close" /\ run' = [run EXCEPT !.dirty = TRUE, !.manual = TRUE]
    /\ Forget
    /\ UNCHANGED <<head, verdict, stored, restarts>>

\* Its commit, or its reset when the publication gate is red.
Ship ==
    /\ pc = "ship" /\ pc' = "close"
    /\ \/ head' = disk /\ UNCHANGED <<disk, run>>
       \/ disk' = head /\ head' = head /\ run' = [run EXCEPT !.remediated = {}]
    /\ UNCHANGED <<verdict, stored, place, pass, restarts>>

\* A file that needs a human takes convergence back, and so may the later gates.
\* The terminal status is written, with retries, or the checkpoint stays as it is;
\* a run that is not complete can be resumed.
Settle ==
    /\ pc \in {"settle", "close"} /\ pc' = "done"
    /\ \E green \in BOOLEAN, written \in BOOLEAN :
          LET complete == run.converged /\ ~run.manual /\ green
          IN  /\ run' = [run EXCEPT !.converged = @ /\ ~run.manual]
              /\ saved' = IF written THEN [mem EXCEPT !.live = ~complete] ELSE saved
              /\ mem' = saved'
    /\ Forget
    /\ UNCHANGED <<bytes, enabled, restarts>>

Next == \/ Start \/ Early \/ ReviewBatch \/ Repair \/ RepairDirty \/ Record \/ Commit
        \/ EndPass \/ Decide \/ Bridge \/ Rescan \/ Remediate \/ Ship \/ Settle
        \/ Stop \/ OwnerCommits

Spec == Init /\ [][Next]_vars

----------------------------------------------------------------------------
(* Properties.                                                             *)

Checkpoint == [live : BOOLEAN, anchored : BOOLEAN, start : [Files -> Bytes],
               reviewed : [Files -> Review], applied : SUBSET Files]

TypeOK ==
    /\ disk \in [Files -> Bytes] /\ head \in [Files -> Bytes]
    /\ verdict \in [Files -> Review]
    /\ saved \in Checkpoint /\ mem \in Checkpoint /\ enabled \in BOOLEAN
    /\ pc \in {"down", "changed", "early", "purpose", "review", "repair", "record", "commit",
               "decide", "bridge", "rescan", "settle", "ship", "close", "done"}
    /\ phase \in {"baseline", "early", "pass", "competitor", "bridge", "rescan"}
    /\ cycle \in 0 .. CycleCap + LastRound
    /\ scope \subseteq Files /\ todo \subseteq Files /\ replay \subseteq Files
    /\ work \subseteq Files
    /\ pass \in [reviewed : SUBSET Files, incomplete : SUBSET Files,
                 candidates : SUBSET Files, attempted : SUBSET Files,
                 changed : SUBSET Files, fixable : BOOLEAN, applied : BOOLEAN,
                 stopped : BOOLEAN, zero : 0 .. ZeroBatches]
    /\ run \in [unresolved : SUBSET Files, manual : BOOLEAN, applied : SUBSET Files,
                attempts : [Files -> 0 .. MaxFixAttempts],
                dirty : BOOLEAN, abort : BOOLEAN, converged : BOOLEAN,
                remediated : SUBSET Files]
    /\ restarts \in 0 .. MaxRestarts

\* A run that leaves the passes converged, and one that ends so, has every file on
\* disk in exactly the bytes that the last completed review of that file found clean,
\* through red commit gates, resets, repairs that reach into other files, the gate
\* between the passes, bridging and resumed processes.  The code exempts three things:
\* bridged files no gate could judge are not rescanned (flexfactor.py:22692), files
\* that readiness remediation has edited and committed after the last review are not
\* reviewed (flexfactor.py:23260-23303), and a run whose rollback was refused
\* (dirty_abort) is converged in name only.
ConvergedMeansReviewed ==
    pc \in {"bridge", "done"} /\ run.converged /\ ~run.dirty =>
        \A f \in Files :
            \/ verdict[f] = [of |-> disk[f], is |-> "clean"]
            \/ pc = "done" /\ f \in (Ungated \cap run.applied) \cup run.remediated

\* When a follow-up pass begins, each file outside its scope still has the bytes its
\* last review saw: "previous-pass-edits" loses no change of the early phases, of
\* another file's repair, or of the competitor gate (_next_cycle_review_paths).  Two
\* exemptions: a file whose findings are still open may have changed since (it keeps
\* the run from converging), and nothing is promised after a refused rollback.
DeltaScopeCoversChanges ==
    pc = "review" /\ phase = "pass" /\ cycle > 1 /\ todo = scope /\ ~run.dirty =>
        \A f \in Files \ scope : verdict[f].of = disk[f] \/ f \in run.unresolved

\* What the docstring of _resume_record_applied promises (src/flexfactor.py:1104): a
\* repair is recorded before the commit that publishes it, so that a process that
\* resumes the run knows it for its own.
RepairsAreRecordedFirst ==
    [][enabled /\ pc \in {"repair", "commit"} =>
          \A f \in Files : head'[f] # head[f] => f \in saved.applied]_vars
=============================================================================
