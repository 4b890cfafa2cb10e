------------------------------ MODULE FixLoop ------------------------------
(***************************************************************************)
(* One call of _fix_files in src/flexfactor.py and what its caller does    *)
(* with the result: the repair of each file, the prefetched generations of *)
(* the files to come, the cross-file (structural) attempt, the rollbacks,  *)
(* and the commits of _commit_and_sync.                                    *)
(*                                                                         *)
(* The bytes of a file are numbers that say only whether two contents are  *)
(* equal; a number nothing refers to any more is used again.  What a model *)
(* answers and what a gate finds is arbitrary.  `accepted` remembers for   *)
(* which bytes of a file a gate that did not fail and the reviewer, if     *)
(* there is one, let the candidate stay.                                   *)
(***************************************************************************)
EXTENDS Naturals, FiniteSets, FiniteSetsExt

CONSTANTS
    NumFiles,          \* the files with fixable findings, in their order
    MaxFixTries,       \* MAX_FIX_TRIES
    AdversarialRounds, \* args.adversarial_rounds
    PrefetchWorkers,   \* FIX_PREFETCH_WORKERS
    CommitEvery,       \* commit_every
    StructuralMax      \* STRUCTURAL_MAX_PER_RUN

ASSUME CountsAssumption ==
    /\ NumFiles \in Nat \ {0} /\ MaxFixTries \in Nat \ {0}
    /\ AdversarialRounds \in Nat /\ PrefetchWorkers \in Nat
    /\ CommitEvery \in Nat \ {0} /\ StructuralMax \in Nat

VARIABLES
    disk,        \* the bytes of each file in the working tree
    committed,   \* those of HEAD
    accepted,    \* history: the bytes of each file that were let stay
    prefetched,  \* the generation kept in flight for each file
    reviewer,    \* no second model, its veto, or the adversarial verifier
    pc,          \* the next step of the main thread
    rel,         \* the file at work, NumFiles + 1 after the last
    original,    \* its text when its turn began
    base,        \* the text its next candidate is generated from
    mode,        \* edit blocks or the whole file
    attempt, editRetries, buildTries, advRounds,  \* the counters of the turn
    outcome,     \* what the last attempt came to
    keptOk,      \* whether the gate could judge the candidate
    snapshots,   \* the bytes a structural attempt will restore
    touched,     \* the files it writes
    structuralUsed, sinceCommit,
    applied, unverified,  \* the answer
    outage,      \* did the verifier go away?
    dirtyFiles,  \* candidates whose rollback was refused
    goesOn       \* will a later phase of the run commit all the same?

tree == <<disk, committed, accepted>>
turn == <<rel, original, base, mode, attempt, editRetries, buildTries, advRounds>>
quiet == <<reviewer, goesOn>>
scratch == <<outcome, keptOk, snapshots, touched>>
answer == <<applied, unverified, structuralUsed, sinceCommit>>
vars == <<tree, turn, answer, reviewer, prefetched, pc, scratch, outage, dirtyFiles, goesOn>>

Files == 1 .. NumFiles
\* Enough numbers for the bytes one file can have at a time: on disk, in HEAD,
\* before the turn or the structural attempt, under a prefetch, and a new one.
Bytes == 0 .. 5
NoGeneration == [st |-> "none", of |-> 0]

\* Bytes file f does not have and nothing remembers.
NewBytes(f) == Min(Bytes \ {disk[f], committed[f], snapshots[f], prefetched[f].of,
                            IF f = rel THEN original ELSE disk[f]})
Adversarial == reviewer = "adversarial"
\* The ceiling of the attempt loop.
MaxTries == MaxFixTries + (IF Adversarial THEN AdversarialRounds + 2 ELSE 0)

Init ==
    /\ disk = [f \in Files |-> 0] /\ committed = disk
    /\ accepted = [f \in Files |-> {}]
    /\ prefetched = [f \in Files |-> NoGeneration]
    /\ reviewer \in {"none", "veto", "adversarial"}
    /\ pc = "pick" /\ rel = 1 /\ original = 0 /\ base = 0 /\ mode = "edits"
    /\ attempt = 1 /\ editRetries = 1 /\ buildTries = 0 /\ advRounds = 0
    /\ outcome = "none" /\ keptOk = TRUE
    /\ snapshots = disk /\ touched = {}
    /\ structuralUsed = 0 /\ sinceCommit = 0
    /\ applied = {} /\ unverified = {} /\ dirtyFiles = {} /\ outage = FALSE
    /\ goesOn = FALSE

----------------------------------------------------------------------------
(* Prefetched first attempts.                                              *)

\* The main thread keeps the generations of the next files in flight.
TopUp == LET kept == {f \in Files : prefetched[f].st # "none"}
             next == {f \in Files \ kept : f > rel}
         IN  [f \in Files |->
                 IF f \in next /\ Cardinality(kept \cup {g \in next : g <= f}) <= PrefetchWorkers
                 THEN [NoGeneration EXCEPT !.st = "submitted"] ELSE prefetched[f]]

\* _first_attempt in a thread of the pool: it reads the file as it is now and
\* generates; or it comes to nothing (no budget, unreadable, cancelled).
FirstAttempt(f) ==
    /\ prefetched[f].st = "submitted"
    /\ pc \notin {"returned", "dirty", "aborted"}
    /\ \E r \in {[st |-> "ready", of |-> disk[f]], [st |-> "useless", of |-> 0]} :
          prefetched' = [prefetched EXCEPT ![f] = r]
    /\ UNCHANGED <<quiet, tree, turn, answer, pc, scratch,
                   dirtyFiles, outage>>

----------------------------------------------------------------------------
(* The turn of one file.                                                   *)

NextFile ==
    /\ rel' = rel + 1 /\ pc' = "pick"
    /\ outcome' = "none" /\ original' = 0 /\ base' = 0 /\ attempt' = 1
    /\ mode' = "edits" /\ editRetries' = 1 /\ buildTries' = 0 /\ advRounds' = 0
    /\ snapshots' = [f \in Files |-> 0] /\ touched' = {} /\ keptOk' = TRUE

\* Mutant of Usable: a prefetched generation is taken whatever text it saw.
AlwaysUsable(f) == prefetched[f].st = "ready"

\* A prefetched generation is good for exactly the text it saw.
Usable(f) == prefetched[f].st = "ready" /\ prefetched[f].of = disk[f]

\* The next file begins: its prefetched generation is awaited and consumed, its
\* text read.  The budget may be gone, the wait time out, the read be refused.
Pick ==
    /\ pc = "pick" /\ rel \in Files
    /\ \/ /\ pc' = "finish"
          /\ UNCHANGED <<tree, turn, answer, scratch, prefetched>>
       \/ /\ NextFile
          /\ prefetched' = [TopUp EXCEPT ![rel] = NoGeneration]
          /\ UNCHANGED <<tree, answer>>
       \/ /\ prefetched[rel].st # "submitted"
          /\ pc' = "attempt"
          /\ original' = disk[rel]
          /\ base' = IF Usable(rel) THEN prefetched[rel].of ELSE disk[rel]
          /\ prefetched' = [TopUp EXCEPT ![rel] = NoGeneration]
          /\ UNCHANGED <<tree, answer, rel, mode, attempt, editRetries, buildTries, advRounds,
                         scratch>>
    /\ UNCHANGED <<quiet, dirtyFiles, outage>>

\* The attempt ends here and the loop goes on, or the turn is over.
Again(o) == /\ outcome' = o /\ pc' = "attempt" /\ attempt' = attempt + 1 /\ base' = original
            /\ UNCHANGED <<rel, original, mode, editRetries, advRounds>>
Settles(o) == outcome' = o /\ pc' = "settle" /\ UNCHANGED turn

\* Mutant of Rollback: the candidate stays where it is.
KeepCandidate(then) == disk' = disk /\ then /\ UNCHANGED dirtyFiles

\* The original bytes are written back, or the write is refused and the
\* candidate stays: the fix pass stops with a dirty file.
Rollback(then) ==
    \/ disk' = [disk EXCEPT ![rel] = original] /\ then /\ UNCHANGED dirtyFiles
    \/ /\ disk' = disk /\ dirtyFiles' = dirtyFiles \cup {rel}
       /\ pc' = "finish" /\ UNCHANGED <<turn, outcome>>

\* Mutant of BuildBreak: a build break does not count as an attempt.
UncountedBreak(o) == /\ outcome' = o /\ pc' = "attempt" /\ base' = original
                     /\ UNCHANGED <<rel, original, mode, attempt, editRetries, buildTries, advRounds>>

\* A build break counts for the adversarial loop only; the last one ends it.
BuildBreak(o) ==
    IF Adversarial
    THEN /\ buildTries' = buildTries + 1
         /\ IF buildTries + 1 >= MaxFixTries
            THEN /\ outcome' = o /\ pc' = "settle"
                 /\ UNCHANGED <<rel, original, base, mode, attempt, editRetries, advRounds>>
            ELSE Again(o)
    ELSE Again(o) /\ UNCHANGED buildTries

\* What a generation can come to before anything is written.
Generate ==
    /\ pc = "attempt" /\ attempt <= MaxTries
    /\ \/ Settles("noop") \/ Settles("oversized")
       \/ Settles("skip") /\ mode = "whole"
       \/ /\ mode = "edits"      \* the edits do not apply: once more, with feedback
          /\ outcome' = outcome /\ pc' = "attempt" /\ attempt' = attempt + 1
          /\ base' = original /\ editRetries' = 0
          /\ UNCHANGED <<rel, original, mode, buildTries, advRounds>>
       \/ /\ mode = "edits"      \* or the whole file, in the same attempt
          /\ mode' = "whole" /\ base' = original
          /\ UNCHANGED <<rel, original, attempt, editRetries, buildTries, advRounds, pc, outcome>>
       \/ BuildBreak("invalid")  \* the source does not parse
    /\ UNCHANGED <<quiet, tree, answer, prefetched, keptOk, snapshots, touched, dirtyFiles,
                   outage>>

\* The candidate is written over the file, whole files possibly unchanged.
WriteCandidate ==
    /\ pc = "attempt" /\ attempt <= MaxTries
    /\ \E b \in {NewBytes(rel)} \cup (IF mode = "whole" THEN {original} ELSE {}) :
          /\ disk' = [disk EXCEPT ![rel] = b]
          /\ accepted' = [accepted EXCEPT ![rel] = @ \ ({b} \ {original})]
    /\ pc' = "gate"
    /\ UNCHANGED <<quiet, committed, turn, answer, prefetched, scratch, dirtyFiles, outage>>

\* The wall clock of the file, the budget, or the write of the candidate:
\* nothing of this attempt is on disk.
AttemptStops ==
    /\ pc = "attempt"
    /\ \/ attempt <= MaxTries /\ Settles("skip") /\ UNCHANGED <<disk, dirtyFiles>>
       \/ /\ attempt <= MaxTries
          /\ pc' = "finish" /\ UNCHANGED <<disk, dirtyFiles, turn, outcome>>
       \/ attempt <= MaxTries /\ Rollback(Settles("timeout"))
       \/ /\ attempt > MaxTries
          /\ Settles(IF outcome = "none" THEN "skip" ELSE outcome)
          /\ UNCHANGED <<disk, dirtyFiles>>
    /\ UNCHANGED <<quiet, committed, accepted, answer, prefetched, keptOk, snapshots, touched,
                   outage>>

\* _gate_file: broken, good, or nothing to judge it with.
Gate ==
    /\ pc = "gate"
    /\ \/ Rollback(BuildBreak("revert")) /\ UNCHANGED keptOk
       \/ /\ keptOk' \in BOOLEAN /\ pc' = "verify"
          /\ UNCHANGED <<disk, turn, outcome, dirtyFiles>>
    /\ UNCHANGED <<quiet, committed, accepted, answer, prefetched, snapshots, touched, outage>>

\* The candidate stays.
Accept == /\ accepted' = [accepted EXCEPT ![rel] = @ \cup {disk[rel]}]
          /\ Settles("fixed") /\ UNCHANGED <<disk, dirtyFiles, outage>>

\* The verifier never answers: the candidate is rejected, the run will stop.
VerifierOutage == Rollback(Settles("reject")) /\ outage' = TRUE

\* The single veto, or the adversarial verifier with its rounds.
Verify ==
    /\ pc = "verify"
    /\ \/ Accept
       \/ /\ reviewer = "veto"
          /\ Rollback(Again("reject") /\ UNCHANGED buildTries)
          /\ UNCHANGED <<accepted, outage>>
       \/ /\ Adversarial /\ UNCHANGED accepted
          /\ \/ VerifierOutage
             \/ Rollback(pc' = "finish" /\ UNCHANGED <<turn, outcome>>) /\ UNCHANGED outage
             \/ /\ UNCHANGED outage
                /\ Rollback(/\ advRounds' = advRounds + 1 /\ outcome' = "reject"
                            /\ UNCHANGED <<rel, original, mode, editRetries, buildTries>>
                            /\ IF advRounds + 1 >= AdversarialRounds
                               THEN pc' = "settle" /\ UNCHANGED <<base, attempt>>
                               ELSE /\ pc' = "attempt" /\ attempt' = attempt + 1
                                    /\ base' = original)
    /\ UNCHANGED <<quiet, committed, answer, prefetched, keptOk, snapshots, touched>>

----------------------------------------------------------------------------
(* What the turn came to.                                                  *)

Kept(paths, flagged) ==
    /\ applied' = applied \cup paths
    /\ unverified' = unverified \cup flagged
    /\ sinceCommit' = sinceCommit + 1

\* A fix counts when its bytes can be read back and differ from those the turn
\* began with; the others are accounted for, and the next file begins.
Settle ==
    /\ pc = "settle"
    /\ \/ /\ outcome = "fixed" /\ disk[rel] # original
          /\ Kept({rel}, IF keptOk THEN {} ELSE {rel})
          /\ pc' = "commit"
          /\ UNCHANGED <<disk, turn, dirtyFiles, structuralUsed, snapshots, touched, outcome,
                         keptOk>>
       \/ /\ outcome = "fixed"
          /\ Rollback(outcome' = "skip" /\ pc' = "settle" /\ UNCHANGED turn)
          /\ UNCHANGED <<answer, snapshots, touched, keptOk>>
       \/ /\ outcome # "fixed" \/ disk[rel] = original
          /\ NextFile /\ UNCHANGED <<disk, answer, dirtyFiles>>
    /\ UNCHANGED <<quiet, committed, accepted, prefetched, outage>>

\* The model says the defect is real but out of reach of this file: one attempt
\* that writes several files after it has taken their snapshots.
StructuralWrite ==
    /\ pc = "settle" /\ outcome = "noop" /\ structuralUsed < StructuralMax
    /\ structuralUsed' = structuralUsed + 1
    /\ \E T \in SUBSET Files \ {{}} :
          /\ touched' = T
          /\ snapshots' = disk
          /\ disk' = [f \in Files |-> IF f \in T THEN NewBytes(f) ELSE disk[f]]
          /\ accepted' = [f \in Files |->
                             IF f \in T THEN accepted[f] \ {NewBytes(f)} ELSE accepted[f]]
    /\ pc' = "structural"
    /\ UNCHANGED <<quiet, committed, turn, applied, unverified, sinceCommit, prefetched,
                   outcome, keptOk, dirtyFiles, outage>>

\* Mutant of StructuralFailed: the files that existed are not written back.
StructuralLeftBehind == NextFile /\ UNCHANGED <<disk, dirtyFiles>>

\* Gate or veto fail and everything is restored, or the restore is refused.
StructuralFailed ==
    \/ disk' = snapshots /\ NextFile /\ UNCHANGED dirtyFiles
    \/ /\ \E R \in SUBSET touched \ {touched} :
             disk' = [f \in Files |-> IF f \in R THEN snapshots[f] ELSE disk[f]]
       /\ dirtyFiles' = dirtyFiles \cup touched \cup {rel}
       /\ pc' = "finish" /\ UNCHANGED <<turn, scratch>>

\* attempt_structural_fix after its writes: gate each file, ask the reviewer.
Structural ==
    /\ pc = "structural"
    /\ \/ /\ \E U \in SUBSET touched : Kept(touched, U)
          /\ accepted' = [f \in Files |->
                             IF f \in touched THEN accepted[f] \cup {disk[f]} ELSE accepted[f]]
          /\ pc' = "commit"
          /\ UNCHANGED <<disk, turn, dirtyFiles, scratch>>
       \/ StructuralFailed /\ UNCHANGED <<applied, unverified, sinceCommit, accepted>>
    /\ UNCHANGED <<quiet, committed, structuralUsed, prefetched, outage>>

----------------------------------------------------------------------------
(* Commits.                                                                *)

\* _commit_and_sync: everything on disk is staged; it becomes HEAD when the
\* publication gate is green, and is reset to HEAD when it is not.
CommitAndSync == \/ committed' = disk /\ UNCHANGED disk
                 \/ disk' = committed /\ UNCHANGED committed

\* commit_cb after every CommitEvery kept fixes; git may fail and the run ends.
CommitCallback ==
    /\ pc = "commit"
    /\ \/ /\ sinceCommit < CommitEvery
          /\ NextFile /\ UNCHANGED <<disk, committed, sinceCommit>>
       \/ /\ sinceCommit >= CommitEvery
          /\ CommitAndSync /\ sinceCommit' = 0 /\ NextFile
       \/ /\ sinceCommit >= CommitEvery
          /\ pc' = "aborted"
          /\ UNCHANGED <<disk, committed, sinceCommit, turn, scratch>>
    /\ UNCHANGED <<quiet, accepted, applied, unverified, structuralUsed, prefetched,
                   dirtyFiles, outage>>

\* Mutant of Ended: a pass that ends dirty returns like any other.
EndedAsUsual == /\ pc' = "returned" /\ CommitAndSync /\ UNCHANGED goesOn

\* All files are done or the pass stops.  The caller commits, after an outage of
\* the verifier only when something was applied.  A dirty pass raises
\* DirtyTreeError.  The loop of passes, the competitor gate and the bridge try to
\* check the dirty files out and commit nothing more; phase one checks them out as
\* well, but the loop of passes runs on after it; the rescan of the bridge asks for
\* a human and leaves the candidate where it is.
Ended ==
    IF dirtyFiles = {}
    THEN /\ pc' = "returned"
         /\ IF outage /\ applied = {} THEN UNCHANGED <<disk, committed>> ELSE CommitAndSync
         /\ UNCHANGED goesOn
    ELSE /\ pc' = "dirty" /\ UNCHANGED committed
         /\ goesOn' \in BOOLEAN
         /\ \/ UNCHANGED disk
            \/ disk' = [f \in Files |-> IF f \in dirtyFiles THEN committed[f] ELSE disk[f]]

Finish ==
    /\ pc = "finish" \/ (pc = "pick" /\ rel \notin Files)
    /\ Ended
    /\ UNCHANGED <<reviewer, accepted, turn, answer, prefetched, scratch, dirtyFiles, outage>>

\* The next commit of a run that goes on (a pass after phase one, generated tests or
\* the readiness remediation after a rescan) stages whatever is on disk.
LaterCommit ==
    /\ pc = "dirty" /\ goesOn
    /\ CommitAndSync
    /\ pc' = "returned"
    /\ UNCHANGED <<quiet, accepted, turn, answer, prefetched, scratch, dirtyFiles, outage>>

MainThread == \/ Pick \/ Generate \/ WriteCandidate \/ AttemptStops \/ Gate \/ Verify
              \/ Settle \/ StructuralWrite \/ Structural \/ CommitCallback \/ Finish
              \/ LaterCommit
Next == MainThread \/ \E f \in Files : FirstAttempt(f)

\* The main thread runs on; the pool runs what was submitted.
FairSpec == /\ Init /\ [][Next]_vars
            /\ WF_vars(MainThread) /\ \A f \in Files : WF_vars(FirstAttempt(f))

----------------------------------------------------------------------------
(* Properties.                                                             *)

TypeOK ==
    /\ disk \in [Files -> Bytes] /\ committed \in [Files -> Bytes]
    /\ snapshots \in [Files -> Bytes] /\ accepted \in [Files -> SUBSET Bytes]
    /\ prefetched \in [Files -> [st : {"none", "submitted", "ready", "useless"}, of : Bytes]]
    /\ reviewer \in {"none", "veto", "adversarial"}
    /\ pc \in {"pick", "attempt", "gate", "verify", "settle", "structural", "commit", "finish",
               "returned", "dirty", "aborted"}
    /\ rel \in 1 .. NumFiles + 1 /\ original \in Bytes /\ base \in Bytes
    /\ mode \in {"edits", "whole"} /\ editRetries \in {0, 1}
    /\ attempt \in 1 .. MaxTries + 1 /\ buildTries \in 0 .. MaxFixTries
    /\ advRounds \in 0 .. AdversarialRounds + 1
    /\ outcome \in {"none", "noop", "oversized", "skip", "invalid", "revert", "reject",
                    "timeout", "fixed"}
    /\ keptOk \in BOOLEAN /\ outage \in BOOLEAN /\ goesOn \in BOOLEAN
    /\ touched \subseteq Files /\ applied \subseteq Files /\ unverified \subseteq Files
    /\ dirtyFiles \subseteq Files
    /\ structuralUsed \in 0 .. StructuralMax /\ sinceCommit \in 0 .. CommitEvery

\* Whenever no file is at work, each file that differs from HEAD holds bytes that
\* a gate and the reviewer let stay, except where a rollback was refused: every
\* way out of an attempt, including a file of a failed structural attempt, puts
\* the bytes back (the break and continue paths of _fix_files).
NothingUnjudgedLeftOnDisk ==
    pc \in {"pick", "commit", "finish", "returned", "dirty"} =>
        \A f \in Files \ dirtyFiles : disk[f] = committed[f] \/ disk[f] \in accepted[f]

\* HEAD takes no candidate that was not let stay until a pass has ended dirty: neither
\* the commit every CommitEvery fixes nor the one of the caller finds a candidate
\* that is being judged on disk.
CommitsOnlyAccepted ==
    [][pc # "dirty" =>
          \A f \in Files : committed'[f] # committed[f] => committed'[f] \in accepted[f]]_vars

\* What the comment of DirtyTreeError promises (src/flexfactor.py:633): "the caller
\* NEVER stages-and-commits that dirty tree".
DirtyTreeNeverCommitted ==
    [][pc = "dirty" => \A f \in dirtyFiles : committed'[f] = committed[f]]_vars

\* A candidate is written over exactly the bytes it was generated from, though a
\* prefetched generation may be of a file that a structural attempt has changed,
\* or had half changed when the thread read it.
CandidateReplacesWhatItSaw ==
    [][\A f \in Files : (pc = "attempt" /\ pc' = "gate" /\ f = rel) => base = disk[f]]_vars

\* The pass ends whatever the models and gates answer: attempts, edit retries,
\* build tries, verifier rounds and structural attempts are all bounded, and
\* nothing waits for a prefetched generation for ever.
PassEnds == <>(pc \in {"returned", "dirty", "aborted"})
=============================================================================
