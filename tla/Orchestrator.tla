---------------------------- MODULE Orchestrator ----------------------------
(***************************************************************************)
(* The durable authority for one mode's target queue:                      *)
(* SequentialOrchestrator and run_sequential_queue of                      *)
(* src/flexfactor_execution.py.                                            *)
(*                                                                         *)
(* One process owns a queue.  Its state lives twice: `mem' is the          *)
(* dictionary the object holds, `disk' the receipt _save() replaces        *)
(* atomically.  Every method changes mem under the object's lock and then  *)
(* saves; when the save raises, mem has already changed and disk has not.  *)
(* The worker of a target is not trusted: it may call any method of the    *)
(* object with any arguments, in any order, and the object refuses what    *)
(* breaks the order.  A refused call that changes nothing is not a step.   *)
(*                                                                         *)
(* Targets and passes are numbered from 1; an active target of 0 stands    *)
(* for None.  A scope is a set of files: the code compares deduplicated    *)
(* lists, and the order inside them decides nothing.  A receipt that does  *)
(* not exist yet is represented by the fresh one, since loading either     *)
(* gives the same object.                                                  *)
(***************************************************************************)
EXTENDS Integers, Sequences

CONSTANTS
    NTargets,     \* length of the queue (the code allows at most 30)
    Files,        \* the files a repository has
    MaxPasses,    \* MAX_PASSES
    Mode,         \* "audit", "prodready", "refactor" or "scout"
    Flags,        \* the `exhaustive' flags the worker may declare
    MaxCrashes,   \* bound: how often the process dies or exits
    MaxFaults     \* bound: how many saves fail

ASSUME NTargetsAssumption  == NTargets \in Nat \ {0}
ASSUME MaxPassesAssumption == MaxPasses \in Nat \ {0}
ASSUME ModeAssumption      == Mode \in {"audit", "prodready", "refactor", "scout"}
ASSUME FlagsAssumption     == Flags \subseteq BOOLEAN
ASSUME BoundsAssumption    == MaxCrashes \in Nat /\ MaxFaults \in Nat

VARIABLES
    mem,      \* self._state of the running process (= disk while none runs)
    disk,     \* the receipt at state_path
    pc,       \* where run_sequential_queue is
    idx,      \* its loop variable, `index'
    results,  \* its list of exit codes
    crashes,  \* counts process deaths, for the bound
    faults    \* counts failed saves, for the bound

vars == <<mem, disk, pc, idx, results, crashes, faults>>

Targets == 1 .. NTargets

(***************************************************************************)
(* The rows of a receipt                                                   *)
(***************************************************************************)

\* FIRST_PASS_SCOPE: the modes whose pass 1 must cover the whole repository.
WholeRepository == Mode \in {"audit", "prodready"}

\* exit_code of a target that has none yet.
NoCode == -1
ExitCodes == {0, 1, 130}

Pass == [files      : SUBSET Files,
         exhaustive : BOOLEAN,
         status     : {"running", "completed", "interrupted"},
         changed    : SUBSET Files,     \* changed_files, {} until it is set
         reviewed   : SUBSET Files]     \* reconciliation.reviewed_files

Gate == [recorded      : BOOLEAN,
         attempted     : BOOLEAN,
         notApplicable : BOOLEAN,
         implemented   : SUBSET Files]

Finalization == [recorded : BOOLEAN,
                 complete : BOOLEAN,          \* status is "completed"
                 covered  : SUBSET Files]     \* pass and competitor files

NoGate  == [recorded |-> FALSE, attempted |-> FALSE,
            notApplicable |-> FALSE, implemented |-> {}]
NoFinal == [recorded |-> FALSE, complete |-> FALSE, covered |-> {}]

\* What one run of a target leaves: the live item's, or a closed attempt's.
Evidence == [passes : Seq(Pass), gate : Gate, final : Finalization]

Item == [status   : {"queued", "running", "completed", "failed"},
         passes   : Seq(Pass),
         gate     : Gate,
         final    : Finalization,
         exit     : ExitCodes \cup {NoCode},
         attempts : Seq(Evidence)]

Receipt == [items  : [Targets -> Item],
            next   : 1 .. NTargets + 1,
            active : 0 .. NTargets,
            status : {"queued", "running", "completed", "failed"}]

QueuedItem == [status |-> "queued", passes |-> <<>>, gate |-> NoGate,
               final |-> NoFinal, exit |-> NoCode, attempts |-> <<>>]

FreshReceipt == [items |-> [i \in Targets |-> QueuedItem],
                 next |-> 1, active |-> 0, status |-> "queued"]

EvidenceOf(it) == [passes |-> it.passes, gate |-> it.gate, final |-> it.final]

(***************************************************************************)
(* What the methods compute                                                *)
(***************************************************************************)

\* Mutant of ExpectedScope: the gate's files are forgotten.
ExpectedScopeWithoutGate(passes, gate) == passes[Len(passes)].changed

\* The scope begin_pass demands of the pass after the last one.
ExpectedScope(passes, gate) ==
    passes[Len(passes)].changed
        \cup (IF Len(passes) = 1 THEN gate.implemented ELSE {})

\* begin_pass: is this the pass that may start now, with this scope?
MayBegin(it, files) ==
    /\ Len(it.passes) < MaxPasses
    /\ Len(it.passes) = 1 => it.gate.attempted
    /\ Len(it.passes) > 0 => files = ExpectedScope(it.passes, it.gate)

NewPass(files, exhaustive) ==
    [files |-> files, exhaustive |-> exhaustive, status |-> "running",
     changed |-> {}, reviewed |-> {}]

LastPass(it) == it.passes[Len(it.passes)]

LastRuns(it) == Len(it.passes) > 0 /\ LastPass(it).status = "running"

SetLast(it, pass) == [it EXCEPT !.passes[Len(it.passes)] = pass]

\* finish_pass: does the reconciliation of an exhaustive pass fail?
Unreconciled(pass, reviewed, incomplete, unattempted) ==
    /\ pass.exhaustive
    /\ \/ pass.files \ reviewed # {}
       \/ incomplete # {}
       \/ unattempted # {}

AllCompleted(passes) == \A k \in 1 .. Len(passes) : passes[k].status = "completed"

\* pass_files and gate_files of record_finalization.
GovernedFiles(it) ==
    (UNION {it.passes[k].changed : k \in 1 .. Len(it.passes)})
        \cup it.gate.implemented

\* finish_target: gate_valid.  A gate that says it does not apply is judged
\* on that claim alone.
GateValid(it) ==
    IF it.gate.recorded /\ it.gate.notApplicable
    THEN Len(it.passes) > 0 => /\ it.passes[1].changed = {}
                               /\ it.gate.implemented = {}
    ELSE it.gate.recorded /\ it.gate.attempted

\* finish_target: verified edits of the last pass wait for a follow-up pass.
PendingDelta(it) ==
    /\ Len(it.passes) > 0
    /\ Len(it.passes) < MaxPasses
    /\ ExpectedScope(it.passes, it.gate) # {}

\* Mutant of Proven: edits that no pass followed up are no failure.
ProvenDespitePendingDelta(it) ==
    /\ Len(it.passes) > 0
    /\ WholeRepository => it.passes[1].exhaustive
    /\ AllCompleted(it.passes)
    /\ GateValid(it)
    /\ WholeRepository => it.final.recorded /\ it.final.complete

\* finish_target: success is accepted only when no failure was listed.
Proven(it) ==
    /\ Len(it.passes) > 0
    /\ WholeRepository => it.passes[1].exhaustive
    /\ AllCompleted(it.passes)
    /\ GateValid(it)
    /\ ~PendingDelta(it)
    /\ WholeRepository => it.final.recorded /\ it.final.complete

\* finish_target: a pass still running is closed as interrupted.
CloseRunningPass(it) ==
    IF LastRuns(it)
    THEN SetLast(it, [LastPass(it) EXCEPT !.status = "interrupted"])
    ELSE it

\* finish_target: the exit code it records for the one the runner returned.
Verdict(it, code) == IF code = 0 /\ (LastRuns(it) \/ ~Proven(it)) THEN 1 ELSE code

Decided(it, code) ==
    [CloseRunningPass(it) EXCEPT
        !.exit   = Verdict(it, code),
        !.status = IF Verdict(it, code) = 0 THEN "completed" ELSE "failed"]

\* Mutants of AfterFinish: the pointer skips a target, or stays to retry it.
AfterFinishSkipping(s, code) ==
    [s EXCEPT !.items[s.active] = Decided(@, code),
              !.next = s.active + 2, !.active = 0, !.status = "queued"]

AfterFinishRetrying(s, code) ==
    [s EXCEPT !.items[s.active] = Decided(@, code),
              !.active = 0, !.status = "queued"]

\* A receipt with item i replaced and its pointers and status set.
Moved(s, i, it, next, active, status) ==
    [items |-> [s.items EXCEPT ![i] = it],
     next |-> next, active |-> active, status |-> status]

\* finish_target: the whole receipt after the active target got its verdict.
AfterFinish(s, code) ==
    LET i  == s.active
        it == Decided(s.items[i], code)
    IN  Moved(s, i, it, i + 1, 0,
              IF i + 1 <= NTargets THEN "queued"
              ELSE IF \E j \in Targets :
                         (IF j = i THEN it ELSE s.items[j]).status # "completed"
                   THEN "failed"
                   ELSE "completed")

\* start_target.
AfterStart(s, i) ==
    Moved(s, i, [s.items[i] EXCEPT !.status = "running"], s.next, i, "running")

\* Mutants of RequeuedItem: the old passes stay, or are forgotten.
RequeuedItemWithPasses(it) == [it EXCEPT !.status = "queued"]

RequeuedItemWithoutAttempt(it) == [QueuedItem EXCEPT !.attempts = it.attempts]

\* _recover_interrupted_target: the evidence moves to a closed attempt and the
\* target is queued again.
RequeuedItem(it) ==
    [QueuedItem EXCEPT !.attempts = Append(it.attempts, EvidenceOf(it))]

\* Mutants of AfterRecovery: the interrupted target is skipped, or the active
\* pointer is left in place.
AfterRecoverySkipping(s) ==
    IF s.active = 0
    THEN s
    ELSE Moved(s, s.active, RequeuedItem(s.items[s.active]), s.next + 1, 0, "queued")

AfterRecoveryStillActive(s) ==
    IF s.active = 0
    THEN s
    ELSE Moved(s, s.active, RequeuedItem(s.items[s.active]), s.next, s.active, "queued")

AfterRecovery(s) ==
    IF s.active = 0
    THEN s
    ELSE Moved(s, s.active, RequeuedItem(s.items[s.active]), s.next, 0, "queued")

\* Mutant of EarlierResults: a resumed queue forgets the earlier codes.
EarlierResultsForgotten(s) == <<>>

\* run_sequential_queue: the codes of the targets decided by earlier runs.
EarlierResults(s) ==
    [k \in 1 .. s.next - 1 |->
        IF s.items[k].exit = NoCode THEN 0 ELSE s.items[k].exit]

\* run_sequential_queue: the first nonzero code, or 0.
FirstNonzero(codes) ==
    IF \A k \in 1 .. Len(codes) : codes[k] = 0
    THEN 0
    ELSE codes[CHOOSE k \in 1 .. Len(codes) :
                  codes[k] # 0 /\ \A j \in 1 .. k - 1 : codes[j] = 0]

(***************************************************************************)
(* The process                                                             *)
(***************************************************************************)

Init ==
    /\ mem = FreshReceipt
    /\ disk = FreshReceipt
    /\ pc = "down"
    /\ idx = 0
    /\ results = <<>>
    /\ crashes = 0
    /\ faults = 0

\* _save succeeds: os.replace puts the new receipt in place.
SaveOk == disk' = mem' /\ UNCHANGED faults

\* _save raises: the old receipt stays.
SaveFails == faults < MaxFaults /\ faults' = faults + 1 /\ UNCHANGED disk

\* The process dies or leaves, and with it the object.
ProcessEnds == pc' = "down" /\ idx' = 0 /\ results' = <<>>

\* SequentialOrchestrator() and the head of run_sequential_queue: load, recover
\* an interrupted target, save, and collect the earlier results.  A save that
\* raises ends the construction, and nothing has changed.
Launch ==
    /\ pc = "down"
    /\ mem' = AfterRecovery(disk)
    /\ SaveOk
    /\ pc' = "loop"
    /\ idx' = mem'.next
    /\ results' = EarlierResults(mem')
    /\ UNCHANGED crashes

\* start_target(index), called outside the try of run_sequential_queue: a
\* failed save ends the process.
StartTarget ==
    /\ pc = "loop"
    /\ idx <= NTargets
    /\ mem.active = 0
    /\ idx = mem.next
    /\ \/ /\ mem' = AfterStart(mem, idx)
          /\ SaveOk
          /\ pc' = "running"
          /\ UNCHANGED <<idx, results>>
       \/ /\ SaveFails
          /\ mem' = disk
          /\ ProcessEnds
    /\ UNCHANGED crashes

(***************************************************************************)
(* The methods a worker calls.  A save that fails raises in the worker,    *)
(* whose object keeps the change.                                          *)
(***************************************************************************)

WorkerWrites(it) ==
    /\ mem' = [mem EXCEPT !.items[mem.active] = it]
    /\ SaveOk \/ SaveFails
    /\ UNCHANGED <<pc, idx, results, crashes>>

Active == mem.items[mem.active]

\* begin_pass.
BeginPass(files, exhaustive) ==
    /\ pc = "running"
    /\ MayBegin(Active, files)
    /\ WorkerWrites([Active EXCEPT
                        !.passes = Append(@, NewPass(files, exhaustive))])

\* finish_pass, accepted.
FinishPass(changed, reviewed, incomplete, unattempted) ==
    /\ pc = "running"
    /\ LastRuns(Active)
    /\ ~Unreconciled(LastPass(Active), reviewed, incomplete, unattempted)
    /\ WorkerWrites(SetLast(Active,
                        [LastPass(Active) EXCEPT !.status   = "completed",
                                                 !.changed  = changed,
                                                 !.reviewed = reviewed]))

\* finish_pass, refused: the reconciliation is recorded and saved, the pass
\* stays running, and the call raises.
RefusePass(reviewed, incomplete, unattempted) ==
    /\ pc = "running"
    /\ LastRuns(Active)
    /\ Unreconciled(LastPass(Active), reviewed, incomplete, unattempted)
    /\ WorkerWrites(SetLast(Active, [LastPass(Active) EXCEPT !.reviewed = reviewed]))

\* reconcile_first_pass_scope.
ReconcileScope(files) ==
    /\ pc = "running"
    /\ Len(Active.passes) = 1
    /\ LastRuns(Active)
    /\ LastPass(Active).exhaustive
    /\ WholeRepository
    /\ WorkerWrites(SetLast(Active, [LastPass(Active) EXCEPT !.files = files]))

\* record_competitor_gate.
RecordGate(attempted, notApplicable, implemented) ==
    /\ pc = "running"
    /\ Len(Active.passes) = 1
    /\ LastPass(Active).status = "completed"
    /\ ~Active.gate.recorded
    /\ notApplicable => /\ ~attempted
                        /\ implemented = {}
                        /\ LastPass(Active).changed = {}
    /\ WorkerWrites([Active EXCEPT
                        !.gate = [recorded      |-> TRUE,
                                  attempted     |-> attempted,
                                  notApplicable |-> notApplicable,
                                  implemented   |-> implemented]])

\* record_finalization; ok stands for both gate results the caller passes.
RecordFinalization(ok) ==
    /\ pc = "running"
    /\ Len(Active.passes) > 0
    /\ ~Active.final.recorded
    /\ WorkerWrites([Active EXCEPT
                        !.final = [recorded |-> TRUE,
                                   complete |-> ok /\ AllCompleted(Active.passes),
                                   covered  |-> GovernedFiles(Active)]])

WorkerStep ==
    \/ \E files \in SUBSET Files, exhaustive \in Flags :
          BeginPass(files, exhaustive)
    \/ \E changed \in SUBSET Files, reviewed \in SUBSET Files,
          incomplete \in SUBSET Files, unattempted \in SUBSET Files :
          FinishPass(changed, reviewed, incomplete, unattempted)
    \/ \E reviewed \in SUBSET Files, incomplete \in SUBSET Files,
          unattempted \in SUBSET Files :
          RefusePass(reviewed, incomplete, unattempted)
    \/ \E files \in SUBSET Files : ReconcileScope(files)
    \/ \E attempted \in BOOLEAN, notApplicable \in BOOLEAN, implemented \in SUBSET Files :
          RecordGate(attempted, notApplicable, implemented)
    \/ \E ok \in BOOLEAN : RecordFinalization(ok)

(***************************************************************************)
(* The end of a target, and of the queue                                   *)
(***************************************************************************)

\* finish_target(index, code) after the runner returned a code, or raised
\* (code 1): the loop goes on.  A save that fails leaves run_sequential_queue.
RunnerEnds(code) ==
    /\ pc = "running"
    /\ \/ /\ mem' = AfterFinish(mem, code)
          /\ SaveOk
          /\ results' = Append(results, mem'.items[idx].exit)
          /\ idx' = idx + 1
          /\ pc' = "loop"
       \/ /\ SaveFails
          /\ mem' = disk
          /\ ProcessEnds
    /\ UNCHANGED crashes

\* KeyboardInterrupt or SystemExit in the runner: finish_target(index, 130)
\* and the exception goes on to end the process.
OperatorInterrupts ==
    /\ pc = "running"
    /\ crashes < MaxCrashes
    /\ crashes' = crashes + 1
    /\ \/ disk' = AfterFinish(mem, 130) /\ UNCHANGED faults
       \/ SaveFails
    /\ mem' = disk'
    /\ ProcessEnds

\* run_sequential_queue returns.
Return ==
    /\ pc = "loop"
    /\ idx > NTargets
    /\ pc' = "returned"
    /\ UNCHANGED <<mem, disk, idx, results, crashes, faults>>

\* The process dies between two steps, or leaves after the queue returned.
Crash ==
    /\ pc # "down"
    /\ crashes < MaxCrashes
    /\ crashes' = crashes + 1
    /\ mem' = disk
    /\ ProcessEnds
    /\ UNCHANGED <<disk, faults>>

Next ==
    \/ Launch
    \/ StartTarget
    \/ WorkerStep
    \/ \E code \in {0, 1} : RunnerEnds(code)
    \/ OperatorInterrupts
    \/ Return
    \/ Crash

Spec == Init /\ [][Next]_vars

\* A runner comes back, the loop goes on, and a queue that died is launched
\* again: what the worker does in between, and every failure, is free.
Fairness ==
    /\ WF_vars(Launch)
    /\ WF_vars(StartTarget)
    /\ WF_vars(\E code \in {0, 1} : RunnerEnds(code))
    /\ WF_vars(Return)

FairSpec == Spec /\ Fairness

(***************************************************************************)
(* Properties                                                              *)
(***************************************************************************)

\* Both copies of the state are receipts, the loop variable and the results
\* are what run_sequential_queue can hold.
TypeOK ==
    /\ mem \in Receipt
    /\ disk \in Receipt
    /\ pc \in {"down", "loop", "running", "returned"}
    /\ idx \in 0 .. NTargets + 1
    /\ results \in Seq(ExitCodes)
    /\ crashes \in Nat
    /\ faults \in Nat

Settled == {"completed", "failed"}

\* Everything before next is settled, nothing after it was touched, and the
\* only target that runs is the active one, which is next.
Ordered(s) ==
    /\ s.active \in {0, s.next}
    /\ s.active # 0 => s.active \in Targets
    /\ \A i \in Targets :
          /\ i < s.next => s.items[i].status \in Settled
          /\ i >= s.next => /\ s.items[i].status =
                                  IF i = s.active THEN "running" ELSE "queued"
                            /\ s.items[i].exit = NoCode
          /\ i > s.next => s.items[i] = QueuedItem
    /\ s.active = 0 /\ s.next <= NTargets =>
          s.items[s.next].passes = <<>>

\* Targets are worked on one at a time and in the order of the queue, in the
\* running process and in the receipt a restart would load, whatever fails.
OneTargetInOrder == Ordered(mem) /\ Ordered(disk)

\* "Later passes cover only files changed by the immediately preceding pass",
\* plus, for pass 2, what the competitor gate implemented.
ChainedScopes(ev) ==
    \A k \in 2 .. Len(ev.passes) :
        ev.passes[k].files = ev.passes[k - 1].changed
            \cup (IF k = 2 THEN ev.gate.implemented ELSE {})

\* The scope of a pass still equals the edits of the pass before it after
\* everything recorded later, in live targets and in closed attempts.
ExactDeltaScopes ==
    \A i \in Targets, s \in {mem, disk} :
        /\ ChainedScopes(s.items[i])
        /\ \A k \in 1 .. Len(s.items[i].attempts) :
              ChainedScopes(s.items[i].attempts[k])

\* A pass of the item that was recorded exhaustive and completed has a
\* completed review of every file of its scope.
ReviewedInFull(it) ==
    \A k \in 1 .. Len(it.passes) :
        it.passes[k].exhaustive /\ it.passes[k].status = "completed"
            => it.passes[k].files \subseteq it.passes[k].reviewed

\* Every edit, of a pass or of the gate, is in the scope of a completed pass
\* that follows it; only the last pass the limit allows is excepted.
EditsFollowedUp(it) ==
    /\ \A k \in 1 .. Len(it.passes) :
          \/ k = MaxPasses
          \/ it.passes[k].changed = {}
          \/ /\ k < Len(it.passes)
             /\ it.passes[k].changed \subseteq it.passes[k + 1].files
    /\ \/ it.gate.implemented = {}
       \/ MaxPasses = 1
       \/ Len(it.passes) > 1 /\ it.gate.implemented \subseteq it.passes[2].files

\* The receipt never calls a target completed without the whole chain of
\* evidence: completed passes, an exhaustive first review where the mode
\* demands one, every edit followed up, and a final reconciliation.
SuccessIsProven ==
    \A i \in Targets, s \in {mem, disk} :
        LET it == s.items[i]
        IN  it.status = "completed" =>
                /\ it.exit = 0
                /\ Len(it.passes) \in 1 .. MaxPasses
                /\ AllCompleted(it.passes)
                /\ ReviewedInFull(it)
                /\ EditsFollowedUp(it)
                /\ WholeRepository => it.passes[1].exhaustive /\ it.final.complete

\* A queue that returned 0 has a receipt in which every target completed, and
\* one that returned anything else has a receipt that says failed.
ReturnMatchesReceipt ==
    pc = "returned" =>
        /\ disk.status = IF FirstNonzero(results) = 0 THEN "completed" ELSE "failed"
        /\ disk.status = "completed" <=>
              \A i \in Targets : disk.items[i].status = "completed"

\* A verdict in the receipt is final: no restart, retry or failed save reopens
\* a settled target or touches its evidence.
VerdictIsFinal ==
    [][\A i \in Targets :
          disk.items[i].status \in Settled => disk'.items[i] = disk.items[i]]_vars

\* Evidence is never lost from the receipt: completed passes stay as they are,
\* and the passes of a target disappear only into a closed attempt.
EvidenceKept(old, new) ==
    \/ /\ new.attempts = old.attempts
       /\ Len(old.passes) <= Len(new.passes)
       /\ \A k \in 1 .. Len(old.passes) :
             old.passes[k].status = "completed" => new.passes[k] = old.passes[k]
    \/ /\ new.attempts = Append(old.attempts, EvidenceOf(old))
       /\ new.passes = <<>>

EvidenceIsNeverLost ==
    [][\A i \in Targets : EvidenceKept(disk.items[i], disk'.items[i])]_vars

\* The receipt implements the abstract queue.
OutcomeOf(it) ==
    CASE it.status = "queued"    -> "waiting"
      [] it.status = "running"   -> "working"
      [] it.status = "completed" -> "passed"
      [] it.status = "failed"    -> "failed"

Queue == INSTANCE SequentialQueue
            WITH outcome <- [i \in Targets |-> OutcomeOf(disk.items[i])]

ImplementsQueue == Queue!Spec

\* Every queue comes to its end: with runners that come back and finitely many
\* deaths and failed saves, every target gets a verdict and the call returns.
QueueSettles ==
    <>[](/\ pc = "returned"
         /\ \A i \in Targets : disk.items[i].status \in Settled)

\* "An overlapping target, skipped pass, widened delta, or missing competitor
\* gate raises before work continues": a pass starts only when the pass before
\* it has completed.
NoSkippedPass ==
    \A i \in Targets :
        \A k \in 2 .. Len(disk.items[i].passes) :
            disk.items[i].passes[k - 1].status = "completed"

\* "Reconcile the pass ledger with the exact final repository state": the
\* finalization of a completed target accounts for every governed edit.
FinalizationCoversEdits ==
    WholeRepository =>
        \A i \in Targets :
            disk.items[i].status = "completed" =>
                GovernedFiles(disk.items[i]) \subseteq disk.items[i].final.covered

=============================================================================
