# FlexFactor in TLA+

A verification development for FlexFactor (`src/`), the application that works
through repositories with language models: it queues targets, reviews and
changes them in passes, shares provider allowances among its processes, and
lets a phone start runs on GitHub through a small cloud service. The modules
here model its protocols: the parts where several processes, restarts, lost
answers and files on disk meet. TLC checks them on small instances, and TLAPS
proves what matters most for every value of the constants.

* [Inventory](#inventory): the parts of the system, and what is hard about each
* [Modules](#modules): which module models what, and how it reads beside the code
* [Runs](#runs): what each run checks, its bounds and its fairness
* [Proofs](#proofs): what is proved, from what, and along which argument
* [Disagreements](#disagreements): where the code and its own words differ
* [Plan](#plan): what comes next
* [Not modelled](#not-modelled)

## Inventory

| part | state | operations | works with |
|---|---|---|---|
| target queue and pass ledger, `flexfactor_execution.py` | the queue receipt: per target its status, passes, competitor gate, finalization, closed attempts; in memory and as a JSON file | construct or resume, `start_target`, `begin_pass`, `finish_pass`, `reconcile_first_pass_scope`, `record_competitor_gate`, `record_finalization`, `finish_target`, `run_sequential_queue` | the audit loop calls it; the phone's request id is its queue id |
| provider capacity, `flexfactor_capacity.py` | one JSON file for all processes: leases, waiters with tickets, cooldowns | `acquire`, `cancel_waiter`, `renew`, `release`, `note_outcome`, `snapshot` | wraps every provider call of every process |
| cloud dispatch, `cloud/lib/` | nothing of its own: a claim variable, a mailbox, secrets and a workflow tag in the target repository | `dispatch`, `runStatus`, `submitSteering`, `runArtifact` | the phone calls it; it calls GitHub |
| phone queue, `MobileRunQueue.java`, `MainActivity.java` | requests, next index, active run; saved in preferences | `markDispatched`, `markActiveComplete`, dispatch, poll | cloud dispatch |
| run checkpoints, `flexfactor_runstate.py` | phases, file reviews and status of one run on disk | record, flush, find resumable runs, resume | the engine |
| route rotation, `flexfactor_rotation.py` | a cursor and cooldowns per route in a shared file under a lock file | `update`, selection, `report` | capacity, providers |
| work-in-progress snapshot, `flexfactor_wip.py` | a snapshot ref and a manifest of the owner's uncommitted work | capture, restore, discard | git |
| steering journal, `flexfactor_steering.py` | an append-only journal of comments and receipts | append, claim, complete, guidance transaction | cloud mailbox, engine |
| ledger and chunking, `flexfactor_ledger.py` | none | split files into chunks, account for coverage | engine |
| fix loop, `_fix_files` of `flexfactor.py` | the working tree, the generations in flight, the counters of a turn | generate, write, gate, review, roll back, structural repair, commit | the audit loop; a pool of threads |
| audit loop, `audit_one_program` of `flexfactor.py` | what is reviewed, changed and open; the checkpoint | passes of batches, repairs, commits, the gate between passes, bridging, rescans | target queue, fix loop, checkpoints |
| publication, `_publish_verified_head` of `flexfactor.py` | the commit on its way out; branches and requests on GitHub | final review, gate, push, landing request, merge, proof | git, GitHub, the owner's snapshot |
| engine, the rest of `flexfactor.py` | budget, caches | model calls, prompts, gates, reports | everything above |
| the rest | see [Not modelled](#not-modelled) | | |

What makes each of them correct, and what is hard about it:

* **Target queue.** One target at a time, in order, each with a verdict that
  stands; success only on a complete chain of evidence. Hard: the process dies
  between any two saves; a save itself fails, and memory runs ahead of the
  disk; the worker may call the methods in any order; scopes of later passes
  are exact deltas that later calls must not make wrong.
* **Provider capacity.** An allowance never has more calls than its limit,
  waiters are served in order and all of them are served. Hard: there is no
  server, only a file that every process edits; processes die, sleep and
  resume; every clock reading is older than the edit it decides; renewals,
  releases and refusals cross each other.
* **Cloud dispatch.** A request becomes at most one run, the run keeps its
  resources while it is active and they disappear afterwards. Hard: GitHub has
  no transaction and no compare-and-swap, answers get lost, accepted runs show
  up late, invocations are killed, and retries overlap.
* **Phone queue.** The next target starts when the one before it is finished,
  exactly once, through restarts of the application.
* **Run checkpoints.** What a resumed run skips was really done, on the same
  content; one process resumes a run. Hard: failed flushes, two processes that
  find the same dead run.
* **Route rotation.** Concurrent selections spread over the routes, no report
  is lost, and a reviewer is of a family that wrote none of the work. Hard: a
  lock file that may be stale, and work that goes on without it; retries that
  move a call from one family to another while others author.
* **Work-in-progress snapshot.** At every moment the owner's work is in the
  tree or in the snapshot, and never in a commit of the run. Hard: a crash
  between any two git commands, commands that fail half way, an owner who goes
  on working.
* **Fix loop.** What stays on disk passed a gate and the reviewer, and only that
  is committed. Hard: a dozen ways out of an attempt, each of which must roll
  back; generations made early from text that has changed since; repairs that
  write several files; rollbacks that are refused.
* **Audit loop.** Converged means that the last review of every file found its
  present bytes clean. Hard: a repair reaches into a file another batch has
  reviewed, a red gate resets the tree, the run is resumed by another process
  from a checkpoint whose writes may have failed.
* **Publication.** What is published is one commit, verified as it is; complete
  means that it is on the default branch. Hard: HEAD, the tree and the branches
  of origin move while the gate runs; pushes that fail may have been applied; a
  run dies with commits nobody has published.
* **Steering journal.** A comment is taken by one run and its outcome recorded
  once. Hard: two readers of one file without a lock.
* **Chunking.** The chunks of a file cover every line once.

`PROJECT.json` lists the hazards one by one at their lines.

## Modules

| module | models | beside it |
|---|---|---|
| `SequentialQueue` | what a target queue promises | abstract specification |
| `Orchestrator` | `flexfactor_execution.py` | `MCOrchestrator`, `Orchestrator_proofs` |
| `Capacity` | `flexfactor_capacity.py` | `MCCapacity`, `Capacity_proofs` |
| `CloudDispatch` | dispatch and cleanup of `cloud/lib/service.js`, `request-workflow.js` | `MCCloudDispatch`, `CloudDispatch_proofs` |
| `FixLoop` | `_fix_files`, its threads, `attempt_structural_fix`, `_commit_and_sync` in `flexfactor.py` | `MCFixLoop`, `FixLoop_proofs` |
| `AuditLoop` | `audit_one_program` in `flexfactor.py` with the checkpoint of `flexfactor_runstate.py` | `MCAuditLoop`, `AuditLoop_proofs` |
| `WipSnapshot` | `flexfactor_wip.py` and its use by a run | `MCWipSnapshot`, `WipSnapshot_proofs` |
| `Publication` | the final review and `_publish_verified_head` in `flexfactor.py` | `MCPublication`, `Publication_proofs` |
| `Rotation` | `flexfactor_rotation.py`: state file, selection, ladder, independence of reviewers | `MCRotation`, `Rotation_proofs` |

The modules of the run itself fit together like this. `AuditLoop` takes one
repair pass as a single step with the answers that `FixLoop` allows, and hands
its passes to the queue that `Orchestrator` models, where they are calls of a
free worker. `WipSnapshot` brackets the run: it makes the tree clean that
`AuditLoop` and `FixLoop` begin with, and puts the owner's work back after
`Publication`, which is told whether a snapshot is attached and how it scanned.
Each model call goes through `Rotation`, and each provider call inside it
through `Capacity`.

Each specification has its constants with named assumptions, one action per
operation, the fairness it needs, and its properties at the end. Operators
named in a comment as a mutant are the plausible mistakes that show that a
property can fail; nothing uses them in the specification itself.

### Orchestrator

State: `mem` is `self._state` and `disk` the JSON receipt that
`_save` replaces atomically; `pc`, `idx` and `results` are the loop of
`run_sequential_queue`; `crashes` and `faults` count what the bounds limit.
Every method changes `mem`, and then `_save` either makes `disk` equal to it
(`SaveOk`) or raises and leaves `disk` behind (`SaveFails`).

* The worker is free: `WorkerStep` calls any pass, gate or finalization method
  with any arguments, in any order, as `_active` allows. It does not start or
  finish targets, since only the loop holds the queue.
* `Launch` is the constructor: it loads the receipt and, when a target was
  running, moves its evidence to a closed attempt and queues it again
  (`_recover_interrupted_target`). A missing file and a fresh receipt are the
  same thing.
* `RunnerEnds`, `OperatorInterrupts` and `Crash` are the ways a target ends:
  with an exit code, by an interrupt (code 130) or by the death of the process.

Abstracted: file lists are sets, times, notes and counts are left out, nonzero
exit codes of a runner are 1, of a finalization only the files it accounts for
and its verdict remain. A relaunch continues the same queue, as it does under
one `FLEXFACTOR_QUEUE_ID`; two processes that run one queue at a time are
outside the model (the code has no protocol between them).

`Queue == INSTANCE SequentialQueue` maps the statuses of the receipt on disk to
the abstract outcomes, and `ImplementsQueue` is its specification.

### Capacity

State: `file` is the shared JSON file. `CapacityState.update` reads, changes
and replaces it under an operating-system lock, so an update is one step. Per
call: where it is (`stage`), whether its heartbeat thread lives (`beating`) and
when its next poll or renewal is due (`due`). Per process: up, asleep or dead.

* Times are distances from now, which `Tick` lowers; a value too old for any
  clock reading to tell apart stays at a floor, which keeps the state finite.
* A method reads the clock and then waits for the lock. `lag` is that wait, at
  most `MaxLag`, the ten seconds after which `_acquire` raises.
* `Cleaned` is `_cleanup`, part of every method that does it: expired leases,
  leases of processes that are provably dead on this host, silent waiters.
  Another host's pid says nothing, which also stands for a pid taken again by
  somebody else.
* A call acquires once under a fresh ident. `GiveUp` is every way out of
  `acquire` by an exception; `LeaveGranted` is the interrupt that arrives when
  the grant is written, which leaks the lease until it expires.
* `OnTime` says what the timers of a process promise while it is up and not
  suspended: it acts when due, and then waits for the lock for `MaxLag` at
  most.
* `UnreadableFile` forgets everything, as `read` does when the JSON is broken.

Abstracted: the label for the dashboard; the key of an allowance, which
determines its limit (so all processes agree on it); the pair of notes that the
error hook and the rotation write about one refusal.

### CloudDispatch

State: the target repository (`claim`, `mailboxes`, `secrets`, `tag`), GitHub's
runs (`accepted`, `visible` in listings, `completed`), and the invocations of
the service, each with its next call and the claim object it holds. One request
is modelled; requests share nothing, since every name contains the UUID.

* Every call to GitHub is a step. It may be carried out or not and still raise
  (`Fault`), and `Killed` ends an invocation anywhere.
* A token stands for the identity of what one claim created: key pair, draft
  release, caller commit, run. `[mine EXCEPT ...]` then `Persist` is the local
  object that is changed first and written as a whole by an unconditional
  PATCH.
* `Start`, `Recover`, `Takeover`, `Scan`, `Check`, `ClaimRequest` look for
  earlier work; `Prepare` to `PersistDispatching` are the owner's preparation;
  `Post`, `Locate`, `Mark` dispatch. `RollsBack` is the catch block, which is
  skipped once acceptance or the creation of the mailbox is uncertain.
* `Untag` to `Unclaim` are `deleteClaimResources`, shared by the rollback, the
  takeover of an old claim and the status poll of a completed run; the claim is
  deleted last and by name.
* `GrowOld` says that fifteen minutes have passed since a claim was created; by
  then every invocation that was under way has ended, five minutes being the
  platform's limit. Runs may end at any time.
* `races` is history: the two races that nothing in the service prevents.
  `Blind`: the history was searched before another retry's run, which has ended
  and been cleaned up when the claim is won. `LateTakeover`: of two takeovers of
  one old claim, the slower goes on deleting by name what belongs to a newer one.
* GitHub's side (`Appear`, `Complete`) is external: a created variable or tag
  is seen at once, a run possibly late, and a run that ended is listed.

Abstracted: reads that fail end the invocation like `Killed`; incomplete
listings, which refuse the request and change nothing; checks of shape and
identity that GitHub's answers pass; the installation of the registration
workflow, which only may fail; claims of older versions. A listing may show a
run regardless of the time filters of its query.

### FixLoop

State: the bytes of each file on `disk`, in HEAD (`committed`) and in the
snapshots of a structural attempt, as numbers that say only what is equal; the
generation `prefetched` for each file; the turn of the file at work (`rel`) with
its counters; `outcome` of the last attempt. `pc` is where the main thread is,
and `FirstAttempt(f)` is a thread of the pool, which reads the file whenever it
runs. `accepted` is history: the bytes that a gate and the reviewer let stay.

* `Pick` to `Settle` are one turn: the prefetched generation is used only for
  the text it saw, an edit that fails to apply is tried again, then as a whole
  file; the gate and the verifier each have their own way back to the next try.
* `Rollback` writes the original back or is refused; then the pass is dirty.
* `StructuralWrite` and `Structural` take snapshots of several files, write them, gate each,
  and restore all of them on any failure.
* `CommitAndSync` is `_commit_and_sync`: it stages everything on disk, and a red gate
  resets to HEAD. It runs after every `CommitEvery` fixes and at the end, and,
  for a run that goes on after a dirty pass, once more later (`goesOn`).

Abstracted: prompts, parsing, the texts of findings, what a gate executes;
models, reviewers and gates answer arbitrarily, budgets and clocks run out at
any time.

### AuditLoop

State: `disk` and `head`; the checkpoint on disk (`saved`) and in memory
(`mem`), and whether it is still written (`enabled`: one failed write disables
it); the batch, pass and phase; what a pass and the run have found. `verdict` is
history: the last completed review of each file and the bytes it was about.

* `Start` is a new process or a resumed one (`is_resumable`, `verify_reviewed`,
  carried changes); `Stop` is the end of a process at any point.
* `ReviewBatch`, `Repair` or `RepairDirty`, `Record`, `Commit` make up a batch,
  `EndPass` and `Decide` the accounting of a pass, with the competitor gate
  after the first one and exact deltas afterwards; `Early` is the repairs of the
  red baseline and of purpose gaps before it, `Bridge` and `Rescan` the purpose
  repair after it.
* `Remediate` and `Ship` are the readiness remediation, which edits and commits
  files that failing gates name after the last review; `Settle` is the end.
* `OwnerCommits`: while the run is down somebody else may commit a file.

### WipSnapshot

State: a blob per path in HEAD, index and tree; the refs `snapshots` and
`indexRefs`; the record of the active snapshot, which dies with the process; the
paths still to restore. `mine` is history: the blobs of the owner that must not
get lost. Every git command is a step with its own failure: `Stage`, `WriteRef`,
`ResetTree`, `RemoveUntracked` are the capture, `EndOfRun`, `RestorePath`,
`RestoreFails`, `Drop` the restore; `Crash` fits between any two. Symbolic
links, modes, submodules and ignored files are left out, and the checks that
refuse what the code cannot restore end a run as `Begin` does.

### Publication

A commit is the set of changes in its history, so "is an ancestor of" is
inclusion. State: `head`, its branch and whether the tree is dirty; the tips of
origin's branches and the landing requests; and what the run remembers: the
reviewed commit, the verdict, the commit it publishes, the branch it pushes to.

* `Begin` to `Decide` lead to the decision whether to publish; `Before`, `Gate`,
  `After` are the three checks of the exact HEAD around the publication gate;
  `Push`, `PushLanding`, `CheckTip`, `CreatePullRequest`, `TryMerge`, `View`,
  `ViewAgain`, `Prove` are the ways to the default branch.
* A failed push may have been applied; a branch, a request or the default
  branch may change under every step (`PeerPushes`, `PeerDecides`); hooks and
  other processes commit and change the tree (`HeadMoves`, `TreeChanges`).
* `Crash` loses what the run knows; the next `Begin` finds its commits.

Left out: retries inside one git command, and force pushes, which the code never
makes and which would let nobody keep a promise.

### Rotation

State: the shared file (last use of each pool, cooldowns) and the lock file with
its holder, possibly dead or older than `LOCK_STALE_S`; per worker its clock
reading, the state it has read, the route it selected and the ladder of its
call. A transaction is the steps lock, (break a stale lock,) read and write; the
deadline of the lock makes it happen in memory only. Time is a rank.

* `Author`, `Review` and `Ask` begin calls, the last one a call of the run or of
  another app whose answer nobody judges; `Succeeds`, `Fails`, `RouteFails`,
  `Refuses` and `Aborts` are the answers of a route: success, a limit of the pool,
  a dead route, a refusal of these bytes, a payload at fault.
* `Excluded` are the families of authors that `Review` keeps away from a call.

## Runs

Bounds are in the `.cfg` files. Deadlock is not checked because every model may
really stop: a queue that has returned, calls that have ended, a request that is
cleaned up when its claims are used up.

| run | question | instance | why it is enough |
|---|---|---|---|
| `queue` | Does a queue keep its order, its verdicts and its evidence, return what the receipt says, implement `SequentialQueue` and end? | 2 targets, no files, 1 pass, 1 death, 1 failed save | order and restart involve a target and its neighbour; a failed save followed by a death is the pair that loses memory. Scopes are empty, since they are the next run's question |
| `passes` | Are scopes exact deltas, and is success proven? | 1 target, 1 file, 3 passes | conditions on files are file by file; passes 1, 2 and a later one have different rules, and 3 is also the limit |
| `admission` | Do leases and calls stay within the limit, in order, and do released leases stay gone? | 3 calls of 3 processes, 2 on one host, limit 1, lag 1, one sleeper that may also die, 1 fault | a holder, a first and a second waiter; the inequalities of the real times hold with equality or by one |
| `service` | Do pauses hold, and is every waiter served? | the same three without lag and faults, two pauses, one dies on another host and one may sleep for ever | the two ways a row in front can stay behind, next to a provider that closes |
| `dispatch` | One run at most, kept and cleaned up, and found again, until a race is lost? | 2 overlapping retries, 1 status poll, 3 claims, 2 takeovers, 2 faults | a fault strands one claim, a second one its successor; both retries can take over one claim; more retries only repeat what one of the two does |
| `repairs` | Does a fix pass leave and commit only what was let stay, generate from what is there, and end? | 3 files, 2 tries, 1 round of the verifier, 2 prefetch workers, a commit after 2 fixes, 1 structural attempt | the third file's generation is in flight while a structural attempt for the first rewrites it, and a commit may reset the tree in between |
| `audit` | Is a converged run reviewed in its last bytes, and do later passes look at all that changed? | 2 files in batches of one, one of them without a gate, 2 passes, 1 repair attempt, 1 restart; states that differ only in the numbers given to bytes are one (`VIEW`) | a repair in one batch reaches into the file of the other; two passes have a delta between them; a second process resumes |
| `wip` | Is the owner's work always somewhere, and never in a commit? | 2 paths, 2 runs, one late save, one edit in between | one path a failing command reaches and one it does not; a second run on what the first has left |
| `publication` | Is what is published the verified commit, and does complete mean landed? | 2 runs | the second finds the commits, branches and requests of the first |
| `rotation` | Are updates kept, are pools alternated, are reviewers independent? | 2 interchangeable threads (`SYMMETRY`) that author, review and ask, 3 routes in 2 pools and 2 families, 1 route that cools, any lock file may grow old | two threads interleave authors and reviewers; a pool with one route and one with two, of two families, gives a ladder with a sibling, a refusal and an extension |
| `dirty_commit`, `second_run` | see [Disagreements](#disagreements) | one file; two retries | |

**What the properties say.** `OneTargetInOrder`, in memory and on disk,
everything before `next` is settled and nothing after it touched.
`ReturnMatchesReceipt`, the exit status of a queue agrees with its receipt,
resumed or not. `VerdictIsFinal`, no later step of anybody reopens a settled
target. `EvidenceIsNeverLost`, completed passes leave the receipt only into a
closed attempt. `ExactDeltaScopes`, a follow-up pass covers exactly the edits
before it, also after everything recorded later. `SuccessIsProven`, a completed
target has completed passes, an exhaustive first review where the mode wants
one, every edit followed up within the pass limit, and a finalization. Edits of
the last pass the limit allows need no follow-up: that is the code's rule, not
an oversight of the property. `LeasesWithinLimit` is about rows of the file and
`CallsWithinLimit` about calls really at the provider, made by processes that
were never suspended and whose renewals did not fail: the code cannot promise
it for the others. `NoOvertaking`, `NoLeaseAfterRelease`, `CooldownHolds` and
`WaiterIsServed` say how waiters, releases and pauses behave through all this.
`OneRunUnlessRaced`, `OwnerKeepsUnlessRaced`, `NothingLeftBehind`,
`ActiveRunKeepsItsMailbox`, `AcceptedRunIsRecovered` and
`CompletedRunIsCleanedUp` are what the phone and the owner of a repository
expect of cloud dispatch. All six speak of the time before a race is lost
(`Undisturbed`), because the service keeps none of them afterwards: they say that
these two races are the only ways to break it.

`NothingUnjudgedLeftOnDisk`, between two files every byte on disk is HEAD's or
was let stay, except where a rollback was refused. `CommitsOnlyAccepted`, the
same of commits. `CandidateReplacesWhatItSaw`, no prefetched generation is
written over a file that has changed since. `PassEnds` is the termination of all
those retries. `ConvergedMeansReviewed` and `DeltaScopeCoversChanges` say that
the bookkeeping of passes loses no change, whoever made it; the first names its
exemptions, which are the code's: bridged files no gate could judge, what
readiness remediation edits after the last review, and a run whose rollback was
refused. The second exempts such a run as well, and files with open findings. `OwnerWorkSurvives`,
`OwnerWorkIsNotCommitted` and `RestoreKeepsRepairs` hold the owner's work and the
run's apart; saves during the capture itself are exempt from the first two,
because the code takes no lock that could keep an editor from saving.
`PublishedIsVerified` is about each step that changes a branch of origin, and
`CompleteMeansLanded` about the end. `NoLostUpdate` exempts a lock file that was
taken from a holder who lives, `NextCallLandsElsewhere` a worker that stamped a
time older than its wait for the lock, and `ReviewerIsIndependent` nothing.
`TypeOK` of `FixLoop` and `WipSnapshot` is in the modules and in no run; it
holds when it is added to the `INVARIANTS` of their `.cfg`.

**Constraints.** `dispatch` stops where a race is lost (`CONSTRAINT
Undisturbed`), since every property is silent from there on; what happens next is
the subject of `second_run`. `rotation` stops where a lock file is taken from its
holder (`UntilBroken`): `NoLostUpdate` and `NextCallLandsElsewhere` exempt what
follows, and for `TypeOK` and `ReviewerIsIndependent` it is covered by the
theorems only, as are cooldowns of pools.

**Other bounds.** The owner edits once between two runs and saves once during a
capture. `FixLoop` and `AuditLoop` use a few numbers for the bytes of a file
again when nothing refers to them any more, so the bound on them excludes
nothing.

**Fairness.** `Orchestrator`: a runner comes back, the loop goes on, a dead
queue is launched again; what the worker does, and every failure, is free.
`Capacity`: time passes, the sleep of `acquire` and the wait of the heartbeat
end, and a provider call ends, because every provider client has a timeout;
nothing makes a suspended process resume. `CloudDispatch`: GitHub shows and
ends its runs, an invocation goes on unless it is killed, and the phone retries
and polls as its saved queue makes it do on every resume. Faults are finite in
number in every liveness check. `FixLoop`: the main thread runs on and the pool
runs what was submitted; every model call has a timeout, so its answer is a step
of them. The other specifications state no liveness: a run that waits for GitHub
or for a lock gives up at a deadline, which is a step that is always there, and
`Rotation` bounds the attempts of a call in its `TypeOK`.

## Proofs

The `_proofs` modules are checked by `tlapm` without assumptions other than the
named `ASSUME`s on constants, for any number of targets, files, passes,
processes, calls, allowances, invocations and faults.

**`Orchestrator_proofs`.** `TypeCorrect`, `OrderHolds`, `ScopesAreExact`,
`SuccessHolds` and `VerdictHolds`. The inductive invariant speaks about both
copies of the receipt, because a restart continues from `disk` and everything
else from `mem`: each is well-formed and ordered, its items have exact scopes
and, when completed, proof; while the process is up, `disk` is `mem` or an
earlier receipt that differs at the active target only, so that a save that
succeeds later, or a restart, never goes back behind a verdict. `VerdictIsFinal`
is an action property that follows from the same invariant.
`ReturnHolds` needs the results of the loop tied to the items of the receipt, and
`EvidenceHolds` and `Refinement` need one thing more: `Ahead`, after failed saves
memory only ever grows the active item of the disk, so the save that succeeds at
last carries a whole stretch of work at once. The proofs of both go through
`DiskStep`, which names all that a step may do to the receipt: nothing, start the
next target, grow or settle the active one, or put the active one back into the
queue with its evidence as a closed attempt. Each of these keeps the evidence, and maps to a step of
`SequentialQueue` or leaves its `outcome` alone, which is the refinement.

**`Capacity_proofs`.** `TypeCorrect`, `LimitHolds`, `CallsHold`, `OrderHolds`.
The invariant is `TypeOK` together with: the heartbeats belong to calls that
were granted; the tickets in the file are distinct; the leases are within the
limit; only processes known to have slept are asleep; and the two facts about
time. `LeaseAhead`: the lease of a healthy call with a heartbeat expires later
than its next renewal can be late. `RowAhead`: the row of a healthy waiter was
refreshed recently enough that its next poll comes before any clock reading
calls it stale. They are inductive because of `PaceAssumption`,
`RenewEvery + 2 * MaxLag < LeaseTTL` and
`PollEvery + 2 * MaxLag <= WaiterStale`: one `MaxLag` is the age of the reading
the lease was written with, the other the age of the one that judges it. The
code's values satisfy it (300 + 20 < 900 and 5 + 20 <= 120 seconds).
`CallsHold` then follows because every such call has a lease, and `OrderHolds`
because every waiter has its row and `acquire` grants nobody behind it.
`ReleaseHolds` and `PausesHold` go action by action over two facts about the
updates: only a grant adds a row to the leases, that of a call that has not
begun, and a clock reading is never ahead of now, so that no cleanup drops a
pause that still runs. The proof of the second corrected the property: it had
exempted the first loss of the file only, and a second loss ends a pause too.

**`CloudDispatch_proofs`.** `TypeCorrect`, for any numbers of invocations,
claims, takeovers and faults. Its invariant adds that an invocation is equipped
for its step: one that prepares or dispatches a run holds a claim with a token,
and one that answers holds a claim with a run, so that nothing is ever written
for, or answered with, a claim that does not exist.

`OneRun`, `OwnersKeep`, `NothingLeft` and `MailboxKept` are the four safety
properties of `dispatch`, from a second invariant `SInv` about who is at work.
Between them the invocations have no lock but the creation of the claim, so the
invariant is: at most one invocation is past the claim (`Alone`, of the `Owner`
of the request), and each of the kinds of work, preparing, reporting, rolling
back, taking over and cleaning up, knows what it finds in the repository and how
its manifest relates to the claim's (`Fits`). Takeovers may overlap: beside an
owner only takeovers can be at work whose claim has been replaced (`Stale`), and
the next deletion by name of such a one is the late race. `Since` says that a claim has grown old only for
invocations that began after it was created, so that no owner is still at work on
it, and `Searched` that an invocation on its way to the claim has found no run: if
there has been one and its claim is gone, the blind race is about to be lost.
`SInv` is inductive until one of the races is lost:
`Spec => [](Undisturbed => SInv)`. Nothing else is assumed, about the number of
takeovers or the length of runs.

**`FixLoop_proofs`.** `NothingUnjudged`, `CommitsAreAccepted` and
`CandidatesAreFresh`, for any number of files, tries, rounds, threads and any
distance between commits. What a rollback would write must be `Known`: what HEAD
has, or what was let stay. `Content` says, step by step, which files hold only
what is known: all of them when no file is at work, all but the file at work
while its candidate is judged, and those a structural attempt has not touched
during one, whose snapshots are known. `TypeOK` is proved too (`TypeCorrect`), for
which the invariant adds that the counters of a file have room for one more
attempt while the loop may go on.

**`AuditLoop_proofs`.** `TypeCorrect`, `ConvergedIsReviewed`,
`ScopeCoversChanges`, for any number of files, passes, attempts, rounds and
restarts. `Covers` is the account that the passes keep: each file's last review
saw the bytes on disk, or its findings are open, or this pass changed it, or this
pass has still to review it. It is inductive only with `Tree` (where the disk may
differ from HEAD, because a red commit gate resets it), `Accounted` and `Shrinks`
(how a pass empties its lists before it decides) and `EarlyFirst` (what the
repairs before the first review may touch). `Rescanned` keeps the same account
after the passes, with the exemption for ungated files, and `Unremediated` says
that before readiness remediation there is nothing else to exempt. The proof found that
`Pending` was a `CASE` with overlapping guards, which TLC resolves and the logic
does not; it is an `IF` now.

**`WipSnapshot_proofs`.** `WorkSurvives`, `WorkIsNotCommitted`, `RepairsStay`, and
`TypeOK` (`TypeCorrect`), for any set of paths and any number of runs. From the
moment a snapshot has its ref until the restore has ended, every blob of the
owner is `Stored` under a ref, whatever happens to the tree; `Kept` says where it
is before and after. `Recorded` ties the snapshot to its fingerprint: each blob
has left its mark there, so a restore that reproduces the fingerprint has put
everything back before it drops the ref. `OwnTree`, a run begins on a tree
without the owner's blobs, is what makes `OwnerWorkIsNotCommitted` inductive.

**`Rotation_proofs`.** `TypeCorrect`, `Independence`, `UpdatesAreAtomic`,
`LandsElsewhere`, for every finite set of workers and pools, any routes, families
and cooldowns. `LockInv`: until a lock file is taken from its holder, whoever has
read the state holds the lock and the state is what it read. `StampInv`: stamps
and clock readings under way are all different, so that the order of use is a
strict one and the pool just used comes last. `CallInv`: a call excludes every
family it knew as an author, and nothing it selects is excluded; as it takes the
authors when it begins, what other threads author later does not matter. The
three parts are proved separately, the last without the lock. `TagsAssumption`
(the tags of locks and of calls are no names of workers, pools or routes) is the
only assumption the proofs added.

**`Publication_proofs`.** `TypeCorrect`, `Landed`, `Verified`, for any number of
runs and any behaviour of git, GitHub and the others. What is pushed was decided
several steps before, so the invariant carries each result from its check to its
use. `GateOrTraces` is the crux: the gate runs over the tree as it happens to be,
and between it and the checks after it HEAD and the tree may have moved; either
the commit was verified, or the tree is still dirty or HEAD is no longer the
commit, because within a run nothing makes a tree clean or takes a change out of
HEAD's history, and so the checks after the gate notice. `LeavesCleared` carries
what they found to each push and merge, `HeadHoldsReviewed` ties the commit to
the review, `FixesAreInCommit` says that HEAD takes no repair after it was read,
so that a commit on the default branch has all of them, and `SourceIsPushed`
that requests are made for branches that exist. `Verified` then follows because
only `Push`, `PushLanding` and `TryMerge` publish, and each writes the commit
alone or merges a branch whose tip is the commit.

Only model-checked: the liveness properties `QueueSettles`, `WaiterIsServed`,
`AcceptedRunIsRecovered`, `CompletedRunIsCleanedUp` and `PassEnds`, which need
fairness and `ENABLED` and are out of the prover's reach. Every invariant and
every action property of the passing runs is a theorem.

## Disagreements

Where the code does not do what its own words say. Two are runs:

* `dirty_commit` / `DirtyTreeNeverCommitted`: when the rollback of a refused
  candidate is itself refused, `_fix_files` raises `DirtyTreeError` so that "the
  caller NEVER stages-and-commits that dirty tree" (`flexfactor.py:633`). The
  handlers of phase one (`:21802`) and of the purpose rescans (`:22749`) let the
  run go on to a later commit that stages the candidate.
* `second_run` / `AtMostOneRun`: a retry "can never dispatch the UUID twice"
  (`cloud/lib/service.js:1043`). An owner is killed after preparing, its claim
  grows old, and two retries take it over (`:944`). The slower one has checked the
  workflow tag when the faster one deletes everything, claims anew and
  dispatches; then it deletes by name the newer tag, the steering secret of the
  active run and the newer claim, does not find the accepted run in the listing
  yet, claims and dispatches again.

The others are properties in the modules with a `.cfg` of their own; running
TLC with it shows the counterexample. None is reached by the drivers in the
repository in ordinary operation.

| property and `.cfg` | what the code does | what it says |
|---|---|---|
| `MCOrchestrator_NoSkippedPass` | `begin_pass` accepts pass 3 while pass 2 still runs, when it declares an empty scope (`flexfactor_execution.py:330`) | a skipped pass raises (`:135`). `finish_target` refuses success afterwards |
| `MCOrchestrator_FinalizationCoversEdits` | a finalization recorded before later edits is accepted (`flexfactor_execution.py:628`) | it reconciles the ledger with the exact final state (`:477`) |
| `MCCapacity_RenewedUntilCompletion` | one failed renewal ends the heartbeat of a call for good (`flexfactor_capacity.py:201`) | the lease is renewed until completion (`:281`) |
| `MCCloudDispatch_BlindSearch` | a retry searches the history, then claims; a run that was dispatched, ended and cleaned up in between is dispatched again (`cloud/lib/service.js:947`) | a retry "can never dispatch the UUID twice" (`:1043`) |
| `MCCloudDispatch_OwnerKeepsItsClaim` | of two retries that take over one old claim, the slower deletes the claim the faster has just created (`cloud/lib/service.js:944`) | "No recovery path releases it" (`:1045`) |
| `MCAuditLoop_RepairsAreRecordedFirst` | the repair of a red baseline, the commits in the middle of a pass (`flexfactor.py:21972`) and those of the competitor gate reach HEAD before the checkpoint names their files; a process that dies in between leaves commits the next one does not know for its own | repairs are "Recorded BEFORE the commit that publishes them" (`:1104`) |
| `MCPublication_PublishedIsReviewed` | HEAD is read again after the review was matched with it (`flexfactor.py:23766`), and a commit made in between is gated and published | "An approval for an ancestor is not an approval for the new tip" (`:8871`) |

Three smaller ones were met while modelling. In `ReviewBatch` the share of
reviewed files that decides whether three empty batches are an outage counts
what the whole run has completed (`flexfactor.py:22115`), under a comment that
says "MEASURE THIS CYCLE, NOT THE WHOLE RUN" (`:22105`); the model does what the
code does. Two are exemptions in the properties of `Rotation`: `select` reads
the clock before it waits for the lock (`flexfactor_rotation.py:749`), so a
worker that waited stamps its pool with a time older than the selection before
it, and the next call may land on the pool just used, which the comment on
least-recent use says it cannot; and two workers that wait for one stale lock
file can each remove a file by name, the second one that of the first
(`flexfactor_rotation.py:408`).

## Plan

Done: the nine specifications, and for each of them the proofs of the safety
that its runs check. To prove next, in this order:

1. The exemptions of `Rotation`: what is left of `NextCallLandsElsewhere` for a
   worker that stamped an old time, and of `NoLostUpdate` once a lock was broken.
2. The safety core of `PassEnds`: a rank of the main thread of `FixLoop` that every
   step of it lowers, as an action property.

To model, if the project grows: the phone's saved queue on an abstract dispatch
service that `CloudDispatch` implements, and a refinement of the repair step of
`AuditLoop` by `FixLoop`.

## Not modelled

* The engine's prompts, parsing and reports, the readiness scanners, the purpose
  and tenet documents, the sandbox and the command, egress and trust policies:
  functions of text and wrappers of the operating system, with no protocol of
  their own. They enter as arbitrary answers of reviewers and gates.
* Phone queue: it is the other side of `CloudDispatch`, which states what its
  retries meet; its own preferences file and the Android life cycle are not.
* Steering journal and guidance: one run claims comments at a time under the
  audit lock, and the journal is only appended to; what is left is wording.
* Cost meter: one lock around counters. Calls are let through by an estimate
  and charged what they cost, so the limit is approximate by design.
* Review ledger and chunking: pure functions of one file's text.
* Automatic repository cleaning: a sequential script with one check per step.
* Providers: they are calls that end in their own time in `Capacity` and answers
  in `Rotation`.
* User interfaces, dashboards, update and release tooling: they read, or they
  replace single files.
* In `flexfactor_capacity.py`, the loop of `install().run` that waits before a
  run starts, and `recommended_program_parallelism`: they only read. A process
  that is suspended between reading the clock and getting the file lock for
  longer than the lock's timeout.
* In `flexfactor_execution.py`, two processes on one queue id.
* In the cloud service: steering messages to an active run, artifacts, sign-in,
  repository listing and the installation of the registration workflow.
* In the audit loop: the audit lock (one process per checkout is assumed), the
  budget's stops, steering, and generated tests after the bridge, except where
  `FixLoop` needs them as a later commit.
* In the checkpoints: the file format, listing and pruning.
* In rotation: pins, the best-available ladder (`paid_first`, which does not
  rotate), the step down to free routes, quality reports, `grade_independent`,
  the cooldowns of credentials and allowances, which are wider than a pool, the
  release of the cooldowns of malformed answers, and the catalogue.
