------------------------------ MODULE Capacity ------------------------------
(***************************************************************************)
(* Admission of concurrent runs to the model providers' allowances:        *)
(* CapacityState, CapacityManager, _renewing_call and the provider guard   *)
(* of install() in src/flexfactor_capacity.py.                             *)
(*                                                                         *)
(* Every process shares one JSON file.  CapacityState.update reads it,     *)
(* changes it and replaces it under an operating-system lock, so one       *)
(* update is one step here; between two updates of a call anything may     *)
(* happen.  An update that cannot get the lock or replace the file raises  *)
(* and leaves the file alone.                                              *)
(*                                                                         *)
(* A call is one acquire/renew/release round under one fresh ident; calls  *)
(* of one process are threads of it.  Times are kept relative to the       *)
(* clock: a value is a distance from now, Tick lowers all of them, and     *)
(* those too old to be told apart stop there.  A method reads the clock    *)
(* before it waits for the lock, so the `now' it works with lags behind by *)
(* up to MaxLag; a process that waits longer than that gives up with an    *)
(* exception.                                                              *)
(***************************************************************************)
EXTENDS Integers, FiniteSets

CONSTANTS
    Procs,         \* the running applications
    Calls,         \* the provider calls they make, one ident each
    Allowances,    \* the ledgers the calls drain
    Owner,         \* [Calls -> Procs]
    AllowanceOf,   \* [Calls -> Allowances]
    Host,          \* [Procs -> hosts]; pids say nothing across hosts
    Limit,         \* [Allowances -> calls at a time], limit()
    LeaseTTL,      \* LEASE_TTL_S
    RenewEvery,    \* the heartbeat's interval, LEASE_TTL_S / 3
    WaiterStale,   \* WAITER_STALE_S
    PollEvery,     \* longest sleep between two polls of acquire
    MaxLag,        \* longest wait for the file lock, _acquire's timeout
    Cooldowns,     \* how long a provider may ask its callers to stay away
    Sleepers,      \* bound: the processes that may be suspended, once each
    Mortals,       \* bound: the processes that may be killed
    MaxFaults      \* bound: how many updates fail, find the file unreadable, or
                   \* are interrupted after a grant

ASSUME CallsAssumption ==
    /\ IsFiniteSet(Calls)
    /\ Owner \in [Calls -> Procs]
    /\ AllowanceOf \in [Calls -> Allowances]
ASSUME LimitAssumption == Limit \in [Allowances -> Nat \ {0}]
ASSUME TimesAssumption ==
    /\ LeaseTTL \in Nat /\ RenewEvery \in Nat /\ WaiterStale \in Nat
    /\ PollEvery \in Nat /\ MaxLag \in Nat
    /\ Cooldowns \subseteq Nat
\* 300 + 2 * 10 < 900 seconds, and 5 + 2 * 10 <= 120 seconds.
ASSUME PaceAssumption ==
    /\ RenewEvery + 2 * MaxLag < LeaseTTL
    /\ PollEvery + 2 * MaxLag <= WaiterStale
ASSUME BoundsAssumption ==
    /\ Sleepers \subseteq Procs
    /\ Mortals \subseteq Procs
    /\ MaxFaults \in Nat

VARIABLES
    file,       \* the shared JSON file
    proc,       \* [Procs -> {"up", "asleep", "dead"}]
    stage,      \* where each call is
    beating,    \* the calls whose heartbeat thread is alive
    due,        \* time until a call's next poll or renewal
    slept,      \* history: the processes that were ever suspended
    lost,       \* history: the file was once found unreadable
    faults      \* counts the failures, for the bound

vars == <<file, proc, stage, beating, due, slept, lost, faults>>

Lags == 0 .. MaxLag

\* Values too far in the past to be told apart by any clock reading.
Past == -MaxLag
Stale == -(WaiterStale + MaxLag + 1)

EmptyFile == [next |-> 1, leases |-> <<>>, waiters |-> <<>>,
              cooldowns |-> [a \in Allowances |-> Past]]

(***************************************************************************)
(* What the mutations of the file compute                                  *)
(***************************************************************************)

\* The rows f of the calls in S.
Only(f, S) == [c \in DOMAIN f \cap S |-> f[c]]

Without(f, c) == [x \in DOMAIN f \ {c} |-> f[x]]

With(f, c, row) == [x \in DOMAIN f \cup {c} |-> IF x = c THEN row ELSE f[x]]

\* _pid_alive, asked by process p about the owner of row c.
ProvablyDead(c, p) == Host[Owner[c]] = Host[p] /\ proc[Owner[c]] = "dead"

\* Mutant of Cleaned: a waiter is only dropped when its pid is provably gone.
CleanedByPidOnly(d, p, now) ==
    [next      |-> d.next,
     leases    |-> Only(d.leases, {c \in Calls : /\ ~ProvablyDead(c, p)
                                                 /\ c \in DOMAIN d.leases =>
                                                       d.leases[c] > now}),
     waiters   |-> Only(d.waiters, {c \in Calls : ~ProvablyDead(c, p)}),
     cooldowns |-> d.cooldowns]

\* _cleanup at clock reading now, in process p.
Cleaned(d, p, now) ==
    [next      |-> d.next,
     leases    |-> Only(d.leases, {c \in DOMAIN d.leases :
                                      d.leases[c] > now /\ ~ProvablyDead(c, p)}),
     waiters   |-> Only(d.waiters, {c \in DOMAIN d.waiters :
                                      now - d.waiters[c].seen <= WaiterStale}),
     cooldowns |-> [a \in Allowances |->
                       IF d.cooldowns[a] <= now THEN Past ELSE d.cooldowns[a]]]

\* Mutants of Queued: the counter of tickets is not saved, or the row keeps the
\* time it was created at.
QueuedUncounted(d, c, now) ==
    [d EXCEPT !.waiters =
        With(@, c, [ticket |-> IF c \in DOMAIN @ THEN @[c].ticket ELSE d.next,
                    seen   |-> now])]

QueuedWithoutHeartbeat(d, c, now) ==
    IF c \in DOMAIN d.waiters THEN d
    ELSE [d EXCEPT !.next = @ + 1,
                   !.waiters = With(@, c, [ticket |-> d.next, seen |-> now])]

\* acquire: a call without a row draws a ticket, every poll is a heartbeat.
Queued(d, c, now) ==
    LET new    == c \notin DOMAIN d.waiters
        ticket == IF new THEN d.next ELSE d.waiters[c].ticket
    IN  [next      |-> IF new THEN d.next + 1 ELSE d.next,
         leases    |-> d.leases,
         waiters   |-> With(d.waiters, c, [ticket |-> ticket, seen |-> now]),
         cooldowns |-> d.cooldowns]

\* acquire: the calls that hold a lease on the allowance of c.
ActiveLeases(d, a) == {x \in DOMAIN d.leases : AllowanceOf[x] = a}

\* acquire: the waiters c stands behind.
Ahead(d, c) ==
    {x \in DOMAIN d.waiters :
        /\ AllowanceOf[x] = AllowanceOf[c]
        /\ d.waiters[x].ticket < d.waiters[c].ticket
        /\ ~ProvablyDead(x, Owner[c])}

\* Mutant of MayEnter: one lease too many.
MayEnterOneMore(d, c, now) ==
    /\ d.cooldowns[AllowanceOf[c]] <= now
    /\ Cardinality(ActiveLeases(d, AllowanceOf[c])) <= Limit[AllowanceOf[c]]
    /\ Ahead(d, c) = {}

\* acquire: is the queued call c granted?
MayEnter(d, c, now) ==
    /\ d.cooldowns[AllowanceOf[c]] <= now
    /\ Cardinality(ActiveLeases(d, AllowanceOf[c])) < Limit[AllowanceOf[c]]
    /\ Ahead(d, c) = {}

Granted(d, c, now) ==
    [next      |-> d.next,
     leases    |-> With(d.leases, c, now + LeaseTTL),
     waiters   |-> Without(d.waiters, c),
     cooldowns |-> d.cooldowns]

\* cancel_waiter.
WaiterCancelled(d, c) ==
    [next |-> d.next, leases |-> d.leases,
     waiters |-> Without(d.waiters, c), cooldowns |-> d.cooldowns]

\* Mutants of Renewed: nothing is written, or a row that is gone comes back.
RenewedNever(d, c, now) == d

RenewedAlways(d, c, now) == [d EXCEPT !.leases = With(@, c, now + LeaseTTL)]

\* renew: only a row that is still there is extended.
Renewed(d, c, now) ==
    [next      |-> d.next,
     leases    |-> IF c \in DOMAIN d.leases
                   THEN With(d.leases, c, now + LeaseTTL)
                   ELSE d.leases,
     waiters   |-> d.waiters,
     cooldowns |-> d.cooldowns]

\* release, after its cleanup.
Released(d, c) ==
    [next |-> d.next, leases |-> Without(d.leases, c),
     waiters |-> d.waiters, cooldowns |-> d.cooldowns]

\* Mutant of Cooled: the last answer of the provider wins.
CooledByTheLast(d, a, until) == [d EXCEPT !.cooldowns[a] = until]

\* note_outcome, after its cleanup: the longest cooldown wins.
Cooled(d, a, until) ==
    [next      |-> d.next,
     leases    |-> d.leases,
     waiters   |-> d.waiters,
     cooldowns |-> [d.cooldowns EXCEPT ![a] = IF @ > until THEN @ ELSE until]]

(***************************************************************************)
(* The calls                                                               *)
(***************************************************************************)

Init ==
    /\ file = EmptyFile
    /\ proc = [p \in Procs |-> "up"]
    /\ stage = [c \in Calls |-> "idle"]
    /\ beating = {}
    /\ due = [c \in Calls |-> 0]
    /\ slept = {}
    /\ lost = FALSE
    /\ faults = 0

Fails == faults < MaxFaults /\ faults' = faults + 1

\* update succeeds, or raises and the caller carries on without it.
Writes(d) ==
    \/ file' = d /\ UNCHANGED faults
    \/ UNCHANGED file /\ Fails

IsUp(c) == proc[Owner[c]] = "up"

\* One round of acquire's loop.  Granted, the call goes to the provider and
\* _renewing_call starts its heartbeat; otherwise acquire sleeps.
Poll(c, lag) ==
    LET now    == -lag
        queued == Queued(Cleaned(file, Owner[c], now), c, now)
        enters == MayEnter(queued, c, now)
    IN  /\ IsUp(c)
        /\ stage[c] \in {"idle", "waiting"}
        /\ file'    = IF enters THEN Granted(queued, c, now) ELSE queued
        /\ stage'   = [stage EXCEPT ![c] = IF enters THEN "calling" ELSE "waiting"]
        /\ beating' = IF enters THEN beating \cup {c} ELSE beating
        /\ due'     = [due EXCEPT ![c] = IF enters THEN RenewEvery ELSE PollEvery]
        /\ UNCHANGED <<proc, slept, lost, faults>>

\* An interrupt reaches acquire when its grant is already written: the call
\* never starts, cancel_waiter finds no row, and nobody renews or releases the
\* lease.
LeaveGranted(c, lag) ==
    LET now    == -lag
        queued == Queued(Cleaned(file, Owner[c], now), c, now)
    IN  /\ IsUp(c)
        /\ stage[c] \in {"idle", "waiting"}
        /\ MayEnter(queued, c, now)
        /\ Fails
        /\ file'  = Granted(queued, c, now)
        /\ stage' = [stage EXCEPT ![c] = "done"]
        /\ UNCHANGED <<proc, beating, due, slept, lost>>

\* acquire leaves by an exception: its deadline passed, the wait was
\* interrupted, or an update raised.  cancel_waiter swallows its own failure.
GiveUp(c) ==
    /\ IsUp(c)
    /\ stage[c] \in {"idle", "waiting"}
    /\ Writes(WaiterCancelled(file, c))
    /\ stage' = [stage EXCEPT ![c] = "done"]
    /\ UNCHANGED <<proc, beating, due, slept, lost>>

\* The heartbeat wakes and renews.  It stops when the row is gone, and after
\* the call has returned.
Renew(c, lag) ==
    /\ IsUp(c)
    /\ c \in beating
    /\ due[c] <= 0
    /\ file' = Renewed(file, c, -lag)
    /\ beating' = IF c \in DOMAIN file.leases /\ stage[c] = "calling"
                  THEN beating ELSE beating \ {c}
    /\ due' = [due EXCEPT ![c] = RenewEvery]
    /\ UNCHANGED <<proc, stage, slept, lost, faults>>

\* renew returns False on any exception, and the heartbeat stops for good.
RenewFails(c) ==
    /\ IsUp(c)
    /\ c \in beating
    /\ due[c] <= 0
    /\ Fails
    /\ beating' = beating \ {c}
    /\ UNCHANGED <<file, proc, stage, due, slept, lost>>

\* The provider call returns or raises: stop the heartbeat, release the lease.
\* A heartbeat already awake still does its renewal.  A call that the provider
\* refused for the whole account goes on to report it.
Release(c, lag) ==
    /\ IsUp(c)
    /\ stage[c] = "calling"
    /\ Writes(Released(Cleaned(file, Owner[c], -lag), c))
    /\ \E s \in {"done", "limited"} : stage' = [stage EXCEPT ![c] = s]
    /\ beating' = IF due[c] <= 0 THEN beating ELSE beating \ {c}
    /\ UNCHANGED <<proc, due, slept, lost>>

\* note_outcome with scope "account".  The error hook and Rotator.report note
\* the same refusal one after the other; the two notes are one here.
NoteOutcome(c, lag, wait) ==
    /\ IsUp(c)
    /\ stage[c] = "limited"
    /\ Writes(Cooled(Cleaned(file, Owner[c], -lag), AllowanceOf[c], wait - lag))
    /\ stage' = [stage EXCEPT ![c] = "done"]
    /\ UNCHANGED <<proc, beating, due, slept, lost>>

\* snapshot, and note_outcome with a narrower scope: only the cleanup.
Snapshot(p, lag) ==
    /\ proc[p] = "up"
    /\ file' = Cleaned(file, p, -lag)
    /\ UNCHANGED <<proc, stage, beating, due, slept, lost, faults>>

\* read() finds the file unreadable and starts from an empty one, which the
\* update under way then writes.
UnreadableFile ==
    /\ Fails
    /\ file' = EmptyFile
    /\ lost' = TRUE
    /\ UNCHANGED <<proc, stage, beating, due, slept>>

(***************************************************************************)
(* Processes and time                                                      *)
(***************************************************************************)

\* The process is killed: nothing is cancelled or released.
Die(p) ==
    /\ p \in Mortals
    /\ proc[p] # "dead"
    /\ proc' = [proc EXCEPT ![p] = "dead"]
    /\ beating' = {c \in beating : Owner[c] # p}
    /\ UNCHANGED <<file, stage, due, slept, lost, faults>>

\* The process is stopped by the operating system, a debugger or a long pause.
Suspend(p) ==
    /\ p \in Sleepers \ slept
    /\ proc[p] = "up"
    /\ proc' = [proc EXCEPT ![p] = "asleep"]
    /\ slept' = slept \cup {p}
    /\ UNCHANGED <<file, stage, beating, due, lost, faults>>

Resume(p) ==
    /\ proc[p] = "asleep"
    /\ proc' = [proc EXCEPT ![p] = "up"]
    /\ UNCHANGED <<file, stage, beating, due, slept, lost, faults>>

Earlier(t, floor) == IF t > floor THEN t - 1 ELSE floor

\* The file one unit of time later.
Aged(d) ==
    [next      |-> d.next,
     leases    |-> [c \in DOMAIN d.leases |-> Earlier(d.leases[c], Past)],
     waiters   |-> [c \in DOMAIN d.waiters |->
                       [ticket |-> d.waiters[c].ticket,
                        seen   |-> Earlier(d.waiters[c].seen, Stale)]],
     cooldowns |-> [a \in Allowances |-> Earlier(d.cooldowns[a], Past)]]

\* The threads that must not miss their time: acquire's sleep and the
\* heartbeat's wait end when they are due, and then the lock takes at most
\* MaxLag to come.
OnTime(c) == IsUp(c) /\ (stage[c] = "waiting" \/ c \in beating) => due[c] > Past

Tick ==
    /\ \A c \in Calls : OnTime(c)
    /\ file' = Aged(file)
    /\ due' = [c \in Calls |-> IF stage[c] = "waiting" \/ c \in beating
                               THEN Earlier(due[c], Past) ELSE due[c]]
    /\ UNCHANGED <<proc, stage, beating, slept, lost, faults>>

Next ==
    \/ \E c \in Calls, lag \in Lags : Poll(c, lag)
    \/ \E c \in Calls, lag \in Lags : LeaveGranted(c, lag)
    \/ \E c \in Calls : GiveUp(c)
    \/ \E c \in Calls, lag \in Lags : Renew(c, lag)
    \/ \E c \in Calls : RenewFails(c)
    \/ \E c \in Calls, lag \in Lags : Release(c, lag)
    \/ \E c \in Calls, lag \in Lags, wait \in Cooldowns : NoteOutcome(c, lag, wait)
    \/ \E p \in Procs, lag \in Lags : Snapshot(p, lag)
    \/ UnreadableFile
    \/ \E p \in Procs : Die(p)
    \/ \E p \in Procs : Suspend(p)
    \/ \E p \in Procs : Resume(p)
    \/ Tick

Spec == Init /\ [][Next]_vars

\* Time passes, a sleeping acquire wakes, a heartbeat wakes, and a provider
\* call ends (every provider client has a timeout).
Fairness ==
    /\ WF_vars(Tick)
    /\ \A c \in Calls :
          /\ WF_vars(stage[c] = "waiting" /\ \E lag \in Lags : Poll(c, lag))
          /\ WF_vars(\E lag \in Lags : Renew(c, lag))
          /\ WF_vars(\E lag \in Lags : Release(c, lag))

FairSpec == Spec /\ Fairness

(***************************************************************************)
(* Properties                                                              *)
(***************************************************************************)

\* f gives some of the calls a row in R.
IsTable(f, R) == DOMAIN f \subseteq Calls /\ f \in [DOMAIN f -> R]

\* What every update leaves in the file.
FileOK(d) ==
    /\ d.next \in Nat \ {0}
    /\ IsTable(d.leases, Past .. LeaseTTL)
    /\ IsTable(d.waiters, [ticket : Nat \ {0}, seen : Stale .. 0])
    /\ \A c \in DOMAIN d.waiters : d.waiters[c].ticket < d.next
    /\ d.cooldowns \in [Allowances -> Int]

\* The shared file keeps its form, and every timer stays within its horizon.
TypeOK ==
    /\ FileOK(file)
    /\ proc \in [Procs -> {"up", "asleep", "dead"}]
    /\ stage \in [Calls -> {"idle", "waiting", "calling", "limited", "done"}]
    /\ beating \subseteq Calls
    /\ due \in [Calls -> Int]
    /\ \A c \in Calls : Past <= due[c]
    /\ slept \subseteq Procs
    /\ lost \in BOOLEAN
    /\ faults \in Nat

\* Its process runs and was never suspended.
Healthy(c) == IsUp(c) /\ Owner[c] \notin slept

\* However processes die, sleep or fail to write, no allowance ever has more
\* leases than limit() grants it.
LeasesWithinLimit ==
    \A a \in Allowances : Cardinality(ActiveLeases(file, a)) <= Limit[a]

\* The calls that really are at the provider, made by processes that were
\* never suspended and whose renewals never failed.
AtProvider(a) ==
    {c \in Calls : /\ AllowanceOf[c] = a
                   /\ stage[c] = "calling"
                   /\ Healthy(c)
                   /\ c \in beating}

\* The heartbeat is fast enough: the calls at the provider stay within the
\* limit, not only the rows that stand for them, however long a call lasts.
CallsWithinLimit ==
    ~lost => \A a \in Allowances : Cardinality(AtProvider(a)) <= Limit[a]

\* A healthy waiter keeps its row and its ticket while it waits, and only an
\* earlier ticket of its allowance is granted before it.
NoOvertaking ==
    [][\A w \in Calls :
          /\ stage[w] = "waiting" /\ stage'[w] = "waiting"
          /\ Healthy(w)
          /\ ~lost'
          => /\ w \in DOMAIN file'.waiters
             /\ file'.waiters[w].ticket = file.waiters[w].ticket
             /\ \A c \in Calls :
                   /\ AllowanceOf[c] = AllowanceOf[w]
                   /\ stage[c] # "calling" /\ stage'[c] = "calling"
                   => /\ c \in DOMAIN file.waiters
                      /\ file.waiters[c].ticket < file.waiters[w].ticket]_vars

\* A lease that is gone stays gone once its call has returned: a renewal that
\* was waiting for the lock does not bring it back.
NoLeaseAfterRelease ==
    [][\A c \in Calls :
          stage[c] \in {"limited", "done"} /\ c \notin DOMAIN file.leases
              => c \notin DOMAIN file'.leases]_vars

\* An allowance whose provider asked for a pause is left alone until the
\* longest pause asked for is over, unless the file that says so is lost: no
\* call starts, and only time shortens it.
CooldownHolds ==
    [][\A a \in Allowances :
          file.cooldowns[a] > 0 /\ ~UnreadableFile
              => /\ file'.cooldowns[a] >= file.cooldowns[a] \/ Tick
                 /\ \A c \in Calls :
                       AllowanceOf[c] = a /\ stage'[c] = "calling"
                           => stage[c] = "calling"]_vars

\* Nobody waits for ever, whoever dies or sleeps in front of it with a lease
\* or a ticket: a call that waits is granted, gives up, or stops running.
WaiterIsServed ==
    \A c \in Calls : stage[c] = "waiting" ~> (stage[c] # "waiting" \/ ~IsUp(c))

\* "Run a provider call while renewing its lease until completion": a call at
\* the provider has its lease as long as its process runs undisturbed.
RenewedUntilCompletion ==
    ~lost => \A c \in Calls :
                stage[c] = "calling" /\ Healthy(c) => c \in DOMAIN file.leases

=============================================================================
