------------------------------ MODULE Rotation ------------------------------
(***************************************************************************)
(* Route rotation, flexfactor_rotation.py: the workers of a run and of     *)
(* other apps choose model routes from one state file under a lock file,   *)
(* walk the ladder of routes of one call (RotatingProvider._run), and have *)
(* each author's work judged by a family that wrote none of it.            *)
(*                                                                         *)
(* Time is a rank: only the order of the stamps and of the workers' "now"  *)
(* matters.  A cooldown is a key in the file; whether it is still in force *)
(* is chosen whenever a selection looks. Tiers, capabilities, prices and   *)
(* yields only narrow the routes of a call: Routes are those it may use.   *)
(* Routes of one pool are ordered by fit and yield, which may put any of   *)
(* them first.  Left out: pins, the best-available ladder (paid_first,     *)
(* which does not rotate), the budget's step down to free routes, the      *)
(* cooldowns of credentials and allowances, which are wider than a pool,   *)
(* and the release of the cooldowns of malformed answers when a whole      *)
(* ladder gave them.                                                       *)
(***************************************************************************)
EXTENDS Naturals, FiniteSets

CONSTANTS
    Workers, Routes, Pools, Families,
    PoolOf, FamilyOf,  \* of each route
    Coolable,          \* bounds the cooldowns: the routes and pools whose failures are followed
    None

ASSUME RotationAssumption ==
    /\ PoolOf \in [Routes -> Pools] /\ FamilyOf \in [Routes -> Families]
    /\ IsFiniteSet(Workers) /\ IsFiniteSet(Pools) /\ IsFiniteSet(Routes) /\ Routes # {}
    /\ Coolable \subseteq Routes \cup Pools
    /\ None \notin Workers \cup Routes \cup Pools \cup Families

\* The tags of the lock file and of the transactions are no workers, routes or pools.
ASSUME TagsAssumption ==
    /\ "free" \notin Workers /\ "dead" \notin Workers /\ None \notin {"select", "ok"}
    /\ "select" \notin Routes \cup Pools /\ "ok" \notin Routes \cup Pools

VARIABLES
    used,      \* last_used_at of each pool, as a rank
    cool,      \* cooldowns: the routes and pools that have one, in force or expired
    lock,      \* the lock file: "free", its worker, or "dead" when its process is gone
    old,       \* is the lock file older than LOCK_STALE_S?
    broken,    \* history: was a lock file of a worker removed by another one?
    latest,    \* history: the pool of the selection that was written last
    families,  \* RotatingProvider._author_families, of the run
    pc,
    now,       \* each worker's reading of the clock, as a rank
    op,        \* what the transaction is for: "select", "ok", or the key that cools
    seen,      \* the state it has read
    route,     \* the route it has selected
    ladder     \* of the call, see Call

store == <<used, cool>>
file == <<lock, old, broken>>
tx == <<now, op, seen>>
vars == <<store, file, latest, families, pc, tx, route, ladder>>

NoState == [used |-> [p \in Pools |-> 0], cool |-> {}]

\* A call: its role; the families that had authored anything when it began, and those
\* it excludes for it; the families that refused its bytes; the attempts left; and how
\* many would be left if every eligible route were to have one.
Call(role, authors, avoid) ==
    [role |-> role, authors |-> authors, avoid |-> avoid, refused |-> {},
     left |-> Cardinality({PoolOf[r] : r \in Routes}), cap |-> Cardinality(Routes)]
NoCall == [Call("none", {}, {}) EXCEPT !.left = 0, !.cap = 0]

Init ==
    /\ used = [p \in Pools |-> 0] /\ cool = {}
    /\ lock \in {"free", "dead"} /\ old = FALSE /\ broken = FALSE /\ latest = None
    /\ families = {} /\ pc = [w \in Workers |-> "idle"]
    /\ now = [w \in Workers |-> 0] /\ op = [w \in Workers |-> None]
    /\ seen = [w \in Workers |-> NoState] /\ route = [w \in Workers |-> None]
    /\ ladder = [w \in Workers |-> NoCall]

Goto(w, l) == pc' = [pc EXCEPT ![w] = l]

NoTransaction == UNCHANGED <<store, file, latest, tx>>

----------------------------------------------------------------------------
(* The parts of a call, RotatingProvider._run, that need no transaction.   *)

\* Each attempt takes one off, an extension adds one again.
Attempt(c) == [c EXCEPT !.left = @ - 1, !.cap = @ - 1]

\* Mutant of Extended: as often as it happens.
AlwaysExtended(c) == c.left + 1

\* A failure of a route only does not use up the attempt of its pool, but a call makes
\* no more attempts than there are eligible routes.
Extended(c) == IF c.left < c.cap THEN c.left + 1 ELSE c.cap

EndCall(w) == /\ Goto(w, "idle") /\ ladder' = [ladder EXCEPT ![w] = NoCall]
              /\ route' = [route EXCEPT ![w] = None] /\ UNCHANGED families

\* A selection.  None usable: the call ends.  A route whose family has refused these
\* bytes is passed over, any other one is called.
Selected(w, r) ==
    \/ r = None /\ EndCall(w)
    \/ /\ r # None /\ FamilyOf[r] \in ladder[w].refused /\ Goto(w, "next")
       /\ ladder' = [ladder EXCEPT ![w].left = Extended(ladder[w])]
       /\ route' = [route EXCEPT ![w] = None] /\ UNCHANGED families
    \/ /\ r # None /\ FamilyOf[r] \notin ladder[w].refused /\ Goto(w, "call")
       /\ route' = [route EXCEPT ![w] = r] /\ UNCHANGED <<ladder, families>>

\* The answer: an author's family is recorded before its work goes to review.
Answered(w) ==
    \/ /\ ladder[w].role = "author" /\ Goto(w, "authored")
       /\ families' = families \cup {FamilyOf[route[w]]} /\ UNCHANGED <<route, ladder>>
    \/ ladder[w].role = "reviewer" /\ Goto(w, "certified") /\ UNCHANGED <<families, route, ladder>>
    \/ ladder[w].role = "none" /\ EndCall(w)

\* The report of a failure is followed by the next attempt.
Failed(w) == /\ Goto(w, "next") /\ route' = [route EXCEPT ![w] = None]
             /\ UNCHANGED <<ladder, families>>

----------------------------------------------------------------------------
(* StateStore.update: read, mutate and write under the lock.               *)

\* _pick_in_tier: what is not cooling, not excluded, and of another family.
Usable(w, cooling) ==
    {r \in Routes : {r, PoolOf[r]} \cap cooling = {} /\ FamilyOf[r] \notin ladder[w].avoid}
Oldest(pools, at) == {p \in pools : \A q \in pools : at[p] <= at[q]}

\* A route of the pool that was used least recently, given the cooldowns in force.
\* None: no route is usable.
PickAmong(usable, at) ==
    IF usable = {} THEN {None}
    ELSE {r \in usable : PoolOf[r] \in Oldest({PoolOf[s] : s \in usable}, at)}
Pick(w, state) == UNION {PickAmong(Usable(w, inForce), state.used) : inForce \in SUBSET state.cool}

\* Mutant of Free: the file is opened without O_EXCL.
AlwaysFree == TRUE

Free == lock = "free"

\* _acquire: create the file, exclusively; then the state is read.
Acquire(w) ==
    /\ pc[w] = "lock" /\ Free /\ Goto(w, "write") /\ lock' = w
    /\ seen' = [seen EXCEPT ![w] = [used |-> used, cool |-> cool]]
    /\ UNCHANGED <<store, old, broken, latest, families, now, op, route, ladder>>

\* It exists and is old: a process died.
SeesStale(w) ==
    /\ pc[w] = "lock" /\ ~Free /\ old /\ Goto(w, "break")
    /\ UNCHANGED <<store, file, latest, families, tx, route, ladder>>

\* It is removed by name, whosever file now has the name.
Break(w) ==
    /\ pc[w] = "break" /\ Goto(w, "lock")
    /\ lock' = "free" /\ old' = FALSE /\ broken' = (broken \/ lock \in Workers)
    /\ UNCHANGED <<store, latest, families, tx, route, ladder>>

\* A lock file grows old when its process is dead or does not come back.
GrowsOld ==
    /\ lock # "free" /\ ~old /\ old' = TRUE
    /\ UNCHANGED <<store, lock, broken, latest, families, pc, tx, route, ladder>>

EndTransaction(w) == /\ op' = [op EXCEPT ![w] = None] /\ now' = [now EXCEPT ![w] = 0]
                     /\ seen' = [seen EXCEPT ![w] = NoState]

\* The deadline: the mutation is made in memory and nothing is written.
TimeOut(w) ==
    /\ pc[w] = "lock" /\ ~Free
    /\ CASE op[w] = "select" -> \E r \in Pick(w, [used |-> used, cool |-> cool]) : Selected(w, r)
         [] op[w] = "ok"     -> Answered(w)
         [] OTHER            -> Failed(w)
    /\ EndTransaction(w) /\ UNCHANGED <<store, file, latest>>

\* Mutant of Stamp: the stamp is left to the report of a success.
StampOnSuccess(w, state, r) == IF op[w] = "ok" THEN [state.used EXCEPT ![PoolOf[r]] = now[w]]
                               ELSE state.used

\* _stamp: at selection, with the time at which the transaction was begun.
Stamp(w, state, r) == [state.used EXCEPT ![PoolOf[r]] = now[w]]

\* A selection writes its stamp.
WriteSelection(w) ==
    \E r \in Pick(w, seen[w]) :
        /\ IF r = None THEN used' = seen[w].used /\ UNCHANGED latest
           ELSE used' = Stamp(w, seen[w], r) /\ latest' = PoolOf[r]
        /\ cool' = seen[w].cool /\ Selected(w, r)

\* A success stamps its pool and clears the route's own cooldown.
WriteSuccess(w) ==
    /\ used' = Stamp(w, seen[w], route[w]) /\ cool' = seen[w].cool \ {route[w]}
    /\ Answered(w) /\ UNCHANGED latest

\* A failure cools one key, and the third strike of a route its pool as well.  Strikes are
\* not counted: any failure of a route may be the third.
WriteFailure(w) ==
    /\ \E struck \in SUBSET ({PoolOf[route[w]]} \cap Coolable) :
          cool' = seen[w].cool \cup {op[w]} \cup struck
    /\ used' = seen[w].used /\ Failed(w) /\ UNCHANGED latest

\* _write, and _release, which removes the lock file by name; then the caller goes on.
Write(w) ==
    /\ pc[w] = "write"
    /\ \/ op[w] = "select" /\ WriteSelection(w)
       \/ op[w] = "ok" /\ WriteSuccess(w)
       \/ op[w] \in Coolable /\ WriteFailure(w)
    /\ lock' = "free" /\ old' = FALSE /\ EndTransaction(w) /\ UNCHANGED broken

\* A transaction begins: the clock is read before the lock is waited for.
Times == {0} \cup {used[p] : p \in Pools} \cup {now[w] : w \in Workers}
             \cup {seen[w].used[p] : w \in Workers, p \in Pools}
Rank(x) == Cardinality({y \in Times : y < x})
Ranks(f) == [x \in DOMAIN f |-> Rank(f[x])]
Begin(w, what) ==
    /\ now' = [Ranks(now) EXCEPT ![w] = IF what \in Coolable THEN 0 ELSE Cardinality(Times)]
    /\ used' = Ranks(used)
    /\ seen' = [v \in Workers |-> [seen[v] EXCEPT !.used = Ranks(seen[v].used)]]
    /\ op' = [op EXCEPT ![w] = what] /\ Goto(w, "lock")
    /\ UNCHANGED <<cool, file, latest, families>>

----------------------------------------------------------------------------
(* One call: RotatingProvider._run.                                        *)

Author(w) ==
    /\ pc[w] = "idle" /\ Begin(w, "select") /\ UNCHANGED route
    /\ ladder' = [ladder EXCEPT ![w] = Attempt(Call("author", {}, {}))]

\* A call whose answer no one reviews, of the run or of another app.  It is followed for
\* one attempt.
Ask(w) ==
    /\ pc[w] = "idle" /\ Begin(w, "select") /\ UNCHANGED route
    /\ ladder' = [ladder EXCEPT ![w] = NoCall]

\* Mutant of Excluded: only the family of the candidate's last author.
LastAuthor(w) == {FamilyOf[route[w]]}

\* _complete_intent: a reviewer excludes every family that authored anything so far.
Excluded(w) == families

Review(w) ==
    /\ pc[w] = "authored" /\ Begin(w, "select") /\ route' = [route EXCEPT ![w] = None]
    /\ ladder' = [ladder EXCEPT ![w] = Attempt(Call("reviewer", families, Excluded(w)))]

\* A success is reported where there is something to clear: the route has a cooldown in
\* the file, or strikes, which a cooldown always comes with.
Succeeds(w) ==
    /\ pc[w] = "call"
    /\ \/ route[w] \in cool /\ Begin(w, "ok") /\ UNCHANGED <<route, ladder>>
       \/ route[w] \notin cool /\ Answered(w) /\ NoTransaction

\* A rate or quota limit, or a plain error: the pool or the route cools.
Fails(w) ==
    /\ pc[w] = "call" /\ \E k \in {route[w], PoolOf[route[w]]} \cap Coolable : Begin(w, k)
    /\ UNCHANGED <<route, ladder>>

\* Dead, retired, unhealthy or malformed: only the route cools, and a sibling is tried.
RouteFails(w) ==
    /\ pc[w] = "call" /\ ladder[w].role # "none" /\ route[w] \in Coolable /\ Begin(w, route[w])
    /\ ladder' = [ladder EXCEPT ![w].left = Extended(ladder[w])] /\ UNCHANGED route

\* A refusal concerns these bytes and this family: nothing shared changes.
Refuses(w) ==
    /\ pc[w] = "call" /\ ladder[w].role # "none" /\ Goto(w, "next")
    /\ ladder' = [ladder EXCEPT ![w].left = Extended(ladder[w]),
                                ![w].refused = @ \cup {FamilyOf[route[w]]}]
    /\ route' = [route EXCEPT ![w] = None] /\ NoTransaction /\ UNCHANGED families

\* A payload at fault is not charged to the route; it ends the call, as any failure
\* that cannot be retried does once it is reported.
Aborts(w) ==
    /\ pc[w] = "call" /\ ladder[w].role # "none"
    /\ \/ EndCall(w) /\ NoTransaction
       \/ /\ route[w] \in Coolable /\ Begin(w, route[w])
          /\ ladder' = [ladder EXCEPT ![w].left = 0] /\ UNCHANGED route

GoOn(w) ==
    /\ pc[w] = "next"
    /\ \/ /\ ladder[w].left > 0 /\ Begin(w, "select") /\ UNCHANGED route
          /\ ladder' = [ladder EXCEPT ![w] = Attempt(@)]
       \/ ladder[w].left = 0 /\ EndCall(w) /\ NoTransaction

Certified(w) == pc[w] = "certified" /\ EndCall(w) /\ NoTransaction

Step(w) == \/ Acquire(w) \/ SeesStale(w) \/ Break(w) \/ TimeOut(w) \/ Write(w)
           \/ Review(w) \/ Succeeds(w) \/ Fails(w) \/ RouteFails(w) \/ Refuses(w)
           \/ Aborts(w) \/ GoOn(w) \/ Certified(w)

Next == GrowsOld \/ \E w \in Workers : Author(w) \/ Ask(w) \/ Step(w)

Spec == Init /\ [][Next]_vars

----------------------------------------------------------------------------
(* Properties.                                                             *)

Labels == {"idle", "lock", "break", "write", "call", "next", "authored", "certified"}
FileState == [used : [Pools -> Nat], cool : SUBSET Coolable]

\* Types; a transaction has its purpose, and a call has no more attempts left than there
\* are routes it has not tried: so it ends.
TypeOK ==
    /\ used \in [Pools -> Nat] /\ cool \subseteq Coolable /\ lock \in {"free", "dead"} \cup Workers
    /\ old \in BOOLEAN  /\ broken \in BOOLEAN
    /\ latest \in Pools \cup {None} /\ families \subseteq Families
    /\ pc \in [Workers -> Labels] /\ now \in [Workers -> Nat]
    /\ op \in [Workers -> {"select", "ok", None} \cup Coolable] /\ seen \in [Workers -> FileState]
    /\ route \in [Workers -> Routes \cup {None}]
    /\ \A w \in Workers :
          /\ op[w] # None <=> pc[w] \in {"lock", "break", "write"}
          /\ ladder[w].left \in 0 .. ladder[w].cap /\ ladder[w].cap <= Cardinality(Routes)
          /\ ladder[w].avoid \cup ladder[w].authors \cup ladder[w].refused \subseteq Families

\* What replaces the state file was computed from the state that is still in it: no
\* stamp and no cooldown of another worker is overwritten, through time-outs of the lock
\* and a lock file left by a dead process.  The exemption is a lock file taken away from
\* a worker that holds it, which two waiters at one stale file can do.
NoLostUpdate ==
    [][\A w \in Workers :
          pc[w] = "write" /\ pc'[w] # "write" /\ store' # store /\ ~broken =>
              seen[w].used = used /\ seen[w].cool = cool]_vars

\* Two selections in a row do not drain one pool while another one could serve, one
\* without any cooldown: the stamp is in the file before the next selection reads it.
\* Selections that are written count: one that timed out leaves no stamp.  (A worker that
\* waited for the lock stamps an older time; then the pool is not the most recently used.)
NextCallLandsElsewhere ==
    [][\A w \in Workers :
          LET others == {r \in Usable(w, cool') : PoolOf[r] # latest}
          IN  /\ pc[w] = "write" /\ pc'[w] = "call"
              /\ ~broken /\ latest # None /\ others # {}
              /\ \A p \in Pools : used[p] <= used[latest]
              => PoolOf[route'[w]] # latest]_vars

\* Work is certified only by a family that had authored none of the run's work when the
\* review began, through retries, refusals and the work of other threads.
ReviewerIsIndependent ==
    \A w \in Workers : pc[w] = "certified" => FamilyOf[route[w]] \notin ladder[w].authors
=============================================================================
