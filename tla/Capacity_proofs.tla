--------------------------- MODULE Capacity_proofs ---------------------------
(***************************************************************************)
(* Proofs about Capacity, for every set of processes, calls, allowances    *)
(* and limits, every number of failures, and all times that satisfy        *)
(* PaceAssumption.                                                         *)
(*                                                                         *)
(* The argument: the leases and the waiter rows are tables whose rows only *)
(* the cleanup and their own call remove.  The cleanup cannot reach the    *)
(* row of a healthy call, because the heartbeat keeps the lease            *)
(* (LeaseAhead) and acquire's polls keep the row (RowAhead) ahead of the   *)
(* time at which they would be stale.                                      *)
(***************************************************************************)
EXTENDS Capacity, FiniteSetTheorems, TLAPS

(***************************************************************************)
(* The inductive invariant                                                 *)
(***************************************************************************)

WithinLimit(d) ==
    \A a \in Allowances : Cardinality(ActiveLeases(d, a)) <= Limit[a]

\* A call that CallsWithinLimit counts.
AtWork(c) == stage[c] = "calling" /\ Healthy(c) /\ c \in beating

Queueing(c) == stage[c] = "waiting" /\ Healthy(c)

\* The next renewal comes before the lease runs out, by this margin.
Slack == LeaseTTL - RenewEvery - MaxLag

LeaseAhead ==
    ~lost => \A c \in Calls : AtWork(c) =>
                /\ c \in DOMAIN file.leases
                /\ file.leases[c] >= due[c] + Slack

\* The next poll comes before the row is stale.
RowAhead ==
    ~lost => \A c \in Calls : Queueing(c) =>
                /\ c \in DOMAIN file.waiters
                /\ file.waiters[c].seen >= due[c] - PollEvery - MaxLag

\* No two waiters have the same ticket.
Distinct(d) ==
    \A x \in DOMAIN d.waiters, y \in DOMAIN d.waiters :
        d.waiters[x].ticket = d.waiters[y].ticket => x = y

SleepersKnown == \A p \in Procs : proc[p] = "asleep" => p \in slept

\* Only a call that was granted has a heartbeat.
BeatsAfterGrant == \A c \in beating : stage[c] \in {"calling", "limited", "done"}

IInv ==
    /\ TypeOK
    /\ BeatsAfterGrant
    /\ Distinct(file)
    /\ WithinLimit(file)
    /\ SleepersKnown
    /\ LeaseAhead
    /\ RowAhead

(***************************************************************************)
(* Tables                                                                  *)
(***************************************************************************)

\* Dropping rows keeps a table and the rows that stay.
LEMMA OnlyTable ==
  ASSUME NEW R, NEW f, IsTable(f, R), NEW S
  PROVE  /\ IsTable(Only(f, S), R)
         /\ DOMAIN Only(f, S) = DOMAIN f \cap S
         /\ \A x \in DOMAIN f \cap S : Only(f, S)[x] = f[x]
BY DEF IsTable, Only

\* Removing one row keeps a table and every other row.
LEMMA WithoutTable ==
  ASSUME NEW R, NEW f, IsTable(f, R), NEW c
  PROVE  /\ IsTable(Without(f, c), R)
         /\ DOMAIN Without(f, c) = DOMAIN f \ {c}
         /\ \A x \in DOMAIN f \ {c} : Without(f, c)[x] = f[x]
BY DEF IsTable, Without

\* Writing one row keeps a table and every other row.
LEMMA WithTable ==
  ASSUME NEW R, NEW f, IsTable(f, R), NEW c \in Calls, NEW row \in R
  PROVE  /\ IsTable(With(f, c, row), R)
         /\ DOMAIN With(f, c, row) = DOMAIN f \cup {c}
         /\ With(f, c, row)[c] = row
         /\ \A x \in DOMAIN f \ {c} : With(f, c, row)[x] = f[x]
BY DEF IsTable, With

Leases == Past .. LeaseTTL
Waiters == [ticket : Nat \ {0}, seen : Stale .. 0]

\* The form of the file, over names for its kinds of row.
LEMMA FileForm ==
  ASSUME NEW d
  PROVE  FileOK(d) <=>
            /\ d.next \in Nat \ {0}
            /\ IsTable(d.leases, Leases)
            /\ IsTable(d.waiters, Waiters)
            /\ \A c \in DOMAIN d.waiters : d.waiters[c].ticket < d.next
            /\ d.cooldowns \in [Allowances -> Int]
BY DEF FileOK, Leases, Waiters

\* The constants of time are integers in the right order.
LEMMA Times ==
  /\ LeaseTTL \in Nat /\ RenewEvery \in Nat /\ WaiterStale \in Nat
  /\ PollEvery \in Nat /\ MaxLag \in Nat
  /\ Past \in Int /\ Past = -MaxLag /\ Past <= 0
  /\ Stale \in Int /\ Stale = -(WaiterStale + MaxLag + 1)
  /\ Slack \in Int /\ Slack > MaxLag /\ Slack + RenewEvery + MaxLag = LeaseTTL
  /\ PollEvery + MaxLag + MaxLag <= WaiterStale
BY TimesAssumption, PaceAssumption DEF Past, Stale, Slack

\* A clock reading lags by at most MaxLag.
LEMMA Readings ==
  ASSUME NEW lag \in Lags
  PROVE  /\ -lag \in Int
         /\ Past <= -lag
         /\ -lag <= 0
         /\ -lag \in Stale .. 0
         /\ -lag + LeaseTTL \in Leases
BY Times DEF Lags, Leases

(***************************************************************************)
(* What the mutations of the file do to its rows                           *)
(***************************************************************************)

\* The cleanup adds nothing, changes no row it keeps, and keeps every lease
\* that has time left, and every row heard of in time, of the living.
LEMMA CleanedFacts ==
  ASSUME NEW d, FileOK(d), NEW p \in Procs, NEW now \in Int
  PROVE  LET e == Cleaned(d, p, now)
         IN  /\ FileOK(e)
             /\ e.next = d.next
             /\ DOMAIN e.leases \subseteq DOMAIN d.leases
             /\ DOMAIN e.waiters \subseteq DOMAIN d.waiters
             /\ \A x \in DOMAIN d.leases :
                   d.leases[x] > now /\ ~ProvablyDead(x, p) =>
                      x \in DOMAIN e.leases /\ e.leases[x] = d.leases[x]
             /\ \A x \in DOMAIN d.waiters :
                   now - d.waiters[x].seen <= WaiterStale =>
                      x \in DOMAIN e.waiters /\ e.waiters[x] = d.waiters[x]
             /\ \A x \in DOMAIN e.waiters : e.waiters[x] = d.waiters[x]
<1> DEFINE e  == Cleaned(d, p, now)
           ls == d.leases
           ws == d.waiters
           kept == {c \in DOMAIN ls : ls[c] > now /\ ~ProvablyDead(c, p)}
           heard == {c \in DOMAIN ws : now - ws[c].seen <= WaiterStale}
<1>1. /\ e.next = d.next
      /\ e.leases = Only(ls, kept)
      /\ e.waiters = Only(ws, heard)
      /\ e.cooldowns = [a \in Allowances |->
                          IF d.cooldowns[a] <= now THEN Past ELSE d.cooldowns[a]]
  BY DEF Cleaned
<1>2. /\ d.next \in Nat \ {0}
      /\ IsTable(ls, Leases)
      /\ IsTable(ws, Waiters)
      /\ \A c \in DOMAIN ws : ws[c].ticket < d.next
      /\ d.cooldowns \in [Allowances -> Int]
  BY FileForm
<1>3. e.cooldowns \in [Allowances -> Int]
  BY <1>1, <1>2, Times
<1>4. /\ \A x \in DOMAIN ls : ls[x] > now /\ ~ProvablyDead(x, p) => x \in kept
      /\ \A x \in DOMAIN ws : now - ws[x].seen <= WaiterStale => x \in heard
  OBVIOUS
<1> SUFFICES /\ FileOK(e)
             /\ DOMAIN e.leases = DOMAIN ls \cap kept
             /\ DOMAIN e.waiters = DOMAIN ws \cap heard
             /\ \A x \in DOMAIN e.leases : e.leases[x] = ls[x]
             /\ \A x \in DOMAIN e.waiters : e.waiters[x] = ws[x]
  <2> HIDE DEF e, kept, heard
  <2>1. QED
    BY <1>1, <1>4 DEF e
<1> HIDE DEF e, ls, ws, kept, heard
<1>5. /\ IsTable(e.leases, Leases)
      /\ DOMAIN e.leases = DOMAIN ls \cap kept
      /\ \A x \in DOMAIN e.leases : e.leases[x] = ls[x]
  <2>1. IsTable(ls, Leases)
    BY <1>2
  <2>2. /\ IsTable(Only(ls, kept), Leases)
        /\ DOMAIN Only(ls, kept) = DOMAIN ls \cap kept
        /\ \A x \in DOMAIN ls \cap kept : Only(ls, kept)[x] = ls[x]
    BY <2>1, OnlyTable
  <2>3. QED
    BY <1>1, <2>2
<1>6. /\ IsTable(e.waiters, Waiters)
      /\ DOMAIN e.waiters = DOMAIN ws \cap heard
      /\ \A x \in DOMAIN e.waiters : e.waiters[x] = ws[x]
  <2>1. IsTable(ws, Waiters)
    BY <1>2
  <2>2. /\ IsTable(Only(ws, heard), Waiters)
        /\ DOMAIN Only(ws, heard) = DOMAIN ws \cap heard
        /\ \A x \in DOMAIN ws \cap heard : Only(ws, heard)[x] = ws[x]
    BY <2>1, OnlyTable
  <2>3. QED
    BY <1>1, <2>2
<1>7. \A c \in DOMAIN e.waiters : e.waiters[c].ticket < e.next
  BY <1>1, <1>2, <1>6
<1>8. FileOK(e)
  BY <1>1, <1>2, <1>3, <1>5, <1>6, <1>7, FileForm
<1>9. QED
  BY <1>5, <1>6, <1>8

\* A poll adds at most the row of its own call, with the newest ticket, and
\* notes the time in it.
LEMMA QueuedFacts ==
  ASSUME NEW d, FileOK(d), NEW c \in Calls, NEW now \in Stale .. 0
  PROVE  LET e == Queued(d, c, now)
         IN  /\ FileOK(e)
             /\ e.leases = d.leases
             /\ DOMAIN e.waiters = DOMAIN d.waiters \cup {c}
             /\ e.waiters[c].seen = now
             /\ c \notin DOMAIN d.waiters => e.waiters[c].ticket = d.next
             /\ c \in DOMAIN d.waiters => e.waiters[c].ticket = d.waiters[c].ticket
             /\ \A x \in DOMAIN d.waiters \ {c} : e.waiters[x] = d.waiters[x]
<1> DEFINE e      == Queued(d, c, now)
           ws     == d.waiters
           new    == c \notin DOMAIN d.waiters
           ticket == IF new THEN d.next ELSE d.waiters[c].ticket
           row    == [ticket |-> ticket, seen |-> now]
<1>1. /\ e.next = IF new THEN d.next + 1 ELSE d.next
      /\ e.leases = d.leases
      /\ e.waiters = With(ws, c, row)
      /\ e.cooldowns = d.cooldowns
  BY DEF Queued
<1>2. /\ d.next \in Nat \ {0}
      /\ IsTable(d.leases, Leases)
      /\ \A x \in DOMAIN ws : ws[x].ticket < d.next
      /\ d.cooldowns \in [Allowances -> Int]
  BY FileForm
<1>3. IsTable(ws, Waiters)
  BY FileForm
<1>4. \A x \in DOMAIN ws : ws[x] \in Waiters
  BY <1>3 DEF IsTable
<1>5. ticket \in Nat \ {0} /\ ticket < e.next
  BY <1>1, <1>2, <1>4 DEF Waiters
<1>6. row \in Waiters
  BY <1>5 DEF Waiters
<1>7. /\ row.seen = now
      /\ row.ticket = ticket
      /\ new => ticket = d.next
      /\ ~new => ticket = ws[c].ticket
  OBVIOUS
<1> HIDE DEF e, ws, row, ticket
<1>8. /\ IsTable(With(ws, c, row), Waiters)
      /\ DOMAIN With(ws, c, row) = DOMAIN ws \cup {c}
      /\ With(ws, c, row)[c] = row
      /\ \A x \in DOMAIN ws \ {c} : With(ws, c, row)[x] = ws[x]
  BY <1>3, <1>6, WithTable
<1>9. \A x \in DOMAIN e.waiters : e.waiters[x].ticket < e.next
  <2>1. ASSUME NEW x \in DOMAIN e.waiters  PROVE e.waiters[x].ticket < e.next
    <3>1. CASE x = c
      BY <3>1, <1>1, <1>5, <1>7, <1>8
    <3>2. CASE x # c
      <4>1. x \in DOMAIN ws /\ e.waiters[x] = ws[x]
        BY <3>2, <1>1, <1>8
      <4>2. ws[x].ticket < d.next /\ ws[x].ticket \in Nat
        BY <4>1, <1>2, <1>4 DEF Waiters
      <4>3. d.next <= e.next /\ e.next \in Nat
        BY <1>1, <1>2
      <4>4. QED
        BY <4>1, <4>2, <4>3, <1>2
    <3>3. QED
      BY <3>1, <3>2
  <2>2. QED
    BY <2>1
<1>10. e.next \in Nat \ {0}
  BY <1>1, <1>2
<1>11. IsTable(e.waiters, Waiters) /\ IsTable(e.leases, Leases)
  BY <1>1, <1>2, <1>8
<1>12. FileOK(e)
  BY <1>1, <1>2, <1>9, <1>10, <1>11, FileForm
<1>13. QED
  BY <1>1, <1>7, <1>8, <1>12 DEF e, ws

\* Removing a waiter's row leaves the leases and every other row.
LEMMA CancelledFacts ==
  ASSUME NEW d, FileOK(d), NEW c \in Calls
  PROVE  LET e == WaiterCancelled(d, c)
         IN  /\ FileOK(e)
             /\ e.leases = d.leases
             /\ DOMAIN e.waiters = DOMAIN d.waiters \ {c}
             /\ \A x \in DOMAIN d.waiters \ {c} : e.waiters[x] = d.waiters[x]
<1> DEFINE e  == WaiterCancelled(d, c)
           ws == d.waiters
<1>1. /\ e.next = d.next
      /\ e.leases = d.leases
      /\ e.waiters = Without(ws, c)
      /\ e.cooldowns = d.cooldowns
  BY DEF WaiterCancelled
<1>2. /\ d.next \in Nat \ {0}
      /\ IsTable(d.leases, Leases)
      /\ \A x \in DOMAIN ws : ws[x].ticket < d.next
      /\ d.cooldowns \in [Allowances -> Int]
  BY FileForm
<1>3. IsTable(ws, Waiters)
  BY FileForm
<1> HIDE DEF e, ws
<1>4. /\ IsTable(Without(ws, c), Waiters)
      /\ DOMAIN Without(ws, c) = DOMAIN ws \ {c}
      /\ \A x \in DOMAIN ws \ {c} : Without(ws, c)[x] = ws[x]
  BY <1>3, WithoutTable
<1>5. \A x \in DOMAIN e.waiters : e.waiters[x].ticket < e.next
  BY <1>1, <1>2, <1>4
<1>6. FileOK(e)
  BY <1>1, <1>2, <1>4, <1>5, FileForm
<1>7. QED
  BY <1>1, <1>4, <1>6 DEF e, ws

\* Writing a lease leaves every other lease, and the waiters' rows.
LEMMA LeaseWritten ==
  ASSUME NEW d, FileOK(d), NEW c \in Calls, NEW left \in Leases, NEW e,
         e = [next |-> d.next, leases |-> With(d.leases, c, left),
              waiters |-> d.waiters, cooldowns |-> d.cooldowns]
  PROVE  /\ FileOK(e)
         /\ DOMAIN e.leases = DOMAIN d.leases \cup {c}
         /\ e.leases[c] = left
         /\ \A x \in DOMAIN d.leases \ {c} : e.leases[x] = d.leases[x]
         /\ e.waiters = d.waiters
<1> DEFINE ls == d.leases
<1>1. /\ e.next = d.next
      /\ e.leases = With(ls, c, left)
      /\ e.waiters = d.waiters
      /\ e.cooldowns = d.cooldowns
  OBVIOUS
<1>2. /\ d.next \in Nat \ {0}
      /\ IsTable(d.waiters, Waiters)
      /\ \A x \in DOMAIN d.waiters : d.waiters[x].ticket < d.next
      /\ d.cooldowns \in [Allowances -> Int]
  BY FileForm
<1>3. IsTable(ls, Leases)
  BY FileForm
<1> HIDE DEF ls
<1>4. /\ IsTable(With(ls, c, left), Leases)
      /\ DOMAIN With(ls, c, left) = DOMAIN ls \cup {c}
      /\ With(ls, c, left)[c] = left
      /\ \A x \in DOMAIN ls \ {c} : With(ls, c, left)[x] = ls[x]
  BY <1>3, WithTable
<1>5. FileOK(e)
  BY <1>1, <1>2, <1>4, FileForm
<1>6. QED
  BY <1>1, <1>4, <1>5 DEF ls

\* A grant writes one lease and removes the row of its own call.
LEMMA GrantedFacts ==
  ASSUME NEW d, FileOK(d), NEW c \in Calls, NEW now, now + LeaseTTL \in Leases
  PROVE  LET e == Granted(d, c, now)
         IN  /\ FileOK(e)
             /\ DOMAIN e.leases = DOMAIN d.leases \cup {c}
             /\ e.leases[c] = now + LeaseTTL
             /\ \A x \in DOMAIN d.leases \ {c} : e.leases[x] = d.leases[x]
             /\ DOMAIN e.waiters = DOMAIN d.waiters \ {c}
             /\ \A x \in DOMAIN d.waiters \ {c} : e.waiters[x] = d.waiters[x]
<1> DEFINE e == Granted(d, c, now)
           m == WaiterCancelled(d, c)
<1>1. /\ FileOK(m)
      /\ m.leases = d.leases
      /\ DOMAIN m.waiters = DOMAIN d.waiters \ {c}
      /\ \A x \in DOMAIN d.waiters \ {c} : m.waiters[x] = d.waiters[x]
  BY CancelledFacts
<1>2. e = [next |-> m.next, leases |-> With(m.leases, c, now + LeaseTTL),
           waiters |-> m.waiters, cooldowns |-> m.cooldowns]
  BY DEF Granted, WaiterCancelled
<1> HIDE DEF e, m
<1>3. /\ FileOK(e)
      /\ DOMAIN e.leases = DOMAIN m.leases \cup {c}
      /\ e.leases[c] = now + LeaseTTL
      /\ \A x \in DOMAIN m.leases \ {c} : e.leases[x] = m.leases[x]
      /\ e.waiters = m.waiters
  BY <1>1, <1>2, LeaseWritten
<1>4. QED
  BY <1>1, <1>3 DEF e

\* A renewal changes at most its own lease, and never adds one.
LEMMA RenewedFacts ==
  ASSUME NEW d, FileOK(d), NEW c \in Calls, NEW now, now + LeaseTTL \in Leases
  PROVE  LET e == Renewed(d, c, now)
         IN  /\ FileOK(e)
             /\ DOMAIN e.leases = DOMAIN d.leases
             /\ c \in DOMAIN d.leases => e.leases[c] = now + LeaseTTL
             /\ \A x \in DOMAIN d.leases \ {c} : e.leases[x] = d.leases[x]
             /\ e.waiters = d.waiters
<1> DEFINE e == Renewed(d, c, now)
<1>1. CASE c \in DOMAIN d.leases
  <2>1. e = [next |-> d.next, leases |-> With(d.leases, c, now + LeaseTTL),
             waiters |-> d.waiters, cooldowns |-> d.cooldowns]
    BY <1>1 DEF Renewed
  <2> HIDE DEF e
  <2>2. /\ FileOK(e)
        /\ DOMAIN e.leases = DOMAIN d.leases \cup {c}
        /\ e.leases[c] = now + LeaseTTL
        /\ \A x \in DOMAIN d.leases \ {c} : e.leases[x] = d.leases[x]
        /\ e.waiters = d.waiters
    BY <2>1, LeaseWritten
  <2>3. QED
    BY <1>1, <2>2 DEF e
<1>2. CASE c \notin DOMAIN d.leases
  <2>1. /\ e.next = d.next
        /\ e.leases = d.leases
        /\ e.waiters = d.waiters
        /\ e.cooldowns = d.cooldowns
    BY <1>2 DEF Renewed
  <2> HIDE DEF e
  <2>2. FileOK(e)
    BY <2>1, FileForm
  <2>3. QED
    BY <1>2, <2>1, <2>2 DEF e
<1>3. QED
  BY <1>1, <1>2

\* A release removes one lease and nothing else.
LEMMA ReleasedFacts ==
  ASSUME NEW d, FileOK(d), NEW c \in Calls
  PROVE  LET e == Released(d, c)
         IN  /\ FileOK(e)
             /\ DOMAIN e.leases = DOMAIN d.leases \ {c}
             /\ \A x \in DOMAIN d.leases \ {c} : e.leases[x] = d.leases[x]
             /\ e.waiters = d.waiters
<1> DEFINE e  == Released(d, c)
           ls == d.leases
<1>1. /\ e.next = d.next
      /\ e.leases = Without(ls, c)
      /\ e.waiters = d.waiters
      /\ e.cooldowns = d.cooldowns
  BY DEF Released
<1>2. /\ d.next \in Nat \ {0}
      /\ IsTable(d.waiters, Waiters)
      /\ \A x \in DOMAIN d.waiters : d.waiters[x].ticket < d.next
      /\ d.cooldowns \in [Allowances -> Int]
  BY FileForm
<1>3. IsTable(ls, Leases)
  BY FileForm
<1> HIDE DEF e, ls
<1>4. /\ IsTable(Without(ls, c), Leases)
      /\ DOMAIN Without(ls, c) = DOMAIN ls \ {c}
      /\ \A x \in DOMAIN ls \ {c} : Without(ls, c)[x] = ls[x]
  BY <1>3, WithoutTable
<1>5. FileOK(e)
  BY <1>1, <1>2, <1>4, FileForm
<1>6. QED
  BY <1>1, <1>4, <1>5 DEF e, ls

\* A cooldown touches no lease and no waiter.
LEMMA CooledFacts ==
  ASSUME NEW d, FileOK(d), NEW a \in Allowances, NEW until \in Int
  PROVE  LET e == Cooled(d, a, until)
         IN  FileOK(e) /\ e.leases = d.leases /\ e.waiters = d.waiters
<1> DEFINE e  == Cooled(d, a, until)
           cs == d.cooldowns
<1>1. /\ e.next = d.next
      /\ e.leases = d.leases
      /\ e.waiters = d.waiters
      /\ e.cooldowns = [cs EXCEPT ![a] = IF cs[a] > until THEN cs[a] ELSE until]
  BY DEF Cooled
<1>2. /\ d.next \in Nat \ {0}
      /\ IsTable(d.leases, Leases)
      /\ IsTable(d.waiters, Waiters)
      /\ \A x \in DOMAIN d.waiters : d.waiters[x].ticket < d.next
  BY FileForm
<1>3. cs \in [Allowances -> Int]
  BY FileForm
<1> HIDE DEF e, cs
<1>4. e.cooldowns \in [Allowances -> Int]
  BY <1>1, <1>3
<1>5. FileOK(e)
  BY <1>1, <1>2, <1>4, FileForm
<1>6. QED
  BY <1>1, <1>5 DEF e

\* A table of times, each sunk by one towards the floor.
LEMMA AgedLeases ==
  ASSUME NEW ls, IsTable(ls, Leases), NEW g,
         g = [c \in DOMAIN ls |-> Earlier(ls[c], Past)]
  PROVE  /\ IsTable(g, Leases)
         /\ DOMAIN g = DOMAIN ls
         /\ \A x \in DOMAIN ls : ls[x] > Past => g[x] = ls[x] - 1
<1>1. \A x \in DOMAIN ls : ls[x] \in Leases
  BY DEF IsTable
<1>2. ASSUME NEW x \in DOMAIN ls
      PROVE  /\ Earlier(ls[x], Past) \in Leases
             /\ ls[x] > Past => Earlier(ls[x], Past) = ls[x] - 1
  <2>1. ls[x] \in Int /\ Past <= ls[x] /\ ls[x] <= LeaseTTL
    BY <1>1, Times DEF Leases
  <2>2. QED
    BY <2>1, Times DEF Leases, Earlier
<1>3. QED
  BY <1>2 DEF IsTable

\* The waiters' rows, each heard of one unit of time longer ago.
LEMMA AgedWaiters ==
  ASSUME NEW ws, IsTable(ws, Waiters), NEW g,
         g = [c \in DOMAIN ws |-> [ticket |-> ws[c].ticket,
                                  seen   |-> Earlier(ws[c].seen, Stale)]]
  PROVE  /\ IsTable(g, Waiters)
         /\ DOMAIN g = DOMAIN ws
         /\ \A x \in DOMAIN ws :
               /\ g[x].ticket = ws[x].ticket
               /\ ws[x].seen > Stale => g[x].seen = ws[x].seen - 1
<1>1. \A x \in DOMAIN ws : ws[x].ticket \in Nat \ {0} /\ ws[x].seen \in Stale .. 0
  BY DEF IsTable, Waiters
<1>2. ASSUME NEW x \in DOMAIN ws
      PROVE  /\ g[x] \in Waiters
             /\ g[x].ticket = ws[x].ticket
             /\ ws[x].seen > Stale => g[x].seen = ws[x].seen - 1
  <2> DEFINE t == ws[x].ticket
             u == ws[x].seen
  <2>1. t \in Nat \ {0} /\ u \in Int /\ Stale <= u /\ u <= 0
    BY <1>1, Times
  <2>2. g[x] = [ticket |-> t, seen |-> Earlier(u, Stale)]
    OBVIOUS
  <2> HIDE DEF t, u
  <2>3. /\ Earlier(u, Stale) \in Stale .. 0
        /\ u > Stale => Earlier(u, Stale) = u - 1
    BY <2>1, Times DEF Earlier
  <2>4. /\ g[x] \in Waiters
        /\ g[x].ticket = t
        /\ u > Stale => g[x].seen = u - 1
    BY <2>1, <2>2, <2>3 DEF Waiters
  <2>5. QED
    BY <2>4 DEF t, u
<1>3. QED
  BY <1>2 DEF IsTable

\* The passing of time removes no row; times not at their floor sink by one.
LEMMA AgedFacts ==
  ASSUME NEW d, FileOK(d)
  PROVE  LET e == Aged(d)
         IN  /\ FileOK(e)
             /\ DOMAIN e.leases = DOMAIN d.leases
             /\ DOMAIN e.waiters = DOMAIN d.waiters
             /\ \A x \in DOMAIN d.leases :
                   d.leases[x] > Past => e.leases[x] = d.leases[x] - 1
             /\ \A x \in DOMAIN d.waiters :
                   /\ e.waiters[x].ticket = d.waiters[x].ticket
                   /\ d.waiters[x].seen > Stale =>
                         e.waiters[x].seen = d.waiters[x].seen - 1
<1> DEFINE e  == Aged(d)
           ls == d.leases
           ws == d.waiters
           cs == d.cooldowns
<1>1. /\ e.next = d.next
      /\ e.leases = [c \in DOMAIN ls |-> Earlier(ls[c], Past)]
      /\ e.waiters = [c \in DOMAIN ws |-> [ticket |-> ws[c].ticket,
                                         seen   |-> Earlier(ws[c].seen, Stale)]]
      /\ e.cooldowns = [a \in Allowances |-> Earlier(cs[a], Past)]
  BY DEF Aged
<1>2. d.next \in Nat \ {0} /\ cs \in [Allowances -> Int]
  BY FileForm
<1>3. \A x \in DOMAIN ws : ws[x].ticket < d.next
  BY FileForm
<1>4. IsTable(ls, Leases)
  BY FileForm
<1>5. IsTable(ws, Waiters)
  BY FileForm
<1> HIDE DEF e, ls, ws, cs
<1>6. /\ IsTable(e.leases, Leases)
      /\ DOMAIN e.leases = DOMAIN ls
      /\ \A x \in DOMAIN ls : ls[x] > Past => e.leases[x] = ls[x] - 1
  <2> DEFINE g == e.leases
  <2>1. g = [c \in DOMAIN ls |-> Earlier(ls[c], Past)]
    BY <1>1
  <2> HIDE DEF g
  <2>2. /\ IsTable(g, Leases)
        /\ DOMAIN g = DOMAIN ls
        /\ \A x \in DOMAIN ls : ls[x] > Past => g[x] = ls[x] - 1
    BY <1>4, <2>1, AgedLeases
  <2>3. QED
    BY <2>2 DEF g
<1>7. /\ IsTable(e.waiters, Waiters)
      /\ DOMAIN e.waiters = DOMAIN ws
      /\ \A x \in DOMAIN ws :
            /\ e.waiters[x].ticket = ws[x].ticket
            /\ ws[x].seen > Stale => e.waiters[x].seen = ws[x].seen - 1
  <2> DEFINE g == e.waiters
  <2>1. g = [c \in DOMAIN ws |-> [ticket |-> ws[c].ticket,
                                 seen   |-> Earlier(ws[c].seen, Stale)]]
    BY <1>1
  <2> HIDE DEF g
  <2>2. /\ IsTable(g, Waiters)
        /\ DOMAIN g = DOMAIN ws
        /\ \A x \in DOMAIN ws :
              /\ g[x].ticket = ws[x].ticket
              /\ ws[x].seen > Stale => g[x].seen = ws[x].seen - 1
    BY <1>5, <2>1, AgedWaiters
  <2>3. QED
    BY <2>2 DEF g
<1>8. e.cooldowns \in [Allowances -> Int]
  BY <1>1, <1>2, Times DEF Earlier
<1>9. FileOK(e)
  BY <1>1, <1>2, <1>3, <1>6, <1>7, <1>8, FileForm
<1>10. QED
  BY <1>6, <1>7, <1>9 DEF e, ls, ws

(***************************************************************************)
(* Limits and tickets                                                      *)
(***************************************************************************)

\* The leases of an allowance are finitely many.
LEMMA FiniteLeases ==
  ASSUME NEW d, FileOK(d), NEW a
  PROVE  /\ ActiveLeases(d, a) \subseteq Calls
         /\ IsFiniteSet(ActiveLeases(d, a))
         /\ Cardinality(ActiveLeases(d, a)) \in Nat
<1>1. DOMAIN d.leases \subseteq Calls
  BY FileForm DEF IsTable
<1>2. ActiveLeases(d, a) \subseteq Calls
  BY <1>1 DEF ActiveLeases
<1>3. IsFiniteSet(ActiveLeases(d, a))
  BY <1>2, CallsAssumption, FS_Subset
<1>4. QED
  BY <1>2, <1>3, FS_CardinalityType

\* Fewer leases stay within the limit.
LEMMA LimitKept ==
  ASSUME NEW d, FileOK(d), WithinLimit(d), NEW e, FileOK(e),
         DOMAIN e.leases \subseteq DOMAIN d.leases
  PROVE  WithinLimit(e)
<1>1. ASSUME NEW a \in Allowances  PROVE Cardinality(ActiveLeases(e, a)) <= Limit[a]
  <2>1. ActiveLeases(e, a) \in SUBSET ActiveLeases(d, a)
    BY DEF ActiveLeases
  <2>2. Cardinality(ActiveLeases(e, a)) <= Cardinality(ActiveLeases(d, a))
    BY <2>1, FiniteLeases, FS_Subset
  <2>3. Cardinality(ActiveLeases(d, a)) <= Limit[a]
    BY DEF WithinLimit
  <2>4. QED
    BY <2>2, <2>3, FiniteLeases, LimitAssumption
<1>2. QED
  BY <1>1 DEF WithinLimit

\* A grant below the limit stays within it.
LEMMA LimitAfterGrant ==
  ASSUME NEW d, FileOK(d), WithinLimit(d), NEW c \in Calls,
         Cardinality(ActiveLeases(d, AllowanceOf[c])) < Limit[AllowanceOf[c]],
         NEW e, FileOK(e), DOMAIN e.leases = DOMAIN d.leases \cup {c}
  PROVE  WithinLimit(e)
<1>1. ASSUME NEW a \in Allowances  PROVE Cardinality(ActiveLeases(e, a)) <= Limit[a]
  <2>1. CASE a = AllowanceOf[c]
    <3>1. ActiveLeases(e, a) = ActiveLeases(d, a) \cup {c}
      BY <2>1 DEF ActiveLeases
    <3>2. Cardinality(ActiveLeases(e, a)) <= Cardinality(ActiveLeases(d, a)) + 1
      <4>1. Cardinality(ActiveLeases(d, a) \cup {c}) =
              IF c \in ActiveLeases(d, a) THEN Cardinality(ActiveLeases(d, a))
              ELSE Cardinality(ActiveLeases(d, a)) + 1
        BY FiniteLeases, FS_AddElement
      <4>2. Cardinality(ActiveLeases(d, a)) \in Nat
        BY FiniteLeases
      <4>3. QED
        BY <3>1, <4>1, <4>2
    <3>3. QED
      BY <2>1, <3>2, FiniteLeases, LimitAssumption
  <2>2. CASE a # AllowanceOf[c]
    <3>1. ActiveLeases(e, a) = ActiveLeases(d, a)
      BY <2>2 DEF ActiveLeases
    <3>2. QED
      BY <3>1 DEF WithinLimit
  <2>3. QED
    BY <2>1, <2>2
<1>2. QED
  BY <1>1 DEF WithinLimit

\* Rows that keep their tickets stay distinct.
LEMMA DistinctKept ==
  ASSUME NEW d, Distinct(d), NEW e,
         DOMAIN e.waiters \subseteq DOMAIN d.waiters,
         \A x \in DOMAIN e.waiters : e.waiters[x].ticket = d.waiters[x].ticket
  PROVE  Distinct(e)
BY DEF Distinct

\* The newest ticket is nobody else's.
LEMMA DistinctQueued ==
  ASSUME NEW d, FileOK(d), Distinct(d), NEW c \in Calls, NEW now \in Stale .. 0
  PROVE  Distinct(Queued(d, c, now))
<1> DEFINE e == Queued(d, c, now)
<1>1. /\ DOMAIN e.waiters = DOMAIN d.waiters \cup {c}
      /\ c \notin DOMAIN d.waiters => e.waiters[c].ticket = d.next
      /\ c \in DOMAIN d.waiters => e.waiters[c].ticket = d.waiters[c].ticket
      /\ \A x \in DOMAIN d.waiters \ {c} : e.waiters[x] = d.waiters[x]
  BY QueuedFacts
<1>2. \A x \in DOMAIN d.waiters : d.waiters[x].ticket < d.next
  BY FileForm
<1>3. d.next \in Nat
  BY FileForm
<1> HIDE DEF e
<1>4. \A x \in DOMAIN d.waiters : e.waiters[x].ticket = d.waiters[x].ticket
  BY <1>1
<1>5. \A x \in DOMAIN d.waiters : d.waiters[x].ticket # d.next
  BY <1>2, <1>3
<1>6. ASSUME NEW x \in DOMAIN e.waiters, NEW y \in DOMAIN e.waiters,
             e.waiters[x].ticket = e.waiters[y].ticket
      PROVE  x = y
  <2>1. CASE x \in DOMAIN d.waiters /\ y \in DOMAIN d.waiters
    BY <2>1, <1>4, <1>6 DEF Distinct
  <2>2. CASE x \notin DOMAIN d.waiters
    BY <2>2, <1>1, <1>4, <1>5, <1>6
  <2>3. CASE y \notin DOMAIN d.waiters
    BY <2>3, <1>1, <1>4, <1>5, <1>6
  <2>4. QED
    BY <2>1, <2>2, <2>3
<1>7. QED
  BY <1>6 DEF Distinct, e

(***************************************************************************)
(* Steps of a call                                                         *)
(***************************************************************************)

\* A step of call c leaves every other call where it is.
OthersSame(c) ==
    /\ \A x \in Calls \ {c} : /\ stage'[x] = stage[x]
                              /\ due'[x] = due[x]
                              /\ x \in beating' <=> x \in beating
    /\ proc' = proc /\ slept' = slept /\ lost' = lost

\* The row of a healthy call, other than c, is not touched.
RowsKept(c) ==
    ~lost => \A x \in Calls \ {c} :
                /\ AtWork(x) => /\ x \in DOMAIN file'.leases
                                /\ file'.leases[x] = file.leases[x]
                /\ Queueing(x) => /\ x \in DOMAIN file'.waiters
                                  /\ file'.waiters[x] = file.waiters[x]

\* The row of c is ahead of its time.
OwnRow(c) ==
    ~lost' => /\ AtWork(c)' => /\ c \in DOMAIN file'.leases
                               /\ file'.leases[c] >= due'[c] + Slack
              /\ Queueing(c)' =>
                    /\ c \in DOMAIN file'.waiters
                    /\ file'.waiters[c].seen >= due'[c] - PollEvery - MaxLag

\* The step NoOvertaking allows.
Orderly ==
    \A w \in Calls :
        /\ stage[w] = "waiting" /\ stage'[w] = "waiting"
        /\ Healthy(w)
        /\ ~lost'
        => /\ w \in DOMAIN file'.waiters
           /\ file'.waiters[w].ticket = file.waiters[w].ticket
           /\ \A c \in Calls :
                 /\ AllowanceOf[c] = AllowanceOf[w]
                 /\ stage[c] # "calling" /\ stage'[c] = "calling"
                 => /\ c \in DOMAIN file.waiters
                    /\ file.waiters[c].ticket < file.waiters[w].ticket

\* A step that respects the rows of the others keeps every row ahead.
LEMMA CallStep ==
  ASSUME IInv, NEW c \in Calls, OthersSame(c), RowsKept(c), OwnRow(c)
  PROVE  LeaseAhead' /\ RowAhead'
<1>1. LeaseAhead'
  <2> SUFFICES ASSUME ~lost', NEW x \in Calls, AtWork(x)'
               PROVE  /\ x \in DOMAIN file'.leases
                      /\ file'.leases[x] >= due'[x] + Slack
    BY DEF LeaseAhead, Slack
  <2>1. CASE x = c
    BY <2>1 DEF OwnRow
  <2>2. CASE x # c
    <3>1. AtWork(x) /\ ~lost /\ due'[x] = due[x]
      BY <2>2 DEF OthersSame, AtWork, Healthy, IsUp
    <3>2. x \in DOMAIN file.leases /\ file.leases[x] >= due[x] + Slack
      BY <3>1 DEF IInv, LeaseAhead
    <3>3. x \in DOMAIN file'.leases /\ file'.leases[x] = file.leases[x]
      BY <2>2, <3>1 DEF RowsKept
    <3>4. QED
      BY <3>1, <3>2, <3>3
  <2>3. QED
    BY <2>1, <2>2
<1>2. RowAhead'
  <2> SUFFICES ASSUME ~lost', NEW x \in Calls, Queueing(x)'
               PROVE  /\ x \in DOMAIN file'.waiters
                      /\ file'.waiters[x].seen >= due'[x] - PollEvery - MaxLag
    BY DEF RowAhead
  <2>1. CASE x = c
    BY <2>1 DEF OwnRow
  <2>2. CASE x # c
    <3>1. Queueing(x) /\ ~lost /\ due'[x] = due[x]
      BY <2>2 DEF OthersSame, Queueing, Healthy, IsUp
    <3>2. /\ x \in DOMAIN file.waiters
          /\ file.waiters[x].seen >= due[x] - PollEvery - MaxLag
      BY <3>1 DEF IInv, RowAhead
    <3>3. x \in DOMAIN file'.waiters /\ file'.waiters[x] = file.waiters[x]
      BY <2>2, <3>1 DEF RowsKept
    <3>4. QED
      BY <3>1, <3>2, <3>3
  <2>3. QED
    BY <2>1, <2>2
<1>3. QED
  BY <1>1, <1>2

\* A step that grants nothing and leaves its own call not waiting, or with its
\* ticket, is orderly.
LEMMA OrderlyWithoutGrant ==
  ASSUME NEW c \in Calls, OthersSame(c), RowsKept(c),
         stage'[c] = "calling" => stage[c] = "calling",
         ~lost /\ Queueing(c) /\ stage'[c] = "waiting" =>
            /\ c \in DOMAIN file'.waiters
            /\ file'.waiters[c].ticket = file.waiters[c].ticket
  PROVE  Orderly
<1> SUFFICES ASSUME NEW w \in Calls,
                    stage[w] = "waiting", stage'[w] = "waiting",
                    Healthy(w), ~lost'
             PROVE  /\ w \in DOMAIN file'.waiters
                    /\ file'.waiters[w].ticket = file.waiters[w].ticket
                    /\ \A x \in Calls :
                          ~(stage[x] # "calling" /\ stage'[x] = "calling")
  BY DEF Orderly
<1>1. Queueing(w) /\ ~lost
  BY DEF Queueing, OthersSame
<1>2. w \in DOMAIN file'.waiters /\ file'.waiters[w].ticket = file.waiters[w].ticket
  <2>1. CASE w = c
    BY <2>1, <1>1
  <2>2. CASE w # c
    BY <2>2, <1>1 DEF RowsKept
  <2>3. QED
    BY <2>1, <2>2
<1>3. \A x \in Calls : ~(stage[x] # "calling" /\ stage'[x] = "calling")
  BY DEF OthersSame
<1>4. QED
  BY <1>2, <1>3

\* The cleanup, at any reading of the clock, spares the healthy.
LEMMA Survivors ==
  ASSUME IInv, ~lost, NEW p \in Procs, NEW now \in Int, Past <= now, now <= 0,
         NEW x \in Calls
  PROVE  LET e == Cleaned(file, p, now)
         IN  /\ AtWork(x) => x \in DOMAIN e.leases /\ e.leases[x] = file.leases[x]
             /\ Queueing(x) => x \in DOMAIN e.waiters /\ e.waiters[x] = file.waiters[x]
<1> DEFINE e == Cleaned(file, p, now)
<1>1. FileOK(file) /\ due[x] \in Int /\ Past <= due[x]
  BY DEF IInv, TypeOK
<1>2. /\ \A y \in DOMAIN file.leases :
            file.leases[y] > now /\ ~ProvablyDead(y, p) =>
               y \in DOMAIN e.leases /\ e.leases[y] = file.leases[y]
      /\ \A y \in DOMAIN file.waiters :
            now - file.waiters[y].seen <= WaiterStale =>
               y \in DOMAIN e.waiters /\ e.waiters[y] = file.waiters[y]
  BY <1>1, CleanedFacts
<1> HIDE DEF e
<1>3. ASSUME AtWork(x)
      PROVE  x \in DOMAIN e.leases /\ e.leases[x] = file.leases[x]
  <2>1. x \in DOMAIN file.leases /\ file.leases[x] >= due[x] + Slack
    BY <1>3 DEF IInv, LeaseAhead
  <2>2. file.leases[x] \in Int
    <3>1. IsTable(file.leases, Leases)
      BY <1>1, FileForm
    <3>2. file.leases[x] \in Leases
      BY <2>1, <3>1 DEF IsTable
    <3>3. QED
      BY <3>2, Times DEF Leases
  <2>3. file.leases[x] > now
    BY <1>1, <2>1, <2>2, Times
  <2>4. ~ProvablyDead(x, p)
    BY <1>3 DEF AtWork, Healthy, IsUp, ProvablyDead
  <2>5. QED
    BY <1>2, <2>1, <2>3, <2>4
<1>4. ASSUME Queueing(x)
      PROVE  x \in DOMAIN e.waiters /\ e.waiters[x] = file.waiters[x]
  <2>1. /\ x \in DOMAIN file.waiters
        /\ file.waiters[x].seen >= due[x] - PollEvery - MaxLag
    BY <1>4 DEF IInv, RowAhead
  <2>2. file.waiters[x].seen \in Int
    <3>1. IsTable(file.waiters, Waiters)
      BY <1>1, FileForm
    <3>2. file.waiters[x] \in Waiters
      BY <2>1, <3>1 DEF IsTable
    <3>3. QED
      BY <3>2, Times DEF Waiters
  <2>3. now - file.waiters[x].seen <= WaiterStale
    BY <1>1, <2>1, <2>2, Times
  <2>4. QED
    BY <1>2, <2>1, <2>3
<1>5. QED
  BY <1>3, <1>4 DEF e

\* What the invariant says of the parts of the state.
LEMMA Parts ==
  ASSUME IInv
  PROVE  /\ FileOK(file) /\ Distinct(file) /\ WithinLimit(file)
         /\ proc \in [Procs -> {"up", "asleep", "dead"}]
         /\ stage \in [Calls -> {"idle", "waiting", "calling", "limited", "done"}]
         /\ beating \subseteq Calls
         /\ due \in [Calls -> Int]
         /\ \A c \in Calls : Past <= due[c] /\ Owner[c] \in Procs
         /\ slept \subseteq Procs
         /\ lost \in BOOLEAN
         /\ faults \in Nat
BY CallsAssumption DEF IInv, TypeOK

\* A failed update counts up.
LEMMA FaultsCounted ==
  ASSUME faults \in Nat, UNCHANGED faults \/ Fails
  PROVE  faults' \in Nat
BY DEF Fails

\* The files acquire computes from one another: cleaned up, with the row of its
\* call, and with its lease.
LEMMA AdmissionFacts ==
  ASSUME IInv, NEW c \in Calls, NEW lag \in Lags
  PROVE  LET m == Cleaned(file, Owner[c], -lag)
             q == Queued(m, c, -lag)
             g == Granted(q, c, -lag)
         IN  /\ \A x \in DOMAIN m.waiters : /\ x \in DOMAIN file.waiters
                                            /\ m.waiters[x] = file.waiters[x]
             /\ ~lost => \A x \in Calls :
                   /\ AtWork(x) => x \in DOMAIN m.leases /\ m.leases[x] = file.leases[x]
                   /\ Queueing(x) => x \in DOMAIN m.waiters /\ m.waiters[x] = file.waiters[x]
             /\ FileOK(m)
             /\ FileOK(q) /\ Distinct(q) /\ WithinLimit(q)
             /\ q.leases = m.leases
             /\ DOMAIN q.waiters = DOMAIN m.waiters \cup {c}
             /\ q.waiters[c].seen = -lag
             /\ c \notin DOMAIN m.waiters => q.waiters[c].ticket = m.next
             /\ c \in DOMAIN m.waiters => q.waiters[c].ticket = m.waiters[c].ticket
             /\ \A x \in DOMAIN m.waiters \ {c} : q.waiters[x] = m.waiters[x]
             /\ FileOK(g) /\ Distinct(g)
             /\ MayEnter(q, c, -lag) => WithinLimit(g)
             /\ DOMAIN g.leases = DOMAIN q.leases \cup {c}
             /\ g.leases[c] = -lag + LeaseTTL
             /\ \A x \in DOMAIN q.leases \ {c} : g.leases[x] = q.leases[x]
             /\ DOMAIN g.waiters = DOMAIN q.waiters \ {c}
             /\ \A x \in DOMAIN q.waiters \ {c} : g.waiters[x] = q.waiters[x]
<1> DEFINE now == -lag
           m   == Cleaned(file, Owner[c], now)
           q   == Queued(m, c, now)
           g   == Granted(q, c, now)
<1>1. /\ now \in Int /\ Past <= now /\ now <= 0
      /\ now \in Stale .. 0
      /\ now + LeaseTTL \in Leases
  BY Readings
<1>3. /\ FileOK(m)
      /\ DOMAIN m.leases \subseteq DOMAIN file.leases
      /\ DOMAIN m.waiters \subseteq DOMAIN file.waiters
      /\ \A x \in DOMAIN m.waiters : m.waiters[x] = file.waiters[x]
  BY <1>1, Parts, CleanedFacts
<1>4. ~lost => \A x \in Calls :
        /\ AtWork(x) => x \in DOMAIN m.leases /\ m.leases[x] = file.leases[x]
        /\ Queueing(x) => x \in DOMAIN m.waiters /\ m.waiters[x] = file.waiters[x]
  BY <1>1, Parts, Survivors
<1>5. Distinct(m) /\ WithinLimit(m)
  <2> HIDE DEF m
  <2>1. QED
    BY <1>3, Parts, DistinctKept, LimitKept
<1>6. /\ FileOK(q)
      /\ q.leases = m.leases
      /\ DOMAIN q.waiters = DOMAIN m.waiters \cup {c}
      /\ q.waiters[c].seen = now
      /\ c \notin DOMAIN m.waiters => q.waiters[c].ticket = m.next
      /\ c \in DOMAIN m.waiters => q.waiters[c].ticket = m.waiters[c].ticket
      /\ \A x \in DOMAIN m.waiters \ {c} : q.waiters[x] = m.waiters[x]
  <2> HIDE DEF m, now
  <2>1. QED
    BY <1>1, <1>3, QueuedFacts
<1>7. Distinct(q) /\ WithinLimit(q)
  <2> HIDE DEF m, now
  <2>1. Distinct(q)
    BY <1>1, <1>3, <1>5, DistinctQueued
  <2> HIDE DEF q
  <2>2. WithinLimit(q)
    BY <1>3, <1>5, <1>6, LimitKept
  <2>3. QED
    BY <2>1, <2>2
<1>8. /\ FileOK(g)
      /\ DOMAIN g.leases = DOMAIN q.leases \cup {c}
      /\ g.leases[c] = now + LeaseTTL
      /\ \A x \in DOMAIN q.leases \ {c} : g.leases[x] = q.leases[x]
      /\ DOMAIN g.waiters = DOMAIN q.waiters \ {c}
      /\ \A x \in DOMAIN q.waiters \ {c} : g.waiters[x] = q.waiters[x]
  <2> HIDE DEF q, now
  <2>1. QED
    BY <1>1, <1>6, GrantedFacts
<1>9. Distinct(g)
  <2> HIDE DEF q, g
  <2>1. QED
    BY <1>6, <1>7, <1>8, DistinctKept
<1>10. MayEnter(q, c, now) => WithinLimit(g)
  <2>1. MayEnter(q, c, now) =>
           Cardinality(ActiveLeases(q, AllowanceOf[c])) < Limit[AllowanceOf[c]]
    BY DEF MayEnter
  <2> HIDE DEF q, g
  <2>2. QED
    BY <2>1, <1>6, <1>7, <1>8, LimitAfterGrant
<1>11. \A x \in DOMAIN m.waiters : /\ x \in DOMAIN file.waiters
                                  /\ m.waiters[x] = file.waiters[x]
  BY <1>3
<1> HIDE DEF m, q, g
<1>12. QED
  BY <1>3, <1>4, <1>6, <1>7, <1>8, <1>9, <1>10, <1>11 DEF m, q, g, now

\* acquire, one round.
LEMMA PollOK ==
  ASSUME IInv, NEW c \in Calls, NEW lag \in Lags, Poll(c, lag)
  PROVE  IInv' /\ Orderly
<1> DEFINE now == -lag
           m   == Cleaned(file, Owner[c], now)
           q   == Queued(m, c, now)
           g   == Granted(q, c, now)
           enters == MayEnter(q, c, now)
<1>1. /\ now \in Int /\ Past <= now /\ now <= 0
      /\ now \in Stale .. 0
      /\ now + LeaseTTL \in Leases
  BY Readings
<1>2. /\ IsUp(c)
      /\ stage[c] \in {"idle", "waiting"}
      /\ enters => /\ file' = g
                   /\ stage' = [stage EXCEPT ![c] = "calling"]
                   /\ beating' = beating \cup {c}
                   /\ due' = [due EXCEPT ![c] = RenewEvery]
      /\ ~enters => /\ file' = q
                    /\ stage' = [stage EXCEPT ![c] = "waiting"]
                    /\ beating' = beating
                    /\ due' = [due EXCEPT ![c] = PollEvery]
      /\ UNCHANGED <<proc, slept, lost, faults>>
  BY DEF Poll
<1>3. /\ FileOK(m)
      /\ \A x \in DOMAIN m.waiters : /\ x \in DOMAIN file.waiters
                                     /\ m.waiters[x] = file.waiters[x]
      /\ ~lost => \A x \in Calls :
            /\ AtWork(x) => x \in DOMAIN m.leases /\ m.leases[x] = file.leases[x]
            /\ Queueing(x) => x \in DOMAIN m.waiters /\ m.waiters[x] = file.waiters[x]
      /\ FileOK(q) /\ Distinct(q) /\ WithinLimit(q)
      /\ q.leases = m.leases
      /\ DOMAIN q.waiters = DOMAIN m.waiters \cup {c}
      /\ q.waiters[c].seen = now
      /\ c \notin DOMAIN m.waiters => q.waiters[c].ticket = m.next
      /\ c \in DOMAIN m.waiters => q.waiters[c].ticket = m.waiters[c].ticket
      /\ \A x \in DOMAIN m.waiters \ {c} : q.waiters[x] = m.waiters[x]
      /\ FileOK(g) /\ Distinct(g)
      /\ enters => WithinLimit(g)
      /\ DOMAIN g.leases = DOMAIN q.leases \cup {c}
      /\ g.leases[c] = now + LeaseTTL
      /\ \A x \in DOMAIN q.leases \ {c} : g.leases[x] = q.leases[x]
      /\ DOMAIN g.waiters = DOMAIN q.waiters \ {c}
      /\ \A x \in DOMAIN q.waiters \ {c} : g.waiters[x] = q.waiters[x]
  BY AdmissionFacts
<1>4. enters => Ahead(q, c) = {}
  BY DEF MayEnter
<1> HIDE DEF m, q, g, enters
<1>5. OthersSame(c)
  <2>1. CASE enters
    BY <2>1, <1>2, Parts DEF OthersSame
  <2>2. CASE ~enters
    BY <2>2, <1>2, Parts DEF OthersSame
  <2>3. QED
    BY <2>1, <2>2
<1>6. RowsKept(c)
  <2>1. CASE enters
    BY <2>1, <1>2, <1>3 DEF RowsKept
  <2>2. CASE ~enters
    BY <2>2, <1>2, <1>3 DEF RowsKept
  <2>3. QED
    BY <2>1, <2>2
<1>7. OwnRow(c)
  <2>1. CASE enters
    <3>1. /\ c \in DOMAIN file'.leases
          /\ file'.leases[c] >= due'[c] + Slack
          /\ stage'[c] = "calling"
      BY <2>1, <1>1, <1>2, <1>3, Times, Parts DEF Lags
    <3>2. QED
      BY <3>1 DEF OwnRow, Queueing
  <2>2. CASE ~enters
    <3>1. /\ c \in DOMAIN file'.waiters
          /\ file'.waiters[c].seen >= due'[c] - PollEvery - MaxLag
          /\ stage'[c] = "waiting"
      BY <2>2, <1>1, <1>2, <1>3, Times, Parts DEF Lags
    <3>2. QED
      BY <3>1 DEF OwnRow, AtWork
  <2>3. QED
    BY <2>1, <2>2
<1>8. LeaseAhead' /\ RowAhead'
  BY <1>5, <1>6, <1>7, CallStep
<1>9. FileOK(file') /\ Distinct(file') /\ WithinLimit(file')
  <2>1. CASE enters
    BY <2>1, <1>2, <1>3
  <2>2. CASE ~enters
    BY <2>2, <1>2, <1>3
  <2>3. QED
    BY <2>1, <2>2
<1>10. TypeOK'
  <2>1. CASE enters
    BY <2>1, <1>2, <1>9, Parts, Times DEF TypeOK
  <2>2. CASE ~enters
    BY <2>2, <1>2, <1>9, Parts, Times DEF TypeOK
  <2>3. QED
    BY <2>1, <2>2
<1>11. SleepersKnown'
  BY <1>2 DEF IInv, SleepersKnown
<1>12. BeatsAfterGrant'
  <2>1. \A x \in Calls \ {c} : x \in beating' => stage'[x] \in {"calling", "limited", "done"}
    BY <1>5 DEF OthersSame, IInv, BeatsAfterGrant
  <2>2. c \notin beating
    BY <1>2 DEF IInv, BeatsAfterGrant
  <2>3. c \in beating' => stage'[c] \in {"calling", "limited", "done"}
    BY <1>2, <2>2, Parts
  <2>4. beating' \subseteq Calls
    BY <1>10 DEF TypeOK
  <2>5. QED
    BY <2>1, <2>3, <2>4 DEF BeatsAfterGrant
<1>13. IInv'
  BY <1>8, <1>9, <1>10, <1>11, <1>12 DEF IInv, Distinct, WithinLimit, ActiveLeases
<1>14. Orderly
  <2>1. CASE ~enters
    <3>1. /\ stage'[c] = "waiting"
          /\ ~lost /\ Queueing(c) =>
                /\ c \in DOMAIN file'.waiters
                /\ file'.waiters[c].ticket = file.waiters[c].ticket
      BY <2>1, <1>2, <1>3, Parts
    <3>2. QED
      BY <3>1, <1>5, <1>6, OrderlyWithoutGrant
  <2>2. CASE enters
    <3> SUFFICES ASSUME NEW w \in Calls,
                        stage[w] = "waiting", stage'[w] = "waiting",
                        Healthy(w), ~lost'
                 PROVE  /\ w \in DOMAIN file'.waiters
                        /\ file'.waiters[w].ticket = file.waiters[w].ticket
                        /\ \A x \in Calls :
                              /\ AllowanceOf[x] = AllowanceOf[w]
                              /\ stage[x] # "calling" /\ stage'[x] = "calling"
                              => /\ x \in DOMAIN file.waiters
                                 /\ file.waiters[x].ticket < file.waiters[w].ticket
      BY DEF Orderly
    <3>1. w # c /\ Queueing(w) /\ ~lost
      BY <2>2, <1>2, Parts DEF Queueing
    <3>2. w \in DOMAIN m.waiters /\ m.waiters[w] = file.waiters[w]
      BY <1>3, <3>1
    <3>3. w \in DOMAIN q.waiters /\ q.waiters[w] = file.waiters[w]
      BY <1>3, <3>1, <3>2
    <3>4. w \in DOMAIN file'.waiters /\ file'.waiters[w] = file.waiters[w]
      BY <2>2, <1>2, <1>3, <3>1, <3>3
    <3>5. ASSUME NEW x \in Calls, AllowanceOf[x] = AllowanceOf[w],
                 stage[x] # "calling", stage'[x] = "calling"
          PROVE  x \in DOMAIN file.waiters
                 /\ file.waiters[x].ticket < file.waiters[w].ticket
      <4>1. x = c
        BY <3>5, <1>5 DEF OthersSame
      <4>2. ~ProvablyDead(w, Owner[c])
        BY DEF ProvablyDead, Healthy, IsUp
      <4>3. ~(q.waiters[w].ticket < q.waiters[c].ticket)
        BY <2>2, <1>4, <3>3, <3>5, <4>1, <4>2 DEF Ahead
      <4>4. q.waiters[w].ticket \in Nat /\ q.waiters[c].ticket \in Nat
        <5>1. IsTable(q.waiters, Waiters)
          BY <1>3, FileForm
        <5>2. q.waiters[w] \in Waiters /\ q.waiters[c] \in Waiters
          BY <1>3, <3>3, <5>1 DEF IsTable
        <5>3. QED
          BY <5>2 DEF Waiters
      <4>5. q.waiters[w].ticket # q.waiters[c].ticket
        BY <1>3, <3>1, <3>3 DEF Distinct
      <4>6. q.waiters[c].ticket < q.waiters[w].ticket
        BY <4>3, <4>4, <4>5
      <4>7. c \in DOMAIN m.waiters
        <5>1. m.waiters[w].ticket < m.next /\ m.next \in Nat
          BY <1>3, <3>2, FileForm
        <5>2. q.waiters[w].ticket = m.waiters[w].ticket
          BY <3>2, <3>3
        <5>3. QED
          BY <1>3, <4>4, <4>6, <5>1, <5>2
      <4>8. QED
        BY <1>3, <3>3, <4>1, <4>6, <4>7
    <3>6. QED
      BY <3>4, <3>5
  <2>3. QED
    BY <2>1, <2>2
<1>15. QED
  BY <1>13, <1>14

\* acquire, interrupted after its grant was written.
LEMMA LeaveGrantedOK ==
  ASSUME IInv, NEW c \in Calls, NEW lag \in Lags, LeaveGranted(c, lag)
  PROVE  IInv' /\ Orderly
<1> DEFINE now == -lag
           m   == Cleaned(file, Owner[c], now)
           q   == Queued(m, c, now)
           g   == Granted(q, c, now)
<1>1. /\ IsUp(c)
      /\ stage[c] \in {"idle", "waiting"}
      /\ MayEnter(q, c, now)
      /\ Fails
      /\ file' = g
      /\ stage' = [stage EXCEPT ![c] = "done"]
      /\ UNCHANGED <<proc, beating, due, slept, lost>>
  BY DEF LeaveGranted
<1>2. /\ ~lost => \A x \in Calls :
            /\ AtWork(x) => x \in DOMAIN m.leases /\ m.leases[x] = file.leases[x]
            /\ Queueing(x) => x \in DOMAIN m.waiters /\ m.waiters[x] = file.waiters[x]
      /\ q.leases = m.leases
      /\ DOMAIN q.waiters = DOMAIN m.waiters \cup {c}
      /\ \A x \in DOMAIN m.waiters \ {c} : q.waiters[x] = m.waiters[x]
      /\ FileOK(g) /\ Distinct(g) /\ WithinLimit(g)
      /\ DOMAIN g.leases = DOMAIN q.leases \cup {c}
      /\ \A x \in DOMAIN q.leases \ {c} : g.leases[x] = q.leases[x]
      /\ DOMAIN g.waiters = DOMAIN q.waiters \ {c}
      /\ \A x \in DOMAIN q.waiters \ {c} : g.waiters[x] = q.waiters[x]
  BY <1>1, AdmissionFacts
<1> HIDE DEF m, q, g, now
<1>3. OthersSame(c)
  BY <1>1, Parts DEF OthersSame
<1>4. RowsKept(c)
  BY <1>1, <1>2 DEF RowsKept
<1>5. stage'[c] = "done"
  BY <1>1, Parts
<1>6. OwnRow(c)
  BY <1>5 DEF OwnRow, AtWork, Queueing
<1>7. LeaseAhead' /\ RowAhead'
  BY <1>3, <1>4, <1>6, CallStep
<1>8. faults' \in Nat
  BY <1>1, Parts, FaultsCounted
<1>9. TypeOK'
  BY <1>1, <1>2, <1>8, Parts DEF TypeOK
<1>10. SleepersKnown' /\ BeatsAfterGrant'
  <2>1. SleepersKnown'
    BY <1>1 DEF IInv, SleepersKnown
  <2>2. \A x \in beating : stage'[x] \in {"calling", "limited", "done"}
    BY <1>3, <1>5, Parts DEF OthersSame, IInv, BeatsAfterGrant
  <2>3. QED
    BY <1>1, <2>1, <2>2 DEF BeatsAfterGrant
<1>11. IInv'
  BY <1>1, <1>2, <1>7, <1>9, <1>10 DEF IInv, Distinct, WithinLimit, ActiveLeases
<1>12. Orderly
  BY <1>3, <1>4, <1>5, OrderlyWithoutGrant
<1>13. QED
  BY <1>11, <1>12

\* What a step of call c has to show when it leaves processes alone and grants
\* nothing: a well-formed file with no new lease and no changed ticket.
LEMMA QuietStep ==
  ASSUME IInv, NEW c \in Calls,
         OthersSame(c), RowsKept(c), OwnRow(c),
         FileOK(file'),
         DOMAIN file'.leases \subseteq DOMAIN file.leases,
         DOMAIN file'.waiters \subseteq DOMAIN file.waiters,
         \A x \in DOMAIN file'.waiters : file'.waiters[x].ticket = file.waiters[x].ticket,
         stage' \in [Calls -> {"idle", "waiting", "calling", "limited", "done"}],
         beating' \subseteq Calls,
         due' \in [Calls -> Int],
         Past <= due'[c],
         faults' \in Nat,
         stage'[c] = "calling" => stage[c] = "calling",
         stage'[c] \in {"calling", "limited", "done"}
  PROVE  IInv' /\ Orderly
<1>1. LeaseAhead' /\ RowAhead'
  BY CallStep
<1>2. Distinct(file')
  BY Parts, DistinctKept
<1>3. WithinLimit(file')
  BY Parts, LimitKept
<1>4. \A x \in Calls : Past <= due'[x]
  BY Parts DEF OthersSame
<1>5. TypeOK'
  BY <1>4, Parts DEF OthersSame, TypeOK
<1>6. SleepersKnown'
  BY DEF IInv, SleepersKnown, OthersSame
<1>7. BeatsAfterGrant'
  <2>1. \A x \in Calls \ {c} : x \in beating' => stage'[x] \in {"calling", "limited", "done"}
    BY DEF OthersSame, IInv, BeatsAfterGrant
  <2>2. QED
    BY <2>1 DEF BeatsAfterGrant
<1>8. IInv'
  BY <1>1, <1>2, <1>3, <1>5, <1>6, <1>7 DEF IInv, Distinct, WithinLimit, ActiveLeases
<1>9. Orderly
  BY OrderlyWithoutGrant
<1>10. QED
  BY <1>8, <1>9

\* acquire left by an exception.
LEMMA GiveUpOK ==
  ASSUME IInv, NEW c \in Calls, GiveUp(c)
  PROVE  IInv' /\ Orderly
<1> DEFINE e == WaiterCancelled(file, c)
<1>1. /\ IsUp(c) /\ stage[c] \in {"idle", "waiting"}
      /\ (file' = e /\ UNCHANGED faults) \/ (UNCHANGED file /\ Fails)
      /\ stage' = [stage EXCEPT ![c] = "done"]
      /\ UNCHANGED <<proc, beating, due, slept, lost>>
  BY DEF GiveUp, Writes
<1>2. /\ FileOK(e)
      /\ e.leases = file.leases
      /\ DOMAIN e.waiters = DOMAIN file.waiters \ {c}
      /\ \A x \in DOMAIN file.waiters \ {c} : e.waiters[x] = file.waiters[x]
  BY Parts, CancelledFacts
<1> HIDE DEF e
<1>3. /\ FileOK(file')
      /\ file'.leases = file.leases
      /\ DOMAIN file'.waiters \subseteq DOMAIN file.waiters
      /\ \A x \in DOMAIN file.waiters \ {c} :
            x \in DOMAIN file'.waiters /\ file'.waiters[x] = file.waiters[x]
      /\ \A x \in DOMAIN file'.waiters : file'.waiters[x] = file.waiters[x]
  BY <1>1, <1>2, Parts
<1>4. OthersSame(c)
  BY <1>1, Parts DEF OthersSame
<1>5. RowsKept(c)
  <2>1. \A x \in Calls : ~lost =>
           /\ AtWork(x) => x \in DOMAIN file.leases
           /\ Queueing(x) => x \in DOMAIN file.waiters
    BY DEF IInv, LeaseAhead, RowAhead
  <2>2. QED
    BY <1>3, <2>1 DEF RowsKept
<1>6. stage'[c] = "done"
  BY <1>1, Parts
<1>7. OwnRow(c)
  BY <1>6 DEF OwnRow, AtWork, Queueing
<1>8. faults' \in Nat
  BY <1>1, Parts, FaultsCounted
<1>9. QED
  BY <1>1, <1>3, <1>4, <1>5, <1>6, <1>7, <1>8, Parts, QuietStep

\* renew.
LEMMA RenewOK ==
  ASSUME IInv, NEW c \in Calls, NEW lag \in Lags, Renew(c, lag)
  PROVE  IInv' /\ Orderly
<1> DEFINE now == -lag
           e   == Renewed(file, c, now)
<1>1. /\ IsUp(c) /\ c \in beating
      /\ file' = e
      /\ beating' = IF c \in DOMAIN file.leases /\ stage[c] = "calling"
                    THEN beating ELSE beating \ {c}
      /\ due' = [due EXCEPT ![c] = RenewEvery]
      /\ UNCHANGED <<proc, stage, slept, lost, faults>>
  BY DEF Renew
<1>2. now \in Int /\ now + LeaseTTL \in Leases /\ Past <= now
  BY Readings
<1>3. /\ FileOK(e)
      /\ DOMAIN e.leases = DOMAIN file.leases
      /\ c \in DOMAIN file.leases => e.leases[c] = now + LeaseTTL
      /\ \A x \in DOMAIN file.leases \ {c} : e.leases[x] = file.leases[x]
      /\ e.waiters = file.waiters
  <2> HIDE DEF now
  <2>1. QED
    BY <1>2, Parts, RenewedFacts
<1> HIDE DEF e, now
<1>4. OthersSame(c)
  BY <1>1, Parts DEF OthersSame
<1>5. RowsKept(c)
  <2>1. \A x \in Calls : ~lost =>
           /\ AtWork(x) => x \in DOMAIN file.leases
           /\ Queueing(x) => x \in DOMAIN file.waiters
    BY DEF IInv, LeaseAhead, RowAhead
  <2>2. QED
    BY <1>1, <1>3, <2>1 DEF RowsKept
<1>6. stage[c] \in {"calling", "limited", "done"}
  BY <1>1 DEF IInv, BeatsAfterGrant
<1>7. OwnRow(c)
  <2>1. due'[c] = RenewEvery /\ ~Queueing(c)'
    BY <1>1, <1>6, Parts DEF Queueing
  <2>2. AtWork(c)' => c \in DOMAIN file.leases
    BY <1>1 DEF AtWork
  <2>3. AtWork(c)' => /\ c \in DOMAIN file'.leases
                      /\ file'.leases[c] >= due'[c] + Slack
    <3>1. now + LeaseTTL >= RenewEvery + Slack
      BY <1>2, Times
    <3>2. QED
      BY <1>1, <1>3, <2>1, <2>2, <3>1
  <2>4. QED
    BY <2>1, <2>3 DEF OwnRow
<1>8. Past <= due'[c] /\ due' \in [Calls -> Int]
  BY <1>1, Parts, Times
<1>9. QED
  BY <1>1, <1>3, <1>4, <1>5, <1>6, <1>7, <1>8, Parts, QuietStep

\* renew, failed.
LEMMA RenewFailsOK ==
  ASSUME IInv, NEW c \in Calls, RenewFails(c)
  PROVE  IInv' /\ Orderly
<1>1. /\ c \in beating /\ Fails
      /\ beating' = beating \ {c}
      /\ UNCHANGED <<file, proc, stage, due, slept, lost>>
  BY DEF RenewFails
<1>2. stage[c] \in {"calling", "limited", "done"}
  BY <1>1 DEF IInv, BeatsAfterGrant
<1>3. OthersSame(c)
  BY <1>1, Parts DEF OthersSame
<1>4. RowsKept(c)
  BY <1>1 DEF RowsKept, IInv, LeaseAhead, RowAhead
<1>5. OwnRow(c)
  BY <1>1, <1>2 DEF OwnRow, AtWork, Queueing
<1>6. faults' \in Nat
  BY <1>1, Parts, FaultsCounted
<1>7. QED
  BY <1>1, <1>2, <1>3, <1>4, <1>5, <1>6, Parts, QuietStep

\* The cleanup, with or without a further change that spares the rows of every
\* call but c, keeps the rows of the others.
LEMMA CleanupKeepsRows ==
  ASSUME IInv, NEW c \in Calls, NEW p \in Procs, NEW lag \in Lags, NEW e,
         \A x \in DOMAIN Cleaned(file, p, -lag).leases \ {c} :
            /\ x \in DOMAIN e.leases
            /\ e.leases[x] = Cleaned(file, p, -lag).leases[x],
         e.waiters = Cleaned(file, p, -lag).waiters,
         file' = e \/ UNCHANGED file
  PROVE  RowsKept(c)
<1> DEFINE now == -lag
           m   == Cleaned(file, p, now)
<1>1. now \in Int /\ Past <= now /\ now <= 0
  BY Readings
<1>2. ~lost => \A x \in Calls :
        /\ AtWork(x) => x \in DOMAIN m.leases /\ m.leases[x] = file.leases[x]
        /\ Queueing(x) => x \in DOMAIN m.waiters /\ m.waiters[x] = file.waiters[x]
  BY <1>1, Survivors
<1>3. \A x \in DOMAIN m.leases \ {c} :
         x \in DOMAIN e.leases /\ e.leases[x] = m.leases[x]
  OBVIOUS
<1>4. e.waiters = m.waiters
  OBVIOUS
<1> HIDE DEF m, now
<1>5. CASE file' = e
  BY <1>2, <1>3, <1>4, <1>5 DEF RowsKept
<1>6. CASE UNCHANGED file
  BY <1>6 DEF RowsKept, IInv, LeaseAhead, RowAhead
<1>7. QED
  BY <1>5, <1>6

\* release.
LEMMA ReleaseOK ==
  ASSUME IInv, NEW c \in Calls, NEW lag \in Lags, Release(c, lag)
  PROVE  IInv' /\ Orderly
<1> DEFINE now == -lag
           m   == Cleaned(file, Owner[c], now)
           e   == Released(m, c)
<1>1. /\ IsUp(c) /\ stage[c] = "calling"
      /\ (file' = e /\ UNCHANGED faults) \/ (UNCHANGED file /\ Fails)
      /\ \E s \in {"done", "limited"} : stage' = [stage EXCEPT ![c] = s]
      /\ beating' = IF due[c] <= 0 THEN beating ELSE beating \ {c}
      /\ UNCHANGED <<proc, due, slept, lost>>
  BY DEF Release, Writes
<1>2. now \in Int
  BY Readings
<1>3. /\ FileOK(m)
      /\ DOMAIN m.leases \subseteq DOMAIN file.leases
      /\ DOMAIN m.waiters \subseteq DOMAIN file.waiters
      /\ \A x \in DOMAIN m.waiters : m.waiters[x] = file.waiters[x]
  BY <1>2, Parts, CleanedFacts
<1>4. /\ FileOK(e)
      /\ DOMAIN e.leases = DOMAIN m.leases \ {c}
      /\ \A x \in DOMAIN m.leases \ {c} : e.leases[x] = m.leases[x]
      /\ e.waiters = m.waiters
  <2> HIDE DEF m
  <2>1. QED
    BY <1>3, ReleasedFacts
<1>5. RowsKept(c)
  <2>1. /\ \A x \in DOMAIN m.leases \ {c} :
              x \in DOMAIN e.leases /\ e.leases[x] = m.leases[x]
        /\ e.waiters = m.waiters
        /\ file' = e \/ UNCHANGED file
    BY <1>1, <1>4
  <2>2. Owner[c] \in Procs
    BY Parts
  <2> HIDE DEF e
  <2>3. QED
    BY <2>1, <2>2, CleanupKeepsRows
<1> HIDE DEF e, m, now
<1>6. /\ FileOK(file')
      /\ DOMAIN file'.leases \subseteq DOMAIN file.leases
      /\ DOMAIN file'.waiters \subseteq DOMAIN file.waiters
      /\ \A x \in DOMAIN file'.waiters : file'.waiters[x].ticket = file.waiters[x].ticket
  BY <1>1, <1>3, <1>4, Parts
<1>7. OthersSame(c)
  BY <1>1, Parts DEF OthersSame
<1>8. stage'[c] \in {"limited", "done"}
  BY <1>1, Parts
<1>9. OwnRow(c)
  BY <1>8 DEF OwnRow, AtWork, Queueing
<1>10. faults' \in Nat
  BY <1>1, Parts, FaultsCounted
<1>11. stage' \in [Calls -> {"idle", "waiting", "calling", "limited", "done"}]
  BY <1>1, Parts
<1>12. QED
  BY <1>1, <1>5, <1>6, <1>7, <1>8, <1>9, <1>10, <1>11, Parts, QuietStep

\* note_outcome with scope "account".
LEMMA NoteOutcomeOK ==
  ASSUME IInv, NEW c \in Calls, NEW lag \in Lags, NEW wait \in Cooldowns,
         NoteOutcome(c, lag, wait)
  PROVE  IInv' /\ Orderly
<1> DEFINE now == -lag
           m   == Cleaned(file, Owner[c], now)
           e   == Cooled(m, AllowanceOf[c], wait - lag)
<1>1. /\ IsUp(c) /\ stage[c] = "limited"
      /\ (file' = e /\ UNCHANGED faults) \/ (UNCHANGED file /\ Fails)
      /\ stage' = [stage EXCEPT ![c] = "done"]
      /\ UNCHANGED <<proc, beating, due, slept, lost>>
  BY DEF NoteOutcome, Writes
<1>2. now \in Int /\ wait - lag \in Int /\ AllowanceOf[c] \in Allowances
  BY Times, TimesAssumption, CallsAssumption DEF Lags
<1>3. /\ FileOK(m)
      /\ DOMAIN m.leases \subseteq DOMAIN file.leases
      /\ DOMAIN m.waiters \subseteq DOMAIN file.waiters
      /\ \A x \in DOMAIN m.waiters : m.waiters[x] = file.waiters[x]
  BY <1>2, Parts, CleanedFacts
<1>4. FileOK(e) /\ e.leases = m.leases /\ e.waiters = m.waiters
  <2> HIDE DEF m
  <2>1. QED
    BY <1>2, <1>3, CooledFacts
<1>5. RowsKept(c)
  <2>1. /\ \A x \in DOMAIN m.leases \ {c} :
              x \in DOMAIN e.leases /\ e.leases[x] = m.leases[x]
        /\ e.waiters = m.waiters
        /\ file' = e \/ UNCHANGED file
    BY <1>1, <1>4
  <2>2. Owner[c] \in Procs
    BY Parts
  <2> HIDE DEF e
  <2>3. QED
    BY <2>1, <2>2, CleanupKeepsRows
<1> HIDE DEF e, m, now
<1>6. /\ FileOK(file')
      /\ DOMAIN file'.leases \subseteq DOMAIN file.leases
      /\ DOMAIN file'.waiters \subseteq DOMAIN file.waiters
      /\ \A x \in DOMAIN file'.waiters : file'.waiters[x].ticket = file.waiters[x].ticket
  BY <1>1, <1>3, <1>4, Parts
<1>7. OthersSame(c)
  BY <1>1, Parts DEF OthersSame
<1>8. stage'[c] = "done"
  BY <1>1, Parts
<1>9. OwnRow(c)
  BY <1>8 DEF OwnRow, AtWork, Queueing
<1>10. faults' \in Nat
  BY <1>1, Parts, FaultsCounted
<1>11. QED
  BY <1>1, <1>5, <1>6, <1>7, <1>8, <1>9, <1>10, Parts, QuietStep

(***************************************************************************)
(* Steps of a process, of the file and of time                             *)
(***************************************************************************)

\* snapshot.
LEMMA SnapshotOK ==
  ASSUME IInv, NEW p \in Procs, NEW lag \in Lags, Snapshot(p, lag)
  PROVE  IInv' /\ Orderly
<1> DEFINE now == -lag
           m   == Cleaned(file, p, now)
<1>1. file' = m /\ UNCHANGED <<proc, stage, beating, due, slept, lost, faults>>
  BY DEF Snapshot
<1>2. now \in Int /\ Past <= now /\ now <= 0
  BY Readings
<1>3. /\ FileOK(m)
      /\ DOMAIN m.leases \subseteq DOMAIN file.leases
      /\ DOMAIN m.waiters \subseteq DOMAIN file.waiters
      /\ \A x \in DOMAIN m.waiters : m.waiters[x] = file.waiters[x]
  BY <1>2, Parts, CleanedFacts
<1>4. ~lost => \A x \in Calls :
        /\ AtWork(x) => x \in DOMAIN m.leases /\ m.leases[x] = file.leases[x]
        /\ Queueing(x) => x \in DOMAIN m.waiters /\ m.waiters[x] = file.waiters[x]
  BY <1>2, Survivors
<1> HIDE DEF m, now
<1>5. Distinct(m) /\ WithinLimit(m)
  BY <1>3, Parts, DistinctKept, LimitKept
<1>6. TypeOK'
  BY <1>1, <1>3, Parts DEF TypeOK
<1>7. BeatsAfterGrant' /\ SleepersKnown'
  BY <1>1 DEF IInv, BeatsAfterGrant, SleepersKnown
<1>8. /\ lost' = lost
      /\ \A x \in Calls : /\ AtWork(x)' <=> AtWork(x)
                          /\ Queueing(x)' <=> Queueing(x)
                          /\ due'[x] = due[x]
  BY <1>1 DEF AtWork, Queueing, Healthy, IsUp
<1>9. LeaseAhead' /\ RowAhead'
  <2>1. LeaseAhead'
    <3> SUFFICES ASSUME ~lost', NEW x \in Calls, AtWork(x)'
                 PROVE  /\ x \in DOMAIN file'.leases
                        /\ file'.leases[x] >= due'[x] + Slack
      BY DEF LeaseAhead, Slack
    <3>1. x \in DOMAIN file.leases /\ file.leases[x] >= due[x] + Slack
      BY <1>8 DEF IInv, LeaseAhead
    <3>2. QED
      BY <1>1, <1>4, <1>8, <3>1
  <2>2. RowAhead'
    <3> SUFFICES ASSUME ~lost', NEW x \in Calls, Queueing(x)'
                 PROVE  /\ x \in DOMAIN file'.waiters
                        /\ file'.waiters[x].seen >= due'[x] - PollEvery - MaxLag
      BY DEF RowAhead
    <3>1. file.waiters[x].seen >= due[x] - PollEvery - MaxLag
      BY <1>8 DEF IInv, RowAhead
    <3>2. QED
      BY <1>1, <1>4, <1>8, <3>1
  <2>3. QED
    BY <2>1, <2>2
<1>10. IInv'
  BY <1>1, <1>5, <1>6, <1>7, <1>9 DEF IInv, Distinct, WithinLimit, ActiveLeases
<1>11. Orderly
  BY <1>1, <1>4 DEF Orderly, Queueing
<1>12. QED
  BY <1>10, <1>11

\* The empty file is well formed, and nobody holds or waits in it.
LEMMA EmptyFileOK ==
  FileOK(EmptyFile) /\ Distinct(EmptyFile) /\ WithinLimit(EmptyFile)
<1> DEFINE none == <<>>
<1>1. DOMAIN none = {} /\ \A R : IsTable(none, R)
  BY DEF IsTable
<1>2. /\ EmptyFile.next = 1
      /\ EmptyFile.leases = none
      /\ EmptyFile.waiters = none
      /\ EmptyFile.cooldowns \in [Allowances -> Int]
  BY Times DEF EmptyFile
<1> HIDE DEF none
<1>3. FileOK(EmptyFile) /\ Distinct(EmptyFile)
  BY <1>1, <1>2, FileForm DEF Distinct
<1>4. \A a : ActiveLeases(EmptyFile, a) = {}
  BY <1>1, <1>2 DEF ActiveLeases
<1>5. WithinLimit(EmptyFile)
  BY <1>4, FS_EmptySet, LimitAssumption DEF WithinLimit
<1>6. QED
  BY <1>3, <1>5

\* The file found unreadable.
LEMMA UnreadableFileOK ==
  ASSUME IInv, UnreadableFile
  PROVE  IInv' /\ Orderly
<1>1. /\ Fails
      /\ file' = EmptyFile
      /\ lost' = TRUE
      /\ UNCHANGED <<proc, stage, beating, due, slept>>
  BY DEF UnreadableFile
<1>2. faults' \in Nat
  BY <1>1, Parts, FaultsCounted
<1>3. TypeOK'
  BY <1>1, <1>2, Parts, EmptyFileOK DEF TypeOK
<1>4. LeaseAhead' /\ RowAhead'
  BY <1>1 DEF LeaseAhead, RowAhead
<1>5. BeatsAfterGrant' /\ SleepersKnown'
  BY <1>1 DEF IInv, BeatsAfterGrant, SleepersKnown
<1>6. IInv'
  BY <1>1, <1>3, <1>4, <1>5, EmptyFileOK DEF IInv, Distinct, WithinLimit, ActiveLeases
<1>7. Orderly
  BY <1>1 DEF Orderly
<1>8. QED
  BY <1>6, <1>7

\* A step of the processes that makes no call healthy.
LEMMA ProcessStep ==
  ASSUME IInv,
         UNCHANGED <<file, stage, due, lost, faults>>,
         proc' \in [Procs -> {"up", "asleep", "dead"}],
         beating' \subseteq beating,
         slept' \subseteq Procs,
         SleepersKnown',
         \A x \in Calls : Healthy(x)' => Healthy(x)
  PROVE  IInv' /\ Orderly
<1>1. TypeOK'
  BY Parts DEF TypeOK
<1>2. \A x \in Calls : /\ AtWork(x)' => AtWork(x)
                       /\ Queueing(x)' => Queueing(x)
  BY DEF AtWork, Queueing
<1>3. LeaseAhead' /\ RowAhead'
  BY <1>2 DEF IInv, LeaseAhead, RowAhead, Slack
<1>4. BeatsAfterGrant'
  BY DEF IInv, BeatsAfterGrant
<1>5. IInv'
  BY <1>1, <1>3, <1>4 DEF IInv, Distinct, WithinLimit, ActiveLeases
<1>6. Orderly
  BY DEF Orderly, IInv, RowAhead, Queueing
<1>7. QED
  BY <1>5, <1>6

\* A process is killed.
LEMMA DieOK ==
  ASSUME IInv, NEW p \in Procs, Die(p)
  PROVE  IInv' /\ Orderly
<1>1. /\ proc' = [proc EXCEPT ![p] = "dead"]
      /\ beating' = {c \in beating : Owner[c] # p}
      /\ UNCHANGED <<file, stage, due, slept, lost, faults>>
  BY DEF Die
<1>2. \A x \in Calls : Healthy(x)' => Healthy(x)
  BY <1>1, Parts DEF Healthy, IsUp
<1>3. SleepersKnown'
  BY <1>1, Parts DEF IInv, SleepersKnown
<1>4. QED
  BY <1>1, <1>2, <1>3, Parts, ProcessStep

\* A process is suspended.
LEMMA SuspendOK ==
  ASSUME IInv, NEW p \in Procs, Suspend(p)
  PROVE  IInv' /\ Orderly
<1>1. /\ proc' = [proc EXCEPT ![p] = "asleep"]
      /\ slept' = slept \cup {p}
      /\ UNCHANGED <<file, stage, beating, due, lost, faults>>
  BY DEF Suspend
<1>2. \A x \in Calls : Healthy(x)' => Healthy(x)
  BY <1>1, Parts DEF Healthy, IsUp
<1>3. SleepersKnown'
  BY <1>1, Parts DEF IInv, SleepersKnown
<1>4. QED
  BY <1>1, <1>2, <1>3, Parts, ProcessStep

\* A process goes on after a suspension; it is not healthy any more.
LEMMA ResumeOK ==
  ASSUME IInv, NEW p \in Procs, Resume(p)
  PROVE  IInv' /\ Orderly
<1>1. /\ proc[p] = "asleep"
      /\ proc' = [proc EXCEPT ![p] = "up"]
      /\ UNCHANGED <<file, stage, beating, due, slept, lost, faults>>
  BY DEF Resume
<1>2. p \in slept
  BY <1>1 DEF IInv, SleepersKnown
<1>3. \A x \in Calls : Healthy(x)' => Healthy(x)
  BY <1>1, <1>2, Parts DEF Healthy, IsUp
<1>4. SleepersKnown'
  BY <1>1, Parts DEF IInv, SleepersKnown
<1>5. QED
  BY <1>1, <1>3, <1>4, Parts, ProcessStep

\* Time passes only while no thread is late, so the margins stay.
LEMMA TickOK ==
  ASSUME IInv, Tick
  PROVE  IInv' /\ Orderly
<1> DEFINE e == Aged(file)
<1>1. /\ \A c \in Calls : OnTime(c)
      /\ file' = e
      /\ due' = [c \in Calls |-> IF stage[c] = "waiting" \/ c \in beating
                                 THEN Earlier(due[c], Past) ELSE due[c]]
      /\ UNCHANGED <<proc, stage, beating, slept, lost, faults>>
  BY DEF Tick
<1>2. /\ FileOK(e)
      /\ DOMAIN e.leases = DOMAIN file.leases
      /\ DOMAIN e.waiters = DOMAIN file.waiters
      /\ \A x \in DOMAIN file.leases :
            file.leases[x] > Past => e.leases[x] = file.leases[x] - 1
      /\ \A x \in DOMAIN file.waiters :
            /\ e.waiters[x].ticket = file.waiters[x].ticket
            /\ file.waiters[x].seen > Stale =>
                  e.waiters[x].seen = file.waiters[x].seen - 1
  BY Parts, AgedFacts
<1> HIDE DEF e
<1>3. Distinct(e) /\ WithinLimit(e)
  BY <1>2, Parts, DistinctKept, LimitKept
<1>4. \A c \in Calls : due'[c] \in Int /\ Past <= due'[c]
  <2>1. \A c \in Calls : due[c] \in Int /\ Past <= due[c]
    BY Parts
  <2>2. \A c \in Calls : /\ Earlier(due[c], Past) \in Int
                         /\ Past <= Earlier(due[c], Past)
    BY <2>1, Times DEF Earlier
  <2>3. QED
    BY <1>1, <2>1, <2>2
<1>5. TypeOK'
  <2>1. due' \in [Calls -> Int]
    BY <1>1, <1>4
  <2>2. QED
    BY <1>1, <1>2, <1>4, <2>1, Parts DEF TypeOK
<1>6. BeatsAfterGrant' /\ SleepersKnown'
  BY <1>1 DEF IInv, BeatsAfterGrant, SleepersKnown
<1>7. \A x \in Calls : /\ AtWork(x)' <=> AtWork(x)
                       /\ Queueing(x)' <=> Queueing(x)
  BY <1>1 DEF AtWork, Queueing, Healthy, IsUp
<1>8. ASSUME NEW x \in Calls, AtWork(x) \/ Queueing(x)
      PROVE  due'[x] = due[x] - 1 /\ due[x] \in Int /\ due[x] > Past
  <2>1. due[x] > Past
    BY <1>1, <1>8 DEF OnTime, AtWork, Queueing, Healthy
  <2>2. due'[x] = Earlier(due[x], Past)
    BY <1>1, <1>8 DEF AtWork, Queueing
  <2>3. QED
    BY <2>1, <2>2, Parts DEF Earlier
<1>9. LeaseAhead'
  <2> SUFFICES ASSUME ~lost', NEW x \in Calls, AtWork(x)'
               PROVE  /\ x \in DOMAIN file'.leases
                      /\ file'.leases[x] >= due'[x] + Slack
    BY DEF LeaseAhead, Slack
  <2>1. AtWork(x) /\ ~lost
    BY <1>1, <1>7
  <2>2. x \in DOMAIN file.leases /\ file.leases[x] >= due[x] + Slack
    BY <2>1 DEF IInv, LeaseAhead
  <2>3. file.leases[x] \in Int
    <3>1. IsTable(file.leases, Leases)
      BY Parts, FileForm
    <3>2. file.leases[x] \in Leases
      BY <2>2, <3>1 DEF IsTable
    <3>3. QED
      BY <3>2, Times DEF Leases
  <2>4. due'[x] = due[x] - 1 /\ due[x] \in Int /\ due[x] > Past
    BY <1>8, <2>1
  <2>5. file.leases[x] > Past
    BY <2>2, <2>3, <2>4, Times
  <2>6. e.leases[x] = file.leases[x] - 1
    BY <1>2, <2>2, <2>5
  <2>7. file.leases[x] - 1 >= due'[x] + Slack
    BY <2>2, <2>3, <2>4, Times
  <2>8. QED
    BY <1>1, <1>2, <2>2, <2>6, <2>7
<1>10. RowAhead'
  <2> SUFFICES ASSUME ~lost', NEW x \in Calls, Queueing(x)'
               PROVE  /\ x \in DOMAIN file'.waiters
                      /\ file'.waiters[x].seen >= due'[x] - PollEvery - MaxLag
    BY DEF RowAhead
  <2>1. Queueing(x) /\ ~lost
    BY <1>1, <1>7
  <2>2. /\ x \in DOMAIN file.waiters
        /\ file.waiters[x].seen >= due[x] - PollEvery - MaxLag
    BY <2>1 DEF IInv, RowAhead
  <2>3. file.waiters[x].seen \in Int
    <3>1. IsTable(file.waiters, Waiters)
      BY Parts, FileForm
    <3>2. file.waiters[x] \in Waiters
      BY <2>2, <3>1 DEF IsTable
    <3>3. QED
      BY <3>2, Times DEF Waiters
  <2>4. due'[x] = due[x] - 1 /\ due[x] \in Int /\ due[x] > Past
    BY <1>8, <2>1
  <2>5. file.waiters[x].seen > Stale
    BY <2>2, <2>3, <2>4, Times
  <2>6. e.waiters[x].seen = file.waiters[x].seen - 1
    BY <1>2, <2>2, <2>5
  <2>7. file.waiters[x].seen - 1 >= due'[x] - PollEvery - MaxLag
    BY <2>2, <2>3, <2>4, Times
  <2>8. QED
    BY <1>1, <1>2, <2>2, <2>6, <2>7
<1>11. IInv'
  BY <1>1, <1>3, <1>5, <1>6, <1>9, <1>10 DEF IInv, Distinct, WithinLimit, ActiveLeases
<1>12. Orderly
  BY <1>1, <1>2 DEF Orderly, IInv, RowAhead, Queueing
<1>13. QED
  BY <1>11, <1>12

\* The initial state.
LEMMA InitOK == Init => IInv
<1> SUFFICES ASSUME Init PROVE IInv
  OBVIOUS
<1>1. FileOK(file) /\ Distinct(file) /\ WithinLimit(file)
  <2>1. file = EmptyFile
    BY DEF Init
  <2>2. QED
    BY <2>1, EmptyFileOK
<1>2. \A c \in Calls : due[c] = 0 /\ Past <= due[c]
  BY Times DEF Init
<1>3. TypeOK
  <2>1. /\ proc \in [Procs -> {"up", "asleep", "dead"}]
        /\ stage \in [Calls -> {"idle", "waiting", "calling", "limited", "done"}]
        /\ due \in [Calls -> Int]
    BY DEF Init
  <2>2. /\ beating \subseteq Calls /\ slept \subseteq Procs
        /\ lost \in BOOLEAN /\ faults \in Nat
    BY DEF Init
  <2>3. QED
    BY <1>1, <1>2, <2>1, <2>2 DEF TypeOK
<1>4. BeatsAfterGrant /\ SleepersKnown
  BY DEF Init, BeatsAfterGrant, SleepersKnown
<1>5. LeaseAhead /\ RowAhead
  BY DEF Init, LeaseAhead, RowAhead, AtWork, Queueing
<1>6. QED
  BY <1>1, <1>3, <1>4, <1>5 DEF IInv

\* A stuttering step.
LEMMA StutterOK ==
  ASSUME IInv, UNCHANGED vars
  PROVE  IInv' /\ Orderly
<1>1. \A x \in Calls : Healthy(x)' => Healthy(x)
  BY DEF vars, Healthy, IsUp
<1>2. SleepersKnown'
  BY DEF IInv, vars, SleepersKnown
<1>3. /\ UNCHANGED <<file, stage, due, lost, faults>>
      /\ proc' = proc /\ beating' = beating /\ slept' = slept
  BY DEF vars
<1>4. QED
  BY <1>1, <1>2, <1>3, Parts, ProcessStep

\* Every step keeps the invariant and the order of the queue.
LEMMA NextOK == IInv /\ [Next]_vars => IInv' /\ Orderly
<1> SUFFICES ASSUME IInv, [Next]_vars PROVE IInv' /\ Orderly
  OBVIOUS
<1>1. CASE \E c \in Calls, lag \in Lags : Poll(c, lag)
  BY <1>1, PollOK
<1>2. CASE \/ \E c \in Calls, lag \in Lags : LeaveGranted(c, lag)
           \/ \E c \in Calls : GiveUp(c)
  BY <1>2, LeaveGrantedOK, GiveUpOK
<1>3. CASE \E c \in Calls, lag \in Lags : Renew(c, lag)
  BY <1>3, RenewOK
<1>4. CASE \E c \in Calls : RenewFails(c)
  BY <1>4, RenewFailsOK
<1>5. CASE \E c \in Calls, lag \in Lags : Release(c, lag)
  BY <1>5, ReleaseOK
<1>6. CASE \E c \in Calls, lag \in Lags, wait \in Cooldowns : NoteOutcome(c, lag, wait)
  BY <1>6, NoteOutcomeOK
<1>7. CASE \E p \in Procs, lag \in Lags : Snapshot(p, lag)
  BY <1>7, SnapshotOK
<1>8. CASE UnreadableFile
  BY <1>8, UnreadableFileOK
<1>9. CASE \E p \in Procs : Die(p)
  BY <1>9, DieOK
<1>10. CASE \E p \in Procs : Suspend(p)
  BY <1>10, SuspendOK
<1>11. CASE \E p \in Procs : Resume(p)
  BY <1>11, ResumeOK
<1>12. CASE Tick
  BY <1>12, TickOK
<1>13. CASE UNCHANGED vars
  BY <1>13, StutterOK
<1>14. QED
  BY <1>1, <1>2, <1>3, <1>4, <1>5, <1>6, <1>7, <1>8, <1>9, <1>10, <1>11,
     <1>12, <1>13 DEF Next

(***************************************************************************)
(* Theorems                                                                *)
(***************************************************************************)

\* The strengthened invariant holds in every reachable state.
THEOREM Invariance == Spec => []IInv
<1>1. Init => IInv
  BY InitOK
<1>2. IInv /\ [Next]_vars => IInv'
  BY NextOK
<1>3. QED
  BY <1>1, <1>2, PTL DEF Spec

\* Every update leaves a well-formed file, whatever fails between updates.
THEOREM TypeCorrect == Spec => []TypeOK
<1>1. IInv => TypeOK
  BY DEF IInv
<1>2. QED
  BY <1>1, Invariance, PTL

\* No allowance ever has more leases than limit() grants it, whoever dies,
\* sleeps or fails to write, and even after the file was lost.
THEOREM LimitHolds == Spec => []LeasesWithinLimit
<1>1. IInv => LeasesWithinLimit
  BY DEF IInv, WithinLimit, LeasesWithinLimit
<1>2. QED
  BY <1>1, Invariance, PTL

\* The heartbeat is fast enough for any times with RenewEvery + 2 * MaxLag <
\* LeaseTTL: the calls at a provider stay within the limit.
THEOREM CallsHold == Spec => []CallsWithinLimit
<1>1. IInv => CallsWithinLimit
  <2> SUFFICES ASSUME IInv, ~lost, NEW a \in Allowances
               PROVE  Cardinality(AtProvider(a)) <= Limit[a]
    BY DEF CallsWithinLimit
  <2>1. AtProvider(a) \subseteq ActiveLeases(file, a)
    BY DEF IInv, LeaseAhead, AtWork, AtProvider, ActiveLeases
  <2>2. /\ IsFiniteSet(ActiveLeases(file, a))
        /\ Cardinality(ActiveLeases(file, a)) \in Nat
    BY Parts, FiniteLeases
  <2>3. /\ IsFiniteSet(AtProvider(a))
        /\ Cardinality(AtProvider(a)) <= Cardinality(ActiveLeases(file, a))
    BY <2>1, <2>2, FS_Subset
  <2>4. Cardinality(AtProvider(a)) \in Nat
    BY <2>3, FS_CardinalityType
  <2>5. Cardinality(ActiveLeases(file, a)) <= Limit[a] /\ Limit[a] \in Nat
    BY Parts, LimitAssumption DEF WithinLimit
  <2>6. QED
    BY <2>2, <2>3, <2>4, <2>5
<1>2. QED
  BY <1>1, Invariance, PTL

\* A healthy waiter keeps its row and its ticket for any times with PollEvery +
\* 2 * MaxLag <= WaiterStale, and only earlier tickets are granted before it.
THEOREM OrderHolds == Spec => NoOvertaking
<1>1. IInv /\ [Next]_vars => [Orderly]_vars
  BY NextOK
<1>2. QED
  BY <1>1, Invariance, PTL DEF Spec, NoOvertaking, Orderly

(***************************************************************************)
(* Leases of calls that have returned, and pauses                          *)
(***************************************************************************)

\* Only a grant adds a lease, and only that of its own call.
LEMMA LeaseDomains ==
  /\ \A d, p, now : DOMAIN Cleaned(d, p, now).leases \subseteq DOMAIN d.leases
  /\ \A d, c, now : Queued(d, c, now).leases = d.leases
  /\ \A d, c, now : DOMAIN Granted(d, c, now).leases = DOMAIN d.leases \cup {c}
  /\ \A d, c : WaiterCancelled(d, c).leases = d.leases
  /\ \A d, c, now : DOMAIN Renewed(d, c, now).leases = DOMAIN d.leases
  /\ \A d, c : DOMAIN Released(d, c).leases \subseteq DOMAIN d.leases
  /\ \A d, a, until : Cooled(d, a, until).leases = d.leases
  /\ \A d : DOMAIN Aged(d).leases = DOMAIN d.leases
<1>1. \A d, p, now : DOMAIN Cleaned(d, p, now).leases \subseteq DOMAIN d.leases
  BY DEF Cleaned, Only
<1>2. \A d, c, now : DOMAIN Granted(d, c, now).leases = DOMAIN d.leases \cup {c}
  BY DEF Granted, With
<1>3. \A d, c, now : DOMAIN Renewed(d, c, now).leases = DOMAIN d.leases
  BY DEF Renewed, With
<1>4. \A d, c : DOMAIN Released(d, c).leases \subseteq DOMAIN d.leases
  BY DEF Released, Without
<1>5. \A d : DOMAIN Aged(d).leases = DOMAIN d.leases
  BY DEF Aged
<1>6. /\ \A d, c, now : Queued(d, c, now).leases = d.leases
      /\ \A d, c : WaiterCancelled(d, c).leases = d.leases
      /\ \A d, a, until : Cooled(d, a, until).leases = d.leases
  BY DEF Queued, WaiterCancelled, Cooled
<1> QED
  BY <1>1, <1>2, <1>3, <1>4, <1>5, <1>6

\* The cleanup spares a pause that is not over at any reading of the clock.
LEMMA PauseSpared ==
  ASSUME NEW d, d.cooldowns \in [Allowances -> Int], NEW a \in Allowances,
         d.cooldowns[a] > 0, NEW p, NEW now \in Int, now <= 0
  PROVE  /\ Cleaned(d, p, now).cooldowns \in [Allowances -> Int]
         /\ Cleaned(d, p, now).cooldowns[a] = d.cooldowns[a]
<1>1. Cleaned(d, p, now).cooldowns
         = [b \in Allowances |-> IF d.cooldowns[b] <= now THEN Past ELSE d.cooldowns[b]]
  BY DEF Cleaned
<1> QED
  BY <1>1, Times

\* The updates of the leases and of the queue leave the pauses alone.
LEMMA PausesUntouched ==
  /\ \A d, c, now : Queued(d, c, now).cooldowns = d.cooldowns
  /\ \A d, c, now : Granted(d, c, now).cooldowns = d.cooldowns
  /\ \A d, c : WaiterCancelled(d, c).cooldowns = d.cooldowns
  /\ \A d, c, now : Renewed(d, c, now).cooldowns = d.cooldowns
  /\ \A d, c : Released(d, c).cooldowns = d.cooldowns
BY DEF Queued, Granted, WaiterCancelled, Renewed, Released

\* The longest pause wins.
LEMMA LongestPause ==
  ASSUME NEW d, d.cooldowns \in [Allowances -> Int],
         NEW a \in Allowances, NEW b \in Allowances, NEW until \in Int
  PROVE  Cooled(d, b, until).cooldowns[a] >= d.cooldowns[a]
<1> DEFINE cs == d.cooldowns
<1>1. Cooled(d, b, until).cooldowns
         = [cs EXCEPT ![b] = IF cs[b] > until THEN cs[b] ELSE until]
  BY DEF Cooled
<1>2. cs \in [Allowances -> Int]
  OBVIOUS
<1> HIDE DEF cs
<1>3. cs[a] \in Int /\ cs[b] \in Int
  BY <1>2
<1>4. CASE a = b
  <2>1. Cooled(d, b, until).cooldowns[a] = IF cs[a] > until THEN cs[a] ELSE until
    BY <1>1, <1>2, <1>4
  <2> QED
    BY <1>3, <2>1 DEF cs
<1>5. CASE a # b
  <2>1. Cooled(d, b, until).cooldowns[a] = cs[a]
    BY <1>1, <1>2, <1>5
  <2> QED
    BY <1>3, <2>1 DEF cs
<1> QED
  BY <1>4, <1>5

\* What a call that has returned, and has no lease, is left with by a step.
StaysReleased ==
    \A c \in Calls :
        stage[c] \in {"limited", "done"} /\ c \notin DOMAIN file.leases
            => c \notin DOMAIN file'.leases

LEMMA StaysReleasedOK ==
  ASSUME IInv, [Next]_vars
  PROVE  StaysReleased
<1>1. CASE DOMAIN file'.leases \subseteq DOMAIN file.leases
  BY <1>1 DEF StaysReleased
<1>2. ASSUME NEW c \in Calls, stage[c] \in {"idle", "waiting"},
             DOMAIN file'.leases \subseteq DOMAIN file.leases \cup {c}
      PROVE  StaysReleased
  BY <1>2 DEF StaysReleased
<1>3. ASSUME NEW c \in Calls, NEW lag \in Lags, Poll(c, lag) \/ LeaveGranted(c, lag)
      PROVE  StaysReleased
  <2> DEFINE m == Cleaned(file, Owner[c], -lag)
             q == Queued(m, c, -lag)
             g == Granted(q, c, -lag)
  <2>1. stage[c] \in {"idle", "waiting"} /\ (file' = g \/ file' = q)
    BY <1>3 DEF Poll, LeaveGranted
  <2>2. DOMAIN m.leases \subseteq DOMAIN file.leases
    BY LeaseDomains
  <2>3. q.leases = m.leases /\ DOMAIN g.leases = DOMAIN q.leases \cup {c}
    BY LeaseDomains
  <2> HIDE DEF m, q, g
  <2>4. DOMAIN file'.leases \subseteq DOMAIN file.leases \cup {c}
    BY <2>1, <2>2, <2>3
  <2> QED
    BY <1>2, <2>1, <2>4
<1>4. ASSUME NEW c \in Calls, GiveUp(c)
      PROVE  StaysReleased
  <2>1. file' = WaiterCancelled(file, c) \/ file' = file
    BY <1>4 DEF GiveUp, Writes
  <2>2. WaiterCancelled(file, c).leases = file.leases
    BY LeaseDomains
  <2> QED
    BY <1>1, <2>1, <2>2
<1>5. CASE \E c \in Calls, lag \in Lags : Renew(c, lag)
  BY <1>1, <1>5, LeaseDomains DEF Renew
<1>6. ASSUME NEW c \in Calls, NEW lag \in Lags, Release(c, lag)
      PROVE  StaysReleased
  <2> DEFINE m == Cleaned(file, Owner[c], -lag)
             e == Released(m, c)
  <2>1. file' = e \/ file' = file
    BY <1>6 DEF Release, Writes
  <2>2. DOMAIN m.leases \subseteq DOMAIN file.leases
    BY LeaseDomains
  <2>3. DOMAIN e.leases \subseteq DOMAIN m.leases
    BY LeaseDomains
  <2> HIDE DEF m, e
  <2> QED
    BY <1>1, <2>1, <2>2, <2>3
<1>7. ASSUME NEW c \in Calls, NEW lag \in Lags, NEW wait \in Cooldowns,
             NoteOutcome(c, lag, wait)
      PROVE  StaysReleased
  <2> DEFINE m == Cleaned(file, Owner[c], -lag)
             e == Cooled(m, AllowanceOf[c], wait - lag)
  <2>1. file' = e \/ file' = file
    BY <1>7 DEF NoteOutcome, Writes
  <2>2. DOMAIN m.leases \subseteq DOMAIN file.leases
    BY LeaseDomains
  <2>3. e.leases = m.leases
    BY LeaseDomains
  <2> HIDE DEF m, e
  <2> QED
    BY <1>1, <2>1, <2>2, <2>3
<1>8. CASE \E p \in Procs, lag \in Lags : Snapshot(p, lag)
  <2>1. \E p \in Procs, lag \in Lags : file' = Cleaned(file, p, -lag)
    BY <1>8 DEF Snapshot
  <2> QED
    BY <1>1, <2>1, LeaseDomains
<1>9. CASE UnreadableFile
  <2>1. DOMAIN file'.leases = {}
    BY <1>9 DEF UnreadableFile, EmptyFile
  <2> QED
    BY <1>1, <2>1
<1>10. CASE Tick
  BY <1>1, <1>10, LeaseDomains DEF Tick
<1>11. CASE UNCHANGED file
  BY <1>1, <1>11
<1> QED
  BY <1>3, <1>4, <1>5, <1>6, <1>7, <1>8, <1>9, <1>10, <1>11
  DEF Next, vars, RenewFails, Die, Suspend, Resume

\* The lease of a call that has returned never comes back, whatever renewal was
\* under way, and however often the file is lost.
THEOREM ReleaseHolds == Spec => NoLeaseAfterRelease
<1>1. IInv /\ [Next]_vars => [StaysReleased]_vars
  BY StaysReleasedOK
<1>2. QED
  BY <1>1, Invariance, PTL DEF Spec, NoLeaseAfterRelease, StaysReleased

\* What a step leaves of the pause of allowance a.
PauseKept(a) ==
    /\ file'.cooldowns[a] >= file.cooldowns[a] \/ Tick
    /\ \A c \in Calls :
          AllowanceOf[c] = a /\ stage'[c] = "calling" => stage[c] = "calling"

Paused ==
    \A a \in Allowances : file.cooldowns[a] > 0 /\ ~UnreadableFile => PauseKept(a)

LEMMA PausedOK ==
  ASSUME IInv, [Next]_vars
  PROVE  Paused
<1> SUFFICES ASSUME NEW a \in Allowances, file.cooldowns[a] > 0, ~UnreadableFile
             PROVE  PauseKept(a)
  BY DEF Paused
<1>1. /\ file.cooldowns \in [Allowances -> Int]
      /\ stage \in [Calls -> {"idle", "waiting", "calling", "limited", "done"}]
      /\ \A lag \in Lags : -lag \in Int /\ -lag <= 0
  BY Parts, FileForm, Readings
<1>2. file.cooldowns[a] \in Int
  BY <1>1
<1>3. ASSUME file'.cooldowns[a] >= file.cooldowns[a] \/ Tick,
             \A c \in Calls : AllowanceOf[c] = a /\ stage'[c] = "calling" => stage[c] = "calling"
      PROVE  PauseKept(a)
  BY <1>3 DEF PauseKept
<1>4. CASE file'.cooldowns = file.cooldowns /\ stage' = stage
  BY <1>2, <1>3, <1>4
<1>5. ASSUME NEW c \in Calls, NEW lag \in Lags, Poll(c, lag)
      PROVE  PauseKept(a)
  <2> DEFINE m == Cleaned(file, Owner[c], -lag)
             q == Queued(m, c, -lag)
             g == Granted(q, c, -lag)
             enters == MayEnter(q, c, -lag)
  <2>1. /\ file' = g \/ file' = q
        /\ stage' = [stage EXCEPT ![c] = IF enters THEN "calling" ELSE "waiting"]
        /\ enters => q.cooldowns[AllowanceOf[c]] <= -lag
    BY <1>5 DEF Poll, MayEnter
  <2>2. m.cooldowns \in [Allowances -> Int] /\ m.cooldowns[a] = file.cooldowns[a]
    BY <1>1, PauseSpared
  <2>3. q.cooldowns = m.cooldowns
    BY PausesUntouched
  <2>4. g.cooldowns = q.cooldowns
    BY PausesUntouched
  <2> HIDE DEF m, q, g, enters
  <2>5. file'.cooldowns[a] >= file.cooldowns[a]
    BY <1>2, <2>1, <2>2, <2>3, <2>4
  <2>6. AllowanceOf[c] = a => ~enters
    BY <1>1, <1>2, <2>1, <2>2, <2>3
  <2>7. \A x \in Calls :
           AllowanceOf[x] = a /\ stage'[x] = "calling" => stage[x] = "calling"
    BY <1>1, <2>1, <2>6
  <2> QED
    BY <1>3, <2>5, <2>7
<1>6. ASSUME NEW c \in Calls, NEW lag \in Lags, LeaveGranted(c, lag)
      PROVE  PauseKept(a)
  <2> DEFINE m == Cleaned(file, Owner[c], -lag)
             q == Queued(m, c, -lag)
             g == Granted(q, c, -lag)
  <2>1. file' = g /\ stage' = [stage EXCEPT ![c] = "done"]
    BY <1>6 DEF LeaveGranted
  <2>2. m.cooldowns \in [Allowances -> Int] /\ m.cooldowns[a] = file.cooldowns[a]
    BY <1>1, PauseSpared
  <2>3. q.cooldowns = m.cooldowns
    BY PausesUntouched
  <2>4. g.cooldowns = q.cooldowns
    BY PausesUntouched
  <2> HIDE DEF m, q, g
  <2> QED
    BY <1>1, <1>2, <1>3, <2>1, <2>2, <2>3, <2>4
<1>7. ASSUME NEW c \in Calls, GiveUp(c)
      PROVE  PauseKept(a)
  <2>1. /\ file' = WaiterCancelled(file, c) \/ file' = file
        /\ stage' = [stage EXCEPT ![c] = "done"]
    BY <1>7 DEF GiveUp, Writes
  <2>2. file'.cooldowns = file.cooldowns
    BY <2>1 DEF WaiterCancelled
  <2> QED
    BY <1>1, <1>2, <1>3, <2>1, <2>2
<1>8. ASSUME NEW c \in Calls, NEW lag \in Lags, Renew(c, lag)
      PROVE  PauseKept(a)
  <2>1. file'.cooldowns = file.cooldowns /\ stage' = stage
    BY <1>8, PausesUntouched DEF Renew
  <2> QED
    BY <1>4, <2>1
<1>9. ASSUME NEW c \in Calls, NEW lag \in Lags, Release(c, lag)
      PROVE  PauseKept(a)
  <2> DEFINE m == Cleaned(file, Owner[c], -lag)
             e == Released(m, c)
  <2>1. /\ file' = e \/ file' = file
        /\ \E s \in {"done", "limited"} : stage' = [stage EXCEPT ![c] = s]
    BY <1>9 DEF Release, Writes
  <2>2. m.cooldowns \in [Allowances -> Int] /\ m.cooldowns[a] = file.cooldowns[a]
    BY <1>1, PauseSpared
  <2>3. e.cooldowns = m.cooldowns
    BY PausesUntouched
  <2> HIDE DEF m, e
  <2>4. file'.cooldowns[a] >= file.cooldowns[a]
    BY <1>2, <2>1, <2>2, <2>3
  <2>5. \A x \in Calls : stage'[x] = "calling" => stage[x] = "calling"
    BY <1>1, <2>1
  <2> QED
    BY <1>3, <2>4, <2>5
<1>10. ASSUME NEW c \in Calls, NEW lag \in Lags, NEW wait \in Cooldowns,
              NoteOutcome(c, lag, wait)
       PROVE  PauseKept(a)
  <2> DEFINE m == Cleaned(file, Owner[c], -lag)
             e == Cooled(m, AllowanceOf[c], wait - lag)
  <2>1. (file' = e \/ file' = file) /\ stage' = [stage EXCEPT ![c] = "done"]
    BY <1>10 DEF NoteOutcome, Writes
  <2>2. m.cooldowns \in [Allowances -> Int] /\ m.cooldowns[a] = file.cooldowns[a]
    BY <1>1, PauseSpared
  <2>3. AllowanceOf[c] \in Allowances /\ wait - lag \in Int
    BY <1>1, CallsAssumption, TimesAssumption DEF Lags
  <2> HIDE DEF m
  <2>4. e.cooldowns[a] >= m.cooldowns[a]
    BY <2>2, <2>3, LongestPause
  <2> HIDE DEF e
  <2>5. file'.cooldowns[a] >= file.cooldowns[a]
    BY <1>2, <2>1, <2>2, <2>4
  <2> QED
    BY <1>1, <1>3, <2>1, <2>5
<1>11. ASSUME NEW p \in Procs, NEW lag \in Lags, Snapshot(p, lag)
       PROVE  PauseKept(a)
  <2> DEFINE m == Cleaned(file, p, -lag)
  <2>1. file' = m /\ stage' = stage
    BY <1>11 DEF Snapshot
  <2>2. m.cooldowns[a] = file.cooldowns[a]
    BY <1>1, PauseSpared
  <2> HIDE DEF m
  <2> QED
    BY <1>2, <1>3, <2>1, <2>2
<1>12. CASE Tick
  BY <1>3, <1>12 DEF Tick
<1>13. CASE UNCHANGED <<file, stage>>
  BY <1>4, <1>13
<1> QED
  BY <1>5, <1>6, <1>7, <1>8, <1>9, <1>10, <1>11, <1>12, <1>13
  DEF Next, vars, RenewFails, Die, Suspend, Resume

\* As long as the file that says so is not lost, no call starts at a provider that
\* asked for a pause, and the longest pause asked for is waited for.
THEOREM PausesHold == Spec => CooldownHolds
<1>1. IInv /\ [Next]_vars => [Paused]_vars
  BY PausedOK
<1>2. QED
  BY <1>1, Invariance, PTL DEF Spec, CooldownHolds, Paused, PauseKept
=============================================================================
