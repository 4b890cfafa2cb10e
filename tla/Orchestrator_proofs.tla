------------------------- MODULE Orchestrator_proofs -------------------------
(***************************************************************************)
(* Proofs about Orchestrator, for every queue, repository, mode, pass      *)
(* limit and number of deaths and failed saves.                            *)
(*                                                                         *)
(* The argument: each method maps an admissible receipt (Good) to an       *)
(* admissible one; the process keeps mem and disk apart in the active      *)
(* target only (InStep).  The lemmas of the first part are about receipts  *)
(* and do not mention the process.                                         *)
(***************************************************************************)
EXTENDS Orchestrator, FiniteSetTheorems, TLAPS

\* What every item of every copy of the receipt satisfies.
CompletedItemOK(it) ==
    it.status = "completed" =>
        /\ it.exit = 0
        /\ Len(it.passes) \in 1 .. MaxPasses
        /\ AllCompleted(it.passes)
        /\ EditsFollowedUp(it)
        /\ WholeRepository => it.passes[1].exhaustive /\ it.final.complete

AttemptsOK(it) ==
    \A k \in 1 .. Len(it.attempts) : ChainedScopes(it.attempts[k])

ItemOK(it) ==
    /\ Len(it.passes) <= MaxPasses
    /\ ChainedScopes(it)
    /\ AttemptsOK(it)
    /\ ReviewedInFull(it)
    /\ CompletedItemOK(it)

Good(s) == Ordered(s) /\ \A i \in Targets : ItemOK(s.items[i])

\* A receipt whose active target may be written to by a worker.
LiveItem(it) == it \in Item /\ ItemOK(it) /\ it.status = "running" /\ it.exit = NoCode

\* How the two copies, the pointers and the program counter belong together.
InStep ==
    /\ pc = "down" => mem = disk
    /\ pc \in {"loop", "returned"} => mem = disk /\ mem.active = 0 /\ idx = mem.next
    /\ pc = "running" =>
          /\ mem.active = idx /\ mem.next = idx
          /\ disk.active = idx /\ disk.next = idx
          /\ \A i \in Targets : i # idx => disk.items[i] = mem.items[i]

IInv == TypeOK /\ Good(mem) /\ Good(disk) /\ InStep

USE NTargetsAssumption, MaxPassesAssumption, BoundsAssumption
    DEF NTargetsAssumption, MaxPassesAssumption, BoundsAssumption

(***************************************************************************)
(* Receipts                                                                *)
(***************************************************************************)

QueueStatus == {"queued", "running", "completed", "failed"}
Pointers == 0 .. NTargets

\* A receipt is its four fields.
LEMMA Fields ==
    ASSUME NEW s \in Receipt
    PROVE  /\ s = [items |-> s.items, next |-> s.next, active |-> s.active,
                   status |-> s.status]
           /\ s.items \in [Targets -> Item]
           /\ s.next \in 1 .. NTargets + 1
           /\ s.active \in Pointers
           /\ s.status \in QueueStatus
  BY DEF Receipt, QueueStatus, Pointers

\* A moved receipt is a receipt, and its other items are untouched.
LEMMA MovedOK ==
    ASSUME NEW s \in Receipt, NEW i \in Targets, NEW it \in Item,
           NEW n \in 1 .. NTargets + 1, NEW a \in Pointers,
           NEW st \in QueueStatus
    PROVE  /\ Moved(s, i, it, n, a, st) \in Receipt
           /\ Moved(s, i, it, n, a, st).next = n
           /\ Moved(s, i, it, n, a, st).active = a
           /\ Moved(s, i, it, n, a, st).status = st
           /\ Moved(s, i, it, n, a, st).items[i] = it
           /\ \A j \in Targets : j # i => Moved(s, i, it, n, a, st).items[j] = s.items[j]
<1>1. [s.items EXCEPT ![i] = it] \in [Targets -> Item]
  BY Fields
<1>2. Moved(s, i, it, n, a, st) \in Receipt
  BY <1>1, Fields DEF Moved, Receipt, QueueStatus, Pointers
<1>3. QED
  BY <1>2, Fields DEF Moved

\* The item of a fresh receipt is admissible.
LEMMA QueuedItemOK == QueuedItem \in Item /\ ItemOK(QueuedItem)
  BY DEF QueuedItem, Item, NoGate, NoFinal, Gate, Finalization, NoCode, ItemOK,
         ChainedScopes, AttemptsOK, ReviewedInFull, CompletedItemOK

\* The receipt a new queue starts from is admissible.
LEMMA FreshOK == FreshReceipt \in Receipt /\ Good(FreshReceipt)
<1>1. FreshReceipt \in Receipt
  BY QueuedItemOK DEF FreshReceipt, Receipt, Targets
<1>2. Ordered(FreshReceipt)
  BY DEF FreshReceipt, Ordered, Targets, QueuedItem
<1>3. \A i \in Targets : ItemOK(FreshReceipt.items[i])
  BY QueuedItemOK DEF FreshReceipt
<1>4. QED
  BY <1>1, <1>2, <1>3 DEF Good

\* Whether an undecided item is admissible depends on its evidence alone.
LEMMA SameEvidence ==
    ASSUME NEW it, ItemOK(it),
           NEW q, q.passes = it.passes, q.gate = it.gate,
           q.attempts = it.attempts, q.status # "completed"
    PROVE  ItemOK(q)
<1>1. ChainedScopes(q)
  BY DEF ItemOK, ChainedScopes
<1>2. AttemptsOK(q)
  BY DEF ItemOK, AttemptsOK
<1>3. ReviewedInFull(q)
  BY DEF ItemOK, ReviewedInFull
<1>4. QED
  BY <1>1, <1>2, <1>3 DEF ItemOK, CompletedItemOK

\* An admissible item keeps its evidence when it becomes a closed attempt.
LEMMA RequeueOK ==
    ASSUME NEW it \in Item, ItemOK(it)
    PROVE  RequeuedItem(it) \in Item /\ ItemOK(RequeuedItem(it))
<1> DEFINE q == RequeuedItem(it)
<1>1. EvidenceOf(it) \in Evidence
  BY DEF EvidenceOf, Evidence, Item
<1>2. q \in Item
  <2>1. Append(it.attempts, EvidenceOf(it)) \in Seq(Evidence)
    BY <1>1 DEF Item
  <2>2. QED
    BY <2>1, QueuedItemOK DEF RequeuedItem, Item
<1>3. /\ q.passes = <<>>
      /\ q.status = "queued"
      /\ q.attempts = Append(it.attempts, EvidenceOf(it))
  BY DEF RequeuedItem, QueuedItem
<1>4. ChainedScopes(EvidenceOf(it))
  BY DEF ItemOK, ChainedScopes, EvidenceOf
<1>5. AttemptsOK(q)
  BY <1>1, <1>3, <1>4 DEF AttemptsOK, ItemOK, Item
<1>6. QED
  BY <1>2, <1>3, <1>5 DEF ItemOK, ChainedScopes, ReviewedInFull, CompletedItemOK

\* Recovery leaves an admissible receipt with no active target.
LEMMA RecoveryOK ==
    ASSUME NEW s \in Receipt, Good(s)
    PROVE  /\ AfterRecovery(s) \in Receipt
           /\ Good(AfterRecovery(s))
           /\ AfterRecovery(s).active = 0
<1>1. CASE s.active = 0
  BY <1>1 DEF AfterRecovery
<1>2. CASE s.active # 0
  <2> DEFINE i == s.active
             t == AfterRecovery(s)
  <2>1. i \in Targets /\ s.next = i
    BY <1>2 DEF Good, Ordered
  <2>2. s.items[i] \in Item /\ ItemOK(s.items[i])
    BY <2>1 DEF Good, Receipt
  <2>3. RequeuedItem(s.items[i]) \in Item /\ ItemOK(RequeuedItem(s.items[i]))
    BY <2>2, RequeueOK
  <2>4. t = Moved(s, i, RequeuedItem(s.items[i]), s.next, 0, "queued")
    BY <1>2 DEF AfterRecovery
  <2>5. 0 \in Pointers /\ "queued" \in QueueStatus
    BY DEF Pointers, QueueStatus
  <2>6. /\ t \in Receipt
        /\ t.active = 0 /\ t.next = s.next
        /\ t.items[i] = RequeuedItem(s.items[i])
        /\ \A j \in Targets : j # i => t.items[j] = s.items[j]
    BY <2>1, <2>3, <2>4, <2>5, Fields, MovedOK
  <2>7. /\ RequeuedItem(s.items[i]).status = "queued"
        /\ RequeuedItem(s.items[i]).exit = NoCode
        /\ RequeuedItem(s.items[i]).passes = <<>>
    BY DEF RequeuedItem, QueuedItem
  <2>8. Ordered(t)
    BY <2>1, <2>6, <2>7 DEF Good, Ordered, Targets
  <2>9. QED
    BY <2>3, <2>6, <2>8 DEF Good
<1>3. QED
  BY <1>1, <1>2

\* start_target makes the next target the active one and nothing else.
LEMMA StartOK ==
    ASSUME NEW s \in Receipt, Good(s), s.active = 0, NEW i \in Targets, i = s.next
    PROVE  /\ AfterStart(s, i) \in Receipt
           /\ Good(AfterStart(s, i))
           /\ AfterStart(s, i).active = i
           /\ AfterStart(s, i).next = i
           /\ \A j \in Targets : j # i => AfterStart(s, i).items[j] = s.items[j]
<1> DEFINE t == AfterStart(s, i)
           it == [s.items[i] EXCEPT !.status = "running"]
<1>1. s.items[i] \in Item /\ ItemOK(s.items[i])
  BY DEF Good, Receipt
<1>2. it \in Item /\ it.status = "running" /\ it.exit = s.items[i].exit
  BY <1>1 DEF Item
<1>3. ItemOK(it)
  BY <1>1, SameEvidence DEF Item
<1>4. t = Moved(s, i, it, s.next, i, "running")
  BY DEF AfterStart
<1> HIDE DEF it
<1>5. i \in Pointers /\ "running" \in QueueStatus
  BY DEF Pointers, QueueStatus, Targets
<1>6. /\ t \in Receipt /\ t.active = i /\ t.next = s.next
      /\ t.items[i] = it
      /\ \A j \in Targets : j # i => t.items[j] = s.items[j]
  BY <1>2, <1>4, <1>5, Fields, MovedOK
<1>7. Ordered(t)
  BY <1>2, <1>6 DEF Good, Ordered, Targets
<1>8. QED
  BY <1>3, <1>6, <1>7 DEF Good

\* A worker's write to the active item keeps the receipt admissible.
LEMMA WriteOK ==
    ASSUME NEW s \in Receipt, Good(s), s.active # 0, NEW it, LiveItem(it)
    PROVE  LET t == [s EXCEPT !.items[s.active] = it]
           IN  /\ t \in Receipt
               /\ Good(t)
               /\ t.active = s.active
               /\ t.next = s.next
               /\ \A j \in Targets : j # s.active => t.items[j] = s.items[j]
<1> DEFINE i == s.active
           t == [s EXCEPT !.items[i] = it]
<1>1. i \in Targets /\ s.next = i
  BY DEF Good, Ordered
<1>2. t = Moved(s, i, it, s.next, s.active, s.status)
  BY DEF Moved, Receipt
<1>3. /\ t \in Receipt /\ t.active = s.active /\ t.next = s.next
      /\ t.items[i] = it
      /\ \A j \in Targets : j # i => t.items[j] = s.items[j]
  BY <1>1, <1>2, Fields, MovedOK DEF LiveItem
<1>4. Ordered(t)
  BY <1>1, <1>3 DEF Good, Ordered, LiveItem, Targets
<1>5. QED
  BY <1>3, <1>4 DEF Good, LiveItem

(***************************************************************************)
(* Items: what a worker's call makes of the active one                     *)
(***************************************************************************)

\* begin_pass appends a pass whose scope is the edits of the one before.
LEMMA BeginOK ==
    ASSUME NEW it, LiveItem(it), NEW files \in SUBSET Files,
           NEW exhaustive \in BOOLEAN, MayBegin(it, files)
    PROVE  LiveItem([it EXCEPT !.passes = Append(@, NewPass(files, exhaustive))])
<1> DEFINE p == NewPass(files, exhaustive)
           q == [it EXCEPT !.passes = Append(@, p)]
           n == Len(it.passes)
<1>1. p \in Pass /\ p.files = files /\ p.status = "running"
  BY DEF NewPass, Pass
<1>2. it \in Item /\ it.passes \in Seq(Pass) /\ n \in Nat
  BY DEF LiveItem, Item
<1>3. Append(it.passes, p) \in Seq(Pass)
  BY <1>1, <1>2
<1>4. /\ q \in Item
      /\ q.passes = Append(it.passes, p)
      /\ q.gate = it.gate /\ q.attempts = it.attempts
      /\ q.status = it.status /\ q.exit = it.exit
  BY <1>2, <1>3 DEF Item
<1> HIDE DEF p, q
<1>5. /\ Len(q.passes) = n + 1
      /\ q.passes[n + 1] = p
      /\ \A k \in 1 .. n : q.passes[k] = it.passes[k]
  BY <1>2, <1>4
<1>6. n + 1 <= MaxPasses
  BY <1>2 DEF MayBegin
<1>7. ChainedScopes(q)
  <2>1. SUFFICES ASSUME NEW k \in 2 .. n + 1
                 PROVE  q.passes[k].files = q.passes[k - 1].changed
                          \cup (IF k = 2 THEN q.gate.implemented ELSE {})
    BY <1>5 DEF ChainedScopes
  <2>2. CASE k = n + 1
    <3>1. n > 0 /\ q.passes[k].files = ExpectedScope(it.passes, it.gate)
      BY <1>1, <1>2, <1>5, <2>2 DEF MayBegin
    <3>2. q.passes[k - 1] = it.passes[n]
      BY <1>2, <1>5, <2>2, <3>1
    <3>3. CASE n = 1
      <4>1. k = 2
        BY <2>2, <3>3
      <4>2. QED
        BY <1>4, <3>1, <3>2, <3>3, <4>1 DEF ExpectedScope
    <3>4. CASE n # 1
      <4>1. k # 2
        <5>1. \A m \in Nat : m # 1 => m + 1 # 2
          OBVIOUS
        <5>2. QED
          BY <1>2, <2>2, <3>4, <5>1
      <4>2. QED
        BY <1>4, <3>1, <3>2, <3>4, <4>1 DEF ExpectedScope
    <3>5. QED
      BY <3>3, <3>4
  <2>3. CASE k # n + 1
    <3>1. k \in 2 .. n /\ k \in 1 .. n /\ k - 1 \in 1 .. n
      BY <1>2, <2>3
    <3>2. q.passes[k] = it.passes[k] /\ q.passes[k - 1] = it.passes[k - 1]
      BY <1>5, <3>1
    <3>3. it.passes[k].files = it.passes[k - 1].changed
            \cup (IF k = 2 THEN it.gate.implemented ELSE {})
      BY <3>1 DEF LiveItem, ItemOK, ChainedScopes
    <3>4. QED
      BY <1>4, <3>2, <3>3
  <2>4. QED
    BY <2>2, <2>3
<1>8. AttemptsOK(q)
  BY <1>4 DEF LiveItem, ItemOK, AttemptsOK
<1>9. ReviewedInFull(q)
  <2>1. SUFFICES ASSUME NEW k \in 1 .. n + 1,
                        q.passes[k].exhaustive, q.passes[k].status = "completed"
                 PROVE  q.passes[k].files \subseteq q.passes[k].reviewed
    BY <1>5 DEF ReviewedInFull
  <2>2. k \in 1 .. n
    BY <1>1, <1>2, <1>5, <2>1
  <2>3. QED
    BY <1>5, <2>1, <2>2 DEF LiveItem, ItemOK, ReviewedInFull
<1>10. QED
  BY <1>4, <1>5, <1>6, <1>7, <1>8, <1>9 DEF LiveItem, ItemOK, CompletedItemOK, p, q

\* The last pass is replaced by one with the same scope (or it is the first),
\* which is completed and exhaustive only if all of its scope was reviewed.
LEMMA SetLastOK ==
    ASSUME NEW it, it \in Item, ItemOK(it), it.status # "completed",
           Len(it.passes) > 0,
           NEW p \in Pass,
           Len(it.passes) = 1 \/ p.files = LastPass(it).files,
           p.exhaustive /\ p.status = "completed" => p.files \subseteq p.reviewed
    PROVE  /\ SetLast(it, p) \in Item
           /\ ItemOK(SetLast(it, p))
           /\ SetLast(it, p).status = it.status
           /\ SetLast(it, p).exit = it.exit
<1> DEFINE q == SetLast(it, p)
           n == Len(it.passes)
<1>1. it.passes \in Seq(Pass) /\ n \in Nat /\ n \in 1 .. n
  BY DEF Item
<1>2. [it.passes EXCEPT ![n] = p] \in Seq(Pass)
  BY <1>1
<1>3. /\ q \in Item
      /\ q.passes = [it.passes EXCEPT ![n] = p]
      /\ q.gate = it.gate /\ q.attempts = it.attempts
      /\ q.status = it.status /\ q.exit = it.exit
  BY <1>2 DEF Item, SetLast
<1> HIDE DEF q
<1>4. /\ Len(q.passes) = n
      /\ q.passes[n] = p
      /\ \A k \in 1 .. n : k # n => q.passes[k] = it.passes[k]
  BY <1>1, <1>3
<1>5. ChainedScopes(q)
  <2>1. SUFFICES ASSUME NEW k \in 2 .. n
                 PROVE  q.passes[k].files = q.passes[k - 1].changed
                          \cup (IF k = 2 THEN q.gate.implemented ELSE {})
    BY <1>4 DEF ChainedScopes
  <2>2. q.passes[k].files = it.passes[k].files
    BY <1>1, <1>4 DEF LastPass
  <2>3. q.passes[k - 1] = it.passes[k - 1]
    BY <1>1, <1>4
  <2>4. QED
    BY <1>3, <2>2, <2>3 DEF ItemOK, ChainedScopes
<1>6. AttemptsOK(q)
  BY <1>3 DEF ItemOK, AttemptsOK
<1>7. ReviewedInFull(q)
  BY <1>1, <1>4 DEF ItemOK, ReviewedInFull
<1>8. QED
  BY <1>3, <1>4, <1>5, <1>6, <1>7 DEF ItemOK, CompletedItemOK, q

\* record_competitor_gate writes the gate only while there is one pass, so no
\* scope has been derived from it yet.
LEMMA GateOK ==
    ASSUME NEW it, LiveItem(it), Len(it.passes) = 1, NEW g \in Gate
    PROVE  LiveItem([it EXCEPT !.gate = g])
<1> DEFINE q == [it EXCEPT !.gate = g]
<1>1. /\ q \in Item
      /\ q.passes = it.passes /\ q.attempts = it.attempts
      /\ q.status = it.status /\ q.exit = it.exit
  BY DEF LiveItem, Item
<1> HIDE DEF q
<1>2. ChainedScopes(q) /\ AttemptsOK(q) /\ ReviewedInFull(q)
  BY <1>1 DEF LiveItem, ItemOK, ChainedScopes, AttemptsOK, ReviewedInFull
<1>3. QED
  BY <1>1, <1>2 DEF LiveItem, ItemOK, CompletedItemOK, q

\* record_finalization touches nothing a pass depends on.
LEMMA FinalizationOK ==
    ASSUME NEW it, LiveItem(it), NEW f \in Finalization
    PROVE  LiveItem([it EXCEPT !.final = f])
<1> DEFINE q == [it EXCEPT !.final = f]
<1>1. /\ q \in Item
      /\ q.passes = it.passes /\ q.attempts = it.attempts /\ q.gate = it.gate
      /\ q.status = it.status /\ q.exit = it.exit
  BY DEF LiveItem, Item
<1> HIDE DEF q
<1>2. ItemOK(q)
  BY <1>1, SameEvidence DEF LiveItem
<1>3. QED
  BY <1>1, <1>2 DEF LiveItem, q

(***************************************************************************)
(* Evidence only grows                                                     *)
(***************************************************************************)

\* The evidence of a target grew: completed passes stay as they are, none is
\* dropped, and no attempt is closed.
Grows(old, new) ==
    /\ new.attempts = old.attempts
    /\ Len(old.passes) <= Len(new.passes)
    /\ \A k \in 1 .. Len(old.passes) :
          old.passes[k].status = "completed" => new.passes[k] = old.passes[k]

\* A write that keeps passes and attempts grows the evidence trivially.
LEMMA SameGrows ==
    ASSUME NEW old \in Item, NEW new, new.passes = old.passes,
           new.attempts = old.attempts
    PROVE  Grows(old, new)
  BY DEF Grows, Item

\* Two writes in a row grow the evidence when each does.
LEMMA GrowsTwice ==
    ASSUME NEW a \in Item, NEW b \in Item, NEW c \in Item, Grows(a, b), Grows(b, c)
    PROVE  Grows(a, c)
<1>1. Len(a.passes) \in Nat /\ Len(b.passes) \in Nat /\ Len(c.passes) \in Nat
  BY DEF Item
<1>2. ASSUME NEW k \in 1 .. Len(a.passes), a.passes[k].status = "completed"
      PROVE  c.passes[k] = a.passes[k]
  <2>1. k \in 1 .. Len(b.passes)
    BY <1>1 DEF Grows
  <2>2. b.passes[k] = a.passes[k]
    BY <1>2 DEF Grows
  <2> QED
    BY <1>2, <2>1, <2>2 DEF Grows
<1> QED
  BY <1>1, <1>2 DEF Grows

\* A new pass leaves the earlier ones alone.
LEMMA AppendGrows ==
    ASSUME NEW it \in Item, NEW p \in Pass
    PROVE  Grows(it, [it EXCEPT !.passes = Append(@, p)])
<1> DEFINE q == [it EXCEPT !.passes = Append(@, p)]
<1>1. it.passes \in Seq(Pass)
  BY DEF Item
<1>2. q.passes = Append(it.passes, p) /\ q.attempts = it.attempts
  BY DEF Item
<1> QED
  BY <1>1, <1>2 DEF Grows

\* A pass that still runs is not evidence yet and may be rewritten.
LEMMA SetLastGrows ==
    ASSUME NEW it \in Item, LastRuns(it), NEW p \in Pass
    PROVE  Grows(it, SetLast(it, p))
<1> DEFINE q == SetLast(it, p)
           n == Len(it.passes)
<1>1. it.passes \in Seq(Pass) /\ n \in Nat
  BY DEF Item
<1>2. q.passes = [it.passes EXCEPT ![n] = p] /\ q.attempts = it.attempts
  BY DEF SetLast, Item
<1>3. it.passes[n].status = "running"
  BY DEF LastRuns, LastPass
<1> HIDE DEF q
<1>4. Len(q.passes) = n /\ \A k \in 1 .. n : k # n => q.passes[k] = it.passes[k]
  BY <1>1, <1>2
<1> QED
  BY <1>1, <1>2, <1>3, <1>4 DEF Grows, q

(***************************************************************************)
(* Verdicts                                                                *)
(***************************************************************************)

\* When finish_target accepts success, every edit has been followed up: the
\* chain of scopes carries all but the last delta, and no delta is pending.
LEMMA ProvenFollowsUp ==
    ASSUME NEW it \in Item, ItemOK(it), Proven(it)
    PROVE  EditsFollowedUp(it)
<1> DEFINE n == Len(it.passes)
<1>1. n \in Nat /\ n > 0 /\ n <= MaxPasses
  BY DEF Item, ItemOK, Proven
<1>2. n < MaxPasses => ExpectedScope(it.passes, it.gate) = {}
  BY <1>1 DEF Proven, PendingDelta
<1>3. ASSUME NEW k \in 1 .. n
      PROVE  \/ k = MaxPasses
             \/ it.passes[k].changed = {}
             \/ k < n /\ it.passes[k].changed \subseteq it.passes[k + 1].files
  <2>1. CASE k = n
    BY <1>1, <1>2, <2>1 DEF ExpectedScope
  <2>2. CASE k < n
    <3>1. k + 1 \in 2 .. n /\ (k + 1) - 1 = k
      BY <1>1, <2>2
    <3>2. it.passes[k].changed \subseteq it.passes[k + 1].files
      BY <3>1 DEF ItemOK, ChainedScopes
    <3>3. QED
      BY <2>2, <3>2
  <2>3. QED
    BY <1>1, <2>1, <2>2
<1>4. \/ it.gate.implemented = {}
      \/ MaxPasses = 1
      \/ n > 1 /\ it.gate.implemented \subseteq it.passes[2].files
  <2>1. CASE n = 1
    BY <1>1, <1>2, <2>1 DEF ExpectedScope
  <2>2. CASE n > 1
    <3>1. 2 \in 2 .. n
      BY <1>1, <2>2
    <3>2. it.gate.implemented \subseteq it.passes[2].files
      BY <3>1 DEF ItemOK, ChainedScopes
    <3>3. QED
      BY <2>2, <3>2
  <2>3. n = 1 \/ n > 1
    <3>1. \A m \in Nat : m > 0 => m = 1 \/ m > 1
      OBVIOUS
    <3>2. QED
      BY <1>1, <3>1
  <2>4. QED
    BY <2>1, <2>2, <2>3
<1>5. QED
  BY <1>3, <1>4 DEF EditsFollowedUp

\* Closing a running pass keeps an item admissible.
LEMMA CloseOK ==
    ASSUME NEW it, LiveItem(it)
    PROVE  LiveItem(CloseRunningPass(it))
<1>1. CASE LastRuns(it)
  <2> DEFINE p == [LastPass(it) EXCEPT !.status = "interrupted"]
  <2>1. it.passes \in Seq(Pass) /\ Len(it.passes) \in 1 .. Len(it.passes)
    BY <1>1 DEF LiveItem, Item, LastRuns
  <2>2. LastPass(it) \in Pass
    BY <2>1 DEF LastPass
  <2>3. p \in Pass /\ p.files = LastPass(it).files /\ p.status = "interrupted"
    BY <2>2 DEF Pass
  <2>4. Len(it.passes) > 0
    BY <1>1 DEF LastRuns
  <2> HIDE DEF p
  <2>5. SetLast(it, p) \in Item /\ ItemOK(SetLast(it, p))
          /\ SetLast(it, p).status = it.status /\ SetLast(it, p).exit = it.exit
    BY <2>3, <2>4, SetLastOK DEF LiveItem
  <2>6. CloseRunningPass(it) = SetLast(it, p)
    BY <1>1 DEF CloseRunningPass, p
  <2>7. QED
    BY <2>5, <2>6 DEF LiveItem
<1>2. CASE ~LastRuns(it)
  BY <1>2 DEF CloseRunningPass
<1>3. QED
  BY <1>1, <1>2

\* finish_target leaves a settled, admissible item.
LEMMA DecidedOK ==
    ASSUME NEW it, LiveItem(it), NEW code \in ExitCodes
    PROVE  /\ Decided(it, code) \in Item
           /\ ItemOK(Decided(it, code))
           /\ Decided(it, code).status \in Settled
           /\ Decided(it, code).exit \in ExitCodes
<1> DEFINE c == CloseRunningPass(it)
           v == Verdict(it, code)
           d == Decided(it, code)
<1>1. LiveItem(c)
  BY CloseOK
<1>2. v \in ExitCodes
  BY DEF Verdict, ExitCodes
<1>3. d = [c EXCEPT !.exit = v, !.status = IF v = 0 THEN "completed" ELSE "failed"]
  BY DEF Decided
<1>4. (IF v = 0 THEN "completed" ELSE "failed") \in QueueStatus
  BY DEF QueueStatus
<1> HIDE DEF c, v, d
<1>5. /\ d \in Item
      /\ d.passes = c.passes /\ d.gate = c.gate /\ d.final = c.final
      /\ d.attempts = c.attempts
      /\ d.exit = v
      /\ d.status = IF v = 0 THEN "completed" ELSE "failed"
  BY <1>1, <1>2, <1>3, <1>4 DEF LiveItem, Item, QueueStatus
<1>6. CASE v = 0
  <2>1. code = 0 /\ ~LastRuns(it) /\ Proven(it)
    BY <1>6 DEF v, Verdict
  <2>2. c = it
    BY <2>1 DEF c, CloseRunningPass
  <2>3. EditsFollowedUp(it)
    BY <2>1, ProvenFollowsUp DEF LiveItem
  <2>4. EditsFollowedUp(d)
    BY <1>5, <2>2, <2>3 DEF EditsFollowedUp
  <2>5. Len(d.passes) \in 1 .. MaxPasses
    BY <1>5, <2>1, <2>2 DEF LiveItem, Item, ItemOK, Proven
  <2>6. CompletedItemOK(d)
    <3>1. AllCompleted(d.passes)
      BY <1>5, <2>1, <2>2 DEF Proven
    <3>2. WholeRepository => d.passes[1].exhaustive /\ d.final.complete
      BY <1>5, <2>1, <2>2 DEF Proven
    <3>3. QED
      BY <1>5, <1>6, <2>4, <2>5, <3>1, <3>2 DEF CompletedItemOK
  <2>7. ChainedScopes(d) /\ AttemptsOK(d) /\ ReviewedInFull(d)
    BY <1>1, <1>5 DEF LiveItem, ItemOK, ChainedScopes, AttemptsOK, ReviewedInFull
  <2>8. QED
    BY <1>2, <1>5, <1>6, <2>5, <2>6, <2>7 DEF ItemOK, Settled, d
<1>7. CASE v # 0
  <2>1. d.status = "failed"
    BY <1>5, <1>7
  <2>2. ItemOK(d)
    BY <1>1, <1>5, <2>1, SameEvidence DEF LiveItem
  <2>3. QED
    BY <1>2, <1>5, <2>1, <2>2 DEF Settled, d
<1>8. QED
  BY <1>6, <1>7

\* The active item of an admissible receipt is live.
LEMMA ActiveIsLive ==
    ASSUME NEW s \in Receipt, Good(s), s.active # 0
    PROVE  /\ s.active \in Targets
           /\ s.next = s.active
           /\ LiveItem(s.items[s.active])
  BY DEF Good, Ordered, Receipt, LiveItem

\* finish_target settles the active target and moves the pointer on.
LEMMA FinishOK ==
    ASSUME NEW s \in Receipt, Good(s), s.active # 0, NEW code \in ExitCodes
    PROVE  LET t == AfterFinish(s, code)
           IN  /\ t \in Receipt
               /\ Good(t)
               /\ t.active = 0
               /\ t.next = s.active + 1
               /\ t.items[s.active] = Decided(s.items[s.active], code)
               /\ t.items[s.active].exit \in ExitCodes
               /\ \A j \in Targets : j # s.active => t.items[j] = s.items[j]
<1> DEFINE i == s.active
           d == Decided(s.items[i], code)
           t == AfterFinish(s, code)
<1>1. i \in Targets /\ s.next = i /\ LiveItem(s.items[i])
  BY ActiveIsLive
<1>2. d \in Item /\ ItemOK(d) /\ d.status \in Settled /\ d.exit \in ExitCodes
  BY <1>1, DecidedOK
<1>3. PICK st \in QueueStatus : t = Moved(s, i, d, i + 1, 0, st)
  BY DEF AfterFinish, QueueStatus
<1>4. i + 1 \in 1 .. NTargets + 1 /\ 0 \in Pointers
  BY <1>1 DEF Targets, Pointers
<1> HIDE DEF d, t
<1>5. /\ t \in Receipt /\ t.active = 0 /\ t.next = i + 1
      /\ t.items[i] = d
      /\ \A j \in Targets : j # i => t.items[j] = s.items[j]
  BY <1>1, <1>2, <1>3, <1>4, Fields, MovedOK
<1>6. Ordered(t)
  BY <1>1, <1>2, <1>5, QueuedItemOK DEF Good, Ordered, Targets, QueuedItem
<1>7. QED
  BY <1>2, <1>5, <1>6 DEF Good, d, t

(***************************************************************************)
(* Codes: what run_sequential_queue may return                             *)
(***************************************************************************)

\* A settled target has a code, and it is 0 exactly when it completed.
CodesOK(s) ==
    \A i \in Targets :
        s.items[i].status \in Settled =>
            /\ s.items[i].exit \in ExitCodes
            /\ s.items[i].status = "completed" <=> s.items[i].exit = 0

\* A receipt whose targets are all settled says so, and how they ended.
StatusOK(s) ==
    s.next = NTargets + 1 =>
        s.status = IF \E i \in Targets : s.items[i].status # "completed"
                   THEN "failed" ELSE "completed"

Coded(s) == CodesOK(s) /\ StatusOK(s)

\* The list the loop collects is the one a restart would collect.
ResultsOK == pc # "down" => results = EarlierResults(mem)

ReturnInv ==
    /\ Coded(mem) /\ Coded(disk)
    /\ ResultsOK
    /\ pc = "returned" => idx = NTargets + 1

\* A receipt with an undecided target in place of an undecided one.
LEMMA UndecidedCoded ==
    ASSUME NEW s \in Receipt, Coded(s), NEW t, NEW i \in Targets,
           t.next \in Targets,
           t.items[i].status \notin Settled,
           \A j \in Targets : j # i => t.items[j] = s.items[j]
    PROVE  Coded(t)
<1>1. CodesOK(t)
  BY DEF Coded, CodesOK
<1>2. t.next # NTargets + 1
  BY DEF Targets
<1> QED
  BY <1>1, <1>2 DEF Coded, StatusOK

\* The codes of the targets before next are all that is collected.
LEMMA SameResults ==
    ASSUME NEW s \in Receipt, NEW t \in Receipt, t.next = s.next,
           \A j \in Targets : j < s.next => t.items[j] = s.items[j]
    PROVE  EarlierResults(t) = EarlierResults(s)
<1>1. \A k \in 1 .. s.next - 1 : k \in Targets /\ k < s.next
  BY Fields DEF Targets
<1>2. \A k \in 1 .. s.next - 1 : t.items[k] = s.items[k]
  BY <1>1
<1> QED
  BY <1>2 DEF EarlierResults

\* finish_target records 0 exactly for a completed target.
LEMMA DecidedCode ==
    ASSUME NEW it, LiveItem(it), NEW code \in ExitCodes
    PROVE  Decided(it, code).status = "completed" <=> Decided(it, code).exit = 0
<1> DEFINE c == CloseRunningPass(it)
           v == Verdict(it, code)
           d == Decided(it, code)
<1>1. c \in Item
  BY CloseOK DEF LiveItem
<1>2. d = [c EXCEPT !.exit = v, !.status = IF v = 0 THEN "completed" ELSE "failed"]
  BY DEF Decided
<1> HIDE DEF c, v, d
<1>3. d.exit = v /\ d.status = IF v = 0 THEN "completed" ELSE "failed"
  BY <1>1, <1>2 DEF Item
<1> QED
  BY <1>3 DEF d

\* Recovery keeps the codes and the results.
LEMMA RecoveryCoded ==
    ASSUME NEW s \in Receipt, Good(s), Coded(s)
    PROVE  Coded(AfterRecovery(s))
<1>1. CASE s.active = 0
  BY <1>1 DEF AfterRecovery
<1>2. CASE s.active # 0
  <2> DEFINE i == s.active
             t == AfterRecovery(s)
  <2>1. i \in Targets /\ s.next = i /\ s.items[i] \in Item /\ ItemOK(s.items[i])
    BY <1>2, ActiveIsLive DEF LiveItem
  <2>2. t = Moved(s, i, RequeuedItem(s.items[i]), s.next, 0, "queued")
    BY <1>2 DEF AfterRecovery
  <2>3. RequeuedItem(s.items[i]) \in Item
    BY <2>1, RequeueOK
  <2>4. 0 \in Pointers /\ "queued" \in QueueStatus
    BY DEF Pointers, QueueStatus
  <2>5. /\ t.next = i /\ t.items[i] = RequeuedItem(s.items[i])
        /\ \A j \in Targets : j # i => t.items[j] = s.items[j]
    BY <2>1, <2>2, <2>3, <2>4, Fields, MovedOK
  <2>6. t.items[i].status \notin Settled
    BY <2>5 DEF RequeuedItem, QueuedItem, Settled
  <2> HIDE DEF t
  <2>7. Coded(t)
    BY <2>1, <2>5, <2>6, UndecidedCoded
  <2> QED
    BY <2>7 DEF t
<1> QED
  BY <1>1, <1>2

\* start_target makes a target undecided that was undecided before.
LEMMA StartCoded ==
    ASSUME NEW s \in Receipt, Good(s), Coded(s), s.active = 0, NEW i \in Targets,
           i = s.next
    PROVE  /\ Coded(AfterStart(s, i))
           /\ EarlierResults(AfterStart(s, i)) = EarlierResults(s)
<1> DEFINE t == AfterStart(s, i)
<1>1. /\ t \in Receipt /\ Good(t) /\ t.active = i /\ t.next = i
      /\ \A j \in Targets : j # i => t.items[j] = s.items[j]
  BY StartOK
<1> HIDE DEF t
<1>2. t.items[i].status = "running"
  BY <1>1, Fields DEF Good, Ordered, Targets
<1>3. t.items[i].status \notin Settled
  BY <1>2 DEF Settled
<1>4. Coded(t)
  BY <1>1, <1>3, UndecidedCoded
<1>5. \A j \in Targets : j < s.next => t.items[j] = s.items[j]
  BY <1>1 DEF Targets
<1>6. EarlierResults(t) = EarlierResults(s)
  BY <1>1, <1>5, SameResults
<1> QED
  BY <1>4, <1>6 DEF t

\* So does a worker's write.
LEMMA WriteCoded ==
    ASSUME NEW s \in Receipt, Good(s), Coded(s), s.active # 0, NEW it, LiveItem(it)
    PROVE  LET t == [s EXCEPT !.items[s.active] = it]
           IN  Coded(t) /\ EarlierResults(t) = EarlierResults(s)
<1> DEFINE i == s.active
           t == [s EXCEPT !.items[i] = it]
<1>1. i \in Targets /\ s.next = i
  BY ActiveIsLive
<1>2. /\ t \in Receipt /\ t.next = i /\ Good(t) /\ t.active = i
      /\ \A j \in Targets : j # i => t.items[j] = s.items[j]
  BY <1>1, WriteOK
<1> HIDE DEF t
<1>3. t.items[i].status = "running"
  BY <1>1, <1>2, Fields DEF Good, Ordered, Targets
<1>4. t.items[i].status \notin Settled
  BY <1>3 DEF Settled
<1>5. Coded(t)
  BY <1>1, <1>2, <1>4, UndecidedCoded
<1>6. \A j \in Targets : j < s.next => t.items[j] = s.items[j]
  BY <1>1, <1>2 DEF Targets
<1>7. EarlierResults(t) = EarlierResults(s)
  BY <1>1, <1>2, <1>6, SameResults
<1> QED
  BY <1>5, <1>7 DEF t

\* finish_target appends the code of the target it settles, and tells after
\* the last one how the queue ended.
LEMMA FinishCoded ==
    ASSUME NEW s \in Receipt, Good(s), Coded(s), s.active # 0, NEW code \in ExitCodes
    PROVE  LET t == AfterFinish(s, code)
           IN  /\ Coded(t)
               /\ EarlierResults(t) = Append(EarlierResults(s), t.items[s.active].exit)
<1> DEFINE i == s.active
           d == Decided(s.items[i], code)
           t == AfterFinish(s, code)
<1>1. i \in Targets /\ s.next = i /\ LiveItem(s.items[i])
  BY ActiveIsLive
<1>2. d.exit \in ExitCodes /\ (d.status = "completed" <=> d.exit = 0)
  BY <1>1, DecidedOK, DecidedCode
<1>3. /\ t \in Receipt /\ t.next = i + 1 /\ t.items[i] = d
      /\ \A j \in Targets : j # i => t.items[j] = s.items[j]
  BY FinishOK
<1>4. t.status = IF i + 1 <= NTargets THEN "queued"
                 ELSE IF \E j \in Targets :
                            (IF j = i THEN d ELSE s.items[j]).status # "completed"
                      THEN "failed" ELSE "completed"
  BY DEF AfterFinish, Moved
<1> HIDE DEF d, t
<1>5. CodesOK(t)
  BY <1>2, <1>3 DEF Coded, CodesOK
<1>6. StatusOK(t)
  <2>1. SUFFICES ASSUME i = NTargets
                 PROVE  t.status = IF \E j \in Targets : t.items[j].status # "completed"
                                   THEN "failed" ELSE "completed"
    BY <1>1, <1>3 DEF StatusOK, Targets
  <2>2. \A j \in Targets : t.items[j] = IF j = i THEN d ELSE s.items[j]
    BY <1>3
  <2> QED
    BY <1>4, <2>1, <2>2
<1>7. EarlierResults(t) = Append(EarlierResults(s), t.items[i].exit)
  <2> DEFINE old == EarlierResults(s)
             new == EarlierResults(t)
             x   == t.items[i].exit
  <2>1. old = [k \in 1 .. i - 1 |->
                 IF s.items[k].exit = NoCode THEN 0 ELSE s.items[k].exit]
    BY <1>1 DEF EarlierResults
  <2>2. new = [k \in 1 .. i |->
                 IF t.items[k].exit = NoCode THEN 0 ELSE t.items[k].exit]
    BY <1>1, <1>3 DEF EarlierResults, Targets
  <2>3. x # NoCode
    BY <1>2, <1>3 DEF ExitCodes, NoCode
  <2>4. i \in Nat /\ i >= 1
    BY <1>1 DEF Targets
  <2>5. new[i] = x
    BY <2>2, <2>3, <2>4
  <2>6. ASSUME NEW k \in 1 .. i - 1 PROVE new[k] = old[k]
    <3>1. k \in Targets /\ k # i /\ k \in 1 .. i
      BY <1>1, <2>4 DEF Targets
    <3> QED
      BY <1>3, <2>1, <2>2, <3>1
  <2>7. \A k \in 1 .. i - 1 : old[k] \in Int
    <3>1. ASSUME NEW k \in 1 .. i - 1 PROVE s.items[k].exit \in Int
      <4>1. k \in Targets
        BY <1>1, <2>4 DEF Targets
      <4> QED
        BY <4>1, Fields DEF Item, ExitCodes, NoCode
    <3> QED
      BY <2>1, <3>1
  <2>8. old \in Seq(Int) /\ Len(old) = i - 1
    BY <2>1, <2>4, <2>7
  <2>9. x \in Int
    BY <1>2, <1>3 DEF ExitCodes
  <2> DEFINE app == Append(old, x)
  <2> HIDE DEF old, x
  <2>10. Len(app) = i /\ app[i] = x /\ \A k \in 1 .. i - 1 : app[k] = old[k]
    BY <2>4, <2>8, <2>9
  <2>11. app = [k \in 1 .. i |-> app[k]]
    <3>1. app \in Seq(Int)
      BY <2>8, <2>9
    <3> HIDE DEF app
    <3> QED
      BY <2>10, <3>1
  <2>12. \A k \in 1 .. i : new[k] = app[k]
    BY <2>4, <2>5, <2>6, <2>10
  <2> HIDE DEF app
  <2>13. new = [k \in 1 .. i |-> new[k]]
    BY <2>2
  <2> HIDE DEF new
  <2>14. new = app
    BY <2>11, <2>12, <2>13
  <2> QED
    BY <2>14 DEF new, old, app, x
<1> QED
  BY <1>5, <1>6, <1>7 DEF Coded, t

(***************************************************************************)
(* The process                                                             *)
(***************************************************************************)

\* The scalar part of the type invariant.
ControlOK ==
    /\ pc \in {"down", "loop", "running", "returned"}
    /\ idx \in 0 .. NTargets + 1
    /\ results \in Seq(ExitCodes)
    /\ crashes \in Nat
    /\ faults \in Nat

\* A save either puts mem' on disk or leaves disk alone.
LEMMA SaveCases ==
    ASSUME SaveOk \/ SaveFails, faults \in Nat
    PROVE  /\ disk' = mem' \/ disk' = disk
           /\ faults' \in Nat
  BY DEF SaveOk, SaveFails

\* A worker's call that leaves the active item live keeps the invariant.
LEMMA WorkerWritesOK ==
    ASSUME IInv, pc = "running", NEW it, LiveItem(it), WorkerWrites(it)
    PROVE  IInv'
<1>1. /\ mem \in Receipt /\ Good(mem) /\ disk \in Receipt /\ Good(disk)
      /\ mem.active = idx /\ mem.next = idx
      /\ disk.active = idx /\ disk.next = idx
      /\ \A i \in Targets : i # idx => disk.items[i] = mem.items[i]
  BY DEF IInv, TypeOK, InStep
<1>2. mem.active # 0 /\ mem.active \in Targets
  BY <1>1 DEF Good, Ordered, Receipt, Targets
<1>3. mem' = [mem EXCEPT !.items[mem.active] = it]
  BY DEF WorkerWrites
<1>4. /\ mem' \in Receipt /\ Good(mem')
      /\ mem'.active = idx /\ mem'.next = idx
      /\ \A j \in Targets : j # idx => mem'.items[j] = mem.items[j]
  BY <1>1, <1>2, <1>3, WriteOK
<1>5. (disk' = mem' \/ disk' = disk) /\ faults' \in Nat
  BY SaveCases DEF WorkerWrites, IInv, TypeOK
<1>6. disk' \in Receipt /\ Good(disk') /\ disk'.active = idx /\ disk'.next = idx
        /\ \A i \in Targets : i # idx => disk'.items[i] = mem'.items[i]
  BY <1>1, <1>4, <1>5
<1>7. UNCHANGED <<pc, idx, results, crashes>>
  BY DEF WorkerWrites
<1>8. TypeOK'
  BY <1>4, <1>5, <1>6, <1>7 DEF IInv, TypeOK
<1>9. InStep'
  BY <1>4, <1>6, <1>7 DEF InStep
<1>10. QED
  BY <1>4, <1>6, <1>8, <1>9 DEF IInv, Good, Ordered, ItemOK, ChainedScopes

\* The initial state satisfies the invariant.
LEMMA InitInv == Init => IInv
<1>1. SUFFICES ASSUME Init PROVE IInv
  OBVIOUS
<1>2. mem = FreshReceipt /\ disk = FreshReceipt
  BY <1>1 DEF Init
<1>3. TypeOK
  BY <1>1, <1>2, FreshOK DEF Init, TypeOK
<1>4. InStep
  BY <1>1, <1>2 DEF Init, InStep
<1>5. QED
  BY <1>2, <1>3, <1>4, FreshOK DEF IInv

\* What one step does to the receipt on disk, beyond keeping the invariant: no
\* settled target is touched.
Untouched == \A i \in Targets :
                 disk.items[i].status \in Settled => disk'.items[i] = disk.items[i]

\* Launch: the recovered receipt is admissible and in memory as on disk.
LEMMA LaunchOK == IInv /\ Launch => IInv' /\ Untouched
<1>1. SUFFICES ASSUME IInv, Launch PROVE IInv' /\ Untouched
  OBVIOUS
<1>2. disk \in Receipt /\ Good(disk)
  BY <1>1 DEF IInv, TypeOK
<1>3. /\ mem' = AfterRecovery(disk) /\ disk' = mem'
      /\ faults' = faults /\ crashes' = crashes
      /\ pc' = "loop" /\ idx' = mem'.next /\ results' = EarlierResults(mem')
  BY <1>1 DEF Launch, SaveOk
<1>4. mem' \in Receipt /\ Good(mem') /\ mem'.active = 0
  BY <1>2, <1>3, RecoveryOK
<1>5. results' \in Seq(ExitCodes)
  <2>1. mem'.next - 1 \in Nat
    BY <1>4, Fields
  <2>2. \A k \in 1 .. mem'.next - 1 :
          (IF mem'.items[k].exit = NoCode THEN 0 ELSE mem'.items[k].exit) \in ExitCodes
    <3>1. SUFFICES ASSUME NEW k \in 1 .. mem'.next - 1
                   PROVE  (IF mem'.items[k].exit = NoCode THEN 0
                           ELSE mem'.items[k].exit) \in ExitCodes
      OBVIOUS
    <3>2. k \in Targets
      BY <1>4, Fields DEF Targets
    <3>3. mem'.items[k].exit \in ExitCodes \cup {NoCode}
      BY <1>4, <3>2, Fields DEF Item
    <3>4. QED
      BY <3>3 DEF ExitCodes
  <2>3. results' = [k \in 1 .. mem'.next - 1 |->
                      IF mem'.items[k].exit = NoCode THEN 0 ELSE mem'.items[k].exit]
    BY <1>3 DEF EarlierResults
  <2>4. QED
    BY <2>1, <2>2, <2>3
<1>6. idx' \in 0 .. NTargets + 1
  BY <1>3, <1>4, Fields
<1>7. TypeOK'
  BY <1>1, <1>3, <1>4, <1>5, <1>6 DEF IInv, TypeOK
<1>8. InStep'
  BY <1>3, <1>4 DEF InStep
<1>9. Untouched
  <2>1. SUFFICES ASSUME NEW i \in Targets, disk.items[i].status \in Settled
                 PROVE  disk'.items[i] = disk.items[i]
    BY DEF Untouched
  <2>2. CASE disk.active = 0
    BY <1>3, <2>2 DEF AfterRecovery
  <2>3. CASE disk.active # 0
    <3>1. disk.active \in Targets /\ disk.items[disk.active].status = "running"
      BY <1>2, <2>3, ActiveIsLive DEF LiveItem
    <3>2. i # disk.active
      BY <2>1, <3>1 DEF Settled
    <3>3. disk'.items = [disk.items EXCEPT ![disk.active] =
                            RequeuedItem(disk.items[disk.active])]
      BY <1>3, <2>3 DEF AfterRecovery, Moved
    <3>4. QED
      BY <1>2, <3>2, <3>3, Fields
  <2>4. QED
    BY <2>2, <2>3
<1>10. Good(mem)' /\ Good(disk)'
  BY <1>3, <1>4
<1>11. QED
  BY <1>7, <1>8, <1>9, <1>10 DEF IInv

\* A process that ends leaves its memory behind: only disk matters then.
LEMMA EndOK ==
    ASSUME IInv, disk' \in Receipt, Good(disk'), mem' = disk', ProcessEnds,
           crashes' \in Nat, faults' \in Nat
    PROVE  IInv'
<1>1. pc' = "down" /\ idx' = 0 /\ results' = <<>>
  BY DEF ProcessEnds
<1>2. TypeOK'
  BY <1>1 DEF TypeOK
<1>3. InStep'
  BY <1>1 DEF InStep
<1>4. Good(mem)' /\ Good(disk)'
  OBVIOUS
<1>5. QED
  BY <1>2, <1>3, <1>4 DEF IInv

\* While a target runs, a step that edits only that target in memory and saves
\* or fails to save touches no settled target.
LEMMA RunningUntouched ==
    ASSUME IInv, pc = "running", disk' = mem' \/ disk' = disk,
           \A j \in Targets : j # idx => mem'.items[j] = mem.items[j]
    PROVE  Untouched
<1>1. SUFFICES ASSUME NEW i \in Targets, disk.items[i].status \in Settled
               PROVE  disk'.items[i] = disk.items[i]
  BY DEF Untouched
<1>2. /\ disk \in Receipt /\ Good(disk) /\ disk.active = idx /\ disk.next = idx
      /\ \A j \in Targets : j # idx => disk.items[j] = mem.items[j]
  BY DEF IInv, TypeOK, InStep
<1>3. disk.items[idx].status = "running" /\ idx # 0
  BY <1>2, ActiveIsLive, Fields DEF LiveItem
<1>4. i # idx
  BY <1>1, <1>3 DEF Settled
<1>5. QED
  BY <1>2, <1>4

\* start_target, saved or not.
LEMMA StartTargetOK == IInv /\ StartTarget => IInv' /\ Untouched
<1>1. SUFFICES ASSUME IInv, StartTarget PROVE IInv' /\ Untouched
  OBVIOUS
<1>2. /\ mem \in Receipt /\ Good(mem) /\ disk = mem /\ mem.active = 0
      /\ pc = "loop" /\ idx = mem.next /\ idx \in Targets
  BY <1>1, Fields DEF IInv, TypeOK, InStep, StartTarget, Targets
<1>3. CASE SaveOk /\ mem' = AfterStart(mem, idx) /\ pc' = "running"
             /\ UNCHANGED <<idx, results, crashes>>
  <2>1. /\ mem' \in Receipt /\ Good(mem') /\ mem'.active = idx /\ mem'.next = idx
        /\ \A j \in Targets : j # idx => mem'.items[j] = mem.items[j]
    BY <1>2, <1>3, StartOK
  <2>2. disk' = mem' /\ faults' = faults
    BY <1>3 DEF SaveOk
  <2>3. TypeOK'
    BY <1>1, <1>3, <2>1, <2>2 DEF IInv, TypeOK
  <2>4. InStep'
    BY <1>3, <2>1, <2>2 DEF InStep
  <2>5. Good(mem)' /\ Good(disk)'
    BY <2>1, <2>2
  <2>6. Untouched
    <3>1. SUFFICES ASSUME NEW i \in Targets, disk.items[i].status \in Settled
                   PROVE  disk'.items[i] = disk.items[i]
      BY DEF Untouched
    <3>2. disk.items[idx].status = "queued"
      BY <1>2, Fields DEF Good, Ordered, Targets
    <3>3. i # idx
      BY <3>1, <3>2 DEF Settled
    <3>4. QED
      BY <1>2, <2>1, <2>2, <3>3
  <2>7. QED
    BY <2>3, <2>4, <2>5, <2>6 DEF IInv
<1>4. CASE SaveFails /\ mem' = disk /\ ProcessEnds /\ UNCHANGED crashes
  <2>1. disk' = disk /\ mem' = disk' /\ faults' \in Nat /\ crashes' \in Nat
    BY <1>1, <1>4 DEF SaveFails, IInv, TypeOK
  <2>2. IInv'
    BY <1>1, <1>2, <1>4, <2>1, EndOK
  <2>3. QED
    BY <2>1, <2>2 DEF Untouched
<1>5. QED
  BY <1>1, <1>3, <1>4 DEF StartTarget

\* finish_target, with the loop going on or the process ending.
LEMMA RunnerEndsOK ==
    ASSUME NEW code \in {0, 1}
    PROVE  IInv /\ RunnerEnds(code) => IInv' /\ Untouched
<1>1. SUFFICES ASSUME IInv, RunnerEnds(code) PROVE IInv' /\ Untouched
  OBVIOUS
<1>2. /\ mem \in Receipt /\ Good(mem) /\ disk \in Receipt /\ Good(disk)
      /\ pc = "running" /\ mem.active = idx /\ mem.active # 0
      /\ code \in ExitCodes
  BY <1>1, Fields DEF IInv, TypeOK, InStep, RunnerEnds, ExitCodes
<1>3. CASE /\ mem' = AfterFinish(mem, code) /\ SaveOk
           /\ results' = Append(results, mem'.items[idx].exit)
           /\ idx' = idx + 1 /\ pc' = "loop" /\ UNCHANGED crashes
  <2>1. /\ mem' \in Receipt /\ Good(mem') /\ mem'.active = 0 /\ mem'.next = idx + 1
        /\ mem'.items[idx].exit \in ExitCodes
        /\ \A j \in Targets : j # idx => mem'.items[j] = mem.items[j]
    BY <1>2, <1>3, FinishOK
  <2>2. disk' = mem' /\ faults' = faults
    BY <1>3 DEF SaveOk
  <2>3. idx' \in 0 .. NTargets + 1 /\ results' \in Seq(ExitCodes)
    BY <1>1, <1>3, <2>1, Fields DEF IInv, TypeOK
  <2>4. TypeOK'
    BY <1>1, <1>3, <2>1, <2>2, <2>3 DEF IInv, TypeOK
  <2>5. InStep'
    BY <1>3, <2>1, <2>2 DEF InStep
  <2>6. Good(mem)' /\ Good(disk)'
    BY <2>1, <2>2
  <2>7. QED
    BY <1>1, <1>2, <2>1, <2>2, <2>4, <2>5, <2>6, RunningUntouched DEF IInv
<1>4. CASE SaveFails /\ mem' = disk /\ ProcessEnds /\ UNCHANGED crashes
  <2>1. disk' = disk /\ mem' = disk' /\ faults' \in Nat /\ crashes' \in Nat
    BY <1>1, <1>4 DEF SaveFails, IInv, TypeOK
  <2>2. IInv'
    BY <1>1, <1>2, <1>4, <2>1, EndOK
  <2>3. QED
    BY <2>1, <2>2 DEF Untouched
<1>5. QED
  BY <1>1, <1>3, <1>4 DEF RunnerEnds

\* An operator's interruption settles the target with 130, if it can be saved.
LEMMA OperatorInterruptsOK == IInv /\ OperatorInterrupts => IInv' /\ Untouched
<1>1. SUFFICES ASSUME IInv, OperatorInterrupts PROVE IInv' /\ Untouched
  OBVIOUS
<1>2. /\ mem \in Receipt /\ Good(mem) /\ disk \in Receipt /\ Good(disk)
      /\ pc = "running" /\ mem.active = idx /\ mem.active # 0
      /\ 130 \in ExitCodes
  BY <1>1, Fields DEF IInv, TypeOK, InStep, OperatorInterrupts, ExitCodes
<1> DEFINE t == AfterFinish(mem, 130)
<1>3. /\ t \in Receipt /\ Good(t)
      /\ \A j \in Targets : j # idx => t.items[j] = mem.items[j]
  BY <1>2, FinishOK
<1> HIDE DEF t
<1>4. /\ disk' = t \/ disk' = disk
      /\ mem' = disk' /\ ProcessEnds
      /\ faults' \in Nat /\ crashes' \in Nat
  BY <1>1 DEF OperatorInterrupts, SaveFails, IInv, TypeOK, t
<1>5. IInv'
  BY <1>1, <1>2, <1>3, <1>4, EndOK
<1>6. Untouched
  <2>1. CASE disk' = t
    BY <1>1, <1>2, <1>3, <1>4, <2>1, RunningUntouched
  <2>2. CASE disk' = disk
    BY <2>2 DEF Untouched
  <2>3. QED
    BY <1>4, <2>1, <2>2
<1>7. QED
  BY <1>5, <1>6

\* A death between two steps.
LEMMA CrashOK == IInv /\ Crash => IInv' /\ Untouched
<1>1. SUFFICES ASSUME IInv, Crash PROVE IInv' /\ Untouched
  OBVIOUS
<1>2. /\ disk' = disk /\ mem' = disk' /\ ProcessEnds
      /\ faults' \in Nat /\ crashes' \in Nat
      /\ disk \in Receipt /\ Good(disk)
  BY <1>1 DEF Crash, IInv, TypeOK
<1>3. IInv'
  BY <1>1, <1>2, EndOK
<1>4. QED
  BY <1>2, <1>3 DEF Untouched

\* The return of run_sequential_queue.
LEMMA ReturnOK == IInv /\ Return => IInv' /\ Untouched
<1>1. SUFFICES ASSUME IInv, Return PROVE IInv' /\ Untouched
  OBVIOUS
<1>2. pc = "loop" /\ pc' = "returned"
        /\ UNCHANGED <<mem, disk, idx, results, crashes, faults>>
  BY <1>1 DEF Return
<1>3. TypeOK' /\ InStep' /\ Good(mem)' /\ Good(disk)'
  BY <1>1, <1>2 DEF IInv, TypeOK, InStep
<1>4. QED
  BY <1>2, <1>3 DEF IInv, Untouched

\* A worker's write touches no settled target.
LEMMA WorkerUntouched ==
    ASSUME IInv, pc = "running", NEW it, LiveItem(it), WorkerWrites(it)
    PROVE  Untouched
<1>1. /\ mem \in Receipt /\ Good(mem) /\ mem.active = idx /\ mem.active # 0
      /\ mem' = [mem EXCEPT !.items[mem.active] = it]
  BY Fields DEF IInv, TypeOK, InStep, WorkerWrites
<1>2. \A j \in Targets : j # idx => mem'.items[j] = mem.items[j]
  BY <1>1, WriteOK
<1>3. disk' = mem' \/ disk' = disk
  BY SaveCases DEF WorkerWrites, IInv, TypeOK
<1>4. QED
  BY <1>2, <1>3, RunningUntouched

\* Every call a worker can make writes one item, the active one, which stays
\* live and whose evidence only grows.
LEMMA WorkerShape ==
    ASSUME IInv, WorkerStep
    PROVE  \E it : /\ pc = "running" /\ LiveItem(it) /\ Grows(Active, it)
                   /\ WorkerWrites(it)
<1>1. IInv /\ WorkerStep
  OBVIOUS
<1>2. pc = "running" => LiveItem(Active)
  <2>1. SUFFICES ASSUME pc = "running" PROVE LiveItem(Active)
    OBVIOUS
  <2>2. mem \in Receipt /\ Good(mem) /\ mem.active = mem.next
    BY <1>1, <2>1 DEF IInv, TypeOK, InStep
  <2>3. mem.active # 0
    BY <2>2, Fields
  <2>4. QED
    BY <2>2, <2>3, ActiveIsLive DEF Active
<1> DEFINE Live == \E it : /\ pc = "running" /\ LiveItem(it) /\ Grows(Active, it)
                           /\ WorkerWrites(it)
<1>4. ASSUME NEW files \in SUBSET Files, NEW exhaustive \in Flags,
             BeginPass(files, exhaustive)
      PROVE  Live
  <2>1. exhaustive \in BOOLEAN
    BY FlagsAssumption DEF FlagsAssumption
  <2>2. pc = "running" /\ MayBegin(Active, files) /\ LiveItem(Active)
    BY <1>2, <1>4 DEF BeginPass
  <2>3. LiveItem([Active EXCEPT !.passes = Append(@, NewPass(files, exhaustive))])
    BY <2>1, <2>2, BeginOK
  <2>4. NewPass(files, exhaustive) \in Pass /\ Active \in Item
    BY <2>1, <2>2 DEF NewPass, Pass, LiveItem
  <2>5. Grows(Active, [Active EXCEPT !.passes = Append(@, NewPass(files, exhaustive))])
    BY <2>4, AppendGrows
  <2>6. QED
    BY <1>4, <2>2, <2>3, <2>5 DEF BeginPass
<1>5. ASSUME pc = "running", LiveItem(Active), LastRuns(Active)
      PROVE  /\ Len(Active.passes) > 0 /\ LastPass(Active) \in Pass
             /\ Active \in Item /\ ItemOK(Active)
             /\ Active.status # "completed"
  <2>1. Active.passes \in Seq(Pass) /\ Len(Active.passes) > 0
    BY <1>5 DEF LiveItem, Item, LastRuns
  <2>2. Len(Active.passes) \in 1 .. Len(Active.passes)
    BY <2>1
  <2>3. LastPass(Active) \in Pass
    BY <2>1, <2>2 DEF LastPass
  <2>4. QED
    BY <1>5, <2>1, <2>3 DEF LiveItem
<1>6. ASSUME pc = "running", LiveItem(Active), LastRuns(Active), NEW p \in Pass,
             Len(Active.passes) = 1 \/ p.files = LastPass(Active).files,
             p.exhaustive /\ p.status = "completed" => p.files \subseteq p.reviewed
      PROVE  LiveItem(SetLast(Active, p)) /\ Grows(Active, SetLast(Active, p))
  BY <1>5, <1>6, SetLastOK, SetLastGrows DEF LiveItem
<1>7. ASSUME NEW changed \in SUBSET Files, NEW reviewed \in SUBSET Files,
             NEW incomplete \in SUBSET Files, NEW unattempted \in SUBSET Files,
             FinishPass(changed, reviewed, incomplete, unattempted)
      PROVE  Live
  <2> DEFINE p == [LastPass(Active) EXCEPT !.status = "completed",
                                           !.changed = changed,
                                           !.reviewed = reviewed]
  <2>1. /\ pc = "running" /\ LiveItem(Active) /\ LastRuns(Active)
        /\ ~Unreconciled(LastPass(Active), reviewed, incomplete, unattempted)
        /\ WorkerWrites(SetLast(Active, p))
    BY <1>2, <1>7 DEF FinishPass
  <2>2. LastPass(Active) \in Pass
    BY <1>5, <2>1
  <2>3. /\ p \in Pass /\ p.files = LastPass(Active).files
        /\ p.exhaustive = LastPass(Active).exhaustive /\ p.reviewed = reviewed
    BY <2>2 DEF Pass
  <2>4. p.exhaustive => p.files \subseteq p.reviewed
    BY <2>1, <2>3 DEF Unreconciled
  <2> HIDE DEF p
  <2>5. LiveItem(SetLast(Active, p)) /\ Grows(Active, SetLast(Active, p))
    BY <1>6, <2>1, <2>3, <2>4
  <2>6. QED
    BY <2>1, <2>5
<1>8. ASSUME NEW reviewed \in SUBSET Files, NEW incomplete \in SUBSET Files,
             NEW unattempted \in SUBSET Files,
             RefusePass(reviewed, incomplete, unattempted)
      PROVE  Live
  <2> DEFINE p == [LastPass(Active) EXCEPT !.reviewed = reviewed]
  <2>1. /\ pc = "running" /\ LiveItem(Active) /\ LastRuns(Active)
        /\ WorkerWrites(SetLast(Active, p))
    BY <1>2, <1>8 DEF RefusePass
  <2>2. LastPass(Active) \in Pass /\ LastPass(Active).status = "running"
    BY <1>5, <2>1 DEF LastRuns
  <2>3. p \in Pass /\ p.files = LastPass(Active).files /\ p.status = "running"
    BY <2>2 DEF Pass
  <2> HIDE DEF p
  <2>4. LiveItem(SetLast(Active, p)) /\ Grows(Active, SetLast(Active, p))
    BY <1>6, <2>1, <2>3
  <2>5. QED
    BY <2>1, <2>4
<1>9. ASSUME NEW files \in SUBSET Files, ReconcileScope(files)
      PROVE  Live
  <2> DEFINE p == [LastPass(Active) EXCEPT !.files = files]
  <2>1. /\ pc = "running" /\ LiveItem(Active) /\ LastRuns(Active)
        /\ Len(Active.passes) = 1
        /\ WorkerWrites(SetLast(Active, p))
    BY <1>2, <1>9 DEF ReconcileScope
  <2>2. LastPass(Active) \in Pass /\ LastPass(Active).status = "running"
    BY <1>5, <2>1 DEF LastRuns
  <2>3. p \in Pass /\ p.status = "running"
    BY <2>2 DEF Pass
  <2> HIDE DEF p
  <2>4. LiveItem(SetLast(Active, p)) /\ Grows(Active, SetLast(Active, p))
    BY <1>6, <2>1, <2>3
  <2>5. QED
    BY <2>1, <2>4
<1>10. ASSUME NEW attempted \in BOOLEAN, NEW notApplicable \in BOOLEAN,
              NEW implemented \in SUBSET Files,
              RecordGate(attempted, notApplicable, implemented)
       PROVE  Live
  <2> DEFINE g == [recorded |-> TRUE, attempted |-> attempted,
                   notApplicable |-> notApplicable, implemented |-> implemented]
  <2>1. /\ pc = "running" /\ LiveItem(Active) /\ Len(Active.passes) = 1
        /\ WorkerWrites([Active EXCEPT !.gate = g])
    BY <1>2, <1>10 DEF RecordGate
  <2>2. g \in Gate
    BY DEF Gate
  <2> HIDE DEF g
  <2>3. LiveItem([Active EXCEPT !.gate = g])
    BY <2>1, <2>2, GateOK
  <2>4. Grows(Active, [Active EXCEPT !.gate = g])
    BY <2>1, SameGrows DEF LiveItem, Item
  <2>5. QED
    BY <2>1, <2>3, <2>4
<1>11. ASSUME NEW ok \in BOOLEAN, RecordFinalization(ok)
       PROVE  Live
  <2> DEFINE f == [recorded |-> TRUE,
                   complete |-> ok /\ AllCompleted(Active.passes),
                   covered |-> GovernedFiles(Active)]
  <2>1. /\ pc = "running" /\ LiveItem(Active)
        /\ WorkerWrites([Active EXCEPT !.final = f])
    BY <1>2, <1>11 DEF RecordFinalization
  <2>2. GovernedFiles(Active) \in SUBSET Files
    <3>1. Active.gate \in Gate /\ Active.passes \in Seq(Pass)
      BY <2>1 DEF LiveItem, Item
    <3>2. \A k \in 1 .. Len(Active.passes) : Active.passes[k] \in Pass
      BY <3>1
    <3>3. Active.gate.implemented \subseteq Files
      BY <3>1 DEF Gate
    <3>4. \A k \in 1 .. Len(Active.passes) : Active.passes[k].changed \subseteq Files
      BY <3>2 DEF Pass
    <3>5. ASSUME NEW x \in GovernedFiles(Active)  PROVE x \in Files
      <4>1. CASE x \in Active.gate.implemented
        BY <4>1, <3>3
      <4>2. CASE \E k \in 1 .. Len(Active.passes) : x \in Active.passes[k].changed
        BY <4>2, <3>4
      <4>3. QED
        BY <3>5, <4>1, <4>2 DEF GovernedFiles
    <3>6. QED
      BY <3>5
  <2>3. (ok /\ AllCompleted(Active.passes)) \in BOOLEAN
    OBVIOUS
  <2>4. f \in Finalization
    BY <2>2, <2>3 DEF Finalization
  <2> HIDE DEF f
  <2>5. LiveItem([Active EXCEPT !.final = f])
    BY <2>1, <2>4, FinalizationOK
  <2>6. Grows(Active, [Active EXCEPT !.final = f])
    BY <2>1, SameGrows DEF LiveItem, Item
  <2>7. QED
    BY <2>1, <2>5, <2>6
<1>12. QED
  BY <1>1, <1>4, <1>7, <1>8, <1>9, <1>10, <1>11 DEF WorkerStep

\* Every call a worker can make keeps the invariant.
LEMMA WorkerStepOK == IInv /\ WorkerStep => IInv' /\ Untouched
  BY WorkerShape, WorkerWritesOK, WorkerUntouched

\* The invariant is inductive, and no step touches a settled target on disk.
LEMMA StepInv == IInv /\ [Next]_vars => IInv' /\ (Untouched \/ UNCHANGED vars)
<1>1. SUFFICES ASSUME IInv, [Next]_vars PROVE IInv' /\ (Untouched \/ UNCHANGED vars)
  OBVIOUS
<1>2. CASE UNCHANGED vars
  BY <1>1, <1>2 DEF vars, IInv, TypeOK, InStep, Good, Ordered, ItemOK
<1>3. CASE Launch
  BY <1>1, <1>3, LaunchOK
<1>4. CASE StartTarget
  BY <1>1, <1>4, StartTargetOK
<1>5. CASE WorkerStep
  BY <1>1, <1>5, WorkerStepOK
<1>6. CASE \E code \in {0, 1} : RunnerEnds(code)
  BY <1>1, <1>6, RunnerEndsOK
<1>7. CASE OperatorInterrupts
  BY <1>1, <1>7, OperatorInterruptsOK
<1>8. CASE Return
  BY <1>1, <1>8, ReturnOK
<1>9. CASE Crash
  BY <1>1, <1>9, CrashOK
<1>10. QED
  BY <1>1, <1>2, <1>3, <1>4, <1>5, <1>6, <1>7, <1>8, <1>9 DEF Next

\* The codes hold where nothing has run yet.
LEMMA InitReturn == Init => ReturnInv
<1>1. SUFFICES ASSUME Init PROVE ReturnInv
  OBVIOUS
<1>2. mem = FreshReceipt /\ disk = FreshReceipt /\ pc = "down"
  BY <1>1 DEF Init
<1>3. FreshReceipt.next = 1 /\ \A i \in Targets : FreshReceipt.items[i].status = "queued"
  BY DEF FreshReceipt, QueuedItem
<1>4. Coded(FreshReceipt)
  BY <1>3 DEF Coded, CodesOK, StatusOK, Settled
<1> QED
  BY <1>2, <1>4 DEF ReturnInv, ResultsOK

\* Every step keeps codes, queue status and collected results together.
LEMMA StepReturn == IInv /\ ReturnInv /\ [Next]_vars => ReturnInv'
<1>1. SUFFICES ASSUME IInv, ReturnInv, [Next]_vars PROVE ReturnInv'
  OBVIOUS
<1>2. /\ mem \in Receipt /\ Good(mem) /\ disk \in Receipt /\ Good(disk)
      /\ Coded(mem) /\ Coded(disk) /\ faults \in Nat
  BY <1>1 DEF IInv, TypeOK, ReturnInv
<1>3. CASE UNCHANGED vars
  <2>1. UNCHANGED <<mem, disk, pc, idx, results>>
    BY <1>3 DEF vars
  <2>2. Coded(mem') /\ Coded(disk')
    BY <1>2, <2>1
  <2>3. ResultsOK'
    BY <1>1, <2>1 DEF ReturnInv, ResultsOK
  <2> QED
    BY <1>1, <2>1, <2>2, <2>3 DEF ReturnInv
<1>4. CASE Launch
  <2>1. mem' = AfterRecovery(disk) /\ disk' = mem' /\ pc' = "loop"
          /\ results' = EarlierResults(mem')
    BY <1>4 DEF Launch, SaveOk
  <2>2. Coded(mem') /\ Coded(disk')
    BY <1>2, <2>1, RecoveryCoded
  <2> QED
    BY <2>1, <2>2 DEF ReturnInv, ResultsOK
<1>5. ASSUME Coded(disk'), mem' = disk', ProcessEnds PROVE ReturnInv'
  BY <1>5 DEF ReturnInv, ResultsOK, ProcessEnds
<1>6. CASE StartTarget
  <2>1. /\ disk = mem /\ mem.active = 0 /\ idx = mem.next /\ idx \in Targets
        /\ pc = "loop"
    BY <1>1, <1>2, <1>6, Fields DEF IInv, InStep, StartTarget, Targets
  <2>2. CASE SaveOk /\ mem' = AfterStart(mem, idx) /\ pc' = "running"
               /\ UNCHANGED <<idx, results, crashes>>
    <3>1. disk' = mem' /\ results' = results
      BY <2>2 DEF SaveOk
    <3>2. Coded(mem') /\ EarlierResults(mem') = EarlierResults(mem)
      BY <1>2, <2>1, <2>2, StartCoded
    <3>3. Coded(disk')
      BY <3>1, <3>2
    <3> QED
      BY <1>1, <2>1, <2>2, <3>1, <3>2, <3>3 DEF ReturnInv, ResultsOK
  <2>3. CASE SaveFails /\ mem' = disk /\ ProcessEnds /\ UNCHANGED crashes
    <3>1. disk' = disk
      BY <2>3 DEF SaveFails
    <3>2. Coded(disk')
      BY <1>2, <3>1
    <3> QED
      BY <1>5, <2>3, <3>1, <3>2
  <2> QED
    BY <1>6, <2>2, <2>3 DEF StartTarget
<1>7. CASE WorkerStep
  <2>1. PICK it : pc = "running" /\ LiveItem(it) /\ WorkerWrites(it)
    BY <1>1, <1>7, WorkerShape
  <2>2. /\ mem' = [mem EXCEPT !.items[mem.active] = it]
        /\ pc' = pc /\ results' = results
    BY <2>1 DEF WorkerWrites
  <2>3. disk' = mem' \/ disk' = disk
    BY <1>2, <2>1, SaveCases DEF WorkerWrites
  <2>4. mem.active # 0
    BY <1>1, <1>2, <2>1, Fields DEF IInv, InStep
  <2>5. Coded(mem') /\ EarlierResults(mem') = EarlierResults(mem)
    BY <1>2, <2>1, <2>2, <2>4, WriteCoded
  <2>6. Coded(disk')
    BY <1>2, <2>3, <2>5
  <2> QED
    BY <1>1, <2>1, <2>2, <2>5, <2>6 DEF ReturnInv, ResultsOK
<1>8. CASE \E code \in {0, 1} : RunnerEnds(code)
  <2>1. PICK code \in {0, 1} : RunnerEnds(code)
    BY <1>8
  <2>2. /\ pc = "running" /\ mem.active = idx /\ mem.active # 0
        /\ code \in ExitCodes
    BY <1>1, <1>2, <2>1, Fields DEF IInv, InStep, RunnerEnds, ExitCodes
  <2>3. CASE /\ mem' = AfterFinish(mem, code) /\ SaveOk
             /\ results' = Append(results, mem'.items[idx].exit)
             /\ pc' = "loop"
    <3>1. disk' = mem'
      BY <2>3 DEF SaveOk
    <3>2. /\ Coded(mem')
          /\ EarlierResults(mem') = Append(EarlierResults(mem), mem'.items[idx].exit)
      BY <1>2, <2>2, <2>3, FinishCoded
    <3>3. Coded(disk')
      BY <3>1, <3>2
    <3> QED
      BY <1>1, <2>2, <2>3, <3>2, <3>3 DEF ReturnInv, ResultsOK
  <2>4. CASE SaveFails /\ mem' = disk /\ ProcessEnds
    <3>1. disk' = disk
      BY <2>4 DEF SaveFails
    <3>2. Coded(disk')
      BY <1>2, <3>1
    <3> QED
      BY <1>5, <2>4, <3>1, <3>2
  <2> QED
    BY <2>1, <2>3, <2>4 DEF RunnerEnds
<1>9. CASE OperatorInterrupts
  <2>1. mem.active # 0 /\ 130 \in ExitCodes
    BY <1>1, <1>2, <1>9, Fields DEF IInv, InStep, OperatorInterrupts, ExitCodes
  <2>2. disk' = AfterFinish(mem, 130) \/ disk' = disk
    BY <1>9 DEF OperatorInterrupts, SaveFails
  <2>3. Coded(disk')
    BY <1>2, <2>1, <2>2, FinishCoded
  <2> QED
    BY <1>5, <1>9, <2>3 DEF OperatorInterrupts
<1>10. CASE Return
  <2>1. pc = "loop" /\ pc' = "returned" /\ UNCHANGED <<mem, disk, idx, results>>
    BY <1>10 DEF Return
  <2>2. idx' = NTargets + 1
    BY <1>1, <1>10 DEF Return, IInv, TypeOK
  <2>3. Coded(mem') /\ Coded(disk')
    BY <1>2, <2>1
  <2> QED
    BY <1>1, <2>1, <2>2, <2>3 DEF ReturnInv, ResultsOK
<1>11. CASE Crash
  <2>1. disk' = disk /\ mem' = disk' /\ ProcessEnds
    BY <1>11 DEF Crash
  <2>2. Coded(disk')
    BY <1>2, <2>1
  <2> QED
    BY <1>5, <2>1, <2>2
<1> QED
  BY <1>1, <1>3, <1>4, <1>6, <1>7, <1>8, <1>9, <1>10, <1>11 DEF Next

\* The first nonzero code exists as soon as one code is not zero.
LEMMA FirstNonzeroOK ==
    ASSUME NEW codes \in Seq(ExitCodes)
    PROVE  FirstNonzero(codes) = 0 <=> \A k \in 1 .. Len(codes) : codes[k] = 0
<1> DEFINE Bad == {k \in 1 .. Len(codes) : codes[k] # 0}
           First(k) == codes[k] # 0 /\ \A j \in 1 .. k - 1 : codes[j] = 0
<1>1. CASE Bad = {}
  BY <1>1 DEF FirstNonzero
<1>2. CASE Bad # {}
  <2> DEFINE All == 1 .. Len(codes)
             Prefixes == {1 .. k : k \in Bad}
  <2>1. IsFiniteSet(All) /\ FiniteSubsetsOf(All) = SUBSET All
    BY FS_Interval, FS_FiniteSubsetsOfFinite
  <2>2. IsWellFoundedOn(StrictSubsetOrdering(All), SUBSET All)
    BY <2>1, FS_StrictSubsetOrderingWellFounded
  <2>3. Prefixes \subseteq SUBSET All /\ Prefixes # {}
    BY <1>2
  <2> HIDE DEF Prefixes, All
  <2>4. PICK small \in Prefixes :
           \A other \in Prefixes : ~(<<other, small>> \in StrictSubsetOrdering(All))
    BY <2>2, <2>3, WFMin
  <2>5. PICK k \in Bad : small = 1 .. k
    BY <2>4 DEF Prefixes
  <2>6. \A j \in Bad : ~(1 .. j \subseteq small /\ 1 .. j # small)
    <3>1. SUFFICES ASSUME NEW j \in Bad, 1 .. j \subseteq small, 1 .. j # small
                   PROVE  FALSE
      OBVIOUS
    <3>2. 1 .. j \in Prefixes
      BY DEF Prefixes
    <3>3. <<1 .. j, small>> \in StrictSubsetOrdering(All)
      BY <2>3, <2>4, <3>1, <3>2 DEF StrictSubsetOrdering
    <3> QED
      BY <2>4, <3>2, <3>3
  <2>7. \A j \in Bad : ~(j < k)
    <3>1. SUFFICES ASSUME NEW j \in Bad, j < k PROVE FALSE
      OBVIOUS
    <3>2. j \in Nat /\ k \in Nat /\ k >= 1
      OBVIOUS
    <3>3. 1 .. j \subseteq 1 .. k /\ k \in 1 .. k /\ k \notin 1 .. j
      BY <3>1, <3>2
    <3>4. 1 .. j # 1 .. k
      BY <3>3
    <3> QED
      BY <2>5, <2>6, <3>3, <3>4
  <2>8. k \in 1 .. Len(codes) /\ First(k)
    BY <2>7
  <2>9. \E m \in 1 .. Len(codes) : First(m)
    BY <2>8
  <2>10. codes[CHOOSE m \in 1 .. Len(codes) : First(m)] # 0
    BY <2>9
  <2>11. ~ \A m \in 1 .. Len(codes) : codes[m] = 0
    BY <1>2
  <2> QED
    BY <2>10, <2>11 DEF FirstNonzero
<1> QED
  BY <1>1, <1>2

(***************************************************************************)
(* What a step may do to the receipt on disk                               *)
(***************************************************************************)

\* After failed saves memory is ahead of the receipt, never beside it.
Ahead == pc = "running" => Grows(disk.items[idx], mem.items[idx])

\* One item of the receipt is replaced.
Replaces(i, it) == i \in Targets /\ disk'.items = [disk.items EXCEPT ![i] = it]

\* start_target: no target was active, and the next one is now.
Starts ==
    /\ disk.active = 0
    /\ Replaces(disk.next, [disk.items[disk.next] EXCEPT !.status = "running"])

\* A call of the worker, or finish_target: the evidence of the active target
\* grows, and it still runs or has its verdict.
Works ==
    /\ disk.active # 0
    /\ \E it \in Item : /\ Grows(disk.items[disk.active], it)
                        /\ it.status \in {"running", "completed", "failed"}
                        /\ Replaces(disk.active, it)

\* A restart: the evidence of the active target becomes a closed attempt.
Requeues ==
    /\ disk.active # 0
    /\ Replaces(disk.active, RequeuedItem(disk.items[disk.active]))

DiskStep == disk' = disk \/ Starts \/ Works \/ Requeues

\* A receipt that differs in one item is the old one with that item replaced.
LEMMA OneReplaced ==
    ASSUME disk \in Receipt, NEW STATE t, t \in Receipt, disk' = t, NEW i \in Targets,
           \A j \in Targets : j # i => t.items[j] = disk.items[j]
    PROVE  Replaces(i, t.items[i])
<1>1. t.items \in [Targets -> Item] /\ disk.items \in [Targets -> Item]
  BY Fields
<1>2. t.items = [disk.items EXCEPT ![i] = t.items[i]]
  BY <1>1
<1> QED
  BY <1>2 DEF Replaces

\* finish_target keeps the evidence: it only closes a pass that still runs.
LEMMA DecidedGrows ==
    ASSUME NEW it, LiveItem(it), NEW code \in ExitCodes
    PROVE  Grows(it, Decided(it, code))
<1> DEFINE c == CloseRunningPass(it)
           d == Decided(it, code)
<1>1. c \in Item /\ it \in Item
  BY CloseOK DEF LiveItem
<1>2. Grows(it, c)
  <2>1. CASE LastRuns(it)
    <3>1. it.passes \in Seq(Pass) /\ Len(it.passes) \in 1 .. Len(it.passes)
      BY <2>1 DEF LiveItem, Item, LastRuns
    <3>2. LastPass(it) \in Pass
      BY <3>1 DEF LastPass
    <3>3. [LastPass(it) EXCEPT !.status = "interrupted"] \in Pass
      BY <3>2 DEF Pass
    <3> QED
      BY <1>1, <2>1, <3>3, SetLastGrows DEF CloseRunningPass
  <2>2. CASE ~LastRuns(it)
    BY <1>1, <2>2, SameGrows DEF CloseRunningPass
  <2> QED
    BY <2>1, <2>2
<1>3. d.passes = c.passes /\ d.attempts = c.attempts
  <2>1. d = [c EXCEPT !.exit = Verdict(it, code),
                      !.status = IF Verdict(it, code) = 0 THEN "completed" ELSE "failed"]
    BY DEF Decided
  <2> HIDE DEF c, d
  <2> QED
    BY <1>1, <2>1 DEF Item
<1> HIDE DEF c, d
<1>4. Grows(it, d)
  BY <1>2, <1>3 DEF Grows
<1> QED
  BY <1>4 DEF d

\* What the two copies have in common while a target runs.
LEMMA RunningFacts ==
    ASSUME IInv, Ahead, pc = "running"
    PROVE  /\ mem \in Receipt /\ Good(mem) /\ disk \in Receipt /\ Good(disk)
           /\ idx \in Targets /\ mem.active = idx /\ disk.active = idx
           /\ mem.active # 0 /\ disk.active # 0
           /\ LiveItem(mem.items[idx]) /\ mem.items[idx] \in Item
           /\ disk.items[idx] \in Item
           /\ Grows(disk.items[idx], mem.items[idx])
           /\ \A j \in Targets : j # idx => disk.items[j] = mem.items[j]
<1>1. /\ mem \in Receipt /\ Good(mem) /\ disk \in Receipt /\ Good(disk)
      /\ mem.active = idx /\ disk.active = idx /\ mem.next = idx
      /\ \A j \in Targets : j # idx => disk.items[j] = mem.items[j]
  BY DEF IInv, TypeOK, InStep
<1>2. mem.active # 0
  BY <1>1, Fields
<1>3. idx \in Targets /\ LiveItem(mem.items[idx])
  BY <1>1, <1>2, ActiveIsLive
<1>4. disk.items[idx] \in Item /\ mem.items[idx] \in Item
  BY <1>1, <1>3, Fields
<1> QED
  BY <1>1, <1>2, <1>3, <1>4 DEF Ahead

\* A receipt saved while a target runs is a step of work on that target.
LEMMA SavedWork ==
    ASSUME IInv, Ahead, pc = "running", NEW STATE t, t \in Receipt, disk' = t,
           Grows(mem.items[idx], t.items[idx]),
           t.items[idx].status \in {"running", "completed", "failed"},
           \A j \in Targets : j # idx => t.items[j] = mem.items[j]
    PROVE  Works
<1>1. t.items[idx] \in Item
  BY RunningFacts, Fields
<1>2. Grows(disk.items[idx], t.items[idx])
  BY <1>1, RunningFacts, GrowsTwice
<1>3. \A j \in Targets : j # idx => t.items[j] = disk.items[j]
  BY RunningFacts
<1>4. Replaces(idx, t.items[idx])
  BY <1>3, RunningFacts, OneReplaced
<1> QED
  BY <1>1, <1>2, <1>4, RunningFacts DEF Works

\* Every step of the process is one of those steps of the receipt.
LEMMA StepDisk == IInv /\ Ahead /\ [Next]_vars => Ahead' /\ DiskStep
<1>1. SUFFICES ASSUME IInv, Ahead, [Next]_vars PROVE Ahead' /\ DiskStep
  OBVIOUS
<1>2. /\ mem \in Receipt /\ Good(mem) /\ disk \in Receipt /\ Good(disk)
      /\ faults \in Nat
  BY <1>1 DEF IInv, TypeOK
<1>3. CASE UNCHANGED vars
  BY <1>1, <1>3 DEF vars, Ahead, DiskStep
<1>4. ASSUME pc' # "running" PROVE Ahead'
  BY <1>4 DEF Ahead
<1>5. CASE Launch
  <2>1. pc' = "loop" /\ disk' = AfterRecovery(disk)
    BY <1>5 DEF Launch, SaveOk
  <2>2. CASE disk.active = 0
    BY <1>4, <2>1, <2>2 DEF AfterRecovery, DiskStep
  <2>3. CASE disk.active # 0
    <3>1. disk.active \in Targets
      BY <1>2, <2>3, ActiveIsLive
    <3>2. disk'.items = [disk.items EXCEPT ![disk.active] =
                            RequeuedItem(disk.items[disk.active])]
      BY <2>1, <2>3 DEF AfterRecovery, Moved
    <3>3. Requeues
      BY <2>3, <3>1, <3>2 DEF Requeues, Replaces
    <3> QED
      BY <1>4, <2>1, <3>3 DEF DiskStep
  <2> QED
    BY <2>2, <2>3
<1>6. CASE StartTarget
  <2>1. /\ disk = mem /\ mem.active = 0 /\ idx = mem.next /\ idx \in Targets
    BY <1>1, <1>2, <1>6, Fields DEF IInv, InStep, StartTarget, Targets
  <2>2. CASE SaveOk /\ mem' = AfterStart(mem, idx) /\ pc' = "running"
               /\ UNCHANGED <<idx, results, crashes>>
    <3>1. disk' = mem' /\ disk' = AfterStart(disk, disk.next) /\ idx' = idx
      BY <2>1, <2>2 DEF SaveOk
    <3>2. disk'.items = [disk.items EXCEPT ![disk.next] =
                            [disk.items[disk.next] EXCEPT !.status = "running"]]
      BY <3>1 DEF AfterStart, Moved
    <3>3. Starts
      BY <2>1, <3>2 DEF Starts, Replaces
    <3>4. disk' \in Receipt
      BY <1>2, <2>1, <3>1, StartOK
    <3>5. mem'.items[idx'] \in Item /\ disk'.items[idx'] = mem'.items[idx']
      BY <2>1, <3>1, <3>4, Fields
    <3>6. Ahead'
      BY <3>5, SameGrows DEF Ahead
    <3> QED
      BY <3>3, <3>6 DEF DiskStep
  <2>3. CASE SaveFails /\ ProcessEnds
    BY <1>4, <2>3 DEF SaveFails, ProcessEnds, DiskStep
  <2> QED
    BY <1>6, <2>2, <2>3 DEF StartTarget
<1>7. CASE WorkerStep
  <2>1. PICK it : /\ pc = "running" /\ LiveItem(it) /\ Grows(Active, it)
                  /\ WorkerWrites(it)
    BY <1>1, <1>7, WorkerShape
  <2>2. /\ mem' = [mem EXCEPT !.items[mem.active] = it]
        /\ pc' = pc /\ idx' = idx
    BY <2>1 DEF WorkerWrites
  <2>3. disk' = mem' \/ disk' = disk
    BY <1>2, <2>1, SaveCases DEF WorkerWrites
  <2>4. /\ mem.active = idx /\ idx \in Targets /\ mem.active # 0
        /\ Active = mem.items[idx] /\ mem.items[idx] \in Item
        /\ disk.items[idx] \in Item /\ Grows(disk.items[idx], mem.items[idx])
    BY <1>1, <2>1, RunningFacts DEF Active
  <2>5. /\ mem' \in Receipt
        /\ \A j \in Targets : j # idx => mem'.items[j] = mem.items[j]
    BY <1>2, <2>1, <2>2, <2>4, WriteOK
  <2>6. mem'.items[idx] = it
    BY <1>2, <2>2, <2>4, Fields
  <2>7. it \in Item /\ it.status = "running"
    BY <2>1 DEF LiveItem
  <2>8. CASE disk' = mem'
    <3>1. Works
      BY <1>1, <2>1, <2>4, <2>5, <2>6, <2>7, <2>8, SavedWork
    <3>2. Grows(mem'.items[idx], mem'.items[idx])
      BY <2>6, <2>7, SameGrows
    <3> QED
      BY <2>2, <2>8, <3>1, <3>2 DEF DiskStep, Ahead
  <2>9. CASE disk' = disk
    <3>1. Grows(disk.items[idx], it)
      BY <2>1, <2>4, <2>7, GrowsTwice
    <3> QED
      BY <2>2, <2>6, <2>9, <3>1 DEF DiskStep, Ahead
  <2> QED
    BY <2>3, <2>8, <2>9
<1>8. ASSUME pc = "running", NEW code \in ExitCodes, disk' = AfterFinish(mem, code)
      PROVE  Works
  <2> DEFINE t == AfterFinish(mem, code)
  <2>1. /\ t \in Receipt
        /\ t.items[idx] = Decided(mem.items[idx], code)
        /\ \A j \in Targets : j # idx => t.items[j] = mem.items[j]
    BY <1>1, <1>8, RunningFacts, FinishOK
  <2>2. Grows(mem.items[idx], t.items[idx]) /\ t.items[idx].status \in Settled
    BY <1>1, <1>8, <2>1, RunningFacts, DecidedGrows, DecidedOK
  <2>3. t.items[idx].status \in {"running", "completed", "failed"}
    BY <2>2 DEF Settled
  <2> HIDE DEF t
  <2>4. disk' = t
    BY <1>8 DEF t
  <2> QED
    BY <1>1, <1>8, <2>1, <2>2, <2>3, <2>4, SavedWork
<1>9. CASE \E code \in {0, 1} : RunnerEnds(code)
  <2>1. PICK code \in {0, 1} : RunnerEnds(code)
    BY <1>9
  <2>2. pc = "running" /\ code \in ExitCodes
    BY <2>1 DEF RunnerEnds, ExitCodes
  <2>3. pc' # "running" /\ (disk' = AfterFinish(mem, code) \/ disk' = disk)
    BY <2>1 DEF RunnerEnds, SaveOk, SaveFails, ProcessEnds
  <2> QED
    BY <1>4, <1>8, <2>2, <2>3 DEF DiskStep
<1>10. CASE OperatorInterrupts
  <2>1. /\ pc = "running" /\ 130 \in ExitCodes /\ pc' # "running"
        /\ disk' = AfterFinish(mem, 130) \/ disk' = disk
    BY <1>10 DEF OperatorInterrupts, SaveFails, ProcessEnds, ExitCodes
  <2> QED
    BY <1>4, <1>8, <2>1 DEF DiskStep
<1>11. CASE Return
  BY <1>4, <1>11 DEF Return, DiskStep
<1>12. CASE Crash
  BY <1>4, <1>12 DEF Crash, ProcessEnds, DiskStep
<1> QED
  BY <1>1, <1>3, <1>5, <1>6, <1>7, <1>9, <1>10, <1>11, <1>12 DEF Next

\* Each of them keeps the evidence of every target.
LEMMA DiskStepKeeps ==
    ASSUME IInv, DiskStep
    PROVE  \A i \in Targets : EvidenceKept(disk.items[i], disk'.items[i])
<1>1. disk \in Receipt /\ disk.items \in [Targets -> Item] /\ Good(disk)
  BY Fields DEF IInv, TypeOK
<1>2. ASSUME NEW i \in Targets, disk'.items[i].passes = disk.items[i].passes,
             disk'.items[i].attempts = disk.items[i].attempts
      PROVE  EvidenceKept(disk.items[i], disk'.items[i])
  <2>1. disk.items[i] \in Item
    BY <1>1
  <2> QED
    BY <1>2, <2>1 DEF EvidenceKept, Item
<1>3. SUFFICES ASSUME NEW i \in Targets
               PROVE  EvidenceKept(disk.items[i], disk'.items[i])
  OBVIOUS
<1>4. CASE disk' = disk
  BY <1>2, <1>4
<1>5. CASE Starts
  <2>1. disk.items[disk.next] \in Item
    BY <1>1, <1>5 DEF Starts, Replaces
  <2>2. /\ disk'.items[i].passes = disk.items[i].passes
        /\ disk'.items[i].attempts = disk.items[i].attempts
    BY <1>1, <1>5, <2>1 DEF Starts, Replaces, Item
  <2> QED
    BY <1>2, <2>2
<1>6. CASE Works
  <2>1. PICK it \in Item : Grows(disk.items[disk.active], it)
                             /\ Replaces(disk.active, it)
    BY <1>6 DEF Works
  <2>2. CASE i = disk.active
    BY <1>1, <2>1, <2>2 DEF Replaces, Grows, EvidenceKept
  <2>3. CASE i # disk.active
    BY <1>1, <1>2, <2>1, <2>3 DEF Replaces
  <2> QED
    BY <2>2, <2>3
<1>7. CASE Requeues
  <2>1. CASE i = disk.active
    BY <1>1, <1>7, <2>1 DEF Requeues, Replaces, RequeuedItem, QueuedItem, EvidenceKept
  <2>2. CASE i # disk.active
    BY <1>1, <1>2, <1>7, <2>2 DEF Requeues, Replaces
  <2> QED
    BY <2>1, <2>2
<1> QED
  BY <1>4, <1>5, <1>6, <1>7 DEF DiskStep

(***************************************************************************)
(* The abstract queue                                                      *)
(***************************************************************************)

Outcomes == [i \in Targets |-> OutcomeOf(disk.items[i])]

\* Each of them is a step of the abstract queue, or none.
LEMMA DiskStepRefines ==
    ASSUME IInv, IInv', DiskStep
    PROVE  [Queue!Next]_Outcomes
<1>1. /\ disk \in Receipt /\ disk.items \in [Targets -> Item] /\ Good(disk)
      /\ disk' \in Receipt /\ disk'.items \in [Targets -> Item]
  BY Fields DEF IInv, TypeOK
<1>2. ASSUME NEW i \in Targets, NEW it, Replaces(i, it)
      PROVE  Outcomes' = [Outcomes EXCEPT ![i] = OutcomeOf(it)]
  BY <1>1, <1>2 DEF Replaces, Outcomes
<1>3. CASE disk' = disk
  BY <1>3 DEF Outcomes
<1>4. CASE Starts
  <2> DEFINE i == disk.next
             it == [disk.items[i] EXCEPT !.status = "running"]
  <2>1. disk.active = 0 /\ i \in Targets /\ Replaces(i, it)
    BY <1>4 DEF Starts, Replaces
  <2>2. disk.items[i] \in Item
    BY <1>1, <2>1
  <2>3. it.status = "running"
    BY <2>2 DEF Item
  <2>4. Outcomes[i] = "waiting"
    BY <1>1, <2>1 DEF Good, Ordered, Outcomes, OutcomeOf, Targets
  <2>5. \A j \in 1 .. i - 1 : Outcomes[j] \in {"passed", "failed"}
    <3>1. SUFFICES ASSUME NEW j \in 1 .. i - 1
                   PROVE  Outcomes[j] \in {"passed", "failed"}
      OBVIOUS
    <3>2. j \in Targets /\ j < i
      BY <2>1 DEF Targets
    <3>3. disk.items[j].status \in Settled
      BY <1>1, <3>2 DEF Good, Ordered
    <3> QED
      BY <3>2, <3>3 DEF Settled, Outcomes, OutcomeOf
  <2>6. Outcomes' = [Outcomes EXCEPT ![i] = "working"]
    BY <1>2, <2>1, <2>3 DEF OutcomeOf
  <2>7. Queue!Start(i)
    BY <2>4, <2>5, <2>6 DEF Queue!Start, Queue!IsDecided, Outcomes
  <2> QED
    BY <2>1, <2>7 DEF Queue!Next, Targets
<1>5. CASE Works \/ Requeues
  <2> DEFINE i == disk.active
  <2>1. i # 0
    BY <1>5 DEF Works, Requeues
  <2>2. i \in Targets /\ disk.items[i].status = "running"
    BY <1>1, <2>1, ActiveIsLive DEF LiveItem
  <2>3. Outcomes[i] = "working"
    BY <2>2 DEF Outcomes, OutcomeOf
  <2>4. CASE Works
    <3>1. PICK it \in Item : /\ it.status \in {"running", "completed", "failed"}
                             /\ Replaces(i, it)
      BY <2>4 DEF Works
    <3>2. Outcomes' = [Outcomes EXCEPT ![i] = OutcomeOf(it)]
      BY <1>2, <2>2, <3>1
    <3>3. CASE it.status = "running"
      <4>1. OutcomeOf(it) = Outcomes[i]
        BY <2>3, <3>3 DEF OutcomeOf
      <4>2. Outcomes' = Outcomes
        BY <2>2, <3>2, <4>1 DEF Outcomes
      <4> QED
        BY <4>2
    <3>4. CASE it.status \in {"completed", "failed"}
      <4>1. OutcomeOf(it) \in {"passed", "failed"}
        BY <3>4 DEF OutcomeOf
      <4>2. Queue!Decide(i, OutcomeOf(it))
        BY <2>3, <3>2 DEF Queue!Decide, Outcomes
      <4> QED
        BY <2>2, <4>1, <4>2 DEF Queue!Next, Targets
    <3> QED
      BY <3>1, <3>3, <3>4
  <2>5. CASE Requeues
    <3>1. Outcomes' = [Outcomes EXCEPT ![i] = OutcomeOf(RequeuedItem(disk.items[i]))]
      BY <1>2, <2>2, <2>5 DEF Requeues
    <3>2. OutcomeOf(RequeuedItem(disk.items[i])) = "waiting"
      BY DEF OutcomeOf, RequeuedItem, QueuedItem
    <3>3. Queue!Requeue(i)
      BY <2>3, <3>1, <3>2 DEF Queue!Requeue, Outcomes
    <3> QED
      BY <2>2, <3>3 DEF Queue!Next, Targets
  <2> QED
    BY <1>5, <2>4, <2>5
<1> QED
  BY <1>3, <1>4, <1>5 DEF DiskStep

(***************************************************************************)
(* Theorems                                                                *)
(***************************************************************************)

\* The strengthened invariant holds in every reachable state.
THEOREM Invariance == Spec => []IInv
<1>1. Init => IInv
  BY InitInv
<1>2. IInv /\ [Next]_vars => IInv'
  BY StepInv
<1>3. QED
  BY <1>1, <1>2, PTL DEF Spec

\* Both copies of the receipt are always well-formed, as are the loop variable
\* and the results of run_sequential_queue.
THEOREM TypeCorrect == Spec => []TypeOK
<1>1. IInv => TypeOK
  BY DEF IInv
<1>2. QED
  BY <1>1, Invariance, PTL

\* Targets are worked on one at a time and in the order of the queue, through
\* every death of the process and every failed save.
THEOREM OrderHolds == Spec => []OneTargetInOrder
<1>1. IInv => OneTargetInOrder
  BY DEF IInv, Good, OneTargetInOrder
<1>2. QED
  BY <1>1, Invariance, PTL

\* The scope of every follow-up pass is exactly the edits of the pass before
\* it and, for pass 2, of the competitor gate.
THEOREM ScopesAreExact == Spec => []ExactDeltaScopes
<1>1. IInv => ExactDeltaScopes
  BY DEF IInv, Good, ItemOK, AttemptsOK, ExactDeltaScopes
<1>2. QED
  BY <1>1, Invariance, PTL

\* Whatever the worker calls, a receipt that says completed carries the whole
\* chain of evidence.
THEOREM SuccessHolds == Spec => []SuccessIsProven
<1>1. IInv => SuccessIsProven
  BY DEF IInv, Good, ItemOK, CompletedItemOK, SuccessIsProven
<1>2. QED
  BY <1>1, Invariance, PTL

\* No restart, retry or failed save reopens a settled target or touches its
\* evidence.
THEOREM VerdictHolds == Spec => VerdictIsFinal
<1>1. IInv /\ [Next]_vars =>
        [\A i \in Targets :
            disk.items[i].status \in Settled => disk'.items[i] = disk.items[i]]_vars
  BY StepInv DEF Untouched
<1>2. QED
  BY <1>1, Invariance, PTL DEF Spec, VerdictIsFinal

\* A queue that returns 0 leaves a receipt in which every target completed, and
\* one that returns anything else a receipt that says failed: the list of
\* codes in memory and the receipt on disk tell one story across restarts.
THEOREM ReturnHolds == Spec => []ReturnMatchesReceipt
<1>1. Init => ReturnInv
  BY InitReturn
<1>2. IInv /\ ReturnInv /\ [Next]_vars => ReturnInv'
  BY StepReturn
<1>3. IInv /\ ReturnInv => ReturnMatchesReceipt
  <2>1. SUFFICES ASSUME IInv, ReturnInv, pc = "returned"
                 PROVE  /\ disk.status = IF FirstNonzero(results) = 0
                                         THEN "completed" ELSE "failed"
                        /\ disk.status = "completed" <=>
                              \A i \in Targets : disk.items[i].status = "completed"
    BY DEF ReturnMatchesReceipt
  <2>2. /\ disk = mem /\ disk \in Receipt /\ Good(disk) /\ Coded(disk)
        /\ disk.next = NTargets + 1 /\ results = EarlierResults(disk)
        /\ results \in Seq(ExitCodes)
    BY <2>1 DEF IInv, TypeOK, InStep, ReturnInv, ResultsOK
  <2>3. \A i \in Targets : disk.items[i].status \in Settled
    BY <2>2 DEF Good, Ordered, Targets
  <2>4. disk.status = IF \E i \in Targets : disk.items[i].status # "completed"
                      THEN "failed" ELSE "completed"
    BY <2>2 DEF Coded, StatusOK
  <2>5. \A i \in Targets : /\ disk.items[i].exit \in ExitCodes
                           /\ disk.items[i].status = "completed" <=> disk.items[i].exit = 0
    BY <2>2, <2>3 DEF Coded, CodesOK
  <2>6. results = [k \in 1 .. NTargets |->
                     IF disk.items[k].exit = NoCode THEN 0 ELSE disk.items[k].exit]
    BY <2>2 DEF EarlierResults
  <2>7. Len(results) = NTargets
    BY <2>2, <2>6
  <2>8. \A k \in Targets : results[k] = disk.items[k].exit
    BY <2>5, <2>6 DEF Targets, ExitCodes, NoCode
  <2>9. FirstNonzero(results) = 0 <=> \A k \in Targets : results[k] = 0
    BY <2>2, <2>7, FirstNonzeroOK DEF Targets
  <2> QED
    BY <2>4, <2>5, <2>8, <2>9
<1> QED
  BY <1>1, <1>2, <1>3, Invariance, PTL DEF Spec

\* Memory is never beside the receipt, and every step of the process is one of
\* the four kinds of step of the receipt.
LEMMA AheadHolds == Spec => []Ahead /\ [][DiskStep]_vars
<1>1. Init => Ahead
  BY DEF Init, Ahead
<1>2. IInv /\ Ahead /\ [Next]_vars => Ahead' /\ DiskStep
  BY StepDisk
<1> QED
  BY <1>1, <1>2, Invariance, PTL DEF Spec

\* Whatever fails and however often the process dies, a completed pass stays in
\* the receipt as it was recorded, and the passes of a target disappear only
\* into a closed attempt that holds all of them.
THEOREM EvidenceHolds == Spec => EvidenceIsNeverLost
<1>1. IInv /\ DiskStep =>
        \A i \in Targets : EvidenceKept(disk.items[i], disk'.items[i])
  BY DiskStepKeeps
<1> QED
  BY <1>1, Invariance, AheadHolds, PTL DEF Spec, EvidenceIsNeverLost

\* The receipt on disk implements the abstract queue: one target works at a
\* time, in order, and a verdict is final; saves that fail and calls of the
\* worker are stuttering steps of it.
THEOREM Refinement == Spec => ImplementsQueue
<1>1. Init => Queue!Init
  <2>1. SUFFICES ASSUME Init PROVE Outcomes = [i \in Targets |-> "waiting"]
    BY DEF Queue!Init, Outcomes, Targets
  <2>2. \A i \in Targets : disk.items[i].status = "queued"
    BY <2>1 DEF Init, FreshReceipt, QueuedItem
  <2> QED
    BY <2>2 DEF Outcomes, OutcomeOf
<1>2. IInv /\ IInv' /\ [DiskStep]_vars => [Queue!Next]_Outcomes
  <2>1. UNCHANGED vars => DiskStep
    BY DEF vars, DiskStep
  <2> QED
    BY <2>1, DiskStepRefines
<1>3. IInv /\ IInv' /\ [DiskStep]_vars
        => [Queue!Next]_([i \in Targets |-> OutcomeOf(disk.items[i])])
  BY <1>2 DEF Outcomes
<1> QED
  BY <1>1, <1>3, Invariance, AheadHolds, PTL DEF Spec, ImplementsQueue, Queue!Spec
=============================================================================
