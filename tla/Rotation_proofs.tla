--------------------------- MODULE Rotation_proofs ---------------------------
(***************************************************************************)
(* Proofs about Rotation, for every finite set of workers and pools, any   *)
(* routes, families and cooldowns.                                         *)
(*                                                                         *)
(* The argument: until a lock file is taken from its holder, the worker    *)
(* that has read the state is the one that holds the lock, so what it read *)
(* is what it replaces (LockInv).  The stamps of the pools and the clock   *)
(* readings of the transactions under way are then all different, because  *)
(* a reading is used for one stamp only (StampInv).  A call excludes every *)
(* family it knew as an author, and no selection leaves what is excluded   *)
(* (CallInv).                                                              *)
(***************************************************************************)
EXTENDS Rotation, FiniteSetTheorems, TLAPS

(***************************************************************************)
(* The inductive invariant                                                 *)
(***************************************************************************)

Transacting == {"lock", "break", "write"}
Purposes == {"select", "ok"} \cup Coolable

\* The types of the store, the file and the transactions.
TxTypes ==
    /\ used \in [Pools -> Nat] /\ cool \subseteq Coolable /\ lock \in {"free", "dead"} \cup Workers
    /\ old \in BOOLEAN /\ broken \in BOOLEAN
    /\ latest \in Pools \cup {None}
    /\ pc \in [Workers -> Labels] /\ now \in [Workers -> Nat]
    /\ op \in [Workers -> {None} \cup Purposes] /\ seen \in [Workers -> FileState]
    /\ \A w \in Workers : op[w] # None <=> pc[w] \in Transacting

\* Who has read the state holds the lock, and the state is still what it read.
LockInv ==
    ~broken => \A w \in Workers : pc[w] = "write" =>
                  lock = w /\ seen[w].used = used /\ seen[w].cool = cool

\* No two pools have the same stamp and no two transactions the same time, and no
\* transaction has the time of a stamp; the latest selection left one.
StampInv ==
    ~broken =>
        /\ \A p \in Pools, q \in Pools : used[p] = used[q] /\ p # q => used[p] = 0
        /\ \A w \in Workers : now[w] # 0 =>
              /\ \A p \in Pools : used[p] # now[w]
              /\ \A v \in Workers : now[v] = now[w] => v = w
        /\ \A w \in Workers : op[w] \in {"select", "ok"} => now[w] # 0
        /\ latest # None => used[latest] # 0

CallRecords == [role : {"none", "author", "reviewer"}, authors : SUBSET Families,
                avoid : SUBSET Families, refused : SUBSET Families, left : Nat, cap : Nat]

\* A call c with the route r, at the label l with a transaction for o.
CallOK(c, r, l, o) ==
    /\ c.left <= c.cap /\ c.cap <= Cardinality(Routes)
    /\ c.authors \subseteq c.avoid
    /\ r # None => FamilyOf[r] \notin c.avoid
    /\ l \in {"call", "authored", "certified"} \/ o = "ok" => r # None

CallInv ==
    /\ families \subseteq Families
    /\ ladder \in [Workers -> CallRecords]
    /\ route \in [Workers -> Routes \cup {None}]
    /\ \A w \in Workers : CallOK(ladder[w], route[w], pc[w], op[w])

TxInv == TxTypes /\ LockInv /\ StampInv

IInv == TxInv /\ CallInv

(***************************************************************************)
(* Ranks                                                                   *)
(***************************************************************************)

\* A function has finitely many values on a finite set.
LEMMA ImageIsFinite ==
  ASSUME NEW S, IsFiniteSet(S), NEW f
  PROVE  /\ IsFiniteSet({f[x] : x \in S})
         /\ Cardinality({f[x] : x \in S}) <= Cardinality(S)
<1> DEFINE T == {f[x] : x \in S}
           g == [x \in S |-> f[x]]
<1>1. g \in Surjection(S, T)
  BY DEF Surjection
<1> QED
  BY <1>1, FS_Surjection

\* The stamps and readings in use are finitely many natural numbers, 0 among them.
LEMMA TimesFinite ==
  ASSUME TxTypes
  PROVE  /\ IsFiniteSet(Times) /\ Times \subseteq Nat /\ 0 \in Times
         /\ \A p \in Pools : used[p] \in Times
         /\ \A w \in Workers : now[w] \in Times /\ \A p \in Pools : seen[w].used[p] \in Times
<1> DEFINE A == {used[p] : p \in Pools}
           B == {now[w] : w \in Workers}
           f == [x \in Workers \X Pools |-> seen[x[1]].used[x[2]]]
           C == {f[x] : x \in Workers \X Pools}
           D == {seen[w].used[p] : w \in Workers, p \in Pools}
<1>1. IsFiniteSet(A) /\ IsFiniteSet(B)
  BY ImageIsFinite, RotationAssumption
<1>2. IsFiniteSet(C)
  <2>1. IsFiniteSet(Workers \X Pools)
    BY FS_Product, RotationAssumption
  <2> HIDE DEF f
  <2> QED
    BY <2>1, ImageIsFinite
<1>3. C = D
  <2>1. ASSUME NEW w \in Workers, NEW p \in Pools
        PROVE  seen[w].used[p] \in C
    <3>1. <<w, p>> \in Workers \X Pools /\ f[<<w, p>>] = seen[w].used[p]
      OBVIOUS
    <3> QED
      BY <3>1
  <2>2. ASSUME NEW x \in Workers \X Pools
        PROVE  f[x] \in D
    BY <2>2
  <2> QED
    BY <2>1, <2>2
<1>4. IsFiniteSet({0})
  BY FS_Singleton
<1>5. Times = (({0} \cup A) \cup B) \cup D
  BY DEF Times
<1>6. IsFiniteSet(Times)
  <2>1. IsFiniteSet({0} \cup A)
    BY <1>1, <1>4, FS_Union
  <2>2. IsFiniteSet(({0} \cup A) \cup B)
    BY <1>1, <2>1, FS_Union
  <2> HIDE DEF A, B, C, D
  <2>3. IsFiniteSet(D)
    BY <1>2, <1>3
  <2>4. IsFiniteSet((({0} \cup A) \cup B) \cup D)
    BY <2>2, <2>3, FS_Union
  <2> QED
    BY <1>5, <2>4
<1>7. \A w \in Workers, p \in Pools : seen[w].used[p] \in Nat
  BY DEF TxTypes, FileState
<1>8. Times \subseteq Nat
  BY <1>5, <1>7 DEF TxTypes
<1> QED
  BY <1>5, <1>6, <1>8

\* A rank is below the number of times, and ranks are in the order of the times.
LEMMA RankOrder ==
  ASSUME TxTypes, NEW x \in Times, NEW y \in Times
  PROVE  /\ Rank(x) \in Nat /\ Cardinality(Times) \in Nat /\ Cardinality(Times) # 0
         /\ Rank(x) < Cardinality(Times)
         /\ x < y => Rank(x) < Rank(y)
         /\ Rank(x) = Rank(y) => x = y
         /\ x # 0 => Rank(x) # 0
         /\ Rank(0) = 0
<1> DEFINE Below(a) == {z \in Times : z < a}
<1>1. IsFiniteSet(Times) /\ Times \subseteq Nat /\ 0 \in Times
  BY TimesFinite
<1>2. \A a : Rank(a) = Cardinality(Below(a))
  BY DEF Rank
<1>3. ASSUME NEW a \in Times
      PROVE  Rank(a) \in Nat /\ Rank(a) < Cardinality(Times)
  <2>1. IsFiniteSet(Below(a)) /\ Cardinality(Below(a)) <= Cardinality(Times)
        /\ (Cardinality(Times) = Cardinality(Below(a)) => Times = Below(a))
    BY <1>1, FS_Subset
  <2>2. a \notin Below(a)
    BY <1>1
  <2>3. Cardinality(Times) # Cardinality(Below(a))
    BY <2>1, <2>2
  <2>4. Cardinality(Below(a)) \in Nat /\ Cardinality(Times) \in Nat
    BY <1>1, <2>1, FS_CardinalityType
  <2> QED
    BY <1>2, <2>1, <2>3, <2>4
<1>4. ASSUME NEW a \in Times, NEW b \in Times, a < b
      PROVE  Rank(a) < Rank(b)
  <2>0. a \in Nat /\ b \in Nat /\ ~(a < a)
    BY <1>1
  <2>1. Below(a) \subseteq Below(b) /\ a \in Below(b) /\ a \notin Below(a)
    <3>1. ASSUME NEW z \in Below(a)
          PROVE  z \in Below(b)
      <4>1. z \in Nat /\ z \in Times /\ z < a
        BY <1>1
      <4> QED
        BY <1>4, <2>0, <4>1
    <3> QED
      BY <1>4, <2>0, <3>1
  <2>2. IsFiniteSet(Below(a)) /\ IsFiniteSet(Below(b))
    BY <1>1, FS_Subset
  <2>3. Cardinality(Below(a)) <= Cardinality(Below(b))
        /\ (Cardinality(Below(b)) = Cardinality(Below(a)) => Below(b) = Below(a))
    BY <2>1, <2>2, FS_Subset
  <2>4. Cardinality(Below(a)) \in Nat /\ Cardinality(Below(b)) \in Nat
    BY <2>2, FS_CardinalityType
  <2>5. Cardinality(Below(a)) # Cardinality(Below(b))
    BY <2>1, <2>3
  <2> QED
    BY <1>2, <2>3, <2>4, <2>5
<1>5. Rank(0) = 0
  <2>1. \A z \in Nat : ~(z < 0)
    OBVIOUS
  <2>2. Below(0) = {}
    BY <1>1, <2>1
  <2> QED
    BY <1>2, <2>2, FS_EmptySet
<1>6. Cardinality(Times) \in Nat
  BY <1>1, FS_CardinalityType
<1>7. x \in Nat /\ y \in Nat
  BY <1>1
<1>8. Rank(x) \in Nat /\ Rank(y) \in Nat
  BY <1>3
<1>9. Rank(x) = Rank(y) => x = y
  <2>1. CASE x < y
    BY <1>4, <1>8, <2>1
  <2>2. CASE y < x
    BY <1>4, <1>8, <2>2
  <2> QED
    BY <1>7, <2>1, <2>2
<1>10. x # 0 => Rank(x) # 0
  BY <1>1, <1>4, <1>5, <1>7, <1>8
<1> QED
  BY <1>3, <1>4, <1>5, <1>6, <1>9, <1>10

(***************************************************************************)
(* Transactions                                                            *)
(***************************************************************************)

\* The tags and None name no route, pool or worker.
LEMMA Tags ==
  /\ "select" \notin Coolable /\ "ok" \notin Coolable /\ None \notin Coolable
  /\ None \notin Purposes /\ None \notin Routes /\ None \notin Pools
  /\ "free" \notin Workers /\ "dead" \notin Workers
BY RotationAssumption, TagsAssumption DEF Purposes

\* A transaction that begins keeps the order of the stamps and of the readings, and
\* its own reading comes after all of them.
LEMMA BeginKeepsTx ==
  ASSUME TxInv, NEW w \in Workers, NEW STATE what, what \in Purposes, Begin(w, what)
  PROVE  TxInv'
<1> USE DEF TxInv
<1> DEFINE top == Cardinality(Times)
<1>1. /\ \A p \in Pools : used[p] \in Times /\ used[p] \in Nat
      /\ \A v \in Workers : now[v] \in Times /\ now[v] \in Nat
      /\ \A v \in Workers, p \in Pools : seen[v].used[p] \in Times
      /\ 0 \in Times
  BY TimesFinite DEF TxTypes
<1>2. /\ top \in Nat /\ top # 0 /\ Rank(0) = 0
      /\ \A x \in Times : /\ Rank(x) \in Nat /\ Rank(x) # top
                          /\ x # 0 => Rank(x) # 0
                          /\ \A y \in Times : Rank(x) = Rank(y) => x = y
  <2>1. ASSUME NEW x \in Times, NEW y \in Times
        PROVE  /\ Rank(x) \in Nat /\ Rank(x) # top /\ top \in Nat /\ top # 0 /\ Rank(0) = 0
               /\ x # 0 => Rank(x) # 0
               /\ Rank(x) = Rank(y) => x = y
    BY <2>1, RankOrder
  <2> QED
    BY <1>1, <2>1
<1>3. /\ \A p \in Pools : used'[p] = Rank(used[p])
      /\ used' \in [Pools -> Nat]
  BY <1>1, <1>2 DEF Begin, Ranks, TxTypes
<1>4. /\ now' \in [Workers -> Nat]
      /\ \A v \in Workers \ {w} : now'[v] = Rank(now[v])
      /\ now'[w] = IF what \in Coolable THEN 0 ELSE top
  BY <1>1, <1>2 DEF Begin, Ranks, TxTypes
<1>5. /\ seen' \in [Workers -> FileState]
      /\ \A v \in Workers : seen'[v].used = Ranks(seen[v].used) /\ seen'[v].cool = seen[v].cool
  <2>1. ASSUME NEW v \in Workers
        PROVE  /\ Ranks(seen[v].used) \in [Pools -> Nat]
               /\ [seen[v] EXCEPT !.used = Ranks(seen[v].used)] \in FileState
    <3>1. seen[v] \in FileState
      BY DEF TxTypes
    <3>2. Ranks(seen[v].used) \in [Pools -> Nat]
      BY <1>1, <1>2, <3>1 DEF Ranks, FileState
    <3> QED
      BY <3>1, <3>2 DEF FileState
  <2>2. seen' = [v \in Workers |-> [seen[v] EXCEPT !.used = Ranks(seen[v].used)]]
    BY DEF Begin
  <2>3. seen \in [Workers -> FileState]
    BY DEF TxTypes
  <2> QED
    BY <2>1, <2>2, <2>3 DEF FileState
<1>6. /\ pc' = [pc EXCEPT ![w] = "lock"] /\ op' = [op EXCEPT ![w] = what]
      /\ UNCHANGED <<cool, lock, old, broken, latest>>
  BY DEF Begin, Goto, file
<1>7. TxTypes'
  BY <1>3, <1>4, <1>5, <1>6, Tags DEF TxTypes, Labels, Transacting
<1>8. LockInv'
  <2> SUFFICES ASSUME ~broken, NEW v \in Workers, pc'[v] = "write"
               PROVE  lock' = v /\ seen'[v].used = used' /\ seen'[v].cool = cool'
    BY <1>6 DEF LockInv
  <2>1. v # w /\ pc[v] = "write"
    BY <1>6 DEF TxTypes
  <2>2. lock = v /\ seen[v].used = used /\ seen[v].cool = cool
    BY <2>1 DEF LockInv
  <2>3. used' = Ranks(used)
    BY DEF Begin
  <2> QED
    BY <1>5, <1>6, <2>2, <2>3
<1>9. StampInv'
  <2> SUFFICES ASSUME ~broken
               PROVE  /\ \A p \in Pools, q \in Pools : used'[p] = used'[q] /\ p # q => used'[p] = 0
                      /\ \A v \in Workers : now'[v] # 0 =>
                            /\ \A p \in Pools : used'[p] # now'[v]
                            /\ \A u \in Workers : now'[u] = now'[v] => u = v
                      /\ \A v \in Workers : op'[v] \in {"select", "ok"} => now'[v] # 0
                      /\ latest' # None => used'[latest'] # 0
    BY <1>6 DEF StampInv
  <2>1. /\ \A p \in Pools, q \in Pools : used[p] = used[q] /\ p # q => used[p] = 0
        /\ \A v \in Workers : now[v] # 0 =>
              /\ \A p \in Pools : used[p] # now[v]
              /\ \A u \in Workers : now[u] = now[v] => u = v
        /\ \A v \in Workers : op[v] \in {"select", "ok"} => now[v] # 0
        /\ latest # None => used[latest] # 0
    BY DEF StampInv
  <2>2. \A p \in Pools, q \in Pools : used'[p] = used'[q] /\ p # q => used'[p] = 0
    BY <1>1, <1>2, <1>3, <2>1
  <2>3. ASSUME NEW v \in Workers, now'[v] # 0
        PROVE  /\ \A p \in Pools : used'[p] # now'[v]
               /\ \A u \in Workers : now'[u] = now'[v] => u = v
    <3>1. CASE v = w
      BY <1>1, <1>2, <1>3, <1>4, <2>3, <3>1
    <3>2. CASE v # w
      <4>1. now'[v] = Rank(now[v]) /\ now[v] # 0
        BY <1>2, <1>4, <2>3, <3>2
      <4> QED
        BY <1>1, <1>2, <1>3, <1>4, <2>1, <3>2, <4>1
    <3> QED
      BY <3>1, <3>2
  <2>4. ASSUME NEW v \in Workers, op'[v] \in {"select", "ok"}
        PROVE  now'[v] # 0
    <3>1. CASE v = w
      <4>1. what \notin Coolable
        BY <1>6, <2>4, <3>1, Tags DEF TxTypes
      <4> QED
        BY <1>2, <1>4, <3>1, <4>1
    <3>2. CASE v # w
      <4>1. now[v] # 0
        BY <1>6, <2>1, <2>4, <3>2 DEF TxTypes
      <4> QED
        BY <1>1, <1>2, <1>4, <3>2, <4>1
    <3> QED
      BY <3>1, <3>2
  <2>5. latest' # None => used'[latest'] # 0
    BY <1>1, <1>2, <1>3, <1>6, <2>1 DEF TxTypes
  <2> QED
    BY <2>2, <2>3, <2>4, <2>5
<1> QED
  BY <1>7, <1>8, <1>9

\* The labels between which a worker moves when it has no transaction.
Moves(w) == \E l \in Labels \ Transacting : Goto(w, l)

\* Moving on without a transaction touches nothing of them.
LEMMA QuietKeepsTx ==
  ASSUME TxInv, NEW w \in Workers, pc[w] \notin Transacting, Moves(w), NoTransaction
  PROVE  TxInv'
<1>1. PICK l \in Labels \ Transacting : pc' = [pc EXCEPT ![w] = l]
  BY DEF Moves, Goto
<1>2. UNCHANGED <<used, cool, lock, old, broken, latest, now, op, seen>>
  BY DEF NoTransaction, store, file, tx
<1>3. TxTypes'
  BY <1>1, <1>2 DEF TxInv, TxTypes
<1>4. LockInv'
  BY <1>1, <1>2 DEF TxInv, LockInv, TxTypes, Transacting
<1>5. StampInv'
  BY <1>2 DEF TxInv, StampInv
<1> QED
  BY <1>3, <1>4, <1>5 DEF TxInv

\* Nor does a transaction that ends without a word in the file.
LEMMA TimeOutKeepsTx ==
  ASSUME TxInv, NEW w \in Workers, pc[w] # "write", Moves(w), EndTransaction(w),
         UNCHANGED <<store, file, latest>>
  PROVE  TxInv'
<1>1. PICK l \in Labels \ Transacting : pc' = [pc EXCEPT ![w] = l]
  BY DEF Moves, Goto
<1>2. /\ UNCHANGED <<used, cool, lock, old, broken, latest>>
      /\ op' = [op EXCEPT ![w] = None] /\ now' = [now EXCEPT ![w] = 0]
      /\ seen' = [seen EXCEPT ![w] = NoState]
  BY DEF EndTransaction, store, file
<1>3. NoState \in FileState
  BY DEF NoState, FileState
<1>4. TxTypes'
  BY <1>1, <1>2, <1>3 DEF TxInv, TxTypes
<1>5. LockInv'
  BY <1>1, <1>2 DEF TxInv, LockInv, TxTypes, Transacting
<1>6. StampInv'
  <2>1. /\ \A v \in Workers \ {w} : now'[v] = now[v] /\ op'[v] = op[v]
        /\ now'[w] = 0 /\ op'[w] = None
    BY <1>2 DEF TxInv, TxTypes
  <2> QED
    BY <1>2, <2>1, TagsAssumption DEF TxInv, StampInv
<1> QED
  BY <1>4, <1>5, <1>6 DEF TxInv

\* What a transaction writes: the state it read, with a stamp of its own time or without.
LEMMA WriteKeepsTx ==
  ASSUME TxInv, NEW w \in Workers, pc[w] = "write", Moves(w), EndTransaction(w),
         lock' = "free", old' = FALSE, UNCHANGED broken, cool' \subseteq Coolable,
         \/ used' = seen[w].used /\ latest' = latest
         \/ /\ op[w] \in {"select", "ok"}
            /\ \E p \in Pools : /\ used' = [seen[w].used EXCEPT ![p] = now[w]]
                                /\ latest' \in {latest, p}
  PROVE  TxInv'
<1>1. PICK l \in Labels \ Transacting : pc' = [pc EXCEPT ![w] = l]
  BY DEF Moves, Goto
<1>2. /\ op' = [op EXCEPT ![w] = None] /\ now' = [now EXCEPT ![w] = 0]
      /\ seen' = [seen EXCEPT ![w] = NoState]
  BY DEF EndTransaction
<1>3. NoState \in FileState
  BY DEF NoState, FileState
<1>4. used' \in [Pools -> Nat] /\ latest' \in Pools \cup {None}
  <2>1. seen[w].used \in [Pools -> Nat] /\ now[w] \in Nat /\ latest \in Pools \cup {None}
    BY DEF TxInv, TxTypes, FileState
  <2> QED
    BY <2>1
<1>5. TxTypes'
  BY <1>1, <1>2, <1>3, <1>4 DEF TxInv, TxTypes
<1>6. LockInv'
  <2> SUFFICES ASSUME ~broken, NEW v \in Workers, pc'[v] = "write"
               PROVE  FALSE
    BY DEF LockInv
  <2>1. v # w /\ pc[v] = "write"
    BY <1>1 DEF TxInv, TxTypes, Transacting
  <2> QED
    BY <2>1 DEF TxInv, LockInv
<1>7. StampInv'
  <2> SUFFICES ASSUME ~broken
               PROVE  StampInv'
    BY DEF StampInv
  <2>1. seen[w].used = used
    BY DEF TxInv, LockInv
  <2>2. /\ \A v \in Workers \ {w} : now'[v] = now[v] /\ op'[v] = op[v]
        /\ now'[w] = 0 /\ op'[w] = None
    BY <1>2 DEF TxInv, TxTypes
  <2>3. CASE used' = used /\ latest' = latest
    BY <2>2, <2>3, TagsAssumption DEF TxInv, StampInv
  <2>4. ASSUME NEW p \in Pools, op[w] \in {"select", "ok"},
               used' = [used EXCEPT ![p] = now[w]], latest' \in {latest, p}
        PROVE  StampInv'
    <3>1. now[w] # 0
      BY <2>4 DEF TxInv, StampInv
    <3>2. used'[p] = now[w] /\ \A q \in Pools \ {p} : used'[q] = used[q]
      BY <2>4 DEF TxInv, TxTypes
    <3>3. /\ \A q \in Pools : used[q] # now[w]
          /\ \A v \in Workers : now[v] = now[w] => v = w
      BY <3>1 DEF TxInv, StampInv
    <3>4. latest' # None => used'[latest'] # 0
      BY <2>4, <3>1, <3>2 DEF TxInv, StampInv, TxTypes
    <3>5. \A q \in Pools, r \in Pools : used'[q] = used'[r] /\ q # r => used'[q] = 0
      BY <3>2, <3>3 DEF TxInv, StampInv
    <3>6. \A v \in Workers : now'[v] # 0 =>
             /\ \A q \in Pools : used'[q] # now'[v]
             /\ \A u \in Workers : now'[u] = now'[v] => u = v
      BY <2>2, <3>2, <3>3 DEF TxInv, StampInv
    <3>7. \A v \in Workers : op'[v] \in {"select", "ok"} => now'[v] # 0
      BY <2>2, TagsAssumption DEF TxInv, StampInv
    <3> QED
      BY <3>4, <3>5, <3>6, <3>7 DEF StampInv
  <2> QED
    BY <2>1, <2>3, <2>4
<1> QED
  BY <1>5, <1>6, <1>7 DEF TxInv

(***************************************************************************)
(* Calls                                                                   *)
(***************************************************************************)

\* A call has an attempt, and at most one for each route.
LEMMA CallBegins ==
  ASSUME NEW role \in {"none", "author", "reviewer"}, NEW STATE authors, authors \in SUBSET Families,
         NEW STATE avoid, avoid \in SUBSET Families
  PROVE  LET c == Attempt(Call(role, authors, avoid))
         IN  /\ c \in CallRecords /\ c.authors = authors /\ c.avoid = avoid
             /\ c.left <= c.cap /\ c.cap <= Cardinality(Routes)
<1> DEFINE pools == {PoolOf[r] : r \in Routes}
           n == Cardinality(pools)
           m == Cardinality(Routes)
<1>1. IsFiniteSet(pools) /\ n <= m
  BY ImageIsFinite, RotationAssumption
<1>2. n \in Nat /\ m \in Nat
  BY <1>1, FS_CardinalityType, RotationAssumption
<1>3. n # 0
  <2>1. pools # {}
    BY RotationAssumption
  <2> QED
    BY <1>1, <2>1, FS_EmptySet
<1>4. Call(role, authors, avoid) = [role |-> role, authors |-> authors, avoid |-> avoid,
                                    refused |-> {}, left |-> n, cap |-> m]
  BY DEF Call
<1> HIDE DEF n, m
<1>5. /\ Call(role, authors, avoid) \in [role : {"none", "author", "reviewer"},
               authors : SUBSET Families, avoid : SUBSET Families, refused : SUBSET Families,
               left : {n}, cap : {m}]
      /\ Call(role, authors, avoid).authors = authors /\ Call(role, authors, avoid).avoid = avoid
  BY <1>4
<1>6. n - 1 \in Nat /\ m - 1 \in Nat /\ n - 1 <= m - 1 /\ m - 1 <= m
  BY <1>1, <1>2, <1>3 DEF n, m
<1> DEFINE c == Call(role, authors, avoid)
<1>7. c.left = n /\ c.cap = m
  BY <1>5
<1> HIDE DEF c
<1>8. Attempt(c) \in CallRecords /\ Attempt(c).authors = c.authors /\ Attempt(c).avoid = c.avoid
      /\ Attempt(c).left = n - 1 /\ Attempt(c).cap = m - 1
  BY <1>5, <1>6, <1>7 DEF Attempt, CallRecords, c
<1> QED
  BY <1>5, <1>6, <1>8 DEF c, m

\* No call: nothing is excluded.
LEMMA NoCallFacts ==
  /\ NoCall \in CallRecords /\ NoCall.left = 0 /\ NoCall.cap = 0
  /\ NoCall.authors = {} /\ NoCall.avoid = {} /\ Cardinality(Routes) \in Nat
<1> DEFINE m == Cardinality({PoolOf[r] : r \in Routes})
           k == Cardinality(Routes)
<1>1. Call("none", {}, {}) = [role |-> "none", authors |-> {}, avoid |-> {}, refused |-> {},
                               left |-> m, cap |-> k]
  BY DEF Call
<1> HIDE DEF m, k
<1>2. NoCall \in CallRecords /\ NoCall.left = 0 /\ NoCall.cap = 0 /\ NoCall.authors = {}
      /\ NoCall.avoid = {}
  <2> DEFINE c == Call("none", {}, {})
  <2>1. c \in [role : {"none"}, authors : {{}}, avoid : {{}}, refused : {{}}, left : {m}, cap : {k}]
    BY <1>1
  <2> HIDE DEF c
  <2>2. LET d == [c EXCEPT !.left = 0, !.cap = 0]
        IN  d \in CallRecords /\ d.left = 0 /\ d.cap = 0 /\ d.authors = {} /\ d.avoid = {}
    BY <2>1 DEF CallRecords
  <2> QED
    BY <2>2 DEF NoCall, c
<1>3. Cardinality(Routes) \in Nat
  BY FS_CardinalityType, RotationAssumption
<1> QED
  BY <1>2, <1>3

\* A worker at a step of its own changes its own call only.
LEMMA CallFrame ==
  ASSUME TxTypes, CallInv, NEW w \in Workers, families' \in SUBSET Families,
         NEW STATE c, c \in CallRecords, NEW STATE r, r \in Routes \cup {None},
         NEW STATE l, NEW STATE o,
         ladder' = [ladder EXCEPT ![w] = c], route' = [route EXCEPT ![w] = r],
         pc' = [pc EXCEPT ![w] = l], op' = [op EXCEPT ![w] = o], CallOK(c, r, l, o)
  PROVE  CallInv'
<1>1. /\ ladder' \in [Workers -> CallRecords]
      /\ route' \in [Workers -> Routes \cup {None}]
  BY DEF CallInv
<1>2. CallOK(ladder'[w], route'[w], pc'[w], op'[w])
  BY DEF CallInv, TxTypes
<1>3. ASSUME NEW v \in Workers, v # w
      PROVE  CallOK(ladder'[v], route'[v], pc'[v], op'[v])
  <2>1. ladder'[v] = ladder[v] /\ route'[v] = route[v] /\ pc'[v] = pc[v] /\ op'[v] = op[v]
    BY <1>3 DEF CallInv, TxTypes
  <2> QED
    BY <2>1 DEF CallInv
<1> QED
  BY <1>1, <1>2, <1>3 DEF CallInv

\* Functions that stay are functions with one argument the same.
LEMMA Same ==
  ASSUME TxTypes, CallInv, NEW w \in Workers
  PROVE  /\ ladder = [ladder EXCEPT ![w] = ladder[w]]
         /\ route = [route EXCEPT ![w] = route[w]]
         /\ op = [op EXCEPT ![w] = op[w]]
         /\ op[w] = None => op = [op EXCEPT ![w] = None]
         /\ ladder[w] \in CallRecords /\ route[w] \in Routes \cup {None}
         /\ CallOK(ladder[w], route[w], pc[w], op[w])
BY DEF CallInv, TxTypes

\* A call that ends leaves nothing behind.
LEMMA EndCallOK ==
  ASSUME TxTypes, CallInv, NEW w \in Workers, EndCall(w), op' = [op EXCEPT ![w] = None]
  PROVE  CallInv' /\ Moves(w)
<1>1. Moves(w)
  BY DEF EndCall, Moves, Labels, Transacting
<1>2. CallOK(NoCall, None, "idle", None)
  BY NoCallFacts, TagsAssumption DEF CallOK
<1>3. families' \in SUBSET Families
  BY DEF EndCall, CallInv
<1>4. CallInv'
  BY <1>2, <1>3, NoCallFacts, CallFrame DEF EndCall, Goto
<1> QED
  BY <1>1, <1>4

\* An extension stays below the number of routes not tried.
LEMMA ExtendedFacts ==
  ASSUME NEW STATE c, c \in CallRecords, c.left <= c.cap
  PROVE  /\ Extended(c) \in Nat /\ Extended(c) <= c.cap
         /\ [c EXCEPT !.left = Extended(c)] \in CallRecords
         /\ [c EXCEPT !.left = Extended(c)].left = Extended(c)
<1>1. c.left \in Nat /\ c.cap \in Nat
  BY DEF CallRecords
<1>2. Extended(c) \in Nat /\ Extended(c) <= c.cap
  BY <1>1 DEF Extended
<1> QED
  BY <1>2 DEF CallRecords

\* What a selection may return is a route whose family is not excluded, or none.
LEMMA PickFacts ==
  ASSUME NEW w \in Workers, NEW STATE state, NEW STATE r, r \in Pick(w, state)
  PROVE  /\ r \in Routes \cup {None}
         /\ r # None => FamilyOf[r] \notin ladder[w].avoid
<1>1. PICK inForce \in SUBSET state.cool : r \in PickAmong(Usable(w, inForce), state.used)
  BY DEF Pick
<1>2. CASE Usable(w, inForce) = {}
  BY <1>1, <1>2 DEF PickAmong
<1>3. CASE Usable(w, inForce) # {}
  <2>1. r \in Usable(w, inForce)
    BY <1>1, <1>3 DEF PickAmong
  <2> QED
    BY <2>1 DEF Usable
<1> QED
  BY <1>2, <1>3

\* The ends of a transaction: after a selection, a success and a failure.
LEMMA SelectedOK ==
  ASSUME TxTypes, CallInv, NEW w \in Workers, NEW STATE state, NEW STATE r, r \in Pick(w, state),
         Selected(w, r), op' = [op EXCEPT ![w] = None]
  PROVE  CallInv' /\ Moves(w)
<1> DEFINE c == ladder[w]
           d == [c EXCEPT !.left = Extended(c)]
<1>0. /\ c \in CallRecords /\ CallOK(c, route[w], pc[w], op[w])
      /\ ladder = [ladder EXCEPT ![w] = c]
  BY Same
<1>1. r \in Routes \cup {None} /\ (r # None => FamilyOf[r] \notin c.avoid)
  BY PickFacts
<1>2. CASE r = None /\ EndCall(w)
  BY <1>2, EndCallOK
<1>3. CASE /\ r # None /\ FamilyOf[r] \in ladder[w].refused /\ Goto(w, "next")
           /\ ladder' = [ladder EXCEPT ![w].left = Extended(ladder[w])]
           /\ route' = [route EXCEPT ![w] = None] /\ UNCHANGED families
  <2>1. d \in CallRecords /\ d.left <= d.cap /\ d.cap = c.cap /\ d.authors = c.authors
        /\ d.avoid = c.avoid
    BY <1>0, ExtendedFacts DEF CallOK, CallRecords
  <2>2. CallOK(d, None, "next", None)
    BY <1>0, <2>1, TagsAssumption DEF CallOK
  <2>3. ladder' = [ladder EXCEPT ![w] = d]
    BY <1>3, <1>0 DEF CallInv
  <2>4. families' \in SUBSET Families
    BY <1>3 DEF CallInv
  <2> HIDE DEF d, c
  <2>5. CallInv'
    BY <1>3, <2>1, <2>2, <2>3, <2>4, CallFrame DEF Goto
  <2>6. Moves(w)
    BY <1>3 DEF Moves, Labels, Transacting
  <2> QED
    BY <2>5, <2>6
<1>4. CASE /\ r # None /\ FamilyOf[r] \notin ladder[w].refused /\ Goto(w, "call")
           /\ route' = [route EXCEPT ![w] = r] /\ UNCHANGED <<ladder, families>>
  <2>1. CallOK(c, r, "call", None)
    BY <1>0, <1>1, <1>4 DEF CallOK
  <2>2. ladder' = [ladder EXCEPT ![w] = c]
    BY <1>4, <1>0
  <2>3. families' \in SUBSET Families
    BY <1>4 DEF CallInv
  <2> HIDE DEF c
  <2>4. CallInv'
    BY <1>0, <1>1, <1>4, <2>1, <2>2, <2>3, CallFrame DEF Goto
  <2>5. Moves(w)
    BY <1>4 DEF Moves, Labels, Transacting
  <2> QED
    BY <2>4, <2>5
<1> QED
  BY <1>2, <1>3, <1>4 DEF Selected

LEMMA AnsweredOK ==
  ASSUME TxTypes, CallInv, NEW w \in Workers, route[w] # None, Answered(w),
         op' = [op EXCEPT ![w] = None]
  PROVE  CallInv' /\ Moves(w)
<1> DEFINE c == ladder[w]
           r == route[w]
<1>0. /\ c \in CallRecords /\ CallOK(c, r, pc[w], op[w])
      /\ ladder = [ladder EXCEPT ![w] = c] /\ route = [route EXCEPT ![w] = r]
      /\ r \in Routes /\ FamilyOf[r] \in Families
  BY Same, RotationAssumption
<1>1. CASE /\ ladder[w].role = "author" /\ Goto(w, "authored")
           /\ families' = families \cup {FamilyOf[route[w]]} /\ UNCHANGED <<route, ladder>>
  <2>1. CallOK(c, r, "authored", None)
    BY <1>0, TagsAssumption DEF CallOK
  <2>2. families' \in SUBSET Families
    BY <1>0, <1>1 DEF CallInv
  <2>3. ladder' = [ladder EXCEPT ![w] = c] /\ route' = [route EXCEPT ![w] = r]
    BY <1>0, <1>1
  <2>4. Goto(w, "authored")
    BY <1>1
  <2>5. Moves(w)
    BY <2>4 DEF Moves, Labels, Transacting
  <2> HIDE DEF c, r
  <2>6. CallInv'
    BY <1>0, <2>1, <2>2, <2>3, <2>4, CallFrame DEF Goto
  <2> QED
    BY <2>5, <2>6
<1>2. CASE ladder[w].role = "reviewer" /\ Goto(w, "certified") /\ UNCHANGED <<families, route, ladder>>
  <2>1. CallOK(c, r, "certified", None)
    BY <1>0, TagsAssumption DEF CallOK
  <2>2. families' \in SUBSET Families
    BY <1>2 DEF CallInv
  <2>3. ladder' = [ladder EXCEPT ![w] = c] /\ route' = [route EXCEPT ![w] = r]
    BY <1>0, <1>2
  <2>4. Goto(w, "certified")
    BY <1>2
  <2>5. Moves(w)
    BY <2>4 DEF Moves, Labels, Transacting
  <2> HIDE DEF c, r
  <2>6. CallInv'
    BY <1>0, <2>1, <2>2, <2>3, <2>4, CallFrame DEF Goto
  <2> QED
    BY <2>5, <2>6
<1>3. CASE ladder[w].role = "none" /\ EndCall(w)
  BY <1>3, EndCallOK
<1> QED
  BY <1>1, <1>2, <1>3 DEF Answered

LEMMA FailedOK ==
  ASSUME TxTypes, CallInv, NEW w \in Workers, Failed(w), op' = [op EXCEPT ![w] = None]
  PROVE  CallInv' /\ Moves(w)
<1> DEFINE c == ladder[w]
<1>0. /\ c \in CallRecords /\ CallOK(c, route[w], pc[w], op[w])
      /\ ladder = [ladder EXCEPT ![w] = c]
  BY Same
<1>1. CallOK(c, None, "next", None)
  BY <1>0, TagsAssumption DEF CallOK
<1>2. families' \in SUBSET Families
  BY DEF Failed, CallInv
<1>3. /\ ladder' = [ladder EXCEPT ![w] = c] /\ route' = [route EXCEPT ![w] = None]
      /\ Goto(w, "next")
  BY <1>0 DEF Failed
<1>4. Moves(w)
  BY <1>3 DEF Moves, Labels, Transacting
<1> HIDE DEF c
<1>5. CallInv'
  BY <1>0, <1>1, <1>2, <1>3, CallFrame DEF Goto
<1> QED
  BY <1>4, <1>5

(***************************************************************************)
(* The steps                                                               *)
(***************************************************************************)

\* A worker whose label is none of a transaction has no purpose.
LEMMA NoPurpose ==
  ASSUME TxTypes, NEW w \in Workers, pc[w] \notin Transacting
  PROVE  op[w] = None
BY DEF TxTypes

\* A call goes on with a transaction.
LEMMA BeginOK ==
  ASSUME IInv, NEW w \in Workers, NEW STATE what, what \in Purposes, Begin(w, what),
         NEW STATE c, c \in CallRecords, ladder' = [ladder EXCEPT ![w] = c],
         NEW STATE r, r \in Routes \cup {None}, route' = [route EXCEPT ![w] = r],
         CallOK(c, r, "lock", what)
  PROVE  IInv'
<1>1. TxInv'
  BY BeginKeepsTx DEF IInv
<1>2. /\ pc' = [pc EXCEPT ![w] = "lock"] /\ op' = [op EXCEPT ![w] = what]
      /\ families' \in SUBSET Families
  BY DEF Begin, Goto, IInv, CallInv
<1>3. CallInv'
  BY <1>2, CallFrame DEF IInv, TxInv
<1> QED
  BY <1>1, <1>3 DEF IInv

\* The call that goes on may stay as it is.
LEMMA BeginSameOK ==
  ASSUME IInv, NEW w \in Workers, NEW STATE what, what \in Purposes, Begin(w, what),
         UNCHANGED <<route, ladder>>, what = "ok" => route[w] # None
  PROVE  IInv'
<1>1. /\ ladder' = [ladder EXCEPT ![w] = ladder[w]] /\ route' = [route EXCEPT ![w] = route[w]]
      /\ ladder[w] \in CallRecords /\ route[w] \in Routes \cup {None}
      /\ CallOK(ladder[w], route[w], pc[w], op[w])
  BY Same DEF IInv, TxInv
<1>2. CallOK(ladder[w], route[w], "lock", what)
  BY <1>1 DEF CallOK
<1> QED
  BY <1>1, <1>2, BeginOK

\* A step outside a transaction that ends a call, or leads to its next attempt.
LEMMA QuietOK ==
  ASSUME IInv, NEW w \in Workers, pc[w] \notin Transacting, NoTransaction,
         EndCall(w) \/ (Answered(w) /\ route[w] # None)
  PROVE  IInv'
<1>1. op' = [op EXCEPT ![w] = None]
  BY NoPurpose, Same DEF IInv, TxInv, NoTransaction, tx
<1>2. CallInv' /\ Moves(w)
  BY <1>1, EndCallOK, AnsweredOK DEF IInv, TxInv
<1> QED
  BY <1>2, QuietKeepsTx DEF IInv

LEMMA AcquireOK ==
  ASSUME IInv, NEW w \in Workers, Acquire(w)
  PROVE  IInv'
<1>1. /\ pc[w] = "lock" /\ lock = "free" /\ lock' = w /\ pc' = [pc EXCEPT ![w] = "write"]
      /\ seen' = [seen EXCEPT ![w] = [used |-> used, cool |-> cool]]
      /\ UNCHANGED <<used, cool, old, broken, latest, families, now, op, route, ladder>>
  BY DEF Acquire, Free, Goto, store
<1>2. [used |-> used, cool |-> cool] \in FileState
  BY DEF IInv, TxInv, TxTypes, FileState
<1>3. TxTypes'
  BY <1>1, <1>2 DEF IInv, TxInv, TxTypes, Labels, Transacting
<1>4. LockInv'
  <2> SUFFICES ASSUME ~broken, NEW v \in Workers, pc'[v] = "write"
               PROVE  lock' = v /\ seen'[v].used = used' /\ seen'[v].cool = cool'
    BY <1>1 DEF LockInv
  <2>1. v = w
    BY <1>1, Tags DEF IInv, TxInv, TxTypes, LockInv
  <2> QED
    BY <1>1, <2>1 DEF IInv, TxInv, TxTypes
<1>5. StampInv'
  BY <1>1 DEF IInv, TxInv, StampInv
<1>6. CallInv'
  <2>1. \A v \in Workers : CallOK(ladder[v], route[v], pc[v], op[v])
    BY DEF IInv, CallInv
  <2>2. \A v \in Workers : CallOK(ladder'[v], route'[v], pc'[v], op'[v])
    BY <1>1, <2>1 DEF IInv, TxInv, TxTypes, CallOK
  <2> QED
    BY <1>1, <2>2 DEF IInv, CallInv
<1> QED
  BY <1>3, <1>4, <1>5, <1>6 DEF IInv, TxInv

\* The way to a stale lock file and back: nothing of the call changes.
LEMMA LabelOnly ==
  ASSUME TxTypes, CallInv, NEW w \in Workers, NEW l \in {"lock", "break"}, Goto(w, l),
         UNCHANGED <<families, route, ladder, op>>
  PROVE  CallInv'
<1>1. \A v \in Workers : CallOK(ladder[v], route[v], pc[v], op[v])
  BY DEF CallInv
<1>2. \A v \in Workers : CallOK(ladder'[v], route'[v], pc'[v], op'[v])
  BY <1>1 DEF TxTypes, CallOK, Goto
<1> QED
  BY <1>2 DEF CallInv

LEMMA StaleOK ==
  ASSUME IInv, NEW w \in Workers, SeesStale(w) \/ Break(w)
  PROVE  IInv'
<1>1. PICK l \in {"lock", "break"} : Goto(w, l)
  BY DEF SeesStale, Break
<1>2. /\ pc[w] \in {"lock", "break"}
      /\ UNCHANGED <<used, cool, latest, families, now, op, seen, route, ladder>>
  BY DEF SeesStale, Break, store, file, tx
<1>3. \/ UNCHANGED <<lock, old, broken>>
      \/ lock' = "free" /\ old' = FALSE /\ broken' = (broken \/ lock \in Workers)
  BY DEF SeesStale, Break, file
<1>4. TxTypes'
  <2>1. lock' \in {"free", "dead"} \cup Workers /\ old' \in BOOLEAN /\ broken' \in BOOLEAN
    BY <1>3 DEF IInv, TxInv, TxTypes
  <2> QED
    BY <1>1, <1>2, <2>1 DEF IInv, TxInv, TxTypes, Goto, Labels, Transacting
<1>5. LockInv'
  <2> SUFFICES ASSUME ~broken', NEW v \in Workers, pc'[v] = "write"
               PROVE  lock' = v /\ seen'[v].used = used' /\ seen'[v].cool = cool'
    BY DEF LockInv
  <2>1. ~broken /\ pc[v] = "write"
    BY <1>1, <1>3 DEF IInv, TxInv, TxTypes, Goto
  <2>2. lock = v /\ seen[v].used = used /\ seen[v].cool = cool
    BY <2>1 DEF IInv, TxInv, LockInv
  <2> QED
    BY <1>2, <1>3, <2>2
<1>6. StampInv'
  <2>1. ~broken' => ~broken
    BY <1>3
  <2> QED
    BY <1>2, <2>1 DEF IInv, TxInv, StampInv
<1>7. CallInv'
  BY <1>1, <1>2, LabelOnly DEF IInv, TxInv
<1> QED
  BY <1>4, <1>5, <1>6, <1>7 DEF IInv, TxInv

LEMMA GrowsOldOK ==
  ASSUME IInv, GrowsOld
  PROVE  IInv'
<1>1. /\ UNCHANGED <<used, cool, lock, broken, latest, families, pc, now, op, seen, route, ladder>>
      /\ old' = TRUE
  BY DEF GrowsOld, store, tx
<1>2. TxTypes'
  BY <1>1, RotationAssumption DEF IInv, TxInv, TxTypes
<1>3. LockInv' /\ StampInv' /\ CallInv'
  BY <1>1 DEF IInv, TxInv, LockInv, StampInv, CallInv
<1> QED
  BY <1>2, <1>3 DEF IInv, TxInv

LEMMA TimeOutOK ==
  ASSUME IInv, NEW w \in Workers, TimeOut(w)
  PROVE  IInv'
<1> DEFINE state == [used |-> used, cool |-> cool]
<1>1. pc[w] = "lock" /\ EndTransaction(w) /\ UNCHANGED <<store, file, latest>>
  BY DEF TimeOut
<1>2. op' = [op EXCEPT ![w] = None]
  BY <1>1 DEF EndTransaction
<1>3. \/ \E r \in Pick(w, state) : Selected(w, r)
      \/ op[w] = "ok" /\ Answered(w)
      \/ Failed(w)
  BY Zenon DEF TimeOut
<1> HIDE DEF state
<1>4. op[w] = "ok" => route[w] # None
  BY DEF IInv, CallInv, CallOK
<1>5. CallInv' /\ Moves(w)
  BY <1>2, <1>3, <1>4, SelectedOK, AnsweredOK, FailedOK DEF IInv, TxInv
<1>6. TxInv'
  BY <1>1, <1>5, TimeOutKeepsTx DEF IInv
<1> QED
  BY <1>5, <1>6 DEF IInv

LEMMA WriteOK ==
  ASSUME IInv, NEW w \in Workers, Write(w)
  PROVE  IInv'
<1>1. /\ pc[w] = "write" /\ EndTransaction(w) /\ lock' = "free" /\ old' = FALSE
      /\ UNCHANGED broken
  BY DEF Write
<1>2. op' = [op EXCEPT ![w] = None]
  BY <1>1 DEF EndTransaction
<1>3. seen[w].cool \subseteq Coolable
  BY DEF IInv, TxInv, TxTypes, FileState
<1>4. CASE op[w] = "select" /\ WriteSelection(w)
  <2>1. PICK r \in Pick(w, seen[w]) :
           /\ IF r = None THEN used' = seen[w].used /\ UNCHANGED latest
              ELSE used' = Stamp(w, seen[w], r) /\ latest' = PoolOf[r]
           /\ cool' = seen[w].cool /\ Selected(w, r)
    BY <1>4 DEF WriteSelection
  <2>2. CallInv' /\ Moves(w)
    BY <1>2, <2>1, SelectedOK DEF IInv, TxInv
  <2>3. \/ used' = seen[w].used /\ latest' = latest
        \/ \E p \in Pools : /\ used' = [seen[w].used EXCEPT ![p] = now[w]]
                            /\ latest' \in {latest, p}
    BY <2>1, PickFacts, RotationAssumption DEF Stamp
  <2>4. cool' \subseteq Coolable
    BY <1>3, <2>1
  <2>5. TxInv'
    BY <1>1, <1>4, <2>2, <2>3, <2>4, WriteKeepsTx DEF IInv
  <2> QED
    BY <2>2, <2>5 DEF IInv
<1>5. CASE op[w] = "ok" /\ WriteSuccess(w)
  <2>1. /\ used' = Stamp(w, seen[w], route[w]) /\ cool' = seen[w].cool \ {route[w]}
        /\ Answered(w) /\ latest' = latest
    BY <1>5 DEF WriteSuccess
  <2>2. route[w] # None /\ route[w] \in Routes
    BY <1>5 DEF IInv, CallInv, CallOK
  <2>3. CallInv' /\ Moves(w)
    BY <1>2, <2>1, <2>2, AnsweredOK DEF IInv, TxInv
  <2>4. \E p \in Pools : /\ used' = [seen[w].used EXCEPT ![p] = now[w]]
                         /\ latest' \in {latest, p}
    BY <2>1, <2>2, RotationAssumption DEF Stamp
  <2>5. cool' \subseteq Coolable
    BY <1>3, <2>1
  <2>6. TxInv'
    BY <1>1, <1>5, <2>3, <2>4, <2>5, WriteKeepsTx DEF IInv
  <2> QED
    BY <2>3, <2>6 DEF IInv
<1>6. CASE op[w] \in Coolable /\ WriteFailure(w)
  <2>1. /\ used' = seen[w].used /\ Failed(w) /\ latest' = latest
        /\ \E struck \in SUBSET Coolable : cool' = seen[w].cool \cup {op[w]} \cup struck
    BY <1>6 DEF WriteFailure
  <2>2. CallInv' /\ Moves(w)
    BY <1>2, <2>1, FailedOK DEF IInv, TxInv
  <2>3. cool' \subseteq Coolable
    BY <1>3, <1>6, <2>1
  <2>4. TxInv'
    BY <1>1, <2>1, <2>2, <2>3, WriteKeepsTx DEF IInv
  <2> QED
    BY <2>2, <2>4 DEF IInv
<1> QED
  BY <1>4, <1>5, <1>6 DEF Write

LEMMA AuthorOK ==
  ASSUME IInv, NEW w \in Workers, Author(w) \/ Ask(w)
  PROVE  IInv'
<1> DEFINE c == IF Author(w) THEN Attempt(Call("author", {}, {})) ELSE NoCall
<1>1. /\ c \in CallRecords /\ c.left <= c.cap /\ c.cap <= Cardinality(Routes)
      /\ c.authors = {} /\ c.avoid = {}
  <2>1. CASE Author(w)
    BY <2>1, CallBegins
  <2>2. CASE ~Author(w)
    BY <2>2, NoCallFacts
  <2> QED
    BY <2>1, <2>2
<1>2. Begin(w, "select") /\ ladder' = [ladder EXCEPT ![w] = c] /\ route' = route
  BY DEF Author, Ask
<1>3. /\ route' = [route EXCEPT ![w] = route[w]] /\ route[w] \in Routes \cup {None}
  BY <1>2, Same DEF IInv, TxInv
<1> HIDE DEF c
<1>4. CallOK(c, route[w], "lock", "select")
  BY <1>1 DEF CallOK
<1>5. "select" \in Purposes
  BY DEF Purposes
<1> QED
  BY <1>1, <1>2, <1>3, <1>4, <1>5, BeginOK

LEMMA ReviewOK ==
  ASSUME IInv, NEW w \in Workers, Review(w)
  PROVE  IInv'
<1> DEFINE c == Attempt(Call("reviewer", families, families))
<1>1. /\ c \in CallRecords /\ c.left <= c.cap /\ c.cap <= Cardinality(Routes)
      /\ c.authors = families /\ c.avoid = families
  BY CallBegins DEF IInv, CallInv
<1>2. /\ Begin(w, "select") /\ ladder' = [ladder EXCEPT ![w] = c]
      /\ route' = [route EXCEPT ![w] = None]
  BY DEF Review, Excluded
<1> HIDE DEF c
<1>3. CallOK(c, None, "lock", "select")
  BY <1>1 DEF CallOK
<1>4. "select" \in Purposes
  BY DEF Purposes
<1> QED
  BY <1>1, <1>2, <1>3, <1>4, BeginOK

\* A route at work is a route, and its keys are purposes.
LEMMA AtCall ==
  ASSUME IInv, NEW w \in Workers, pc[w] = "call"
  PROVE  route[w] \in Routes /\ route[w] # None /\ pc[w] \notin Transacting
BY Tags DEF IInv, CallInv, CallOK, Transacting

LEMMA SucceedsOK ==
  ASSUME IInv, NEW w \in Workers, Succeeds(w)
  PROVE  IInv'
<1>1. pc[w] = "call"
  BY DEF Succeeds
<1>2. CASE Begin(w, "ok") /\ UNCHANGED <<route, ladder>>
  BY <1>1, <1>2, AtCall, BeginSameOK DEF Purposes
<1>3. CASE Answered(w) /\ NoTransaction
  BY <1>1, <1>3, AtCall, QuietOK
<1> QED
  BY <1>2, <1>3 DEF Succeeds

LEMMA FailsOK ==
  ASSUME IInv, NEW w \in Workers, Fails(w)
  PROVE  IInv'
<1>1. PICK k \in {route[w], PoolOf[route[w]]} \cap Coolable : Begin(w, k)
  BY DEF Fails
<1>2. k \in Purposes /\ k # "ok" /\ UNCHANGED <<route, ladder>>
  BY Tags DEF Fails, Purposes
<1> QED
  BY <1>1, <1>2, BeginSameOK

\* A call whose attempts are extended, or used up, and what it was refused.
LEMMA LadderFacts ==
  ASSUME IInv, NEW w \in Workers
  PROVE  /\ \A d \in {[ladder[w] EXCEPT !.left = Extended(ladder[w])],
                      [ladder[w] EXCEPT !.left = 0]} :
               /\ d \in CallRecords
               /\ \A r, l, o : CallOK(ladder[w], r, l, o) => CallOK(d, r, l, o)
         /\ [ladder EXCEPT ![w].left = Extended(ladder[w])]
               = [ladder EXCEPT ![w] = [ladder[w] EXCEPT !.left = Extended(ladder[w])]]
         /\ [ladder EXCEPT ![w].left = 0] = [ladder EXCEPT ![w] = [ladder[w] EXCEPT !.left = 0]]
<1>1. ladder[w] \in CallRecords /\ ladder[w].left <= ladder[w].cap
  BY DEF IInv, CallInv, CallOK
<1>2. Extended(ladder[w]) \in Nat /\ Extended(ladder[w]) <= ladder[w].cap
  BY <1>1, ExtendedFacts
<1>3. ASSUME NEW n, n \in Nat, n <= ladder[w].cap
      PROVE  LET d == [ladder[w] EXCEPT !.left = n]
             IN  /\ d \in CallRecords
                 /\ \A r, l, o : CallOK(ladder[w], r, l, o) => CallOK(d, r, l, o)
  BY <1>1, <1>3 DEF CallRecords, CallOK
<1>4. 0 <= ladder[w].cap /\ 0 \in Nat
  BY <1>1 DEF CallRecords
<1>5. ladder \in [Workers -> CallRecords]
  BY DEF IInv, CallInv
<1> QED
  BY <1>2, <1>3, <1>4, <1>5

LEMMA RouteFailsOK ==
  ASSUME IInv, NEW w \in Workers, RouteFails(w)
  PROVE  IInv'
<1> DEFINE d == [ladder[w] EXCEPT !.left = Extended(ladder[w])]
<1>1. /\ Begin(w, route[w]) /\ route[w] \in Coolable /\ route' = route
      /\ ladder' = [ladder EXCEPT ![w].left = Extended(ladder[w])]
  BY DEF RouteFails
<1>2. /\ route' = [route EXCEPT ![w] = route[w]] /\ route[w] \in Routes \cup {None}
      /\ CallOK(ladder[w], route[w], pc[w], op[w])
  BY <1>1, Same DEF IInv, TxInv
<1>3. CallOK(ladder[w], route[w], "lock", route[w])
  BY <1>1, <1>2, Tags DEF CallOK
<1>4. d \in CallRecords /\ CallOK(d, route[w], "lock", route[w]) /\ ladder' = [ladder EXCEPT ![w] = d]
  BY <1>1, <1>3, LadderFacts
<1>5. route[w] \in Purposes
  BY <1>1 DEF Purposes
<1> HIDE DEF d
<1> QED
  BY <1>1, <1>2, <1>4, <1>5, BeginOK

LEMMA RefusesOK ==
  ASSUME IInv, NEW w \in Workers, Refuses(w)
  PROVE  IInv'
<1> DEFINE c == ladder[w]
           d == [c EXCEPT !.left = Extended(c), !.refused = @ \cup {FamilyOf[route[w]]}]
<1>1. /\ pc[w] = "call" /\ Goto(w, "next") /\ NoTransaction /\ UNCHANGED families
      /\ route' = [route EXCEPT ![w] = None]
      /\ ladder' = [ladder EXCEPT ![w].left = Extended(ladder[w]),
                                  ![w].refused = @ \cup {FamilyOf[route[w]]}]
  BY DEF Refuses
<1>2. /\ c \in CallRecords /\ CallOK(c, route[w], pc[w], op[w])
      /\ ladder \in [Workers -> CallRecords]
  BY Same DEF IInv, TxInv, CallInv
<1>3. FamilyOf[route[w]] \in Families /\ pc[w] \notin Transacting
  BY <1>1, AtCall, RotationAssumption
<1>4. op' = [op EXCEPT ![w] = None]
  BY <1>1, <1>3, NoPurpose, Same DEF IInv, TxInv, NoTransaction, tx
<1>5. Extended(c) \in Nat /\ Extended(c) <= c.cap
  BY <1>2, ExtendedFacts DEF CallOK
<1>6. ladder' = [ladder EXCEPT ![w] = d]
  BY <1>1, <1>2
<1>7. d \in CallRecords /\ CallOK(d, None, "next", None)
  <2> HIDE DEF c
  <2>1. d \in CallRecords /\ d.left = Extended(c) /\ d.cap = c.cap /\ d.authors = c.authors
        /\ d.avoid = c.avoid
    BY <1>2, <1>3, <1>5 DEF CallRecords
  <2> HIDE DEF d
  <2> QED
    BY <1>2, <1>5, <2>1, TagsAssumption DEF CallOK
<1> HIDE DEF d, c
<1>8. families' \in SUBSET Families
  BY <1>1 DEF IInv, CallInv
<1>9. CallInv'
  BY <1>1, <1>4, <1>6, <1>7, <1>8, CallFrame DEF IInv, TxInv, Goto
<1>10. Moves(w)
  BY <1>1 DEF Moves, Labels, Transacting
<1> QED
  BY <1>1, <1>3, <1>9, <1>10, QuietKeepsTx DEF IInv

LEMMA AbortsOK ==
  ASSUME IInv, NEW w \in Workers, Aborts(w)
  PROVE  IInv'
<1>1. pc[w] = "call" /\ pc[w] \notin Transacting
  BY AtCall DEF Aborts
<1>2. CASE EndCall(w) /\ NoTransaction
  BY <1>1, <1>2, QuietOK
<1>3. CASE /\ route[w] \in Coolable /\ Begin(w, route[w])
           /\ ladder' = [ladder EXCEPT ![w].left = 0] /\ UNCHANGED route
  <2> DEFINE d == [ladder[w] EXCEPT !.left = 0]
  <2>1. /\ route' = [route EXCEPT ![w] = route[w]] /\ route[w] \in Routes \cup {None}
        /\ CallOK(ladder[w], route[w], pc[w], op[w])
    BY <1>3, Same DEF IInv, TxInv
  <2>2. CallOK(ladder[w], route[w], "lock", route[w])
    BY <1>3, <2>1, Tags DEF CallOK
  <2>3. d \in CallRecords /\ CallOK(d, route[w], "lock", route[w]) /\ ladder' = [ladder EXCEPT ![w] = d]
    BY <1>3, <2>2, LadderFacts
  <2>4. route[w] \in Purposes
    BY <1>3 DEF Purposes
  <2> HIDE DEF d
  <2> QED
    BY <1>3, <2>1, <2>3, <2>4, BeginOK
<1> QED
  BY <1>2, <1>3 DEF Aborts

LEMMA GoOnOK ==
  ASSUME IInv, NEW w \in Workers, GoOn(w)
  PROVE  IInv'
<1>1. pc[w] \notin Transacting
  BY DEF GoOn, Transacting
<1>2. CASE ladder[w].left = 0 /\ EndCall(w) /\ NoTransaction
  BY <1>1, <1>2, QuietOK
<1>3. CASE /\ ladder[w].left > 0 /\ Begin(w, "select") /\ UNCHANGED route
           /\ ladder' = [ladder EXCEPT ![w] = Attempt(@)]
  <2> DEFINE c == ladder[w]
             d == Attempt(c)
  <2>1. /\ route' = [route EXCEPT ![w] = route[w]] /\ route[w] \in Routes \cup {None}
        /\ c \in CallRecords /\ CallOK(c, route[w], pc[w], op[w])
    BY <1>3, Same DEF IInv, TxInv
  <2>2. ladder' = [ladder EXCEPT ![w] = d]
    BY <1>3 DEF IInv, CallInv
  <2>3. c.left > 0
    BY <1>3
  <2>4. d \in CallRecords /\ CallOK(d, route[w], "lock", "select")
    <3> HIDE DEF c
    <3>1. c.left - 1 \in Nat /\ c.cap - 1 \in Nat
      BY <2>1, <2>3 DEF CallRecords, CallOK
    <3>2. d \in CallRecords /\ d.left = c.left - 1 /\ d.cap = c.cap - 1 /\ d.authors = c.authors
          /\ d.avoid = c.avoid
      BY <2>1, <3>1 DEF Attempt, CallRecords
    <3>3. c.left \in Nat /\ c.cap \in Nat /\ Cardinality(Routes) \in Nat
      BY <2>1, NoCallFacts DEF CallRecords
    <3> HIDE DEF d
    <3> QED
      BY <2>1, <3>2, <3>3 DEF CallOK
  <2>5. "select" \in Purposes
    BY DEF Purposes
  <2> HIDE DEF d
  <2> QED
    BY <1>3, <2>1, <2>2, <2>4, <2>5, BeginOK
<1> QED
  BY <1>2, <1>3 DEF GoOn

LEMMA CertifiedOK ==
  ASSUME IInv, NEW w \in Workers, Certified(w)
  PROVE  IInv'
BY QuietOK DEF Certified, Transacting

(***************************************************************************)
(* The theorems                                                            *)
(***************************************************************************)

LEMMA InitInv == Init => IInv
<1> SUFFICES ASSUME Init
             PROVE  IInv
  OBVIOUS
<1>1. NoState \in FileState
  BY DEF NoState, FileState
<1>2. TxTypes
  <2>0. old \in BOOLEAN /\ broken \in BOOLEAN
    BY DEF Init
  <2>1. /\ cool \subseteq Coolable /\ lock \in {"free", "dead"} \cup Workers
        /\ latest \in Pools \cup {None}
    BY RotationAssumption DEF Init
  <2>4. used \in [Pools -> Nat] /\ now \in [Workers -> Nat]
    BY DEF Init
  <2>2. /\ pc \in [Workers -> Labels] /\ op \in [Workers -> {None} \cup Purposes]
        /\ seen \in [Workers -> FileState]
    BY <1>1 DEF Init, Labels
  <2>3. \A w \in Workers : op[w] # None <=> pc[w] \in Transacting
    BY DEF Init, Transacting
  <2> QED
    BY <2>0, <2>1, <2>2, <2>3, <2>4 DEF TxTypes
<1>3. LockInv
  BY DEF Init, LockInv
<1>4. StampInv
  BY TagsAssumption DEF Init, StampInv
<1>5. CallOK(NoCall, None, "idle", None)
  BY NoCallFacts, TagsAssumption DEF CallOK
<1>6. CallInv
  BY <1>5, NoCallFacts DEF Init, CallInv
<1> QED
  BY <1>2, <1>3, <1>4, <1>6 DEF IInv, TxInv

LEMMA StepInv == IInv /\ [Next]_vars => IInv'
<1> SUFFICES ASSUME IInv, [Next]_vars
             PROVE  IInv'
  OBVIOUS
<1>1. CASE UNCHANGED vars
  BY <1>1 DEF vars, store, file, tx, IInv, TxInv, CallInv, TxTypes, LockInv, StampInv
<1>2. CASE GrowsOld
  BY <1>2, GrowsOldOK
<1>3. ASSUME NEW w \in Workers, Author(w) \/ Ask(w) \/ Step(w)
      PROVE  IInv'
  <2>1. \/ Author(w) \/ Ask(w) \/ Acquire(w) \/ SeesStale(w) \/ Break(w) \/ TimeOut(w) \/ Write(w)
        \/ Review(w) \/ Succeeds(w) \/ Fails(w) \/ RouteFails(w) \/ Refuses(w)
        \/ Aborts(w) \/ GoOn(w) \/ Certified(w)
    BY <1>3 DEF Step
  <2> QED
    BY <2>1, AuthorOK, AcquireOK, StaleOK, TimeOutOK, WriteOK, ReviewOK, SucceedsOK, FailsOK,
       RouteFailsOK, RefusesOK, AbortsOK, GoOnOK, CertifiedOK
<1> QED
  BY <1>1, <1>2, <1>3 DEF Next

\* The inductive invariant holds in every reachable state.
THEOREM Invariance == Spec => []IInv
BY InitInv, StepInv, PTL DEF Spec

\* Types, and the bound on the attempts of a call.
THEOREM TypeCorrect == Spec => []TypeOK
<1>1. IInv => TypeOK
  <2> SUFFICES ASSUME IInv
               PROVE  TypeOK
    OBVIOUS
  <2>1. \A w \in Workers :
          /\ op[w] # None <=> pc[w] \in {"lock", "break", "write"}
          /\ ladder[w].left \in 0 .. ladder[w].cap /\ ladder[w].cap <= Cardinality(Routes)
          /\ ladder[w].avoid \cup ladder[w].authors \cup ladder[w].refused \subseteq Families
    BY DEF IInv, TxInv, TxTypes, Transacting, CallInv, CallOK, CallRecords
  <2> QED
    BY <2>1 DEF TypeOK, IInv, TxInv, TxTypes, CallInv, Purposes
<1> QED
  BY <1>1, Invariance, PTL

\* A certified route's family was not among the authors when its review began.
THEOREM Independence == Spec => []ReviewerIsIndependent
<1>1. IInv => ReviewerIsIndependent
  BY DEF IInv, CallInv, CallOK, ReviewerIsIndependent
<1> QED
  BY <1>1, Invariance, PTL

\* The label of a worker that writes changes only by its own write.
LEMMA OnlyWriterWrites ==
  ASSUME IInv, [Next]_vars, NEW w \in Workers, pc[w] = "write", pc'[w] # "write"
  PROVE  Write(w)
<1>1. CASE UNCHANGED vars \/ GrowsOld
  BY <1>1 DEF vars, GrowsOld
<1>2. ASSUME NEW v \in Workers, Author(v) \/ Ask(v) \/ Step(v)
      PROVE  Write(w)
  <2>1. \E l \in Labels : Goto(v, l)
    BY <1>2 DEF Author, Ask, Step, Acquire, SeesStale, Break, TimeOut, Write, WriteSelection, WriteSuccess,
          WriteFailure, Review, Succeeds, Fails, RouteFails, Refuses, Aborts, GoOn, Certified, Begin,
          EndCall, Selected, Answered, Failed, Labels
  <2>2. v = w
    BY <2>1 DEF Goto, IInv, TxInv, TxTypes
  <2> QED
    BY <1>2, <2>2 DEF Author, Ask, Step, Acquire, SeesStale, Break, TimeOut, Review, Succeeds, Fails,
          RouteFails, Refuses, Aborts, GoOn, Certified
<1> QED
  BY <1>1, <1>2 DEF Next

\* What is replaced is what was read, until a lock file is taken from its holder.
THEOREM UpdatesAreAtomic == Spec => NoLostUpdate
<1>1. IInv /\ [Next]_vars =>
        \A w \in Workers :
          pc[w] = "write" /\ pc'[w] # "write" /\ store' # store /\ ~broken =>
              seen[w].used = used /\ seen[w].cool = cool
  BY DEF IInv, TxInv, LockInv
<1> QED
  BY <1>1, Invariance, PTL DEF Spec, NoLostUpdate

\* The pool that was written last is not chosen again while it is the most recently
\* used and another one without any cooldown can serve.
THEOREM LandsElsewhere == Spec => NextCallLandsElsewhere
<1> DEFINE Others(w) == {r \in Usable(w, cool') : PoolOf[r] # latest}
<1>1. ASSUME IInv, [Next]_vars, NEW w \in Workers, pc[w] = "write", pc'[w] = "call",
             ~broken, latest # None, Others(w) # {},
             \A p \in Pools : used[p] <= used[latest]
      PROVE  PoolOf[route'[w]] # latest
  <2>1. Write(w)
    BY <1>1, OnlyWriterWrites
  <2>2. pc'[w] = "call" /\ pc \in [Workers -> Labels] /\ route \in [Workers -> Routes \cup {None}]
    BY <1>1 DEF IInv, TxInv, TxTypes, CallInv
  <2>3. ~Failed(w) /\ ~Answered(w) /\ ~EndCall(w)
    BY <2>2 DEF Failed, Answered, EndCall, Goto
  <2>4. WriteSelection(w)
    BY <2>1, <2>3 DEF Write, WriteSuccess, WriteFailure
  <2>5. PICK r \in Pick(w, seen[w]) : cool' = seen[w].cool /\ Selected(w, r)
    BY <2>4 DEF WriteSelection
  <2>6. r # None /\ route'[w] = r
    BY <2>2, <2>3, <2>5 DEF Selected, Goto
  <2>7. seen[w].used = used /\ seen[w].cool = cool /\ cool' = cool
    BY <1>1, <2>5 DEF IInv, TxInv, LockInv
  <2>8. PICK inForce \in SUBSET cool : r \in PickAmong(Usable(w, inForce), used)
    BY <2>5, <2>7 DEF Pick
  <2>9. PICK o \in Usable(w, cool) : PoolOf[o] # latest
    BY <1>1, <2>7
  <2>10. o \in Usable(w, inForce) /\ o \in Routes
    BY <2>8, <2>9 DEF Usable
  <2>11. PoolOf[r] \in Oldest({PoolOf[s] : s \in Usable(w, inForce)}, used)
    BY <2>6, <2>8, <2>10 DEF PickAmong
  <2>12. used[PoolOf[r]] <= used[PoolOf[o]]
    BY <2>10, <2>11 DEF Oldest
  <2>13. /\ PoolOf[o] \in Pools /\ latest \in Pools /\ used \in [Pools -> Nat]
    BY <1>1, <2>10, RotationAssumption DEF IInv, TxInv, TxTypes
  <2>14. used[latest] # 0 /\ used[PoolOf[o]] # used[latest]
    BY <1>1, <2>9, <2>13 DEF IInv, TxInv, StampInv
  <2>15. used[PoolOf[o]] < used[latest]
    BY <1>1, <2>13, <2>14
  <2> QED
    BY <2>6, <2>12, <2>13, <2>15
<1>2. IInv /\ [Next]_vars =>
        \A w \in Workers :
          LET others == {r \in Usable(w, cool') : PoolOf[r] # latest}
          IN  /\ pc[w] = "write" /\ pc'[w] = "call"
              /\ ~broken /\ latest # None /\ others # {}
              /\ \A p \in Pools : used[p] <= used[latest]
              => PoolOf[route'[w]] # latest
  BY <1>1
<1> QED
  BY <1>2, Invariance, PTL DEF Spec, NextCallLandsElsewhere

=============================================================================
