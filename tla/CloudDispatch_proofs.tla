------------------------ MODULE CloudDispatch_proofs ------------------------
(***************************************************************************)
(* Proofs about CloudDispatch, for any invocations of dispatch and of      *)
(* runStatus, and any numbers of claims, takeovers and faults.             *)
(*                                                                         *)
(* Types alone are not inductive: an owner writes the token of its claim   *)
(* into the repository, and dispatch answers with the run its claim names. *)
(* That neither is None depends on the step at which an invocation is.     *)
(*                                                                         *)
(* The safety of the service rests on who is at work (SInv): one           *)
(* invocation at a time owns the request (Alone), and each kind of work    *)
(* knows what it finds in the repository (Fits).  SInv holds until one of  *)
(* the two races of CloudDispatch is lost, and nothing else is assumed:    *)
(* takeovers may overlap, and a run may end at any time.                   *)
(***************************************************************************)
EXTENDS CloudDispatch, FiniteSetTheorems, TLAPS

(***************************************************************************)
(* The inductive invariant                                                 *)
(***************************************************************************)

\* The steps at which an invocation owns a claim.
Owning == {"prepare", "seal", "mailbox", "ready", "provider", "reserve", "tag",
           "commit", "post", "locate", "mark"}

Invocation == [pc : PCs, mine : Claim, then : {"idle", "scan"},
               since : 0 .. MaxClaims, seen : SUBSET Tokens]

\* An invocation has the claim, and the run, that its step needs.
Equipped(v) ==
    /\ v.pc \in Owning => v.mine.token # None
    /\ v.pc = "mark" => v.mine.run # None

Ready == {v \in Invocation : Equipped(v)}

IInv == TypeOK /\ inv \in [Slots -> Ready]

(***************************************************************************)
(* Claims and invocations                                                  *)
(***************************************************************************)

LEMMA NoClaimType == NoClaim \in Claim /\ NoClaim.token = None
BY DEF NoClaim, Claim, None

LEMMA FreshClaimType ==
  ASSUME NEW t \in Tokens
  PROVE  FreshClaim(t) \in Claim /\ FreshClaim(t).token # None
<1>1. t \in Nat \ {0}
  BY BoundsAssumption DEF Tokens
<1>2. NoClaim \in Claim
  BY NoClaimType
<1>3. [NoClaim EXCEPT !.token = t] \in Claim /\ [NoClaim EXCEPT !.token = t].token = t
  BY <1>2 DEF Claim
<1> QED
  BY <1>1, <1>3 DEF FreshClaim, None

\* What its owner writes into a claim keeps its type and its token.
LEMMA ClaimWritten ==
  ASSUME NEW c \in Claim
  PROVE  /\ \A p \in {"preparing", "dispatching"} :
                /\ [c EXCEPT !.phase = p] \in Claim
                /\ [c EXCEPT !.phase = p].token = c.token
         /\ [c EXCEPT !.phase = "ready", !.mailbox = TRUE] \in Claim
         /\ [c EXCEPT !.phase = "ready", !.mailbox = TRUE].token = c.token
         /\ [c EXCEPT !.workflow = TRUE] \in Claim
         /\ [c EXCEPT !.workflow = TRUE].token = c.token
         /\ \A r \in Tokens :
                /\ [c EXCEPT !.run = r] \in Claim
                /\ [c EXCEPT !.run = r].token = c.token
                /\ [c EXCEPT !.run = r].run = r
BY DEF Claim

LEMMA TokensAreSomething == \A t \in Tokens : t # None
BY BoundsAssumption DEF Tokens, None

\* An idle invocation needs nothing.
LEMMA IdleReady == Idle \in Ready
BY NoClaimType, BoundsAssumption DEF Idle, Ready, Invocation, Equipped, Owning, PCs, None

\* The parts of an invocation.
LEMMA MineType ==
  ASSUME inv \in [Slots -> Ready], NEW i \in Slots
  PROVE  /\ Mine(i) \in Claim
         /\ inv[i].pc \in Owning => Mine(i).token \in Tokens
         /\ inv[i].pc = "mark" => Mine(i).run \in Tokens
<1>1. inv[i] \in Invocation /\ Equipped(inv[i])
  BY DEF Ready
<1>2. Mine(i) \in Claim
  BY <1>1 DEF Invocation, Mine
<1>3. Mine(i).token \in Tokens \cup {None} /\ Mine(i).run \in Tokens \cup {None}
  BY <1>2 DEF Claim
<1> QED
  BY <1>1, <1>2, <1>3 DEF Equipped, Mine

\* What is ready is an invocation.
LEMMA InvIsTyped ==
  ASSUME inv' \in [Slots -> Ready]
  PROVE  inv' \in [Slots -> [pc : PCs, mine : Claim, then : {"idle", "scan"},
                             since : 0 .. MaxClaims, seen : SUBSET Tokens]]
BY DEF Ready, Invocation

\* Going on keeps an invocation equipped when the next step is.
LEMMA GoesReady ==
  ASSUME inv \in [Slots -> Ready], NEW i \in Slots, NEW pc \in PCs, NEW c \in Claim,
         pc \in Owning => c.token # None, pc = "mark" => c.run # None,
         Goes(i, pc, c)
  PROVE  inv' \in [Slots -> Ready]
<1> DEFINE v == [inv[i] EXCEPT !.pc = pc, !.mine = c]
<1>1. inv[i] \in Invocation
  BY DEF Ready
<1>2. v \in Invocation /\ v.pc = pc /\ v.mine = c
  BY <1>1 DEF Invocation
<1>3. v \in Ready
  BY <1>2 DEF Ready, Equipped
<1>4. inv' = [inv EXCEPT ![i] = v]
  BY DEF Goes
<1> QED
  BY <1>3, <1>4

\* So does the start of a deletion,
LEMMA DeletesReady ==
  ASSUME inv \in [Slots -> Ready], NEW i \in Slots, NEW c \in Claim,
         NEW next \in {"idle", "scan"}, Deletes(i, c, next)
  PROVE  inv' \in [Slots -> Ready]
<1> DEFINE v == [inv[i] EXCEPT !.pc = "untag", !.mine = c, !.then = next]
<1>1. inv[i] \in Invocation
  BY DEF Ready
<1>2. v \in Invocation /\ v.pc = "untag"
  BY <1>1 DEF Invocation, PCs
<1>3. v \in Ready
  BY <1>2 DEF Ready, Equipped, Owning
<1>4. inv' = [inv EXCEPT ![i] = v]
  BY DEF Deletes
<1> QED
  BY <1>3, <1>4

\* a rollback,
LEMMA RollsBackReady ==
  ASSUME inv \in [Slots -> Ready], NEW i \in Slots, NEW c \in Claim, RollsBack(i, c)
  PROVE  inv' \in [Slots -> Ready]
BY DeletesReady DEF RollsBack

\* the end,
LEMMA EndsReady ==
  ASSUME inv \in [Slots -> Ready], NEW i \in Slots, Ends(i)
  PROVE  inv' \in [Slots -> Ready]
BY IdleReady DEF Ends

\* and the beginning.
LEMMA BeganReady ==
  ASSUME IInv, NEW pc \in PCs \ Owning
  PROVE  Began(pc) \in Ready
<1>1. Began(pc) \in Invocation
  BY DEF IInv, TypeOK, Began, Idle, Invocation
<1>2. Began(pc).pc \notin Owning /\ Began(pc).pc # "mark"
  BY DEF Began, Idle, Owning
<1> QED
  BY <1>1, <1>2 DEF Ready, Equipped

\* Persisting a claim its owner holds keeps the variable and the invocation.
LEMMA PersistReadyToGo ==
  ASSUME IInv, NEW i \in Slots, NEW c \in Claim, c.token # None,
         NEW next \in PCs \ {"mark"}, Persist(i, c, next)
  PROVE  claim' \in Claim /\ inv' \in [Slots -> Ready] /\ faults' \in Nat
<1> USE DEF IInv, TypeOK
<1>1. CASE claim # NoClaim /\ claim' = c /\ Goes(i, next, c) /\ UNCHANGED faults
  BY <1>1, GoesReady
<1>2. CASE claim # NoClaim /\ claim' \in {claim, c} /\ Fault /\ RollsBack(i, c)
  BY <1>2, RollsBackReady DEF Fault
<1>3. CASE claim = NoClaim /\ RollsBack(i, c) /\ UNCHANGED <<claim, faults>>
  BY <1>3, RollsBackReady
<1> QED
  BY <1>1, <1>2, <1>3 DEF Persist

(***************************************************************************)
(* The steps of an invocation                                              *)
(***************************************************************************)

\* A dispatch looks for earlier work.
LEMMA SearchStep ==
  ASSUME IInv, NEW i \in Slots,
         Recover(i) \/ Takeover(i) \/ Scan(i) \/ Check(i) \/ ClaimRequest(i)
  PROVE  IInv'
<1>1. inv \in [Slots -> Ready] /\ Mine(i) \in Claim
  BY MineType DEF IInv
<1>2. visible \subseteq Tokens /\ accepted \subseteq Tokens
  BY DEF IInv, TypeOK
<1>3. ASSUME NEW r \in Tokens, Answers(i, r)
      PROVE  answered' \subseteq Tokens /\ inv' \in [Slots -> Ready]
  BY <1>3, <1>1, EndsReady DEF Answers, IInv, TypeOK
<1>4. CASE Recover(i)
  <2>1. Known(Mine(i)) \subseteq Tokens
    BY <1>2 DEF Known
  <2>2. answered' \subseteq Tokens /\ inv' \in [Slots -> Ready]
    BY <1>4, <1>1, <1>3, <2>1, EndsReady DEF Recover, IInv, TypeOK
  <2> QED
    BY <1>4, <2>2, InvIsTyped DEF Recover, repository, runs, IInv, TypeOK
<1>5. CASE Takeover(i)
  <2>1. answered' \subseteq Tokens /\ inv' \in [Slots -> Ready]
    BY <1>5, <1>1, <1>2, <1>3, DeletesReady DEF Takeover, IInv, TypeOK
  <2> QED
    BY <1>5, <2>1, InvIsTyped DEF Takeover, repository, runs, IInv, TypeOK
<1>6. CASE Scan(i)
  <2>1. "check" \in PCs \ Owning /\ "check" # "mark"
    BY DEF PCs, Owning
  <2>2. ASSUME inv' = [inv EXCEPT ![i].pc = "check", ![i].mine = NoClaim, ![i].seen = visible]
        PROVE  inv' \in [Slots -> Ready]
    <3> DEFINE v == [inv[i] EXCEPT !.pc = "check", !.mine = NoClaim, !.seen = visible]
    <3>1. inv[i] \in Invocation
      BY <1>1 DEF Ready
    <3>2. v \in Invocation /\ v.pc = "check"
      BY <1>2, <2>1, <3>1, NoClaimType DEF Invocation
    <3>3. v \in Ready
      BY <3>2 DEF Ready, Equipped, Owning
    <3>4. inv' = [inv EXCEPT ![i] = v]
      BY <2>2
    <3> QED
      BY <1>1, <3>3, <3>4
  <2>3. answered' \subseteq Tokens /\ inv' \in [Slots -> Ready]
    BY <1>6, <1>1, <1>2, <1>3, <2>2 DEF Scan, IInv, TypeOK
  <2> QED
    BY <1>6, <2>3, InvIsTyped DEF Scan, repository, runs, IInv, TypeOK
<1>7. CASE Check(i)
  <2>1. "claim" \in PCs \ Owning /\ "claim" # "mark"
    BY DEF PCs, Owning
  <2>2. inv' \in [Slots -> Ready]
    BY <1>7, <1>1, <2>1, GoesReady, EndsReady, NoClaimType DEF Check
  <2> QED
    BY <1>7, <2>2, InvIsTyped DEF Check, repository, runs, IInv, TypeOK
<1>8. CASE ClaimRequest(i)
  <2>1. "recover" \in PCs \ Owning /\ "recover" # "mark" /\ "prepare" \in PCs /\ "prepare" # "mark"
    BY DEF PCs, Owning
  <2>2. CASE claim # NoClaim /\ Goes(i, "recover", claim)
                /\ UNCHANGED <<claim, issued, races, faults>>
    <3>1. claim \in Claim
      BY DEF IInv, TypeOK
    <3>2. inv' \in [Slots -> Ready]
      BY <1>1, <2>1, <2>2, <3>1, GoesReady
    <3> QED
      BY <1>8, <2>2, <3>2, InvIsTyped DEF ClaimRequest, runs, IInv, TypeOK
  <2>3. CASE /\ issued < MaxClaims
             /\ issued' = issued + 1
             /\ claim' = FreshClaim(issued + 1)
             /\ races' = races \cup Blind(i)
             /\ \/ Goes(i, "prepare", FreshClaim(issued + 1)) /\ UNCHANGED faults
                \/ Fault /\ Ends(i)
    <3>1. issued + 1 \in Tokens /\ issued' \in 0 .. MaxClaims
      BY <2>3, BoundsAssumption DEF IInv, TypeOK, Tokens
    <3>2. FreshClaim(issued + 1) \in Claim /\ FreshClaim(issued + 1).token # None
      BY <3>1, FreshClaimType
    <3>3. inv' \in [Slots -> Ready]
      BY <1>1, <2>1, <2>3, <3>2, GoesReady, EndsReady
    <3>4. faults' \in Nat
      BY <2>3 DEF Fault, IInv, TypeOK
    <3>5. claim' \in Claim
      BY <2>3, <3>2
    <3>6. races' \subseteq {"blind", "late"}
      BY <2>3 DEF Blind, IInv, TypeOK
    <3> QED
      BY <1>8, <3>1, <3>3, <3>4, <3>5, <3>6, InvIsTyped DEF ClaimRequest, runs, IInv, TypeOK
  <2> QED
    BY <1>8, <2>2, <2>3 DEF ClaimRequest
<1> QED
  BY <1>4, <1>5, <1>6, <1>7, <1>8

\* The owner persists what it has reached.
LEMMA PersistStep ==
  ASSUME IInv, NEW i \in Slots,
         Prepare(i) \/ PersistReady(i) \/ PersistWorkflow(i) \/ PersistDispatching(i)
  PROVE  IInv'
<1>1. inv[i].pc \in Owning
  BY DEF Prepare, PersistReady, PersistWorkflow, PersistDispatching, At, Owning
<1>2. inv \in [Slots -> Ready] /\ Mine(i) \in Claim /\ Mine(i).token # None
  BY <1>1, MineType, TokensAreSomething DEF IInv
<1>3. {"seal", "provider", "tag", "post"} \subseteq PCs \ {"mark"}
  BY DEF PCs
<1>4. claim' \in Claim /\ inv' \in [Slots -> Ready] /\ faults' \in Nat
  <2>1. CASE Prepare(i)
    <3>1. CASE Fault /\ RollsBack(i, Mine(i)) /\ UNCHANGED claim
      BY <1>2, <3>1, RollsBackReady DEF Fault, IInv, TypeOK
    <3>2. CASE Persist(i, [Mine(i) EXCEPT !.phase = "preparing"], "seal")
      <4>1. /\ [Mine(i) EXCEPT !.phase = "preparing"] \in Claim
            /\ [Mine(i) EXCEPT !.phase = "preparing"].token # None
        BY <1>2, ClaimWritten
      <4> QED
        BY <1>3, <3>2, <4>1, PersistReadyToGo
    <3> QED
      BY <2>1, <3>1, <3>2 DEF Prepare
  <2>2. CASE PersistReady(i)
    <3>1. /\ [Mine(i) EXCEPT !.phase = "ready", !.mailbox = TRUE] \in Claim
          /\ [Mine(i) EXCEPT !.phase = "ready", !.mailbox = TRUE].token # None
      BY <1>2, ClaimWritten
    <3> QED
      BY <1>3, <2>2, <3>1, PersistReadyToGo DEF PersistReady
  <2>3. CASE PersistWorkflow(i)
    <3>1. /\ [Mine(i) EXCEPT !.workflow = TRUE] \in Claim
          /\ [Mine(i) EXCEPT !.workflow = TRUE].token # None
      BY <1>2, ClaimWritten
    <3>2. CASE Persist(i, [Mine(i) EXCEPT !.workflow = TRUE], "tag")
      BY <1>3, <3>1, <3>2, PersistReadyToGo
    <3>3. CASE RollsBack(i, Mine(i)) /\ UNCHANGED <<claim, faults>>
      BY <1>2, <3>3, RollsBackReady DEF IInv, TypeOK
    <3> QED
      BY <2>3, <3>2, <3>3 DEF PersistWorkflow
  <2>4. CASE PersistDispatching(i)
    <3>1. /\ [Mine(i) EXCEPT !.phase = "dispatching"] \in Claim
          /\ [Mine(i) EXCEPT !.phase = "dispatching"].token # None
      BY <1>2, ClaimWritten
    <3> QED
      BY <1>3, <2>4, <3>1, PersistReadyToGo DEF PersistDispatching
  <2> QED
    BY <2>1, <2>2, <2>3, <2>4
<1>5. UNCHANGED <<mailboxes, secrets, tag, runs, issued, aged, answered, takeovers, races>>
  BY DEF Prepare, PersistReady, PersistWorkflow, PersistDispatching
<1> QED
  BY <1>4, <1>5, InvIsTyped DEF runs, IInv, TypeOK

\* putRepositorySecret writes the token of the claim.
LEMMA SecretStep ==
  ASSUME IInv, NEW i \in Slots, SealSteering(i) \/ SealProvider(i)
  PROVE  IInv'
<1>1. inv[i].pc \in Owning
  BY DEF SealSteering, SealProvider, At, Owning
<1>2. /\ inv \in [Slots -> Ready]
      /\ Mine(i) \in Claim /\ Mine(i).token # None /\ Mine(i).token \in Tokens
  BY <1>1, MineType, TokensAreSomething DEF IInv
<1>3. PICK name \in SecretNames, next \in PCs \ {"mark"} : PutSecret(i, name, next)
  BY DEF SealSteering, SealProvider, SecretNames, PCs
<1> DEFINE written == [n \in DOMAIN secrets \cup {name} |->
                          IF n = name THEN Mine(i).token ELSE secrets[n]]
<1>4. /\ DOMAIN secrets \subseteq SecretNames
      /\ secrets \in [DOMAIN secrets -> Tokens]
  BY DEF IInv, TypeOK
<1>5. DOMAIN written \subseteq SecretNames /\ written \in [DOMAIN written -> Tokens]
  BY <1>2, <1>3, <1>4
<1>6. secrets' \in {secrets, written}
  BY <1>3 DEF PutSecret
<1> HIDE DEF written
<1>7. DOMAIN secrets' \subseteq SecretNames /\ secrets' \in [DOMAIN secrets' -> Tokens]
  BY <1>4, <1>5, <1>6
<1>8. inv' \in [Slots -> Ready] /\ faults' \in Nat
  BY <1>2, <1>3, GoesReady, RollsBackReady DEF PutSecret, Fault, IInv, TypeOK
<1> QED
  BY <1>3, <1>7, <1>8, InvIsTyped DEF PutSecret, runs, IInv, TypeOK

\* The draft release and the tag carry the token of the claim.
LEMMA ResourceStep ==
  ASSUME IInv, NEW i \in Slots, CreateMailbox(i) \/ CreateTag(i)
  PROVE  IInv'
<1>1. inv[i].pc \in Owning
  BY DEF CreateMailbox, CreateTag, At, Owning
<1>2. /\ inv \in [Slots -> Ready]
      /\ Mine(i) \in Claim /\ Mine(i).token # None /\ Mine(i).token \in Tokens
  BY <1>1, MineType, TokensAreSomething DEF IInv
<1>3. {"ready", "commit"} \subseteq PCs \ {"mark"}
  BY DEF PCs
<1>4. CASE CreateMailbox(i)
  <2>1. inv' \in [Slots -> Ready] /\ faults' \in Nat
    BY <1>2, <1>3, <1>4, GoesReady, EndsReady DEF CreateMailbox, Fault, IInv, TypeOK
  <2>2. mailboxes' \subseteq Tokens
    BY <1>2, <1>4 DEF CreateMailbox, IInv, TypeOK
  <2> QED
    BY <1>4, <2>1, <2>2, InvIsTyped DEF CreateMailbox, runs, IInv, TypeOK
<1>5. CASE CreateTag(i)
  <2>1. inv' \in [Slots -> Ready] /\ faults' \in Nat
    BY <1>2, <1>3, <1>5, GoesReady, RollsBackReady DEF CreateTag, Fault, IInv, TypeOK
  <2>2. tag' \in Tokens \cup {None}
    BY <1>2, <1>5 DEF CreateTag, IInv, TypeOK
  <2> QED
    BY <1>5, <2>1, <2>2, InvIsTyped DEF CreateTag, runs, IInv, TypeOK
<1> QED
  BY <1>4, <1>5

\* The run is dispatched, located and answered.
LEMMA DispatchStep ==
  ASSUME IInv, NEW i \in Slots, Post(i) \/ Locate(i) \/ Mark(i)
  PROVE  IInv'
<1>1. inv[i].pc \in Owning
  BY DEF Post, Locate, Mark, At, Owning
<1>2. /\ inv \in [Slots -> Ready]
      /\ Mine(i) \in Claim /\ Mine(i).token # None /\ Mine(i).token \in Tokens
  BY <1>1, MineType, TokensAreSomething DEF IInv
<1>3. "locate" \in PCs \ {"mark"} /\ "mark" \in PCs
  BY DEF PCs
<1>4. ASSUME NEW r \in Tokens, Goes(i, "mark", [Mine(i) EXCEPT !.run = r])
      PROVE  inv' \in [Slots -> Ready]
  <2>1. /\ [Mine(i) EXCEPT !.run = r] \in Claim
        /\ [Mine(i) EXCEPT !.run = r].token # None
        /\ [Mine(i) EXCEPT !.run = r].run # None
    BY <1>2, ClaimWritten, TokensAreSomething
  <2> QED
    BY <1>2, <1>3, <1>4, <2>1, GoesReady
<1>5. CASE Post(i)
  <2>1. ASSUME RollsBack(i, Mine(i)) \/ Unanswered(i) \/ Goes(i, "locate", Mine(i))
        PROVE  inv' \in [Slots -> Ready]
    BY <1>2, <1>3, <2>1, GoesReady, RollsBackReady, EndsReady DEF Unanswered
  <2>2. inv' \in [Slots -> Ready]
    BY <1>2, <1>4, <1>5, <2>1 DEF Post
  <2>3. faults' \in Nat /\ accepted \subseteq accepted' /\ accepted' \subseteq Tokens
    BY <1>2, <1>5 DEF Post, Fault, IInv, TypeOK
  <2> QED
    BY <1>5, <2>2, <2>3, InvIsTyped DEF Post, repository, IInv, TypeOK
<1>6. CASE Locate(i)
  <2>1. visible \subseteq Tokens
    BY DEF IInv, TypeOK
  <2>2. inv' \in [Slots -> Ready]
    BY <1>2, <1>4, <1>6, <2>1, EndsReady DEF Locate
  <2> QED
    BY <1>6, <2>2, InvIsTyped DEF Locate, repository, runs, IInv, TypeOK
<1>7. CASE Mark(i)
  <2>1. Mine(i).run \in Tokens
    BY <1>7, <1>2, MineType DEF Mark, At
  <2>2. inv' \in [Slots -> Ready]
    BY <1>2, <1>7, EndsReady DEF Mark, Answers
  <2>3. claim' \in Claim /\ answered' \subseteq Tokens /\ faults' \in Nat
    BY <1>2, <1>7, <2>1 DEF Mark, Answers, Fault, IInv, TypeOK
  <2> QED
    BY <1>7, <2>2, <2>3, InvIsTyped DEF Mark, runs, IInv, TypeOK
<1> QED
  BY <1>5, <1>6, <1>7

\* deleteClaimResources.
LEMMA DeletionStep ==
  ASSUME IInv, NEW i \in Slots,
         Untag(i) \/ Untagging(i) \/ Unmail(i) \/ Unseal(i) \/ Unclaim(i)
  PROVE  IInv'
<1>1. /\ inv \in [Slots -> Ready] /\ Mine(i) \in Claim
      /\ races \cup LateTakeover(i) \subseteq {"blind", "late"}
  BY MineType DEF IInv, TypeOK, LateTakeover
<1>2. {"unmail", "untagging", "unseal", "unclaim", "scan"} \subseteq PCs \ Owning
  BY DEF PCs, Owning
<1>3. ASSUME NEW pc \in PCs \ Owning, NEW c \in Claim, Goes(i, pc, c)
      PROVE  inv' \in [Slots -> Ready]
  BY <1>1, <1>3, GoesReady DEF Owning
<1>4. CASE Untag(i)
  <2>1. inv' \in [Slots -> Ready]
    BY <1>1, <1>2, <1>3, <1>4, EndsReady DEF Untag
  <2> QED
    BY <1>4, <2>1, InvIsTyped DEF Untag, repository, runs, IInv, TypeOK
<1>5. CASE Untagging(i)
  <2>1. inv' \in [Slots -> Ready]
    BY <1>1, <1>2, <1>3, <1>5, EndsReady DEF Untagging
  <2>2. tag' \in Tokens \cup {None} /\ faults' \in Nat
    BY <1>5 DEF Untagging, Fault, IInv, TypeOK
  <2> QED
    BY <1>1, <1>5, <2>1, <2>2, InvIsTyped DEF Untagging, runs, IInv, TypeOK
<1>6. CASE Unmail(i)
  <2>1. inv' \in [Slots -> Ready]
    BY <1>1, <1>2, <1>3, <1>6, EndsReady DEF Unmail
  <2>2. mailboxes' \subseteq Tokens /\ faults' \in Nat
    BY <1>6 DEF Unmail, Fault, IInv, TypeOK
  <2> QED
    BY <1>6, <2>1, <2>2, InvIsTyped DEF Unmail, runs, IInv, TypeOK
<1>7. CASE Unseal(i)
  <2>1. inv' \in [Slots -> Ready]
    BY <1>1, <1>2, <1>3, <1>7, EndsReady DEF Unseal
  <2>2. PICK S \in SUBSET DOMAIN secrets : secrets' = [n \in S |-> secrets[n]]
    <3>1. CASE secrets' = <<>>
      BY <3>1
    <3>2. CASE \E S \in SUBSET DOMAIN secrets : secrets' = [n \in S |-> secrets[n]]
      BY <3>2
    <3> QED
      BY <1>7, <3>1, <3>2 DEF Unseal
  <2>3. DOMAIN secrets' \subseteq SecretNames /\ secrets' \in [DOMAIN secrets' -> Tokens]
    BY <2>2 DEF IInv, TypeOK
  <2>4. faults' \in Nat
    BY <1>7 DEF Unseal, Fault, IInv, TypeOK
  <2> QED
    BY <1>1, <1>7, <2>1, <2>3, <2>4, InvIsTyped DEF Unseal, runs, IInv, TypeOK
<1>8. CASE Unclaim(i)
  <2>1. inv' \in [Slots -> Ready]
    BY <1>1, <1>2, <1>3, <1>8, EndsReady, NoClaimType DEF Unclaim
  <2>2. claim' \in Claim /\ faults' \in Nat
    BY <1>8, NoClaimType DEF Unclaim, Fault, IInv, TypeOK
  <2> QED
    BY <1>1, <1>8, <2>1, <2>2, InvIsTyped DEF Unclaim, runs, IInv, TypeOK
<1> QED
  BY <1>4, <1>5, <1>6, <1>7, <1>8

(***************************************************************************)
(* The specification                                                       *)
(***************************************************************************)

LEMMA InitIInv == Init => IInv
<1> SUFFICES ASSUME Init PROVE IInv
  OBVIOUS
<1>1. inv \in [Slots -> Ready]
  BY IdleReady DEF Init
<1>2. inv \in [Slots -> [pc : PCs, mine : Claim, then : {"idle", "scan"},
                         since : 0 .. MaxClaims, seen : SUBSET Tokens]]
  BY <1>1 DEF Ready, Invocation
<1>3. DOMAIN secrets = {}
  BY DEF Init
<1> QED
  BY <1>1, <1>2, <1>3, NoClaimType, BoundsAssumption DEF Init, IInv, TypeOK, None

LEMMA NextIInv == IInv /\ [Next]_vars => IInv'
<1> SUFFICES ASSUME IInv, [Next]_vars PROVE IInv'
  OBVIOUS
<1>1. inv \in [Slots -> Ready] /\ accepted \subseteq Tokens /\ visible \subseteq Tokens
  BY DEF IInv, TypeOK
<1>2. ASSUME NEW i \in Dispatchers, Start(i)
      PROVE  IInv'
  <2>1. {"scan", "recover", "takeover"} \subseteq PCs \ Owning
    BY DEF PCs, Owning
  <2>2. PICK pc \in {"scan", "recover", "takeover"} : inv' = [inv EXCEPT ![i] = Began(pc)]
    BY <1>2 DEF Start
  <2>3. inv' \in [Slots -> Ready]
    BY <1>1, <2>1, <2>2, BeganReady
  <2>4. takeovers' \in Nat
    BY <1>2 DEF Start, IInv, TypeOK
  <2> QED
    BY <1>2, <2>3, <2>4, InvIsTyped DEF Start, repository, runs, IInv, TypeOK
<1>3. ASSUME NEW i \in Slots, Step(i)
      PROVE  IInv'
  BY <1>3, SearchStep, PersistStep, SecretStep, ResourceStep, DispatchStep, DeletionStep
     DEF Step
<1>4. ASSUME NEW i \in Pollers, NEW r \in answered \cap completed, Status(i, r)
      PROVE  IInv'
  <2>1. "untag" \in PCs \ Owning
    BY DEF PCs, Owning
  <2>2. inv' \in [Slots -> Ready]
    BY <1>1, <1>4, <2>1, BeganReady DEF Status
  <2> QED
    BY <1>4, <2>2, InvIsTyped DEF Status, repository, runs, IInv, TypeOK
<1>5. ASSUME NEW i \in Slots, Killed(i)
      PROVE  IInv'
  <2>1. inv' \in [Slots -> Ready] /\ faults' \in Nat
    BY <1>1, <1>5, EndsReady DEF Killed, Fault, IInv, TypeOK
  <2> QED
    BY <1>5, <2>1, InvIsTyped DEF Killed, repository, runs, IInv, TypeOK
<1>6. ASSUME NEW r \in accepted, Appear(r)
      PROVE  IInv'
  BY <1>6 DEF Appear, repository, IInv, TypeOK
<1>7. ASSUME NEW r \in visible, Complete(r)
      PROVE  IInv'
  BY <1>7 DEF Complete, repository, IInv, TypeOK
<1>8. ASSUME NEW t \in Tokens, GrowOld(t)
      PROVE  IInv'
  BY <1>8 DEF GrowOld, repository, runs, IInv, TypeOK
<1>9. CASE UNCHANGED vars
  BY <1>9 DEF vars, IInv, TypeOK
<1> QED
  BY <1>2, <1>3, <1>4, <1>5, <1>6, <1>7, <1>8, <1>9 DEF Next

\* Whatever GitHub answers and whoever runs: the claim in the repository is one
\* the service can read back, every mailbox, secret and tag carries the token of
\* a claim that was created, and dispatch answers with such a run only, never
\* with the missing run of a claim that names none.
THEOREM TypeCorrect == Spec => []TypeOK
<1>1. IInv => TypeOK
  BY DEF IInv
<1> QED
  BY <1>1, InitIInv, NextIInv, PTL DEF Spec
(***************************************************************************)
(* Who may touch the request                                               *)
(***************************************************************************)

\* At these steps an invocation holds nothing of the request.
Outside == {"idle", "recover", "scan", "check", "claim"}
Busy(i) == inv[i].pc \notin Outside

\* What a busy invocation is doing.
Reporting(i) == inv[i].pc \in {"locate", "mark"}
Deleting(i) == inv[i].pc \in {"untag", "untagging", "unmail", "unseal", "unclaim"}
RollingBack(i) == i \in Dispatchers /\ Deleting(i) /\ inv[i].then = "idle"
TakingOver(i) ==
    i \in Dispatchers /\ (inv[i].pc = "takeover" \/ (Deleting(i) /\ inv[i].then = "scan"))
Cleaning(i) == i \in Pollers /\ Deleting(i)

\* The owner of a claim prepares its run, reports it or gives up.
Owner(i) == Preparing(i) \/ Reporting(i) \/ RollingBack(i)

\* The claim is the last one created, and only those that exist grow old.
Latest ==
    /\ claim = NoClaim \/ (claim.token = issued /\ issued > 0)
    /\ \A t \in aged : t <= issued

\* A run is of the last claim, which is marked as dispatched until it is cleaned up.
Dispatched ==
    accepted # {} => /\ accepted = {issued}
                     /\ claim = NoClaim => completed # {}
                     /\ claim # NoClaim => claim.phase = "dispatching" /\ claim.workflow

\* Everything in the repository is the claim's, and its manifest covers it.
Resources ==
    /\ mailboxes \subseteq {claim.token} /\ tag \in {None, claim.token}
    /\ tag # None => claim.workflow
    /\ claim.phase = "bare" => mailboxes = {}
    /\ claim = NoClaim => DOMAIN secrets = {}

\* A run that has not ended has its mailbox and its key.
Mailed ==
    \A r \in accepted \ completed :
        /\ r \in mailboxes
        /\ "steering" \in DOMAIN secrets /\ secrets["steering"] = r

Globals == Latest /\ Dispatched /\ Resources /\ Mailed

\* The owner that prepares a run, at each of its steps.
Prepared(i) ==
    Preparing(i) =>
        /\ claim = Mine(i) /\ inv[i].since < claim.token /\ accepted = {}
        /\ inv[i].pc = "prepare" => claim.phase = "bare"
        /\ inv[i].pc # "prepare" => claim.phase # "bare"
        /\ inv[i].pc \in {"tag", "commit", "post"} => claim.workflow
        /\ inv[i].pc = "post" => claim.phase = "dispatching"
        /\ inv[i].pc \notin {"prepare", "seal"} =>
              "steering" \in DOMAIN secrets /\ secrets["steering"] = claim.token
        /\ inv[i].pc \notin {"prepare", "seal", "mailbox"} => claim.token \in mailboxes

\* The owner whose run was accepted; a poll may have cleaned up meanwhile.
Reported(i) ==
    Reporting(i) => /\ accepted # {} /\ Mine(i).token = issued
                    /\ Mine(i).phase = "dispatching" /\ Mine(i).workflow

\* The owner that gives up: its manifest is not behind the claim's.
RolledBack(i) ==
    RollingBack(i) =>
        /\ claim # NoClaim /\ inv[i].since < claim.token /\ accepted = {}
        /\ Mine(i).token = claim.token
        /\ claim.workflow => Mine(i).workflow
        /\ Mine(i).phase = "bare" => mailboxes = {}

\* An invocation that takes over an old claim: as long as it is still the request's,
\* nobody has changed it, and no run of it was accepted.
TakenOver(i) ==
    TakingOver(i) =>
        /\ Mine(i).token # None /\ Mine(i).token \in aged /\ Mine(i).phase # "bare"
        /\ claim.token = Mine(i).token => claim = Mine(i) /\ accepted = {}

\* One that cleans up a run that has ended.
CleanedUp(i) ==
    Cleaning(i) => /\ completed # {} /\ Mine(i).token = issued
                   /\ Mine(i).phase = "dispatching" /\ Mine(i).workflow

\* What was deleted of the claim in hand stays deleted, as long as there is no newer
\* claim.
InHand(i) == claim.token \in {None, Mine(i).token}
Deleted(i) ==
    InHand(i) =>
        /\ inv[i].pc \in {"unmail", "unseal", "unclaim"} => tag = None
        /\ inv[i].pc \in {"unseal", "unclaim"} => mailboxes = {}
        /\ inv[i].pc = "unclaim" => DOMAIN secrets = {}

\* Pollers only clean up.
Role(i) == i \in Pollers => inv[i].pc = "idle" \/ (Deleting(i) /\ inv[i].then = "idle")

\* An invocation is younger than the claims that have grown old.
Since(i) ==
    /\ inv[i].since <= issued
    /\ \A t \in aged : inv[i].pc = "idle" \/ inv[i].since >= t

\* A dispatch goes for a claim when its search has found nothing.
Searched(i) == inv[i].pc \in {"check", "claim"} => inv[i].seen = {}

Fits(i) ==
    /\ Prepared(i) /\ Reported(i) /\ RolledBack(i) /\ TakenOver(i) /\ CleanedUp(i)
    /\ Deleted(i) /\ Role(i) /\ Since(i) /\ Searched(i)

\* One invocation at a time owns the request.
Alone == \A i, j \in Slots : Owner(i) /\ Owner(j) => i = j

SInv == IInv /\ Globals /\ Alone /\ \A i \in Slots : Fits(i)

(***************************************************************************)
(* What follows from the invariant                                         *)
(***************************************************************************)

\* The numbers are numbers.
LEMMA Typed ==
  ASSUME IInv, NEW i \in Slots
  PROVE  /\ claim \in Claim /\ claim.token \in Nat
         /\ issued \in Nat /\ inv[i].since \in Nat /\ aged \subseteq Nat
         /\ inv[i] \in Invocation /\ Mine(i) \in Claim /\ Mine(i).token \in Nat
         /\ inv[i].pc \in PCs /\ inv[i].then \in {"idle", "scan"}
         /\ inv[i].pc \in Owning => Mine(i).token # None
<1>1. claim \in Claim /\ inv[i] \in Invocation /\ issued \in 0 .. MaxClaims /\ aged \subseteq Tokens
  BY DEF IInv, TypeOK, Invocation
<1>2. Tokens \subseteq Nat /\ None \in Nat
  BY BoundsAssumption DEF Tokens, None
<1>3. inv[i].since \in Nat /\ inv[i].pc \in PCs /\ inv[i].then \in {"idle", "scan"}
  BY <1>1, BoundsAssumption DEF Invocation
<1>4. Mine(i) \in Claim
  BY <1>1 DEF Invocation, Mine
<1>5. claim.token \in Nat /\ Mine(i).token \in Nat
  BY <1>1, <1>2, <1>4 DEF Claim
<1>6. inv[i].pc \in Owning => Mine(i).token # None
  BY DEF IInv, Ready, Equipped, Mine
<1> QED
  BY <1>1, <1>2, <1>3, <1>4, <1>5, <1>6, BoundsAssumption

\* Every busy invocation is of one of five kinds.
LEMMA Kinds ==
  ASSUME IInv, NEW i \in Slots, Busy(i), Role(i)
  PROVE  Owner(i) \/ TakingOver(i) \/ Cleaning(i)
<1>1. inv[i].pc \in PCs /\ inv[i].then \in {"idle", "scan"}
  BY Typed
<1>2. Preparing(i) \/ Reporting(i) \/ Deleting(i) \/ inv[i].pc = "takeover"
  BY <1>1 DEF Busy, Outside, PCs, Preparing, Reporting, Deleting
<1>3. i \in Dispatchers \/ i \in Pollers
  BY DEF Slots
<1>4. inv[i].pc = "takeover" => i \in Dispatchers
  BY <1>3 DEF Role, Deleting
<1> QED
  BY <1>1, <1>2, <1>3, <1>4 DEF Owner, RollingBack, TakingOver, Cleaning

\* Without a claim nothing of the request is in the repository.
LEMMA Cleared ==
  ASSUME IInv, Latest, Resources, claim.token = None
  PROVE  claim = NoClaim /\ tag = None /\ mailboxes = {} /\ DOMAIN secrets = {}
<1>1. issued \in Nat /\ mailboxes \subseteq Tokens
  BY BoundsAssumption DEF IInv, TypeOK
<1>2. claim = NoClaim
  BY <1>1 DEF Latest, None
<1> QED
  BY <1>1, <1>2, TokensAreSomething DEF Resources

LEMMA ClearedNext ==
  ASSUME IInv', Latest', Resources', claim'.token = None
  PROVE  tag' = None /\ mailboxes' = {} /\ DOMAIN secrets' = {}
<1>1. issued' \in Nat /\ mailboxes' \subseteq Tokens
  BY BoundsAssumption DEF IInv, TypeOK
<1>2. claim' = NoClaim
  BY <1>1 DEF Latest, None
<1> QED
  BY <1>1, <1>2, TokensAreSomething DEF Resources

\* The claim the service finds has a token.
LEMMA ClaimHasToken ==
  ASSUME IInv, Latest, claim # NoClaim
  PROVE  claim.token # None /\ claim.token = issued
<1>1. issued \in Nat
  BY BoundsAssumption DEF IInv, TypeOK
<1> QED
  BY <1>1 DEF Latest, None

\* Only accepted runs end.
LEMMA EndedWasAccepted ==
  ASSUME IInv, accepted = {}
  PROVE  completed = {}
BY DEF IInv, TypeOK

\* Besides the owner before the dispatch there are only late takeovers of older
\* claims.
Stale(i) == TakingOver(i) /\ claim.token # Mine(i).token

LEMMA Apart ==
  ASSUME SInv, NEW i \in Slots, Preparing(i) \/ RollingBack(i), NEW j \in Slots, j # i, Busy(j)
  PROVE  Stale(j)
<1>1. Fits(i) /\ Fits(j) /\ IInv
  BY DEF SInv
<1>2. accepted = {} /\ completed = {} /\ inv[i].since < claim.token
  BY <1>1, EndedWasAccepted DEF Fits, Prepared, RolledBack
<1>3. ~Owner(j) /\ ~Cleaning(j)
  BY <1>1, <1>2 DEF SInv, Alone, Owner, Fits, CleanedUp
<1>4. TakingOver(j)
  BY <1>1, <1>3, Kinds DEF Fits
<1>5. claim.token \notin aged
  <2>1. inv[i].pc # "idle"
    BY DEF Preparing, RollingBack, Deleting
  <2>2. inv[i].since \in Nat /\ claim.token \in Nat
    BY <1>1, Typed
  <2> QED
    BY <1>1, <1>2, <2>1, <2>2 DEF Fits, Since
<1> QED
  BY <1>1, <1>4, <1>5 DEF Stale, Fits, TakenOver

\* Besides an owner that reports its run there are also polls that clean up.
LEMMA ApartFromReport ==
  ASSUME SInv, NEW i \in Slots, Reporting(i), NEW j \in Slots, j # i, Busy(j)
  PROVE  Stale(j) \/ Cleaning(j)
<1>1. Fits(i) /\ Fits(j) /\ IInv
  BY DEF SInv
<1>2. accepted # {} /\ ~Owner(j)
  BY <1>1 DEF Fits, Reported, SInv, Alone, Owner
<1> QED
  BY <1>1, <1>2, Kinds DEF Fits, Stale, TakenOver

(***************************************************************************)
(* One invocation moves                                                    *)
(***************************************************************************)

Moved(i) == \A j \in Slots : j # i => inv'[j] = inv[j]
env == <<claim, mailboxes, secrets, tag, accepted, completed, issued, aged>>

LEMMA GoesTo ==
  ASSUME IInv, NEW i \in Slots, NEW pc, NEW c, Goes(i, pc, c)
  PROVE  /\ Moved(i) /\ inv'[i].pc = pc /\ Mine(i)' = c
         /\ inv'[i].then = inv[i].then /\ inv'[i].since = inv[i].since
         /\ inv'[i].seen = inv[i].seen
<1>1. inv \in [Slots -> Ready] /\ inv[i] \in Invocation
  BY Typed DEF IInv
<1>2. inv' = [inv EXCEPT ![i] = [inv[i] EXCEPT !.pc = pc, !.mine = c]]
  BY DEF Goes
<1>3. inv'[i] = [inv[i] EXCEPT !.pc = pc, !.mine = c] /\ Moved(i)
  BY <1>1, <1>2 DEF Moved
<1> QED
  BY <1>1, <1>3 DEF Invocation, Mine

LEMMA DeletesTo ==
  ASSUME IInv, NEW i \in Slots, NEW c, NEW next, Deletes(i, c, next)
  PROVE  /\ Moved(i) /\ inv'[i].pc = "untag" /\ Mine(i)' = c
         /\ inv'[i].then = next /\ inv'[i].since = inv[i].since
         /\ inv'[i].seen = inv[i].seen
<1>1. inv \in [Slots -> Ready] /\ inv[i] \in Invocation
  BY Typed DEF IInv
<1>2. inv' = [inv EXCEPT ![i] = [inv[i] EXCEPT !.pc = "untag", !.mine = c, !.then = next]]
  BY DEF Deletes
<1>3. inv'[i] = [inv[i] EXCEPT !.pc = "untag", !.mine = c, !.then = next] /\ Moved(i)
  BY <1>1, <1>2 DEF Moved
<1> QED
  BY <1>1, <1>3 DEF Invocation, Mine

LEMMA BeganTo ==
  ASSUME IInv, NEW i \in Slots, NEW pc, inv' = [inv EXCEPT ![i] = Began(pc)]
  PROVE  /\ Moved(i) /\ inv'[i].pc = pc /\ Mine(i)' = claim
         /\ inv'[i].then = "idle" /\ inv'[i].since = issued
         /\ inv'[i].seen = {}
<1>1. inv \in [Slots -> Ready]
  BY DEF IInv
<1>2. inv'[i] = Began(pc) /\ Moved(i)
  BY <1>1 DEF Moved
<1> QED
  BY <1>2 DEF Began, Idle, Mine

\* An invocation outside fits whatever the repository holds.
LEMMA OutsideFits ==
  ASSUME NEW i \in Slots, inv'[i].pc \in Outside, i \in Pollers => inv'[i].pc = "idle",
         Since(i)', Searched(i)'
  PROVE  Fits(i)' /\ ~Busy(i)' /\ ~Owner(i)'
<1>1. ~Busy(i)' /\ ~Preparing(i)' /\ ~Reporting(i)' /\ ~Deleting(i)' /\ inv'[i].pc # "takeover"
  BY DEF Busy, Outside, Preparing, Reporting, Deleting
<1>2. Deleted(i)' /\ Role(i)'
  BY DEF Outside, Deleted, Role
<1> QED
  BY <1>1, <1>2 DEF Fits, Prepared, Reported, RolledBack, RollingBack, TakenOver, TakingOver,
                   CleanedUp, Cleaning, Owner

\* So does one that ends.
LEMMA EndsFits ==
  ASSUME SInv, IInv', NEW i \in Slots, Ends(i)
  PROVE  Moved(i) /\ Fits(i)' /\ ~Owner(i)'
<1>1. inv \in [Slots -> Ready]
  BY DEF SInv, IInv
<1>2. inv'[i] = Idle /\ Moved(i)
  BY <1>1 DEF Ends, Moved
<1>3. issued' \in Nat
  BY BoundsAssumption DEF IInv, TypeOK
<1>4. Since(i)' /\ Searched(i)'
  BY <1>2, <1>3 DEF Since, Searched, Idle, None
<1> QED
  BY <1>2, <1>4, OutsideFits DEF Idle, Outside

\* The others fit after a step that leaves the repository alone,
LEMMA SameFits ==
  ASSUME NEW j \in Slots, Fits(j), inv'[j] = inv[j], UNCHANGED env
  PROVE  Fits(j)' /\ Owner(j)' = Owner(j)
<1>1. Owner(j)' = Owner(j)
  BY DEF Owner, Preparing, Reporting, RollingBack, Deleting
<1>2. Prepared(j)' /\ Reported(j)' /\ RolledBack(j)'
  BY DEF env, Fits, Prepared, Preparing, Reported, Reporting, RolledBack, RollingBack, Deleting, Mine
<1>3. TakenOver(j)' /\ CleanedUp(j)' /\ Deleted(j)'
  BY DEF env, Fits, TakenOver, TakingOver, CleanedUp, Cleaning, Deleting, Deleted, InHand, Mine
<1>4. Role(j)' /\ Since(j)' /\ Searched(j)'
  BY DEF env, Fits, Role, Since, Searched, Deleting
<1> QED
  BY <1>1, <1>2, <1>3, <1>4 DEF Fits

\* and, when they own nothing, after a step that does not touch what they have in
\* hand or deletes some of it.
Deletion == /\ tag' \in {tag, None} /\ mailboxes' \subseteq mailboxes
            /\ DOMAIN secrets' \subseteq DOMAIN secrets

LEMMA OtherFits ==
  ASSUME SInv, IInv', Latest', Resources', NEW j \in Slots, inv'[j] = inv[j],
         issued' \in {issued, issued + 1}, completed' = completed, aged' = aged,
         \/ ~Busy(j)
         \/ TakingOver(j) /\ claim'.token # Mine(j).token
         \/ Cleaning(j) /\ issued' = issued /\ Deletion /\ claim'.token \in {claim.token, None}
  PROVE  Fits(j)' /\ ~Owner(j)'
<1>1. Fits(j) /\ IInv /\ issued \in Nat /\ inv[j].since \in Nat
  BY Typed DEF SInv
<1>2. Since(j)' /\ Searched(j)' /\ Role(j)'
  BY <1>1 DEF Fits, Since, Searched, Role, Deleting
<1>3. CASE ~Busy(j)
  <2>1. inv'[j].pc \in Outside /\ (j \in Pollers => inv'[j].pc = "idle")
    BY <1>1, <1>3 DEF Busy, Outside, Fits, Role, Deleting
  <2> QED
    BY <1>2, <2>1, OutsideFits
<1>4. CASE TakingOver(j) /\ claim'.token # Mine(j).token
  <2>1. /\ TakingOver(j)' /\ j \notin Pollers /\ ~Preparing(j)' /\ ~Reporting(j)'
        /\ ~RollingBack(j)' /\ ~Cleaning(j)' /\ Mine(j)' = Mine(j)
    BY <1>4, SlotsAssumption DEF TakingOver, Deleting, Preparing, Reporting, RollingBack,
       Cleaning, Mine
  <2>2. TakenOver(j)'
    BY <1>1, <1>4, <2>1 DEF Fits, TakenOver
  <2>3. Deleted(j)'
    <3>1. SUFFICES ASSUME InHand(j)' PROVE Deleted(j)'
      BY DEF Deleted
    <3>2. claim'.token = None
      BY <1>4, <2>1, <3>1 DEF InHand
    <3>3. tag' = None /\ mailboxes' = {} /\ DOMAIN secrets' = {}
      BY <3>2, ClearedNext
    <3> QED
      BY <3>3 DEF Deleted
  <2> QED
    BY <1>2, <2>1, <2>2, <2>3 DEF Fits, Prepared, Reported, RolledBack, CleanedUp, Owner
<1>5. CASE Cleaning(j) /\ issued' = issued /\ Deletion /\ claim'.token \in {claim.token, None}
  <2>1. /\ Cleaning(j)' /\ j \notin Dispatchers /\ ~Preparing(j)' /\ ~Reporting(j)'
        /\ ~RollingBack(j)' /\ ~TakingOver(j)' /\ Mine(j)' = Mine(j)
    BY <1>5, SlotsAssumption DEF TakingOver, Deleting, Preparing, Reporting, RollingBack,
       Cleaning, Mine
  <2>2. CleanedUp(j)'
    BY <1>1, <1>5, <2>1 DEF Fits, CleanedUp
  <2>3. Deleted(j)'
    <3>1. SUFFICES ASSUME InHand(j)' PROVE Deleted(j)'
      BY DEF Deleted
    <3>2. InHand(j)
      <4>1. claim.token = None \/ claim.token = issued
        BY DEF SInv, Globals, Latest, NoClaim
      <4>2. Mine(j).token = issued
        BY <1>1, <1>5 DEF Fits, CleanedUp
      <4> QED
        BY <4>1, <4>2 DEF InHand
    <3> QED
      BY <1>1, <1>5, <3>2 DEF Fits, Deleted, Deletion
  <2> QED
    BY <1>2, <2>1, <2>2, <2>3 DEF Fits, Prepared, Reported, RolledBack, TakenOver, Owner
<1> QED
  BY <1>3, <1>4, <1>5

\* A step that leaves the repository alone.
LEMMA QuietStep ==
  ASSUME SInv, IInv', NEW i \in Slots, Moved(i), UNCHANGED env, Fits(i)',
         Owner(i)' => Owner(i)
  PROVE  SInv'
<1>1. Globals'
  BY DEF SInv, Globals, Latest, Dispatched, Resources, Mailed, env
<1>2. \A j \in Slots : j # i => Fits(j)' /\ Owner(j)' = Owner(j)
  BY SameFits DEF SInv, Moved
<1>3. Alone'
  BY <1>2 DEF SInv, Alone
<1> QED
  BY <1>1, <1>2, <1>3 DEF SInv

\* A step of the owner before the dispatch: the others are outside or late.
LEMMA OwnerStep ==
  ASSUME SInv, IInv', NEW i \in Slots, Preparing(i), Moved(i),
         UNCHANGED <<completed, issued, aged>>, claim'.token = claim.token,
         Globals', Fits(i)'
  PROVE  SInv'
<1>1. ASSUME NEW j \in Slots, j # i
      PROVE  Fits(j)' /\ ~Owner(j)'
  <2>1. ~Busy(j) \/ Stale(j)
    BY <1>1, Apart
  <2> QED
    BY <1>1, <2>1, OtherFits DEF Moved, Stale, Globals
<1>2. Alone'
  BY <1>1 DEF Alone
<1> QED
  BY <1>1, <1>2 DEF SInv

(***************************************************************************)
(* Steps that look for earlier work                                        *)
(***************************************************************************)

LEMMA EndsQuietly ==
  ASSUME SInv, IInv', NEW i \in Slots, Ends(i), UNCHANGED env
  PROVE  SInv'
BY EndsFits, QuietStep

LEMMA RecoverSafe ==
  ASSUME SInv, IInv', NEW i \in Slots, Recover(i)
  PROVE  SInv'
<1>1. Ends(i)
  BY DEF Recover, Answers
<1>2. UNCHANGED env
  BY DEF Recover, env, repository, runs
<1> QED
  BY <1>1, <1>2, EndsQuietly

\* A search that goes on stays outside.
LEMMA SearchGoesOn ==
  ASSUME SInv, IInv', NEW i \in Slots, i \in Dispatchers, inv[i].pc # "idle",
         NEW pc \in Outside \ {"idle"}, Moved(i), UNCHANGED env,
         inv'[i].pc = pc, inv'[i].since = inv[i].since, Searched(i)'
  PROVE  SInv'
<1>1. Fits(i) /\ issued' = issued /\ aged' = aged
  BY DEF SInv, env
<1>2. Since(i)'
  BY <1>1 DEF Fits, Since
<1>3. i \notin Pollers
  BY SlotsAssumption
<1>4. Fits(i)' /\ ~Owner(i)'
  BY <1>2, <1>3, OutsideFits
<1> QED
  BY <1>4, QuietStep

LEMMA ScanSafe ==
  ASSUME SInv, IInv', NEW i \in Slots, Scan(i)
  PROVE  SInv'
<1>1. inv[i].pc = "scan" /\ UNCHANGED env /\ Fits(i)
  BY DEF Scan, At, env, repository, runs, SInv
<1>2. CASE Ends(i)
  BY <1>1, <1>2, EndsQuietly
<1>3. CASE /\ visible = {}
           /\ inv' = [inv EXCEPT ![i].pc = "check", ![i].mine = NoClaim, ![i].seen = visible]
  <2>1. i \in Dispatchers /\ "check" \in Outside \ {"idle"}
    BY <1>1 DEF Outside, Fits, Role, Deleting, Slots
  <2>2. inv \in [Slots -> Ready] /\ inv[i] \in Invocation
    BY Typed DEF SInv, IInv
  <2>3. inv'[i] = [inv[i] EXCEPT !.pc = "check", !.mine = NoClaim, !.seen = {}] /\ Moved(i)
    BY <1>3, <2>2 DEF Moved
  <2>4. inv'[i].pc = "check" /\ inv'[i].since = inv[i].since /\ inv'[i].seen = {}
    BY <2>2, <2>3 DEF Invocation
  <2> QED
    BY <1>1, <2>1, <2>3, <2>4, SearchGoesOn DEF Searched
<1> QED
  BY <1>2, <1>3 DEF Scan, Answers

LEMMA CheckSafe ==
  ASSUME SInv, IInv', NEW i \in Slots, Check(i)
  PROVE  SInv'
<1>1. inv[i].pc = "check" /\ UNCHANGED env /\ Fits(i)
  BY DEF Check, At, env, repository, runs, SInv
<1>2. CASE Ends(i)
  BY <1>1, <1>2, EndsQuietly
<1>3. CASE Goes(i, "claim", NoClaim)
  <2>1. i \in Dispatchers /\ "claim" \in Outside \ {"idle"}
    BY <1>1 DEF Outside, Fits, Role, Deleting, Slots
  <2>2. /\ Moved(i) /\ inv'[i].pc = "claim" /\ inv'[i].since = inv[i].since
        /\ inv'[i].seen = inv[i].seen
    BY <1>3, GoesTo DEF SInv
  <2>3. Searched(i)'
    BY <1>1, <2>2 DEF Fits, Searched
  <2> QED
    BY <1>1, <2>1, <2>2, <2>3, SearchGoesOn
<1> QED
  BY <1>2, <1>3 DEF Check

\* Creating the claim is the one atomic test there is.  It is enough unless a run has
\* ended since the search: nobody owns the request when it succeeds.
LEMMA ClaimRequestSafe ==
  ASSUME SInv, IInv', races' = {}, NEW i \in Slots, ClaimRequest(i)
  PROVE  SInv'
<1>1. /\ inv[i].pc = "claim" /\ Fits(i) /\ i \in Dispatchers /\ i \notin Pollers
      /\ inv[i].seen = {}
  <2>1. inv[i].pc = "claim" /\ Fits(i)
    BY DEF ClaimRequest, At, SInv
  <2>2. i \in Dispatchers /\ i \notin Pollers
    BY <2>1, SlotsAssumption DEF Fits, Role, Deleting, Slots
  <2> QED
    BY <2>1, <2>2 DEF Fits, Searched
<1>2. UNCHANGED <<mailboxes, secrets, tag, accepted, completed, aged>>
  BY DEF ClaimRequest, runs
<1>3. CASE claim # NoClaim /\ Goes(i, "recover", claim) /\ UNCHANGED <<claim, issued, races, faults>>
  <2>1. UNCHANGED env /\ "recover" \in Outside \ {"idle"}
    BY <1>2, <1>3 DEF env, Outside
  <2>2. Moved(i) /\ inv'[i].pc = "recover" /\ inv'[i].since = inv[i].since
    BY <1>3, GoesTo DEF SInv
  <2> QED
    BY <1>1, <2>1, <2>2, SearchGoesOn DEF Searched
<1>4. CASE /\ claim = NoClaim
           /\ issued' = issued + 1
           /\ claim' = FreshClaim(issued + 1)
           /\ races' = races \cup Blind(i)
           /\ Goes(i, "prepare", FreshClaim(issued + 1)) \/ Ends(i)
  <2> DEFINE c == FreshClaim(issued + 1)
  <2>1. /\ issued \in Nat /\ inv[i].since \in Nat /\ inv[i].since <= issued
        /\ \A t \in aged : t \in Nat /\ t <= issued
    BY <1>1, Typed DEF SInv, Fits, Since, Globals, Latest
  <2>2. /\ c.token = issued + 1 /\ c.phase = "bare" /\ ~c.workflow
        /\ c # NoClaim
    BY <2>1 DEF FreshClaim, NoClaim, None
  <2> HIDE DEF c
  <2>3. completed = {}
    BY <1>1, <1>4 DEF Blind
  <2>4. claim.token = None /\ accepted = {}
    BY <1>4, <2>3 DEF NoClaim, SInv, Globals, Dispatched
  <2>5. mailboxes = {} /\ tag = None
    BY <1>4, <2>4, Cleared DEF SInv, Globals
  <2>6. Globals'
    <3>1. Latest'
      BY <1>2, <1>4, <2>1, <2>2 DEF Latest, c
    <3>2. Dispatched' /\ Mailed'
      BY <1>2, <2>4 DEF Dispatched, Mailed
    <3>3. Resources'
      BY <1>2, <1>4, <2>2, <2>5 DEF Resources, c
    <3> QED
      BY <3>1, <3>2, <3>3 DEF Globals
  <2>7. Moved(i) /\ Fits(i)'
    <3>1. CASE Ends(i)
      BY <3>1, EndsFits
    <3>2. CASE Goes(i, "prepare", c)
      <4>1. /\ Moved(i) /\ inv'[i].pc = "prepare" /\ Mine(i)' = c
            /\ inv'[i].since = inv[i].since
        BY <1>1, <3>2, GoesTo DEF SInv
      <4>2. Prepared(i)'
        BY <1>2, <1>4, <2>1, <2>2, <2>4, <4>1 DEF Prepared, c
      <4>3. ~Reporting(i)' /\ ~Deleting(i)'
        BY <4>1 DEF Reporting, Deleting
      <4>4. Deleted(i)' /\ Role(i)' /\ Searched(i)'
        BY <1>1, <4>1 DEF Deleted, Role, Searched
      <4>5. Since(i)'
        BY <1>1, <1>2, <1>4, <2>1, <4>1 DEF Fits, Since
      <4> QED
        BY <4>1, <4>2, <4>3, <4>4, <4>5 DEF Fits, Reported, RolledBack, RollingBack, TakenOver,
           TakingOver, CleanedUp, Cleaning
    <3> QED
      BY <1>4, <3>1, <3>2 DEF c
  <2>8. ASSUME NEW j \in Slots, j # i
        PROVE  Fits(j)' /\ ~Owner(j)'
    <3>1. Fits(j) /\ inv'[j] = inv[j]
      BY <2>7, <2>8 DEF SInv, Moved
    <3>2. ~Owner(j) /\ ~Cleaning(j)
      <4>1. ~Reporting(j) /\ ~RollingBack(j) /\ ~Cleaning(j)
        BY <1>4, <2>3, <2>4, <3>1 DEF Fits, Reported, RolledBack, CleanedUp
      <4>2. ~Preparing(j)
        <5>1. inv[j].since \in Nat /\ claim.token = 0
          BY <2>4, Typed DEF SInv, None
        <5> QED
          BY <3>1, <5>1 DEF Fits, Prepared
      <4> QED
        BY <4>1, <4>2 DEF Owner
    <3>3. CASE Busy(j)
      <4>1. TakingOver(j)
        BY <3>1, <3>2, <3>3, Kinds DEF SInv, Fits
      <4>2. Mine(j).token \in aged
        BY <3>1, <4>1 DEF Fits, TakenOver
      <4>3. claim'.token # Mine(j).token
        BY <1>4, <2>1, <2>2, <4>2 DEF c
      <4> QED
        BY <1>2, <1>4, <2>6, <3>1, <4>1, <4>3, OtherFits DEF Globals
    <3>4. CASE ~Busy(j)
      BY <1>2, <1>4, <2>6, <3>1, <3>4, OtherFits DEF Globals
    <3> QED
      BY <3>3, <3>4
  <2>9. Alone'
    BY <2>8 DEF Alone
  <2> QED
    BY <2>6, <2>7, <2>8, <2>9 DEF SInv
<1> QED
  BY <1>3, <1>4 DEF ClaimRequest

(***************************************************************************)
(* Steps of the owner                                                      *)
(***************************************************************************)

\* What the owner of a claim that prepares its run knows.
LEMMA OwnerKnows ==
  ASSUME SInv, NEW i \in Slots, Preparing(i)
  PROVE  /\ i \in Dispatchers /\ i \notin Pollers
         /\ Prepared(i) /\ claim = Mine(i) /\ claim # NoClaim /\ accepted = {}
         /\ claim.token = issued /\ claim.token # None /\ inv[i].since < claim.token
         /\ Since(i)
<1>1. inv[i].pc # "idle" /\ ~Deleting(i) /\ inv[i].pc \in Owning
  BY DEF Preparing, Deleting, Owning
<1>2. i \in Dispatchers /\ i \notin Pollers
  BY <1>1 DEF SInv, Fits, Role, Slots
<1>3. /\ Prepared(i) /\ Since(i) /\ claim = Mine(i) /\ accepted = {}
      /\ inv[i].since < claim.token
  BY DEF SInv, Fits, Prepared
<1>4. claim.token # None
  BY <1>1, <1>3, Typed DEF SInv
<1>5. claim # NoClaim
  BY <1>4, NoClaimType
<1>6. claim.token = issued
  BY <1>5 DEF SInv, Globals, Latest
<1> QED
  BY <1>2, <1>3, <1>4, <1>5, <1>6

\* A rollback has a manifest that covers what there is.
LEMMA RollsBackFits ==
  ASSUME SInv, NEW i \in Slots, Preparing(i), NEW c, RollsBack(i, c),
         UNCHANGED <<completed, issued, aged>>,
         claim' # NoClaim, claim'.token = claim.token, accepted' = {},
         c.token = claim'.token, claim'.workflow => c.workflow,
         c.phase = "bare" => mailboxes' = {}
  PROVE  Moved(i) /\ Fits(i)'
<1>1. Deletes(i, c, "idle") /\ IInv
  BY DEF RollsBack, SInv
<1>2. /\ Moved(i) /\ inv'[i].pc = "untag" /\ Mine(i)' = c
      /\ inv'[i].then = "idle" /\ inv'[i].since = inv[i].since
  BY <1>1, DeletesTo
<1>3. ~Preparing(i)' /\ ~Reporting(i)' /\ ~TakingOver(i)' /\ ~Cleaning(i)' /\ Searched(i)'
  BY <1>2, OwnerKnows DEF Preparing, Reporting, TakingOver, Cleaning, Searched
<1>4. RolledBack(i)'
  BY <1>2, OwnerKnows DEF RolledBack
<1>5. Deleted(i)' /\ Role(i)'
  BY <1>2, OwnerKnows DEF Deleted, Role
<1>6. Since(i)'
  BY <1>2, OwnerKnows DEF Since, Preparing
<1> QED
  BY <1>2, <1>3, <1>4, <1>5, <1>6 DEF Fits, Prepared, Reported, TakenOver, CleanedUp

\* The owner goes on preparing.
LEMMA PreparesFits ==
  ASSUME SInv, NEW i \in Slots, Preparing(i), NEW pc, NEW c, Goes(i, pc, c),
         UNCHANGED <<completed, issued, aged>>, Preparing(i)', Prepared(i)'
  PROVE  Moved(i) /\ Fits(i)'
<1>1. Moved(i) /\ inv'[i].since = inv[i].since
  BY GoesTo DEF SInv
<1>2. ~Reporting(i)' /\ ~Deleting(i)' /\ inv'[i].pc # "takeover" /\ inv'[i].pc # "idle"
  BY DEF Preparing, Reporting, Deleting
<1>3. Deleted(i)' /\ Role(i)' /\ Since(i)' /\ Searched(i)'
  BY <1>1, <1>2, OwnerKnows DEF Deleted, Deleting, Role, Since, Searched, Preparing
<1> QED
  BY <1>1, <1>2, <1>3 DEF Fits, Reported, RolledBack, RollingBack, TakenOver, TakingOver,
     CleanedUp, Cleaning

\* Only the owner writes the claim, and what it writes is never behind it.
LEMMA PersistSafe ==
  ASSUME SInv, IInv', NEW i \in Slots, Preparing(i), NEW c \in Claim,
         NEW next \in {"seal", "provider", "tag", "post"}, Persist(i, c, next),
         c.token = claim.token, claim.workflow => c.workflow, c.phase # "bare",
         next \in {"tag", "post"} => c.workflow,
         next = "post" => c.phase = "dispatching",
         next # "seal" => "steering" \in DOMAIN secrets /\ secrets["steering"] = claim.token,
         next # "seal" => claim.token \in mailboxes,
         UNCHANGED <<mailboxes, secrets, tag, accepted, completed, issued, aged>>
  PROVE  SInv'
<1>1. /\ claim # NoClaim /\ accepted = {} /\ claim = Mine(i)
      /\ claim.token = issued /\ claim.token # None /\ inv[i].since < claim.token
  BY OwnerKnows
<1>2. c # NoClaim
  BY <1>1, NoClaimType
<1>3. claim' \in {claim, c} /\ claim' # NoClaim /\ claim'.token = claim.token
  BY <1>1, <1>2 DEF Persist
<1>4. Globals'
  <2>1. Latest'
    BY <1>1, <1>3 DEF SInv, Globals, Latest
  <2>2. Dispatched' /\ Mailed'
    BY <1>1 DEF Dispatched, Mailed
  <2>3. Resources'
    BY <1>3 DEF SInv, Globals, Resources
  <2> QED
    BY <2>1, <2>2, <2>3 DEF Globals
<1>5. Moved(i) /\ Fits(i)'
  <2>1. CASE claim' = c /\ Goes(i, next, c)
    <3>1. /\ inv'[i].pc = next /\ Mine(i)' = c /\ inv'[i].since = inv[i].since
      BY <2>1, GoesTo DEF SInv
    <3>2. Preparing(i)'
      BY <3>1 DEF Preparing
    <3>3. Prepared(i)'
      BY <1>1, <2>1, <3>1 DEF Prepared
    <3> QED
      BY <2>1, <3>2, <3>3, PreparesFits
  <2>2. CASE RollsBack(i, c)
    <3>1. claim'.workflow => c.workflow
      BY <1>3
    <3> QED
      BY <1>1, <1>3, <2>2, <3>1, RollsBackFits
  <2> QED
    BY <1>1, <2>1, <2>2 DEF Persist
<1> QED
  BY <1>3, <1>4, <1>5, OwnerStep

\* The owner gives up, and nothing else happens.
LEMMA OwnerRollsBack ==
  ASSUME SInv, IInv', NEW i \in Slots, Preparing(i), RollsBack(i, Mine(i)),
         UNCHANGED <<claim, accepted, completed, issued, aged>>, Globals',
         Mine(i).phase = "bare" => mailboxes' = {}
  PROVE  SInv'
<1>1. claim # NoClaim /\ accepted = {} /\ claim = Mine(i)
  BY OwnerKnows
<1>2. UNCHANGED <<completed, issued, aged>>
  OBVIOUS
<1>3. Moved(i) /\ Fits(i)'
  BY <1>1, <1>2, RollsBackFits
<1> QED
  BY <1>2, <1>3, OwnerStep

LEMMA PersistsSafe ==
  ASSUME SInv, IInv', NEW i \in Slots,
         Prepare(i) \/ PersistReady(i) \/ PersistWorkflow(i) \/ PersistDispatching(i)
  PROVE  SInv'
<1>1. Preparing(i)
  BY DEF Prepare, PersistReady, PersistWorkflow, PersistDispatching, At, Preparing
<1>2. Prepared(i) /\ claim = Mine(i) /\ claim # NoClaim /\ Mine(i) \in Claim /\ accepted = {}
  BY <1>1, OwnerKnows, Typed DEF SInv
<1>3. UNCHANGED <<mailboxes, secrets, tag, accepted, completed, issued, aged>>
  BY DEF Prepare, PersistReady, PersistWorkflow, PersistDispatching, runs
<1>4. Mine(i).phase = "bare" => mailboxes' = {}
  BY <1>2, <1>3 DEF SInv, Globals, Resources
<1>5. ASSUME RollsBack(i, Mine(i)), UNCHANGED claim
      PROVE  SInv'
  <2>1. Globals'
    BY <1>2, <1>3, <1>5 DEF SInv, Globals, Latest, Dispatched, Resources, Mailed
  <2>2. UNCHANGED <<claim, accepted, completed, issued, aged>>
    BY <1>3, <1>5
  <2> QED
    BY <1>1, <1>4, <1>5, <2>1, <2>2, OwnerRollsBack
<1>6. CASE Prepare(i)
  <2>1. CASE RollsBack(i, Mine(i)) /\ UNCHANGED claim
    BY <1>5, <2>1
  <2>2. CASE Persist(i, [Mine(i) EXCEPT !.phase = "preparing"], "seal")
    <3> DEFINE c == [Mine(i) EXCEPT !.phase = "preparing"]
    <3>1. c \in Claim /\ c.token = claim.token /\ c.phase # "bare" /\ c.workflow = claim.workflow
      BY <1>2 DEF Claim
    <3> HIDE DEF c
    <3>2. Persist(i, c, "seal")
      BY <2>2 DEF c
    <3> QED
      BY <1>1, <1>3, <3>1, <3>2, PersistSafe
  <2> QED
    BY <1>6, <2>1, <2>2 DEF Prepare
<1>7. CASE PersistReady(i)
  <2> DEFINE c == [Mine(i) EXCEPT !.phase = "ready", !.mailbox = TRUE]
  <2>1. c \in Claim /\ c.token = claim.token /\ c.phase # "bare" /\ c.workflow = claim.workflow
    BY <1>2 DEF Claim
  <2> HIDE DEF c
  <2>2. Persist(i, c, "provider") /\ inv[i].pc = "ready"
    BY <1>7 DEF PersistReady, At, c
  <2>3. /\ "steering" \in DOMAIN secrets /\ secrets["steering"] = claim.token
        /\ claim.token \in mailboxes
    BY <1>1, <1>2, <2>2 DEF Prepared
  <2> QED
    BY <1>1, <1>3, <2>1, <2>2, <2>3, PersistSafe
<1>8. CASE PersistWorkflow(i)
  <2> DEFINE c == [Mine(i) EXCEPT !.workflow = TRUE]
  <2>1. inv[i].pc = "reserve"
    BY <1>8 DEF PersistWorkflow, At
  <2>2. CASE RollsBack(i, Mine(i)) /\ UNCHANGED <<claim, faults>>
    BY <1>5, <2>2
  <2>3. CASE Persist(i, c, "tag")
    <3>1. c \in Claim /\ c.token = claim.token /\ c.phase = claim.phase /\ c.workflow
      BY <1>2 DEF Claim
    <3>2. /\ "steering" \in DOMAIN secrets /\ secrets["steering"] = claim.token
          /\ claim.token \in mailboxes /\ claim.phase # "bare"
      BY <1>1, <1>2, <2>1 DEF Prepared
    <3> HIDE DEF c
    <3> QED
      BY <1>1, <1>3, <2>3, <3>1, <3>2, PersistSafe
  <2> QED
    BY <1>8, <2>2, <2>3 DEF PersistWorkflow
<1>9. CASE PersistDispatching(i)
  <2> DEFINE c == [Mine(i) EXCEPT !.phase = "dispatching"]
  <2>1. /\ c \in Claim /\ c.token = claim.token /\ c.phase = "dispatching"
        /\ c.workflow = claim.workflow
    BY <1>2 DEF Claim
  <2> HIDE DEF c
  <2>2. Persist(i, c, "post") /\ inv[i].pc = "commit"
    BY <1>9 DEF PersistDispatching, At, c
  <2>3. /\ "steering" \in DOMAIN secrets /\ secrets["steering"] = claim.token
        /\ claim.token \in mailboxes /\ claim.workflow
    BY <1>1, <1>2, <2>2 DEF Prepared
  <2> QED
    BY <1>1, <1>3, <2>1, <2>2, <2>3, PersistSafe
<1> QED
  BY <1>6, <1>7, <1>8, <1>9

\* The secrets, the draft release and the tag.
LEMMA SecretSafe ==
  ASSUME SInv, IInv', NEW i \in Slots, SealSteering(i) \/ SealProvider(i)
  PROVE  SInv'
<1>1. /\ Preparing(i) /\ inv[i].pc \in {"seal", "provider"}
  BY DEF SealSteering, SealProvider, At, Preparing
<1>2. /\ Prepared(i) /\ claim = Mine(i) /\ claim # NoClaim /\ accepted = {}
      /\ inv[i].since < claim.token
  BY <1>1, OwnerKnows
<1>3. PICK name \in {"steering", "provider"}, next \in {"mailbox", "reserve"} :
         /\ PutSecret(i, name, next)
         /\ inv[i].pc = "seal" => name = "steering" /\ next = "mailbox"
         /\ inv[i].pc = "provider" => name = "provider" /\ next = "reserve"
  BY DEF SealSteering, SealProvider, At
<1> DEFINE written == [n \in DOMAIN secrets \cup {name} |->
                          IF n = name THEN Mine(i).token ELSE secrets[n]]
<1>4. UNCHANGED <<claim, mailboxes, tag, accepted, completed, issued, aged>>
  BY <1>3 DEF PutSecret, runs
<1>5. Globals'
  BY <1>2, <1>4 DEF SInv, Globals, Latest, Dispatched, Resources, Mailed
<1>6. CASE RollsBack(i, Mine(i))
  <2>1. Mine(i).phase = "bare" => mailboxes' = {}
    BY <1>2, <1>4 DEF SInv, Globals, Resources
  <2>2. UNCHANGED <<claim, accepted, completed, issued, aged>>
    BY <1>4
  <2> QED
    BY <1>1, <1>5, <1>6, <2>1, <2>2, OwnerRollsBack
<1>7. CASE secrets' = written /\ Goes(i, next, Mine(i))
  <2>1. inv'[i].pc = next /\ Mine(i)' = Mine(i) /\ inv'[i].since = inv[i].since
    BY <1>7, GoesTo DEF SInv
  <2>2. Preparing(i)'
    BY <2>1 DEF Preparing
  <2>3. "steering" \in DOMAIN secrets' /\ secrets'["steering"] = claim.token
    BY <1>1, <1>2, <1>3, <1>7 DEF Prepared
  <2>4. claim.phase # "bare" /\ (next = "reserve" => claim.token \in mailboxes)
    BY <1>1, <1>2, <1>3 DEF Prepared
  <2>5. Prepared(i)'
    BY <1>2, <1>4, <2>1, <2>3, <2>4 DEF Prepared
  <2>6. UNCHANGED <<completed, issued, aged>>
    BY <1>4
  <2>7. Moved(i) /\ Fits(i)'
    BY <1>1, <1>7, <2>2, <2>5, <2>6, PreparesFits
  <2> QED
    BY <1>1, <1>4, <1>5, <2>6, <2>7, OwnerStep
<1> QED
  BY <1>3, <1>6, <1>7 DEF PutSecret

LEMMA MailboxSafe ==
  ASSUME SInv, IInv', NEW i \in Slots, CreateMailbox(i)
  PROVE  SInv'
<1>1. Preparing(i) /\ inv[i].pc = "mailbox"
  BY DEF CreateMailbox, At, Preparing
<1>2. /\ Prepared(i) /\ claim = Mine(i) /\ claim # NoClaim /\ accepted = {}
      /\ inv[i].since < claim.token
  BY <1>1, OwnerKnows
<1>3. UNCHANGED <<claim, secrets, tag, accepted, completed, issued, aged>>
  BY DEF CreateMailbox, runs
<1>4. UNCHANGED <<completed, issued, aged>>
  BY <1>3
<1>5. /\ claim.phase # "bare"
      /\ "steering" \in DOMAIN secrets /\ secrets["steering"] = claim.token
  BY <1>1, <1>2 DEF Prepared
<1>6. mailboxes' \in {mailboxes, mailboxes \cup {claim.token}}
  BY <1>2 DEF CreateMailbox
<1>7. Globals'
  <2>1. Latest' /\ Dispatched' /\ Mailed'
    BY <1>2, <1>3 DEF SInv, Globals, Latest, Dispatched, Mailed
  <2>2. Resources'
    BY <1>2, <1>3, <1>5, <1>6 DEF SInv, Globals, Resources
  <2> QED
    BY <2>1, <2>2 DEF Globals
<1>8. CASE Ends(i)
  BY <1>1, <1>3, <1>4, <1>7, <1>8, EndsFits, OwnerStep
<1>9. CASE mailboxes' = mailboxes \cup {Mine(i).token} /\ Goes(i, "ready", Mine(i))
  <2>1. inv'[i].pc = "ready" /\ Mine(i)' = Mine(i) /\ inv'[i].since = inv[i].since
    BY <1>9, GoesTo DEF SInv
  <2>2. Preparing(i)'
    BY <2>1 DEF Preparing
  <2>3. Prepared(i)'
    BY <1>2, <1>3, <1>5, <1>9, <2>1 DEF Prepared
  <2>4. Moved(i) /\ Fits(i)'
    BY <1>1, <1>4, <1>9, <2>2, <2>3, PreparesFits
  <2> QED
    BY <1>1, <1>3, <1>4, <1>7, <2>4, OwnerStep
<1> QED
  BY <1>8, <1>9 DEF CreateMailbox

LEMMA TagSafe ==
  ASSUME SInv, IInv', NEW i \in Slots, CreateTag(i)
  PROVE  SInv'
<1>1. Preparing(i) /\ inv[i].pc = "tag"
  BY DEF CreateTag, At, Preparing
<1>2. /\ Prepared(i) /\ claim = Mine(i) /\ claim # NoClaim /\ accepted = {}
      /\ inv[i].since < claim.token
  BY <1>1, OwnerKnows
<1>3. UNCHANGED <<claim, mailboxes, secrets, accepted, completed, issued, aged>>
  BY DEF CreateTag, runs
<1>4. UNCHANGED <<completed, issued, aged>> /\ UNCHANGED <<claim, accepted, completed, issued, aged>>
  BY <1>3
<1>5. /\ claim.phase # "bare" /\ claim.workflow /\ claim.token \in mailboxes
      /\ "steering" \in DOMAIN secrets /\ secrets["steering"] = claim.token
  BY <1>1, <1>2 DEF Prepared
<1>6. tag' \in {tag, claim.token}
  BY <1>2 DEF CreateTag
<1>7. Globals'
  <2>1. Latest' /\ Dispatched' /\ Mailed'
    BY <1>2, <1>3 DEF SInv, Globals, Latest, Dispatched, Mailed
  <2>2. Resources'
    BY <1>2, <1>3, <1>5, <1>6 DEF SInv, Globals, Resources
  <2> QED
    BY <2>1, <2>2 DEF Globals
<1>8. CASE RollsBack(i, Mine(i))
  BY <1>1, <1>2, <1>4, <1>5, <1>7, <1>8, OwnerRollsBack
<1>9. CASE Goes(i, "commit", Mine(i))
  <2>1. inv'[i].pc = "commit" /\ Mine(i)' = Mine(i) /\ inv'[i].since = inv[i].since
    BY <1>9, GoesTo DEF SInv
  <2>2. Preparing(i)'
    BY <2>1 DEF Preparing
  <2>3. Prepared(i)'
    BY <1>2, <1>3, <1>5, <2>1 DEF Prepared
  <2>4. Moved(i) /\ Fits(i)'
    BY <1>1, <1>4, <1>9, <2>2, <2>3, PreparesFits
  <2> QED
    BY <1>1, <1>3, <1>4, <1>7, <2>4, OwnerStep
<1> QED
  BY <1>8, <1>9 DEF CreateTag

\* The owner whose run was accepted goes on.
LEMMA ReportsFits ==
  ASSUME SInv, NEW i \in Slots, Preparing(i) \/ Reporting(i),
         NEW pc \in {"locate", "mark"}, NEW c, Goes(i, pc, c),
         UNCHANGED <<completed, issued, aged>>, accepted' # {},
         c.token = issued, c.phase = "dispatching", c.workflow
  PROVE  Moved(i) /\ Fits(i)'
<1>1. /\ Moved(i) /\ inv'[i].pc = pc /\ Mine(i)' = c /\ inv'[i].since = inv[i].since
  BY GoesTo DEF SInv
<1>2. inv[i].pc # "idle" /\ ~Deleting(i) /\ Fits(i) /\ i \notin Pollers
  BY DEF Preparing, Reporting, Deleting, SInv, Fits, Role
<1>3. Reported(i)' /\ ~Preparing(i)' /\ ~Deleting(i)' /\ inv'[i].pc # "takeover"
  BY <1>1 DEF Reported, Preparing, Deleting
<1>4. Deleted(i)' /\ Role(i)' /\ Since(i)' /\ Searched(i)'
  BY <1>1, <1>2 DEF Deleted, Role, Fits, Since, Searched
<1> QED
  BY <1>1, <1>3, <1>4 DEF Fits, Prepared, RolledBack, RollingBack, TakenOver, TakingOver,
     CleanedUp, Cleaning

\* A run is only accepted from the owner of the claim, so there is one.
LEMMA PostSafe ==
  ASSUME SInv, IInv', NEW i \in Slots, Post(i)
  PROVE  SInv'
<1>1. Preparing(i) /\ inv[i].pc = "post"
  BY DEF Post, At, Preparing
<1>2. /\ Prepared(i) /\ claim = Mine(i) /\ claim # NoClaim /\ accepted = {}
      /\ claim.token = issued /\ Mine(i) \in Claim
  BY <1>1, OwnerKnows, Typed DEF SInv
<1>3. UNCHANGED <<claim, mailboxes, secrets, tag, completed, issued, aged>>
  BY DEF Post, repository
<1>4. UNCHANGED <<completed, issued, aged>> /\ claim'.token = claim.token
  BY <1>3
<1>5. /\ claim.phase = "dispatching" /\ claim.workflow /\ claim.token \in mailboxes
      /\ "steering" \in DOMAIN secrets /\ secrets["steering"] = claim.token
  BY <1>1, <1>2 DEF Prepared
<1>6. ASSUME accepted' \in {{}, {claim.token}}
      PROVE  Globals'
  <2>1. Latest' /\ Resources'
    BY <1>2, <1>3 DEF SInv, Globals, Latest, Resources
  <2>2. Dispatched'
    BY <1>2, <1>3, <1>5, <1>6 DEF Dispatched
  <2>3. Mailed'
    BY <1>2, <1>3, <1>5, <1>6 DEF Mailed
  <2> QED
    BY <2>1, <2>2, <2>3 DEF Globals
<1>7. CASE Ends(i) /\ accepted' \in {{}, {claim.token}}
  BY <1>1, <1>4, <1>6, <1>7, EndsFits, OwnerStep
<1>8. CASE RollsBack(i, Mine(i)) /\ accepted' = accepted
  <2>1. UNCHANGED <<claim, accepted, completed, issued, aged>>
    BY <1>3, <1>8
  <2> QED
    BY <1>1, <1>2, <1>5, <1>6, <1>8, <2>1, OwnerRollsBack
<1>9. ASSUME NEW pc \in {"locate", "mark"}, NEW c, Goes(i, pc, c), accepted' = {claim.token},
             c \in {Mine(i), [Mine(i) EXCEPT !.run = Mine(i).token]}
      PROVE  SInv'
  <2>1. c.token = issued /\ c.phase = "dispatching" /\ c.workflow
    BY <1>2, <1>5, <1>9 DEF Claim
  <2>2. Moved(i) /\ Fits(i)'
    BY <1>1, <1>4, <1>9, <2>1, ReportsFits
  <2> QED
    BY <1>1, <1>4, <1>6, <1>9, <2>2, OwnerStep
<1>10. \/ Ends(i) /\ accepted' \in {{}, {claim.token}}
       \/ RollsBack(i, Mine(i)) /\ accepted' = accepted
       \/ Goes(i, "locate", Mine(i)) /\ accepted' = {claim.token}
       \/ Goes(i, "mark", [Mine(i) EXCEPT !.run = Mine(i).token]) /\ accepted' = {claim.token}
  BY <1>2 DEF Post, Unanswered
<1> QED
  BY <1>7, <1>8, <1>9, <1>10

LEMMA LocateSafe ==
  ASSUME SInv, IInv', NEW i \in Slots, Locate(i)
  PROVE  SInv'
<1>1. Reporting(i) /\ UNCHANGED env
  BY DEF Locate, At, Reporting, env, repository, runs
<1>2. Reported(i) /\ Mine(i) \in Claim
  BY Typed DEF SInv, Fits
<1>3. CASE Ends(i)
  BY <1>1, <1>3, EndsQuietly
<1>4. ASSUME NEW r \in visible, Goes(i, "mark", [Mine(i) EXCEPT !.run = r])
      PROVE  SInv'
  <2> DEFINE c == [Mine(i) EXCEPT !.run = r]
  <2>1. c.token = issued /\ c.phase = "dispatching" /\ c.workflow /\ accepted' # {}
    BY <1>1, <1>2 DEF Reported, Claim, env
  <2>2. UNCHANGED <<completed, issued, aged>>
    BY <1>1 DEF env
  <2> HIDE DEF c
  <2>3. Goes(i, "mark", c)
    BY <1>4 DEF c
  <2>4. Moved(i) /\ Fits(i)'
    BY <1>1, <2>1, <2>2, <2>3, ReportsFits
  <2> QED
    BY <1>1, <2>4, QuietStep DEF Owner
<1> QED
  BY <1>3, <1>4 DEF Locate

LEMMA MarkSafe ==
  ASSUME SInv, IInv', NEW i \in Slots, Mark(i)
  PROVE  SInv'
<1>1. Reporting(i) /\ UNCHANGED <<mailboxes, secrets, tag, accepted, completed, issued, aged>>
  BY DEF Mark, At, Reporting, runs
<1>2. Reported(i) /\ Ends(i)
  BY DEF SInv, Fits, Mark, Answers
<1>3. CASE claim' = claim
  BY <1>1, <1>2, <1>3, EndsQuietly DEF env
<1>4. CASE claim # NoClaim /\ claim' = Mine(i)
  <2>1. /\ claim.token = issued /\ claim.token # None /\ claim'.token = claim.token
        /\ claim'.phase = "dispatching" /\ claim'.workflow /\ claim' # NoClaim
    BY <1>1, <1>2, <1>4, ClaimHasToken, NoClaimType DEF SInv, Globals, Reported
  <2>2. Globals'
    <3>1. Latest'
      BY <1>1, <2>1, <1>4 DEF SInv, Globals, Latest
    <3>2. Dispatched' /\ Mailed'
      BY <1>1, <2>1 DEF SInv, Globals, Dispatched, Mailed
    <3>3. Resources'
      BY <1>1, <2>1 DEF SInv, Globals, Resources
    <3> QED
      BY <3>1, <3>2, <3>3 DEF Globals
  <2>3. Moved(i) /\ Fits(i)' /\ ~Owner(i)'
    BY <1>2, EndsFits
  <2>4. ASSUME NEW j \in Slots, j # i
        PROVE  Fits(j)' /\ ~Owner(j)'
    <3>1. ~Busy(j) \/ Stale(j) \/ Cleaning(j)
      BY <1>1, <2>4, ApartFromReport
    <3>2. Deletion
      BY <1>1 DEF Deletion
    <3> QED
      BY <1>1, <2>1, <2>2, <2>3, <2>4, <3>1, <3>2, OtherFits DEF Globals, Moved, Stale
  <2> QED
    BY <2>2, <2>3, <2>4 DEF SInv, Alone
<1> QED
  BY <1>3, <1>4 DEF Mark

(***************************************************************************)
(* Deletions                                                               *)
(***************************************************************************)

\* What an invocation that deletes the resources of a claim knows, as long as there
\* is no newer claim.
LEMMA DeleterKnows ==
  ASSUME SInv, NEW i \in Slots, Deleting(i)
  PROVE  /\ Fits(i) /\ Mine(i) \in Claim
         /\ RollingBack(i) \/ TakingOver(i) \/ Cleaning(i)
         /\ InHand(i) => /\ Mine(i).workflow \/ tag = None
                         /\ Mine(i).phase = "bare" => mailboxes = {}
                         /\ mailboxes \subseteq {Mine(i).token}
         /\ ~Stale(i) => InHand(i) /\ (accepted = {} \/ completed # {})
<1>1. Busy(i) /\ Fits(i) /\ Mine(i) \in Claim
  BY Typed DEF SInv, Deleting, Busy, Outside
<1>2. RollingBack(i) \/ TakingOver(i) \/ Cleaning(i)
  BY <1>1, Kinds DEF SInv, Fits, Owner, Deleting, Preparing, Reporting
<1>3. Resources /\ Latest /\ IInv
  BY DEF SInv, Globals
<1>4. CASE claim.token = None
  <2>1. tag = None /\ mailboxes = {}
    BY <1>3, <1>4, Cleared
  <2>2. ~RollingBack(i)
    BY <1>1, <1>3, <1>4, ClaimHasToken DEF Fits, RolledBack
  <2> QED
    BY <1>1, <1>2, <1>4, <2>1, <2>2 DEF InHand, Stale, Fits, TakenOver, CleanedUp
<1>5. CASE claim.token # None
  <2>1. claim # NoClaim /\ claim.token = issued
    BY <1>3, <1>5, NoClaimType, ClaimHasToken
  <2>2. CASE RollingBack(i)
    BY <1>1, <1>3, <2>1, <2>2 DEF Fits, RolledBack, Resources, InHand
  <2>3. CASE TakingOver(i)
    BY <1>1, <1>3, <1>5, <2>3 DEF Fits, TakenOver, Resources, InHand, Stale
  <2>4. CASE Cleaning(i)
    BY <1>1, <1>3, <2>1, <2>4 DEF Fits, CleanedUp, Resources, InHand
  <2> QED
    BY <1>1, <1>2, <2>2, <2>3, <2>4
<1> QED
  BY <1>4, <1>5

\* A step of a deletion.  A takeover that finds a newer claim changes nothing.
LEMMA DeleteStep ==
  ASSUME SInv, IInv', NEW i \in Slots, Deleting(i), Moved(i), Fits(i)',
         Owner(i)' => Owner(i),
         UNCHANGED <<accepted, completed, issued, aged>>, Deletion,
         claim' = claim \/ (claim' = NoClaim /\ inv[i].pc = "unclaim"),
         Stale(i) => UNCHANGED env
  PROVE  SInv'
<1>1. CASE Stale(i)
  BY <1>1, QuietStep
<1>2. CASE ~Stale(i)
  <2>1. Fits(i) /\ InHand(i) /\ (accepted = {} \/ completed # {})
    BY <1>2, DeleterKnows
  <2>2. claim'.token \in {claim.token, None} /\ NoClaim.phase = "bare"
    BY NoClaimType DEF NoClaim
  <2>3. claim' # claim => tag = None /\ mailboxes = {} /\ DOMAIN secrets = {}
    BY <2>1 DEF Fits, Deleted
  <2>4. Latest' /\ Dispatched'
    BY <2>1 DEF SInv, Globals, Latest, Dispatched
  <2>5. Resources'
    <3>1. CASE claim' = claim
      BY <3>1 DEF SInv, Globals, Resources, Deletion
    <3>2. CASE claim' # claim
      BY <2>2, <2>3, <3>2 DEF Resources, Deletion
    <3> QED
      BY <3>1, <3>2
  <2>6. Mailed'
    <3>1. accepted \ completed = {}
      BY <2>1 DEF SInv, IInv, TypeOK, Globals, Dispatched
    <3> QED
      BY <3>1 DEF Mailed
  <2>7. ASSUME NEW j \in Slots, j # i
        PROVE  Fits(j)' /\ (Owner(j)' => Owner(j))
    <3>1. Fits(j) /\ inv'[j] = inv[j] /\ (Owner(j)' <=> Owner(j))
      BY <2>7 DEF SInv, Moved, Owner, Preparing, Reporting, RollingBack, Deleting
    <3>2. CASE ~Busy(j) \/ Stale(j) \/ Cleaning(j)
      <4>1. Stale(j) => claim'.token # Mine(j).token
        BY <2>2, <3>1 DEF Stale, Fits, TakenOver
      <4> QED
        BY <2>2, <2>4, <2>5, <3>1, <3>2, <4>1, OtherFits DEF Stale
    <3>3. CASE TakingOver(j) /\ ~Stale(j)
      <4>1. claim = Mine(j) /\ accepted = {} /\ j \in Dispatchers
        BY <3>1, <3>3 DEF Stale, Fits, TakenOver, TakingOver
      <4>2. /\ TakingOver(j)' /\ j \notin Pollers /\ ~Preparing(j)' /\ ~Reporting(j)'
            /\ ~RollingBack(j)' /\ ~Cleaning(j)' /\ Mine(j)' = Mine(j)
        BY <3>1, <3>3, SlotsAssumption DEF TakingOver, Deleting, Preparing, Reporting,
           RollingBack, Cleaning, Mine
      <4>3. TakenOver(j)'
        <5>1. Mine(j).token # None
          BY <3>1, <3>3 DEF Fits, TakenOver
        <5>2. claim'.token = Mine(j).token => claim' = claim
          BY <5>1, NoClaimType
        <5> QED
          BY <3>1, <3>3, <4>1, <4>2, <5>2 DEF Fits, TakenOver
      <4>4. Deleted(j)'
        BY <2>3, <3>1, <4>1 DEF Fits, Deleted, InHand, Deletion
      <4>5. Role(j)' /\ Since(j)' /\ Searched(j)'
        BY <3>1, <4>2 DEF Fits, Role, Since, Searched
      <4> QED
        BY <3>1, <4>2, <4>3, <4>4, <4>5 DEF Fits, Prepared, Reported, RolledBack, CleanedUp
    <3>4. CASE Owner(j)
      <4>1. ~Preparing(j) /\ ~RollingBack(j)
        BY <1>2, <2>7, <3>4, Apart DEF Busy, Outside, Deleting
      <4>2. Reporting(j)
        BY <3>4, <4>1 DEF Owner
      <4>3. /\ Reporting(j)' /\ ~Preparing(j)' /\ ~RollingBack(j)' /\ ~TakingOver(j)'
            /\ ~Cleaning(j)' /\ ~Deleting(j)' /\ Mine(j)' = Mine(j)
        BY <3>1, <4>2 DEF Reporting, Preparing, RollingBack, TakingOver, Cleaning, Deleting, Mine
      <4>4. Reported(j)' /\ Deleted(j)'
        BY <3>1, <4>2, <4>3 DEF Fits, Reported, Deleted, Deleting
      <4>5. Role(j)' /\ Since(j)' /\ Searched(j)'
        BY <3>1, <4>3 DEF Fits, Role, Since, Searched, Deleting
      <4> QED
        BY <3>4, <4>3, <4>4, <4>5 DEF Fits, Prepared, RolledBack, TakenOver, CleanedUp
    <3> QED
      BY <3>1, <3>2, <3>3, <3>4, Kinds DEF SInv, Fits
  <2>8. Alone'
    BY <2>7 DEF SInv, Alone
  <2> QED
    BY <2>4, <2>5, <2>6, <2>7, <2>8 DEF SInv, Globals
<1> QED
  BY <1>1, <1>2

\* A deletion goes on with its next part.
LEMMA DeletesOn ==
  ASSUME SInv, IInv', NEW i \in Slots, Deleting(i),
         NEW pc \in {"untagging", "unmail", "unseal", "unclaim"}, Goes(i, pc, Mine(i)),
         UNCHANGED <<claim, accepted, completed, issued, aged>>, Deletion,
         InHand(i) => /\ pc # "untagging" => tag' = None
                      /\ pc \in {"unseal", "unclaim"} => mailboxes' = {}
                      /\ pc = "unclaim" => DOMAIN secrets' = {},
         Stale(i) => UNCHANGED env
  PROVE  SInv'
<1>1. /\ Moved(i) /\ inv'[i].pc = pc /\ Mine(i)' = Mine(i) /\ inv'[i].since = inv[i].since
      /\ inv'[i].then = inv[i].then
  BY GoesTo DEF SInv
<1>2. /\ Deleting(i)' /\ ~Preparing(i)' /\ ~Reporting(i)' /\ inv'[i].pc # "takeover"
      /\ RollingBack(i)' <=> RollingBack(i)
      /\ TakingOver(i)' <=> TakingOver(i)
      /\ Cleaning(i)' <=> Cleaning(i)
  BY <1>1 DEF Deleting, Preparing, Reporting, RollingBack, TakingOver, Cleaning
<1>3. Fits(i)
  BY DeleterKnows
<1>4. RolledBack(i)'
  BY <1>1, <1>2, <1>3 DEF Fits, RolledBack, Deletion
<1>5. TakenOver(i)' /\ CleanedUp(i)'
  BY <1>1, <1>2, <1>3 DEF Fits, TakenOver, CleanedUp
<1>6. Deleted(i)'
  BY <1>1 DEF Deleted, InHand
<1>7. Role(i)' /\ Since(i)' /\ Searched(i)'
  BY <1>1, <1>2, <1>3 DEF Fits, Role, Since, Searched, Deleting
<1>8. Fits(i)' /\ (Owner(i)' => Owner(i))
  BY <1>2, <1>4, <1>5, <1>6, <1>7 DEF Fits, Prepared, Reported, Owner
<1>9. UNCHANGED <<accepted, completed, issued, aged>>
  OBVIOUS
<1> QED
  BY <1>1, <1>8, <1>9, DeleteStep

\* A deletion ends, whatever part of it is done.
LEMMA DeletionEnds ==
  ASSUME SInv, IInv', NEW i \in Slots, Deleting(i), Ends(i),
         UNCHANGED <<accepted, completed, issued, aged>>, Deletion,
         claim' = claim \/ (claim' = NoClaim /\ inv[i].pc = "unclaim"),
         Stale(i) => UNCHANGED env
  PROVE  SInv'
BY EndsFits, DeleteStep

\* A takeover that has not lost the race finds no claim instead of a newer one.
LEMMA LateFindsNothing ==
  ASSUME SInv, NEW i \in Slots, Deleting(i), Stale(i), LateTakeover(i) = {}
  PROVE  claim = NoClaim /\ tag = None /\ mailboxes = {} /\ DOMAIN secrets = {}
<1>1. claim.token \in {None, Mine(i).token}
  BY DEF Stale, TakingOver, Deleting, LateTakeover
<1> QED
  BY <1>1, Cleared DEF SInv, Globals, Stale

LEMMA UntagSafe ==
  ASSUME SInv, IInv', NEW i \in Slots, Untag(i)
  PROVE  SInv'
<1>1. Deleting(i) /\ UNCHANGED env
  BY DEF Untag, At, Deleting, env, repository, runs
<1>2. UNCHANGED <<claim, accepted, completed, issued, aged>> /\ tag' = tag /\ Deletion
  BY <1>1 DEF env, Deletion
<1>3. CASE (~Mine(i).workflow \/ tag = None) /\ Goes(i, "unmail", Mine(i))
  <2>1. InHand(i) => tag = None
    BY <1>1, <1>3, DeleterKnows
  <2> QED
    BY <1>1, <1>2, <1>3, <2>1, DeletesOn
<1>4. CASE Goes(i, "untagging", Mine(i))
  BY <1>1, <1>2, <1>4, DeletesOn
<1>5. CASE Ends(i)
  BY <1>1, <1>5, EndsQuietly
<1> QED
  BY <1>3, <1>4, <1>5 DEF Untag

LEMMA UntaggingSafe ==
  ASSUME SInv, IInv', races' = {}, NEW i \in Slots, Untagging(i)
  PROVE  SInv'
<1>1. Deleting(i) /\ LateTakeover(i) = {}
  BY DEF Untagging, At, Deleting
<1>2. /\ UNCHANGED <<claim, accepted, completed, issued, aged>>
      /\ UNCHANGED <<accepted, completed, issued, aged>>
      /\ mailboxes' = mailboxes /\ secrets' = secrets /\ claim' = claim
  BY DEF Untagging, runs
<1>3. tag' \in {tag, None} /\ Deletion
  BY <1>2 DEF Untagging, Deletion
<1>4. Stale(i) => UNCHANGED env
  BY <1>1, <1>2, <1>3, LateFindsNothing DEF env
<1>5. CASE tag' = None /\ Goes(i, "unmail", Mine(i))
  BY <1>1, <1>2, <1>3, <1>4, <1>5, DeletesOn
<1>6. CASE Ends(i)
  BY <1>1, <1>2, <1>3, <1>4, <1>6, DeletionEnds
<1> QED
  BY <1>5, <1>6 DEF Untagging

LEMMA UnmailSafe ==
  ASSUME SInv, IInv', NEW i \in Slots, Unmail(i)
  PROVE  SInv'
<1>1. Deleting(i) /\ inv[i].pc = "unmail" /\ Fits(i)
  BY DeleterKnows DEF Unmail, At, Deleting
<1>2. /\ UNCHANGED <<claim, accepted, completed, issued, aged>>
      /\ UNCHANGED <<accepted, completed, issued, aged>>
      /\ tag' = tag /\ secrets' = secrets /\ claim' = claim
  BY DEF Unmail, runs
<1>3. mailboxes' \subseteq mailboxes /\ mailboxes \ mailboxes' \subseteq {Mine(i).token}
  BY DEF Unmail
<1>4. Deletion
  BY <1>2, <1>3 DEF Deletion
<1>5. Stale(i) => UNCHANGED env
  <2>1. Stale(i) => Mine(i).token \notin mailboxes
    BY DEF SInv, Globals, Resources, Stale
  <2> QED
    BY <1>2, <1>3, <2>1 DEF env
<1>6. InHand(i) => tag = None /\ mailboxes \ Unmailable(Mine(i)) = {}
  BY <1>1, DeleterKnows DEF Fits, Deleted, Unmailable
<1>7. CASE mailboxes' = mailboxes \ Unmailable(Mine(i)) /\ Goes(i, "unseal", Mine(i))
  BY <1>1, <1>2, <1>4, <1>5, <1>6, <1>7, DeletesOn
<1>8. CASE Ends(i)
  BY <1>1, <1>2, <1>4, <1>5, <1>8, DeletionEnds
<1> QED
  BY <1>7, <1>8 DEF Unmail

LEMMA UnsealSafe ==
  ASSUME SInv, IInv', races' = {}, NEW i \in Slots, Unseal(i)
  PROVE  SInv'
<1>1. Deleting(i) /\ inv[i].pc = "unseal" /\ Fits(i) /\ LateTakeover(i) = {}
  BY DeleterKnows DEF Unseal, At, Deleting
<1>2. /\ UNCHANGED <<claim, accepted, completed, issued, aged>>
      /\ UNCHANGED <<accepted, completed, issued, aged>>
      /\ tag' = tag /\ mailboxes' = mailboxes /\ claim' = claim
  BY DEF Unseal, runs
<1>3. InHand(i) => tag = None /\ mailboxes = {}
  BY <1>1 DEF Fits, Deleted
<1>4. PICK S \in SUBSET DOMAIN secrets : secrets' = [n \in S |-> secrets[n]]
  <2>1. CASE secrets' = <<>>
    BY <2>1
  <2>2. CASE \E S \in SUBSET DOMAIN secrets : secrets' = [n \in S |-> secrets[n]]
    BY <2>2
  <2> QED
    BY <2>1, <2>2 DEF Unseal
<1>5. Deletion
  BY <1>2, <1>4 DEF Deletion
<1>6. Stale(i) => UNCHANGED env
  <2>1. SUFFICES ASSUME Stale(i) PROVE UNCHANGED env
    OBVIOUS
  <2>2. DOMAIN secrets = {} /\ secrets = [n \in DOMAIN secrets |-> secrets[n]]
    BY <1>1, <2>1, LateFindsNothing DEF SInv, IInv, TypeOK
  <2>3. S = DOMAIN secrets
    BY <1>4, <2>2
  <2>4. secrets' = secrets
    BY <1>4, <2>2, <2>3
  <2> QED
    BY <1>2, <2>4 DEF env
<1>7. CASE secrets' = <<>> /\ Goes(i, "unclaim", Mine(i))
  <2>1. DOMAIN secrets' = {}
    BY <1>7
  <2> QED
    BY <1>1, <1>2, <1>3, <1>5, <1>6, <1>7, <2>1, DeletesOn
<1>8. CASE Ends(i)
  BY <1>1, <1>2, <1>5, <1>6, <1>8, DeletionEnds
<1> QED
  BY <1>7, <1>8 DEF Unseal

LEMMA UnclaimSafe ==
  ASSUME SInv, IInv', races' = {}, NEW i \in Slots, Unclaim(i)
  PROVE  SInv'
<1>1. Deleting(i) /\ inv[i].pc = "unclaim" /\ LateTakeover(i) = {}
  BY DEF Unclaim, At, Deleting
<1>2. /\ UNCHANGED <<accepted, completed, issued, aged>> /\ Deletion
      /\ tag' = tag /\ mailboxes' = mailboxes /\ secrets' = secrets
  BY DEF Unclaim, runs, Deletion
<1>3. claim' = claim \/ claim' = NoClaim
  BY DEF Unclaim
<1>4. Stale(i) => UNCHANGED env
  BY <1>1, <1>2, <1>3, LateFindsNothing DEF env
<1>5. CASE Ends(i)
  BY <1>1, <1>2, <1>3, <1>4, <1>5, DeletionEnds
<1>6. CASE inv[i].then = "scan" /\ Goes(i, "scan", NoClaim)
  <2>1. Moved(i) /\ inv'[i].pc = "scan" /\ inv'[i].since = inv[i].since
    BY <1>6, GoesTo DEF SInv
  <2>2. Fits(i) /\ i \notin Pollers
    BY <1>1, <1>6, DeleterKnows DEF Fits, Role, Deleting
  <2>3. Since(i)' /\ Searched(i)'
    BY <1>1, <1>2, <2>1, <2>2 DEF Fits, Since, Searched
  <2>4. Fits(i)' /\ ~Owner(i)'
    BY <2>1, <2>2, <2>3, OutsideFits DEF Outside
  <2> QED
    BY <1>1, <1>2, <1>3, <1>4, <2>1, <2>4, DeleteStep
<1> QED
  BY <1>5, <1>6 DEF Unclaim

(***************************************************************************)
(* Beginnings, takeovers and the world outside                             *)
(***************************************************************************)

LEMMA TakeoverSafe ==
  ASSUME SInv, IInv', NEW i \in Slots, Takeover(i)
  PROVE  SInv'
<1>1. inv[i].pc = "takeover" /\ UNCHANGED env /\ Fits(i)
  BY DEF Takeover, At, env, repository, runs, SInv
<1>2. i \in Dispatchers /\ i \notin Pollers /\ TakingOver(i)
  BY <1>1 DEF Fits, Role, Deleting, Slots, TakingOver
<1>3. CASE Ends(i)
  BY <1>1, <1>3, EndsQuietly
<1>4. CASE Deletes(i, Mine(i), "scan")
  <2>1. /\ Moved(i) /\ inv'[i].pc = "untag" /\ Mine(i)' = Mine(i) /\ inv'[i].then = "scan"
        /\ inv'[i].since = inv[i].since
    BY <1>4, DeletesTo DEF SInv
  <2>2. /\ ~Preparing(i)' /\ ~Reporting(i)' /\ ~RollingBack(i)' /\ ~Cleaning(i)'
    BY <1>2, <2>1 DEF Preparing, Reporting, RollingBack, Cleaning
  <2>3. TakenOver(i)'
    BY <1>1, <1>2, <2>1 DEF Fits, TakenOver, env
  <2>4. Deleted(i)' /\ Role(i)' /\ Searched(i)'
    BY <1>2, <2>1 DEF Deleted, Role, Searched
  <2>5. Since(i)'
    BY <1>1, <2>1 DEF Fits, Since, env
  <2>6. Fits(i)'
    BY <2>2, <2>3, <2>4, <2>5 DEF Fits, Prepared, Reported, RolledBack, CleanedUp
  <2> QED
    BY <1>1, <2>1, <2>2, <2>6, QuietStep DEF Owner
<1> QED
  BY <1>3, <1>4 DEF Takeover, Answers

\* A new invocation has seen the claim as it is.
LEMMA StartSafe ==
  ASSUME SInv, IInv', NEW i \in Dispatchers, Start(i)
  PROVE  SInv'
<1>1. i \in Slots /\ i \notin Pollers /\ UNCHANGED env
  BY SlotsAssumption DEF Slots, Start, At, env, repository, runs
<1>2. issued \in Nat /\ \A t \in aged : t <= issued
  BY <1>1, Typed DEF SInv, Globals, Latest
<1>3. PICK pc \in {"scan", "recover", "takeover"} :
         /\ inv' = [inv EXCEPT ![i] = Began(pc)]
         /\ pc = "takeover" => claim # NoClaim /\ TakeoverDue(claim)
  BY DEF Start
<1>4. /\ Moved(i) /\ inv'[i].pc = pc /\ Mine(i)' = claim /\ inv'[i].then = "idle"
      /\ inv'[i].since = issued
  BY <1>1, <1>3, BeganTo DEF SInv
<1>5. Since(i)'
  BY <1>1, <1>2, <1>4 DEF Since, env
<1>6. CASE pc \in {"scan", "recover"}
  <2>1. Fits(i)' /\ ~Owner(i)'
    BY <1>1, <1>4, <1>5, <1>6, OutsideFits DEF Outside, Searched
  <2> QED
    BY <1>1, <1>4, <2>1, QuietStep
<1>7. CASE pc = "takeover"
  <2>1. claim # NoClaim /\ claim.phase \in {"preparing", "ready"} /\ claim.token \in aged
    BY <1>3, <1>7 DEF TakeoverDue
  <2>2. accepted = {} /\ claim.token # None
    BY <2>1, ClaimHasToken DEF SInv, Globals, Dispatched
  <2>3. TakenOver(i)'
    BY <1>1, <1>4, <2>1, <2>2 DEF TakenOver, env
  <2>4. ~Preparing(i)' /\ ~Reporting(i)' /\ ~Deleting(i)'
    BY <1>4, <1>7 DEF Preparing, Reporting, Deleting
  <2>5. Deleted(i)' /\ Role(i)' /\ Searched(i)'
    BY <1>1, <1>4, <1>7 DEF Deleted, Role, Searched
  <2>6. Fits(i)' /\ ~Owner(i)'
    BY <1>5, <2>3, <2>4, <2>5 DEF Fits, Prepared, Reported, RolledBack, RollingBack,
       CleanedUp, Cleaning, Owner
  <2> QED
    BY <1>1, <1>4, <2>6, QuietStep
<1> QED
  BY <1>6, <1>7

LEMMA StatusSafe ==
  ASSUME SInv, IInv', NEW i \in Pollers, NEW r \in answered \cap completed, Status(i, r)
  PROVE  SInv'
<1>1. i \in Slots /\ i \notin Dispatchers /\ completed # {} /\ UNCHANGED env /\ claim # NoClaim
  BY SlotsAssumption DEF Slots, Status, env, repository, runs
<1>2. inv' = [inv EXCEPT ![i] = Began("untag")]
  BY DEF Status
<1>3. /\ Moved(i) /\ inv'[i].pc = "untag" /\ Mine(i)' = claim /\ inv'[i].then = "idle"
      /\ inv'[i].since = issued
  BY <1>1, <1>2, BeganTo DEF SInv
<1>4. claim.token = issued /\ claim.phase = "dispatching" /\ claim.workflow
  BY <1>1, ClaimHasToken, EndedWasAccepted DEF SInv, Globals, Dispatched
<1>5. CleanedUp(i)' /\ Cleaning(i)'
  BY <1>1, <1>3, <1>4 DEF CleanedUp, Cleaning, Deleting, env
<1>6. ~Preparing(i)' /\ ~Reporting(i)' /\ ~RollingBack(i)' /\ ~TakingOver(i)'
  BY <1>1, <1>3 DEF Preparing, Reporting, RollingBack, TakingOver
<1>7. Deleted(i)' /\ Role(i)' /\ Searched(i)'
  BY <1>1, <1>3, <1>5 DEF Deleted, Role, Searched, Cleaning
<1>8. Since(i)'
  <2>1. issued \in Nat /\ \A t \in aged : t <= issued
    BY <1>1, Typed DEF SInv, Globals, Latest
  <2> QED
    BY <1>1, <1>3, <2>1 DEF Since, env
<1>9. Fits(i)' /\ ~Owner(i)'
  BY <1>5, <1>6, <1>7, <1>8 DEF Fits, Prepared, Reported, RolledBack, TakenOver, Owner
<1> QED
  BY <1>1, <1>3, <1>9, QuietStep

LEMMA StepSafe ==
  ASSUME SInv, IInv', races' = {}, NEW i \in Slots, Step(i)
  PROVE  SInv'
BY RecoverSafe, TakeoverSafe, ScanSafe, CheckSafe, ClaimRequestSafe, PersistsSafe, SecretSafe,
   MailboxSafe, TagSafe, PostSafe, LocateSafe, MarkSafe, UntagSafe, UntaggingSafe, UnmailSafe,
   UnsealSafe, UnclaimSafe
   DEF Step

\* GitHub shows a run: nothing here depends on it but what a search finds.
LEMMA StillSafe ==
  ASSUME SInv, IInv', UNCHANGED env, UNCHANGED inv
  PROVE  SInv'
<1>1. Globals'
  BY DEF SInv, Globals, Latest, Dispatched, Resources, Mailed, env
<1>2. ASSUME NEW j \in Slots
      PROVE  Fits(j)' /\ Owner(j)' = Owner(j)
  BY SameFits DEF SInv
<1>3. Alone'
  BY <1>2 DEF SInv, Alone
<1> QED
  BY <1>1, <1>2, <1>3 DEF SInv

\* A run may end at any time: what is at stake is only who is active.
LEMMA CompleteSafe ==
  ASSUME SInv, IInv', NEW r \in visible, Complete(r)
  PROVE  SInv'
<1>1. /\ UNCHANGED <<claim, mailboxes, secrets, tag, accepted, issued, aged>> /\ inv' = inv
      /\ completed' = completed \cup {r}
  BY DEF Complete, repository
<1>2. Globals'
  <2>1. Latest' /\ Resources'
    BY <1>1 DEF SInv, Globals, Latest, Resources
  <2>2. Dispatched' /\ Mailed'
    BY <1>1 DEF SInv, Globals, Dispatched, Mailed
  <2> QED
    BY <2>1, <2>2 DEF Globals
<1>3. ASSUME NEW j \in Slots
      PROVE  Fits(j)' /\ Owner(j)' = Owner(j)
  <2>1. Fits(j)
    BY DEF SInv
  <2>2. Prepared(j)' /\ Reported(j)' /\ RolledBack(j)'
    BY <1>1, <2>1 DEF Fits, Prepared, Preparing, Reported, Reporting, RolledBack, RollingBack,
       Deleting, Mine
  <2>3. TakenOver(j)' /\ CleanedUp(j)' /\ Deleted(j)'
    BY <1>1, <2>1 DEF Fits, TakenOver, TakingOver, CleanedUp, Cleaning, Deleting, Deleted, InHand,
       Mine
  <2>4. Role(j)' /\ Since(j)' /\ Searched(j)'
    BY <1>1, <2>1 DEF Fits, Role, Since, Searched, Deleting
  <2>5. Owner(j)' = Owner(j)
    BY <1>1 DEF Owner, Preparing, Reporting, RollingBack, Deleting
  <2> QED
    BY <2>2, <2>3, <2>4, <2>5 DEF Fits
<1>4. Alone'
  BY <1>3 DEF SInv, Alone
<1> QED
  BY <1>2, <1>3, <1>4 DEF SInv

\* A claim grows old after the invocations that were under way when it was created.
LEMMA GrowOldSafe ==
  ASSUME SInv, IInv', NEW t \in Tokens, GrowOld(t)
  PROVE  SInv'
<1>1. /\ UNCHANGED <<claim, mailboxes, secrets, tag, accepted, completed, issued>> /\ inv' = inv
      /\ aged' = aged \cup {t} /\ t <= issued
      /\ \A i \in Slots : inv[i].pc = "idle" \/ inv[i].since >= t
  <2>1. issued \in Nat
    BY BoundsAssumption DEF SInv, IInv, TypeOK
  <2> QED
    BY <2>1 DEF GrowOld, At, repository, runs
<1>2. Globals'
  <2>1. Latest'
    BY <1>1 DEF SInv, Globals, Latest
  <2>2. Dispatched' /\ Mailed' /\ Resources'
    BY <1>1 DEF SInv, Globals, Dispatched, Mailed, Resources
  <2> QED
    BY <2>1, <2>2 DEF Globals
<1>3. ASSUME NEW j \in Slots
      PROVE  Fits(j)' /\ Owner(j)' = Owner(j)
  <2>1. Fits(j)
    BY DEF SInv
  <2>2. Since(j)'
    BY <1>1, <2>1 DEF Fits, Since
  <2>3. Prepared(j)' /\ Reported(j)' /\ RolledBack(j)'
    BY <1>1, <2>1 DEF Fits, Prepared, Preparing, Reported, Reporting, RolledBack, RollingBack,
       Deleting, Mine
  <2>4. TakenOver(j)' /\ CleanedUp(j)' /\ Deleted(j)'
    BY <1>1, <2>1 DEF Fits, TakenOver, TakingOver, CleanedUp, Cleaning, Deleting, Deleted, InHand,
       Mine
  <2>5. Role(j)' /\ Searched(j)'
    BY <1>1, <2>1 DEF Fits, Role, Searched, Deleting
  <2>6. Owner(j)' = Owner(j)
    BY <1>1 DEF Owner, Preparing, Reporting, RollingBack, Deleting
  <2> QED
    BY <2>2, <2>3, <2>4, <2>5, <2>6 DEF Fits
<1>4. Alone'
  BY <1>3 DEF SInv, Alone
<1> QED
  BY <1>2, <1>3, <1>4 DEF SInv

LEMMA InitSafe == Init => SInv
<1> SUFFICES ASSUME Init PROVE SInv
  OBVIOUS
<1>1. IInv
  BY InitIInv
<1>2. Globals
  BY DEF Init, Globals, Latest, Dispatched, Resources, Mailed, NoClaim, None
<1>3. ASSUME NEW i \in Slots
      PROVE  Fits(i) /\ ~Owner(i)
  <2>1. inv[i] = Idle
    BY DEF Init
  <2>2. inv[i].pc = "idle" /\ inv[i].since = 0
    BY <2>1 DEF Idle, None
  <2>3. ~Preparing(i) /\ ~Reporting(i) /\ ~Deleting(i)
    BY <2>2 DEF Preparing, Reporting, Deleting
  <2>4. Deleted(i) /\ Role(i) /\ Since(i) /\ Searched(i)
    BY <2>2 DEF Deleted, Role, Since, Searched, Init
  <2> QED
    BY <2>2, <2>3, <2>4 DEF Fits, Prepared, Reported, RolledBack, RollingBack, TakenOver,
       TakingOver, CleanedUp, Cleaning, Owner
<1>4. Alone
  BY <1>3 DEF Alone
<1> QED
  BY <1>1, <1>2, <1>3, <1>4 DEF SInv

LEMMA NextSafe == SInv /\ races' = {} /\ [Next]_vars => SInv'
<1> SUFFICES ASSUME SInv, races' = {}, [Next]_vars PROVE SInv'
  OBVIOUS
<1>1. IInv'
  BY NextIInv DEF SInv
<1>2. ASSUME NEW i \in Slots, Killed(i)
      PROVE  SInv'
  BY <1>1, <1>2, EndsQuietly DEF Killed, env, repository, runs
<1>3. ASSUME NEW r \in accepted, Appear(r)
      PROVE  SInv'
  BY <1>1, <1>3, StillSafe DEF Appear, env, repository
<1>4. CASE UNCHANGED vars
  BY <1>1, <1>4, StillSafe DEF vars, env
<1> QED
  BY <1>1, <1>2, <1>3, <1>4, StartSafe, StepSafe, StatusSafe, CompleteSafe, GrowOldSafe DEF Next

\* A race that was lost stays lost.
LEMMA RacesStay == [Next]_vars => races \subseteq races'
<1> SUFFICES ASSUME [Next]_vars PROVE races \subseteq races'
  OBVIOUS
<1>1. ASSUME NEW i \in Slots, Step(i)
      PROVE  races \subseteq races'
  BY <1>1 DEF Step, Recover, Takeover, Scan, Check, ClaimRequest, Prepare, SealSteering,
     CreateMailbox, PersistReady, SealProvider, PutSecret, PersistWorkflow, CreateTag,
     PersistDispatching, Post, Locate, Mark, Untag, Untagging, Unmail, Unseal, Unclaim
<1>2. CASE \/ \E i \in Dispatchers : Start(i)
           \/ \E i \in Pollers, r \in answered \cap completed : Status(i, r)
           \/ \E i \in Slots : Killed(i)
           \/ \E r \in accepted : Appear(r)
           \/ \E r \in visible : Complete(r)
           \/ \E t \in Tokens : GrowOld(t)
           \/ UNCHANGED vars
  BY <1>2 DEF Start, Status, Killed, Appear, Complete, GrowOld, vars
<1> QED
  BY <1>1, <1>2 DEF Next

(***************************************************************************)
(* What dispatch promises                                                  *)
(***************************************************************************)

\* Everybody knows what it finds until a race is lost.
LEMMA Safe == Spec => [](Undisturbed => SInv)
<1>1. Init => (Undisturbed => SInv)
  BY InitSafe
<1>2. (Undisturbed => SInv) /\ [Next]_vars => (Undisturbed => SInv)'
  BY NextSafe, RacesStay DEF Undisturbed
<1> QED
  BY <1>1, <1>2, PTL DEF Spec

\* "A retry can recover but can never dispatch the UUID twice" holds unless one of
\* the two races is lost, for any number of retries, polls, faults, claims and
\* takeovers, however they overlap and whenever runs end: nothing else can break it.
THEOREM OneRun == Spec => []OneRunUnlessRaced
<1>1. (Undisturbed => SInv) => OneRunUnlessRaced
  <2>1. SUFFICES ASSUME SInv PROVE Cardinality(accepted) <= 1
    BY DEF OneRunUnlessRaced, AtMostOneRun
  <2>2. accepted = {} \/ accepted = {issued}
    BY <2>1 DEF SInv, Globals, Dispatched
  <2>3. CASE accepted = {}
    <3>1. Cardinality({}) = 0
      BY FS_EmptySet
    <3> QED
      BY <2>3, <3>1
  <2>4. CASE accepted = {issued}
    <3>1. Cardinality({issued}) = 1
      BY FS_Singleton
    <3> QED
      BY <2>4, <3>1
  <2> QED
    BY <2>2, <2>3, <2>4
<1> QED
  BY <1>1, Safe, PTL

\* "This invocation exclusively owns a pre-dispatch claim" holds as long: until its
\* run is dispatched nobody changes or deletes an owner's claim, overlapping
\* takeovers of an older claim included.
THEOREM OwnersKeep == Spec => []OwnerKeepsUnlessRaced
<1>1. (Undisturbed => SInv) => OwnerKeepsUnlessRaced
  BY DEF SInv, Fits, Prepared, OwnerKeepsUnlessRaced, OwnerKeepsItsClaim
<1> QED
  BY <1>1, Safe, PTL

\* The claim is the last thing a deletion deletes: without it no draft release, tag
\* or secret of the request is left, unless a race was lost.
THEOREM NothingLeft == Spec => []NothingLeftBehind
<1>1. (Undisturbed => SInv) => NothingLeftBehind
  <2>1. SUFFICES ASSUME SInv, claim = NoClaim
                 PROVE  mailboxes = {} /\ tag = None /\ DOMAIN secrets = {}
    BY DEF NothingLeftBehind
  <2> QED
    BY <2>1, Cleared, NoClaimType DEF SInv, Globals
<1> QED
  BY <1>1, Safe, PTL

\* No rollback, takeover or cleanup of anybody deletes the mailbox of a run that has
\* not ended, or replaces the key that opens it, unless a race was lost.
THEOREM MailboxKept == Spec => []ActiveRunKeepsItsMailbox
<1>1. (Undisturbed => SInv) => ActiveRunKeepsItsMailbox
  BY DEF SInv, Globals, Mailed, ActiveRunKeepsItsMailbox
<1> QED
  BY <1>1, Safe, PTL
=============================================================================
