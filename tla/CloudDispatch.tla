--------------------------- MODULE CloudDispatch ---------------------------
(***************************************************************************)
(* Idempotent dispatch of one request: dispatch, its recovery, rollback    *)
(* and takeover, and the cleanup of runStatus in src/cloud/lib/service.js. *)
(*                                                                         *)
(* The service keeps nothing of its own.  What it knows of a request is in *)
(* the target repository: a claim (a repository variable), a mailbox (a    *)
(* draft release), secrets, a workflow tag, and the runs GitHub accepted.  *)
(* Every access is a call to GitHub that may be refused, lost on its way,  *)
(* or lose its answer, and between two calls of an invocation others run.  *)
(* GitHub's variables have create-if-absent and no compare-and-swap, and   *)
(* an accepted run shows up in the history some time later.                *)
(*                                                                         *)
(* A claim that is created gets a token; its key pair, mailbox, workflow   *)
(* commit and run carry the same token, which stands for their identity.   *)
(* Refusals that leave everything as it was are not steps of their own.    *)
(***************************************************************************)
EXTENDS Naturals, FiniteSets

CONSTANTS
    Dispatchers,   \* invocations of dispatch that may run at the same time
    Pollers,       \* invocations of runStatus that may run at the same time
    MaxClaims,     \* bound: claims ever created for the request
    MaxTakeovers,  \* bound: how often an old claim is taken over
    MaxFaults      \* bound: lost calls, lost answers and killed invocations

ASSUME SlotsAssumption ==
    /\ Dispatchers \cap Pollers = {}
    /\ IsFiniteSet(Dispatchers) /\ IsFiniteSet(Pollers)
ASSUME BoundsAssumption ==
    MaxClaims \in Nat /\ MaxTakeovers \in Nat /\ MaxFaults \in Nat

VARIABLES
    claim,      \* the request's claim variable
    mailboxes,  \* the tokens with a draft release
    secrets,    \* the token each request-scoped secret was written for
    tag,        \* the token of the workflow tag, or None
    accepted,   \* the runs GitHub accepted
    visible,    \* those a listing of the history shows
    completed,  \* those that have ended
    inv,        \* the invocations
    issued,     \* how many claims were created
    aged,       \* the tokens older than DISPATCH_PENDING_MS
    answered,   \* history: the runs a dispatch answered with
    races,      \* history: which of the two races below have been lost
    takeovers,  \* counts the takeovers, for the bound
    faults      \* counts the faults, for the bound

repository == <<claim, mailboxes, secrets, tag>>
runs == <<accepted, visible, completed>>
vars == <<claim, mailboxes, secrets, tag, accepted, visible, completed,
          inv, issued, aged, answered, races, takeovers, faults>>

None == 0
Tokens == 1 .. MaxClaims
Slots == Dispatchers \cup Pollers
SecretNames == {"steering", "provider"}

\* A claim: who created it, how far steering got ("bare" before there is any),
\* whether it names the mailbox and the workflow tag, and the run, if known.
Claim == [token    : Tokens \cup {None},
          phase    : {"bare", "preparing", "ready", "dispatching"},
          mailbox  : BOOLEAN,
          workflow : BOOLEAN,
          run      : Tokens \cup {None}]

NoClaim == [token |-> None, phase |-> "bare", mailbox |-> FALSE,
            workflow |-> FALSE, run |-> None]

\* Mutant of FreshClaim: the state of the claim lands in the phase of steering.
FreshClaimMixedUp(t) == [NoClaim EXCEPT !.token = t, !.phase = "claimed"]

FreshClaim(t) == [NoClaim EXCEPT !.token = t]

\* An invocation: its next step, the claim object it holds, what follows the
\* deletion of that claim's resources, the claims there were when it began, and
\* the runs it saw when it last searched the history.
Idle == [pc |-> "idle", mine |-> NoClaim, then |-> "idle",
         since |-> None, seen |-> {}]

\* A new invocation that has read the claim.
Began(pc) == [Idle EXCEPT !.pc = pc, !.mine = claim, !.since = issued]

PCs == {"idle", "recover", "takeover", "scan", "check", "claim", "prepare", "seal",
        "mailbox", "ready", "provider", "reserve", "tag", "commit", "post",
        "locate", "mark", "untag", "untagging", "unmail", "unseal", "unclaim"}

Init ==
    /\ claim = NoClaim
    /\ mailboxes = {}
    /\ secrets = <<>>
    /\ tag = None
    /\ accepted = {} /\ visible = {} /\ completed = {}
    /\ inv = [i \in Slots |-> Idle]
    /\ issued = 0
    /\ aged = {}
    /\ answered = {}
    /\ races = {}
    /\ takeovers = 0
    /\ faults = 0

Fault == faults < MaxFaults /\ faults' = faults + 1

At(i, pc) == inv[i].pc = pc
Mine(i) == inv[i].mine
Goes(i, pc, c) == inv' = [inv EXCEPT ![i].pc = pc, ![i].mine = c]
Ends(i) == inv' = [inv EXCEPT ![i] = Idle]

\* deleteClaimResources(c) begins, and `next' comes after it.
Deletes(i, c, next) ==
    inv' = [inv EXCEPT ![i].pc = "untag", ![i].mine = c, ![i].then = next]

\* The catch block of dispatch before the run is dispatched.
RollsBack(i, c) == Deletes(i, c, "idle")

\* The invocation answers with run r.
Answers(i, r) == answered' = answered \cup {r} /\ Ends(i)

(***************************************************************************)
(* A dispatch looks for earlier work                                       *)
(***************************************************************************)

\* Mutants of TakeoverDue: any old claim without a run will do, or one of any
\* age that was not dispatched.
TakeoverWhenOld(c) == c.run = None /\ c.token \in aged

TakeoverAtAnyAge(c) == c.run = None /\ c.phase \in {"preparing", "ready"}

\* dispatch: only an old claim that was certainly never dispatched.
TakeoverDue(c) ==
    /\ c.run = None
    /\ c.phase \in {"preparing", "ready"}
    /\ c.token \in aged

\* dispatch reads the claim and chooses its way.
Start(i) ==
    LET begin(pc) == inv' = [inv EXCEPT ![i] = Began(pc)]
    IN  /\ i \in Dispatchers
        /\ At(i, "idle")
        /\ \/ claim = NoClaim /\ begin("scan") /\ UNCHANGED takeovers
           \/ /\ claim # NoClaim /\ ~TakeoverDue(claim)
              /\ begin("recover")
              /\ UNCHANGED takeovers
           \/ /\ claim # NoClaim /\ TakeoverDue(claim)
              /\ takeovers < MaxTakeovers /\ takeovers' = takeovers + 1
              /\ begin("takeover")
        /\ UNCHANGED <<repository, runs, issued, aged, answered, races, faults>>

\* Mutant of Known: recovery looks at the recorded run only.
KnownIfRecorded(c) == {c.run} \cap accepted

\* The runs recovery may answer with: the recorded one, else what the history
\* shows.
Known(c) == IF c.run # None THEN {c.run} \cap accepted ELSE visible

\* recoverClaimedRequest: answer the run, or refuse and change nothing.
Recover(i) ==
    /\ At(i, "recover")
    /\ \/ \E r \in Known(Mine(i)) : Answers(i, r)
       \/ Known(Mine(i)) = {} /\ Ends(i) /\ UNCHANGED answered
    /\ UNCHANGED <<repository, runs, issued, aged, takeovers, races, faults>>

\* existingDispatchedRun before a takeover.
Takeover(i) ==
    /\ At(i, "takeover")
    /\ \/ \E r \in visible : Answers(i, r)
       \/ visible = {} /\ Deletes(i, Mine(i), "scan") /\ UNCHANGED answered
    /\ UNCHANGED <<repository, runs, issued, aged, takeovers, races, faults>>

\* existingDispatchedRun of a request without a claim.
Scan(i) ==
    /\ At(i, "scan")
    /\ \/ \E r \in visible : Answers(i, r)
       \/ /\ visible = {}
          /\ inv' = [inv EXCEPT ![i].pc = "check", ![i].mine = NoClaim, ![i].seen = visible]
          /\ UNCHANGED answered
    /\ UNCHANGED <<repository, runs, issued, aged, takeovers, races, faults>>

\* assertRequestWorkflowAbsent before anything is written.
Check(i) ==
    /\ At(i, "check")
    /\ IF tag = None THEN Goes(i, "claim", NoClaim) ELSE Ends(i)
    /\ UNCHANGED <<repository, runs, issued, aged, answered, takeovers, races, faults>>

\* The first race: the search of the history saw nothing of a run that another
\* retry dispatched since, and that has ended and been cleaned up.  Nothing
\* searches again once the claim is free.
Blind(i) == IF completed \ inv[i].seen # {} THEN {"blind"} ELSE {}

\* claimRequest: creating the variable is the one atomic test there is.  When
\* its answer is lost, the exception leaves dispatch before the try block.
ClaimRequest(i) ==
    /\ At(i, "claim")
    /\ \/ /\ claim # NoClaim
          /\ Goes(i, "recover", claim)
          /\ UNCHANGED <<claim, issued, races, faults>>
       \/ /\ claim = NoClaim /\ issued < MaxClaims
          /\ issued' = issued + 1
          /\ claim' = FreshClaim(issued + 1)
          /\ races' = races \cup Blind(i)
          /\ \/ Goes(i, "prepare", FreshClaim(issued + 1)) /\ UNCHANGED faults
             \/ Fault /\ Ends(i)
    /\ UNCHANGED <<mailboxes, secrets, tag, runs, aged, answered, takeovers>>

(***************************************************************************)
(* The owner of the claim prepares the run                                 *)
(***************************************************************************)

\* persistRequestClaim(c): an unconditional PATCH, refused when the variable is
\* gone.  dispatch rolls back when it raises.
Persist(i, c, next) ==
    \/ claim # NoClaim /\ claim' = c /\ Goes(i, next, c) /\ UNCHANGED faults
    \/ claim # NoClaim /\ claim' \in {claim, c} /\ Fault /\ RollsBack(i, c)
    \/ claim = NoClaim /\ RollsBack(i, c) /\ UNCHANGED <<claim, faults>>

\* ensureTargetWorkflow, which may raise; then initializeSteeringMailbox makes
\* a key pair and records it.
Prepare(i) ==
    /\ At(i, "prepare")
    /\ \/ Persist(i, [Mine(i) EXCEPT !.phase = "preparing"], "seal")
       \/ Fault /\ RollsBack(i, Mine(i)) /\ UNCHANGED claim
    /\ UNCHANGED <<mailboxes, secrets, tag, runs, issued, aged, answered, takeovers, races>>

\* putRepositorySecret.
PutSecret(i, name, next) ==
    LET written == [n \in DOMAIN secrets \cup {name} |->
                       IF n = name THEN Mine(i).token ELSE secrets[n]]
    IN  /\ \/ secrets' = written /\ Goes(i, next, Mine(i)) /\ UNCHANGED faults
           \/ secrets' \in {secrets, written} /\ Fault /\ RollsBack(i, Mine(i))
        /\ UNCHANGED <<claim, mailboxes, tag, runs, issued, aged, answered, takeovers, races>>

SealSteering(i) == At(i, "seal") /\ PutSecret(i, "steering", "mailbox")

\* The draft release is created.  While it is uncertain whether it was,
\* steeringCreationAmbiguous keeps the catch block from rolling back.
CreateMailbox(i) ==
    LET created == mailboxes \cup {Mine(i).token}
    IN  /\ At(i, "mailbox")
        /\ \/ mailboxes' = created /\ Goes(i, "ready", Mine(i)) /\ UNCHANGED faults
           \/ mailboxes' \in {mailboxes, created} /\ Fault /\ Ends(i)
        /\ UNCHANGED <<claim, secrets, tag, runs, issued, aged, answered, takeovers, races>>

PersistReady(i) ==
    /\ At(i, "ready")
    /\ Persist(i, [Mine(i) EXCEPT !.phase = "ready", !.mailbox = TRUE], "provider")
    /\ UNCHANGED <<mailboxes, secrets, tag, runs, issued, aged, answered, takeovers, races>>

\* applyProviderSecrets.
SealProvider(i) == At(i, "provider") /\ PutSecret(i, "provider", "reserve")

\* createRequestWorkflow: the tag must be free; the manifest is recorded first.
PersistWorkflow(i) ==
    /\ At(i, "reserve")
    /\ IF tag = None
       THEN Persist(i, [Mine(i) EXCEPT !.workflow = TRUE], "tag")
       ELSE RollsBack(i, Mine(i)) /\ UNCHANGED <<claim, faults>>
    /\ UNCHANGED <<mailboxes, secrets, tag, runs, issued, aged, answered, takeovers, races>>

\* The tag is created, unless somebody else's is there.
CreateTag(i) ==
    LET free == tag \in {None, Mine(i).token}
    IN
    /\ At(i, "tag")
    /\ \/ free /\ tag' = Mine(i).token /\ Goes(i, "commit", Mine(i)) /\ UNCHANGED faults
       \/ free /\ tag' \in {tag, Mine(i).token} /\ Fault /\ RollsBack(i, Mine(i))
       \/ ~free /\ RollsBack(i, Mine(i)) /\ UNCHANGED <<tag, faults>>
    /\ UNCHANGED <<claim, mailboxes, secrets, runs, issued, aged, answered, takeovers, races>>

PersistDispatching(i) ==
    /\ At(i, "commit")
    /\ Persist(i, [Mine(i) EXCEPT !.phase = "dispatching"], "post")
    /\ UNCHANGED <<mailboxes, secrets, tag, runs, issued, aged, answered, takeovers, races>>

(***************************************************************************)
(* The run is dispatched                                                   *)
(***************************************************************************)

\* Mutant of Unanswered: an error of the POST always rolls back.
UnansweredRollsBack(i) == RollsBack(i, Mine(i))

\* The POST raised without a definite refusal: dispatchAttempted stays TRUE,
\* and the claim stays for a retry to recover.
Unanswered(i) == Ends(i)

\* The POST of workflow_dispatch.  GitHub accepts it only for a ref that is
\* there; it answers with the run (200) or without (204).  A definite refusal,
\* when no retry helps, rolls back.
Post(i) ==
    /\ At(i, "post")
    /\ \/ /\ tag # None
          /\ accepted' = accepted \cup {Mine(i).token}
          /\ \/ /\ Goes(i, "mark", [Mine(i) EXCEPT !.run = Mine(i).token])
                /\ UNCHANGED faults
             \/ Goes(i, "locate", Mine(i)) /\ UNCHANGED faults
             \/ Fault /\ Unanswered(i)
       \/ Fault /\ Unanswered(i) /\ UNCHANGED accepted
       \/ Fault /\ RollsBack(i, Mine(i)) /\ UNCHANGED accepted
       \/ tag = None /\ RollsBack(i, Mine(i)) /\ UNCHANGED <<accepted, faults>>
    /\ UNCHANGED <<repository, visible, completed, issued, aged, answered, takeovers, races>>

\* locateDispatchedRun: the run in the history, or an error after 30 looks.
Locate(i) ==
    /\ At(i, "locate")
    /\ \/ \E r \in visible : Goes(i, "mark", [Mine(i) EXCEPT !.run = r])
       \/ visible = {} /\ Ends(i)
    /\ UNCHANGED <<repository, runs, issued, aged, answered, takeovers, races, faults>>

\* markRequestDispatched, and the answer.
Mark(i) ==
    /\ At(i, "mark")
    /\ \/ /\ claim # NoClaim /\ claim' = Mine(i)
          /\ Answers(i, Mine(i).run)
          /\ UNCHANGED faults
       \/ /\ claim # NoClaim /\ claim' \in {claim, Mine(i)}
          /\ Fault /\ Ends(i)
          /\ UNCHANGED answered
       \/ claim = NoClaim /\ Ends(i) /\ UNCHANGED <<claim, answered, faults>>
    /\ UNCHANGED <<mailboxes, secrets, tag, runs, issued, aged, takeovers, races>>

(***************************************************************************)
(* deleteClaimResources, the claim itself last                             *)
(***************************************************************************)

\* The second race: two invocations take over the same old claim, and the slower
\* one goes on deleting, by name, when the request has a newer claim.
LateTakeover(i) ==
    IF inv[i].then = "scan" /\ claim.token \notin {None, Mine(i).token}
    THEN {"late"} ELSE {}

\* deleteRequestWorkflow looks at the tag and refuses to go on when it is not
\* the one the claim names,
Untag(i) ==
    /\ At(i, "untag")
    /\ \/ (~Mine(i).workflow \/ tag = None) /\ Goes(i, "unmail", Mine(i))
       \/ /\ Mine(i).workflow /\ tag = Mine(i).token
          /\ Goes(i, "untagging", Mine(i))
       \/ /\ Mine(i).workflow /\ tag \notin {None, Mine(i).token}
          /\ Ends(i)
    /\ UNCHANGED <<repository, runs, issued, aged, answered, takeovers, races, faults>>

\* and deletes it in a second call, by name.
Untagging(i) ==
    /\ At(i, "untagging")
    /\ \/ tag' = None /\ Goes(i, "unmail", Mine(i)) /\ UNCHANGED faults
       \/ tag' \in {tag, None} /\ Fault /\ Ends(i)
    /\ races' = races \cup LateTakeover(i)
    /\ UNCHANGED <<claim, mailboxes, secrets, runs, issued, aged, answered, takeovers>>

\* Mutant of Unmailable: a claim without a release has no mailbox.
UnmailableIfNamed(c) == IF c.mailbox THEN {c.token} ELSE {}

\* deleteOwnedSteeringMailbox: the drafts it tries to delete.  Without a release
\* it goes through every draft of the request.
Unmailable(c) ==
    IF c.phase = "bare" THEN {}
    ELSE IF c.mailbox THEN {c.token} ELSE mailboxes

\* A draft with another key pair ends the deletion; those before it are gone.
Unmail(i) ==
    LET mine == {Mine(i).token}
    IN  /\ At(i, "unmail")
        /\ \/ /\ Unmailable(Mine(i)) \subseteq mine
              /\ mailboxes' = mailboxes \ Unmailable(Mine(i))
              /\ Goes(i, "unseal", Mine(i))
              /\ UNCHANGED faults
           \/ /\ Unmailable(Mine(i)) \subseteq mine
              /\ mailboxes' \in {mailboxes, mailboxes \ Unmailable(Mine(i))}
              /\ Fault /\ Ends(i)
           \/ /\ ~(Unmailable(Mine(i)) \subseteq mine)
              /\ mailboxes' \in {mailboxes, mailboxes \ mine}
              /\ Ends(i)
              /\ UNCHANGED faults
        /\ UNCHANGED <<claim, secrets, tag, runs, issued, aged, answered, takeovers, races>>

\* deleteEphemeralSecret of every name in the claim, one after the other.
Unseal(i) ==
    /\ At(i, "unseal")
    /\ \/ secrets' = <<>> /\ Goes(i, "unclaim", Mine(i)) /\ UNCHANGED faults
       \/ /\ \E S \in SUBSET DOMAIN secrets : secrets' = [n \in S |-> secrets[n]]
          /\ Fault /\ Ends(i)
    /\ races' = races \cup LateTakeover(i)
    /\ UNCHANGED <<claim, mailboxes, tag, runs, issued, aged, answered, takeovers>>

\* The claim variable is deleted, whatever it holds.
Unclaim(i) ==
    /\ At(i, "unclaim")
    /\ \/ /\ claim' = NoClaim
          /\ IF inv[i].then = "scan" THEN Goes(i, "scan", NoClaim) ELSE Ends(i)
          /\ UNCHANGED faults
       \/ claim' \in {claim, NoClaim} /\ Fault /\ Ends(i)
    /\ races' = races \cup LateTakeover(i)
    /\ UNCHANGED <<mailboxes, secrets, tag, runs, issued, aged, answered, takeovers>>

\* Mutant of Cleanable: only a claim that names the run.
CleanableIfRecorded(c, r) == c.run = r

\* cleanupRequestClaim: a claim that names another run is left alone.
Cleanable(c, r) == c.run \in {None, r}

\* runStatus of a completed run a dispatch answered with.
Status(i, r) ==
    /\ i \in Pollers
    /\ At(i, "idle")
    /\ claim # NoClaim
    /\ Cleanable(claim, r)
    /\ inv' = [inv EXCEPT ![i] = Began("untag")]
    /\ UNCHANGED <<repository, runs, issued, aged, answered, takeovers, races, faults>>

(***************************************************************************)
(* GitHub, time and the cloud platform                                     *)
(***************************************************************************)

\* An accepted run shows up in the history.
Appear(r) ==
    /\ r \in accepted \ visible
    /\ visible' = visible \cup {r}
    /\ UNCHANGED <<repository, accepted, completed, inv, issued, aged, answered,
                   takeovers, races, faults>>

\* A run ends, whatever invocations are under way.
Complete(r) ==
    /\ r \in visible \ completed
    /\ completed' = completed \cup {r}
    /\ UNCHANGED <<repository, accepted, visible, inv, issued, aged, answered,
                   takeovers, races, faults>>

\* DISPATCH_PENDING_MS pass.  An invocation lasts five minutes at most, so
\* every one that was under way when the claim was created has ended.
GrowOld(t) ==
    /\ t \in 1 .. issued \ aged
    /\ \A i \in Slots : At(i, "idle") \/ inv[i].since >= t
    /\ aged' = aged \cup {t}
    /\ UNCHANGED <<repository, runs, inv, issued, answered, takeovers, races, faults>>

\* The platform ends the invocation.
Killed(i) ==
    /\ ~At(i, "idle")
    /\ Fault
    /\ Ends(i)
    /\ UNCHANGED <<repository, runs, issued, aged, answered, takeovers, races>>

\* The next call of an invocation under way.
Step(i) ==
    \/ Recover(i) \/ Takeover(i) \/ Scan(i) \/ Check(i) \/ ClaimRequest(i)
    \/ Prepare(i) \/ SealSteering(i) \/ CreateMailbox(i) \/ PersistReady(i)
    \/ SealProvider(i) \/ PersistWorkflow(i) \/ CreateTag(i)
    \/ PersistDispatching(i) \/ Post(i) \/ Locate(i) \/ Mark(i)
    \/ Untag(i) \/ Untagging(i) \/ Unmail(i) \/ Unseal(i) \/ Unclaim(i)

Next ==
    \/ \E i \in Dispatchers : Start(i)
    \/ \E i \in Slots : Step(i)
    \/ \E i \in Pollers, r \in answered \cap completed : Status(i, r)
    \/ \E i \in Slots : Killed(i)
    \/ \E r \in accepted : Appear(r)
    \/ \E r \in visible : Complete(r)
    \/ \E t \in Tokens : GrowOld(t)

Spec == Init /\ [][Next]_vars

\* GitHub shows and ends its runs, an invocation goes on, and the phone tries
\* again until it has its answer and polls the run until it is cleaned up.
Fairness ==
    /\ \A r \in Tokens : WF_vars(Appear(r)) /\ WF_vars(Complete(r))
    /\ \A i \in Slots : WF_vars(Step(i))
    /\ \A i \in Dispatchers : WF_vars(Start(i))
    /\ \A i \in Pollers : WF_vars(\E r \in answered \cap completed : Status(i, r))

FairSpec == Spec /\ Fairness

(***************************************************************************)
(* Properties                                                              *)
(***************************************************************************)

\* The claim, the resources and the invocations are what the service and
\* GitHub can hold.
TypeOK ==
    /\ claim \in Claim
    /\ mailboxes \subseteq Tokens
    /\ DOMAIN secrets \subseteq SecretNames
    /\ secrets \in [DOMAIN secrets -> Tokens]
    /\ tag \in Tokens \cup {None}
    /\ completed \subseteq visible /\ visible \subseteq accepted
    /\ accepted \subseteq Tokens
    /\ inv \in [Slots -> [pc : PCs, mine : Claim, then : {"idle", "scan"},
                         since : 0 .. MaxClaims, seen : SUBSET Tokens]]
    /\ issued \in 0 .. MaxClaims
    /\ aged \subseteq Tokens
    /\ answered \subseteq Tokens
    /\ races \subseteq {"blind", "late"}
    /\ takeovers \in Nat /\ faults \in Nat

\* Neither race has been lost.  The service has nothing that keeps either from
\* being lost: repository variables have no compare-and-swap.
Undisturbed == races = {}

\* "Retain the claim so a retry can recover but can never dispatch the UUID
\* twice" (service.js:1042): GitHub accepts one run of a request.  The service
\* does not keep this promise; see OneRunUnlessRaced.
AtMostOneRun == Cardinality(accepted) <= 1

\* However answers are lost, invocations die, retries overlap and runs end early,
\* it takes a lost race to have a second run: a search of the history that came
\* before the first run, or a takeover that deletes a newer claim.
OneRunUnlessRaced == Undisturbed => AtMostOneRun

\* The owner of a claim that prepares its run.
Preparing(i) == inv[i].pc \in {"prepare", "seal", "mailbox", "ready", "provider",
                               "reserve", "tag", "commit", "post"}

\* "This invocation exclusively owns a pre-dispatch claim.  No recovery path
\* releases it" (service.js:1044): until its run is dispatched, the claim is the
\* owner's.  The service does not keep this promise; see OwnerKeepsUnlessRaced.
OwnerKeepsItsClaim ==
    \A i \in Slots : Preparing(i) => claim.token = Mine(i).token

\* An owner at work loses its claim to no rollback, no cleanup and no takeover of
\* that claim: only a takeover of an older claim that comes late, or a poll of a
\* run that its search did not see, can take it away.
OwnerKeepsUnlessRaced == Undisturbed => OwnerKeepsItsClaim

\* The claim is the manifest of what has to be deleted: unless a race was lost,
\* once it is gone and nobody is at work, nothing of the request is left in the
\* repository.
NothingLeftBehind ==
    Undisturbed /\ claim = NoClaim /\ (\A i \in Slots : At(i, "idle"))
        => mailboxes = {} /\ tag = None /\ DOMAIN secrets = {}

\* A run that has not ended keeps its mailbox and the key that opens it,
\* whatever other invocations roll back, take over or clean up, unless a race was
\* lost: a late takeover deletes the key by its name.
ActiveRunKeepsItsMailbox ==
    Undisturbed =>
        \A r \in accepted \ completed :
            /\ r \in mailboxes
            /\ "steering" \in DOMAIN secrets /\ secrets["steering"] = r

\* An accepted run is found again, unless a race was lost: the phone gets its
\* identifier although answers were lost and invocations died.
AcceptedRunIsRecovered == accepted # {} ~> answered # {} \/ ~Undisturbed

\* A completed run whose identifier the phone knows is cleaned up completely,
\* unless a race was lost, although deletions fail half-way.
CompletedRunIsCleanedUp ==
    answered \cap completed # {}
        ~> \/ claim = NoClaim /\ mailboxes = {} /\ tag = None /\ DOMAIN secrets = {}
           \/ ~Undisturbed

=============================================================================
