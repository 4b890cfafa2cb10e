------------------------- MODULE Publication_proofs -------------------------
(***************************************************************************)
(* Proofs about Publication, for any number of runs.                       *)
(*                                                                         *)
(* What a run publishes is settled by what it checked several steps        *)
(* before, while HEAD, the tree and the branches of origin go on moving.   *)
(* The invariant carries each of those results from its check to its use.  *)
(***************************************************************************)
EXTENDS Publication, TLAPS

(***************************************************************************)
(* The inductive invariant                                                 *)
(***************************************************************************)

\* The steps after the checks that follow the publication gate.
Leaving == {"push", "fallback", "tip", "open", "landing", "view", "prove"}

\* A process that works belongs to a run.
RunIsNumbered == pc # "down" => runs \in 1 .. MaxRuns

\* HEAD keeps what is under review: it only grows.
HeadHoldsReviewed == pc \in {"review", "answered", "matched"} => reviewed \subseteq head

\* HEAD takes no repair after its commit was read for publication.
FixesAreInCommit ==
    pc \in Publishing => \A n \in 1 .. MaxRuns : Fix(n) \in head => Fix(n) \in commit

\* The gate has verified the commit, or what it saw was another tree, and then HEAD or
\* the tree shows it for the rest of the run.
GateOrTraces == pc = "after" => dirty \/ head # commit \/ commit \in verified

\* What leaves has passed the gate and is free of the owner's work.
LeavesCleared ==
    pc \in Leaving => /\ commit \in verified
                      /\ wip # "none" => wip = "clean" /\ Snapshot(runs) \notin commit

\* The branch that a request is made for is on origin.
SourceIsPushed == pc \in {"tip", "open", "landing", "view"} => source \in DOMAIN remote

IInv == /\ TypeOK /\ Default \in DOMAIN remote
        /\ RunIsNumbered /\ HeadHoldsReviewed /\ FixesAreInCommit /\ GateOrTraces
        /\ LeavesCleared /\ SourceIsPushed /\ CompleteMeansLanded

(***************************************************************************)
(* Changes, commits and branches                                           *)
(***************************************************************************)

LEMMA ChangesOfRuns ==
  ASSUME NEW n \in 1 .. MaxRuns
  PROVE  Fix(n) \in Changes /\ Snapshot(n) \in Changes
BY DEF Changes

LEMMA ChangesOfOthers == Base \in Changes /\ Late \in Changes /\ Peer \in Changes
BY DEF Changes

\* What others commit is no repair.
LEMMA FixIsNotOthers ==
  ASSUME NEW n \in 1 .. MaxRuns, NEW m
  PROVE  Fix(n) # Late /\ Fix(n) # Snapshot(m) /\ Fix(n) # Base /\ Fix(n) # Peer
<1>1. Fix(n)[1] = "fix" /\ Late[1] = "late" /\ Snapshot(m)[1] = "wip" /\ Base[1] = "base" /\ Peer[1] = "peer"
  BY DEF Fix, Late, Snapshot, Base, Peer
<1> QED
  BY <1>1

LEMMA BranchNames ==
  /\ Default \in Branches /\ Topic \in Branches
  /\ \A c \in Commits : Land(c) \in Branches
BY DEF Branches

(***************************************************************************)
(* What happens at origin                                                  *)
(***************************************************************************)

\* The part of the invariant that is about origin alone.
OriginOK ==
    /\ Default \in DOMAIN remote
    /\ DOMAIN remote \subseteq Branches /\ DOMAIN pr \subseteq DOMAIN remote
    /\ \A b \in DOMAIN remote : remote[b] \in Commits
    /\ \A b \in DOMAIN pr : pr[b].state = "merged" => pr[b].head \subseteq remote[Default]

\* A branch that grows, or a new one, keeps it; the default branch forgets nothing.
LEMMA OriginAfterPut ==
  ASSUME OriginOK, NEW STATE b, b \in Branches, NEW STATE c, c \in Commits,
         b \in DOMAIN remote => remote[b] \subseteq c,
         remote' = Put(b, c), pr' = pr
  PROVE  OriginOK' /\ remote[Default] \subseteq remote'[Default] /\ b \in DOMAIN remote'
         /\ DOMAIN remote \subseteq DOMAIN remote'
<1>1. /\ DOMAIN remote' = DOMAIN remote \cup {b} /\ remote'[b] = c
      /\ \A x \in DOMAIN remote : x # b => remote'[x] = remote[x]
  BY DEF Put
<1>2. remote[Default] \subseteq remote'[Default]
  BY <1>1 DEF OriginOK
<1> QED
  BY <1>1, <1>2 DEF OriginOK

LEMMA OriginAfterMerge ==
  ASSUME OriginOK, NEW STATE b, b \in DOMAIN pr, Merge(b)
  PROVE  OriginOK' /\ remote[Default] \subseteq remote'[Default] /\ DOMAIN remote' = DOMAIN remote
<1> DEFINE c == remote[Default] \cup remote[b]
<1>1. /\ DOMAIN remote' = DOMAIN remote \cup {Default} /\ remote'[Default] = c
      /\ \A x \in DOMAIN remote : x # Default => remote'[x] = remote[x]
  BY DEF Merge, Put
<1>2. /\ DOMAIN pr' = DOMAIN pr \cup {b} /\ pr'[b] = [state |-> "merged", head |-> remote[b]]
      /\ \A x \in DOMAIN pr : x # b => pr'[x] = pr[x]
  BY DEF Merge, PullRequest
<1>3. c \in Commits
  BY DEF OriginOK, Commits
<1>4. remote[Default] \subseteq remote'[Default] /\ pr'[b].head \subseteq remote'[Default]
  BY <1>1, <1>2
<1> HIDE DEF c
<1> QED
  BY <1>1, <1>2, <1>3, <1>4 DEF OriginOK

\* A request that is opened or closed was not merged.
LEMMA OriginAfterRequest ==
  ASSUME OriginOK, NEW STATE b, b \in DOMAIN remote, NEW STATE s, s # "merged", NEW STATE t,
         pr' = PullRequest(b, s, t), remote' = remote
  PROVE  OriginOK'
<1>1. /\ DOMAIN pr' = DOMAIN pr \cup {b} /\ pr'[b] = [state |-> s, head |-> t]
      /\ \A x \in DOMAIN pr : x # b => pr'[x] = pr[x]
  BY DEF PullRequest
<1> QED
  BY <1>1 DEF OriginOK

(***************************************************************************)
(* The invariant is inductive                                              *)
(***************************************************************************)

\* The parts of TypeOK that are about the run and its repository.
RunOK ==
    /\ head \in Commits /\ branch \in {Default, Topic} /\ dirty \in BOOLEAN
    /\ pc \in {"down", "complete", "incomplete"} \cup Working \cup Publishing
    /\ runs \in 0 .. MaxRuns /\ wip \in {"none", "clean", "secret"}
    /\ {initial, reviewed, commit} \subseteq Commits /\ source \in Branches
    /\ pc \in Publishing => verdict /\ reviewed \subseteq commit /\ commit \subseteq head

LEMMA TypeIsInParts == TypeOK /\ Default \in DOMAIN remote <=> RunOK /\ OriginOK
BY DEF TypeOK, RunOK, OriginOK

\* The parts of the invariant that a step of the run itself may disturb.
LocalInv == /\ RunOK /\ RunIsNumbered /\ HeadHoldsReviewed /\ FixesAreInCommit
            /\ GateOrTraces /\ LeavesCleared

LEMMA InvIsInParts ==
  IInv <=> OriginOK /\ LocalInv /\ SourceIsPushed /\ CompleteMeansLanded
BY TypeIsInParts DEF IInv, LocalInv

\* The same, for the state after a step.
LEMMA PartsGiveInv ==
  OriginOK' /\ LocalInv' /\ SourceIsPushed' /\ CompleteMeansLanded' => IInv'
BY DEF IInv, TypeOK, OriginOK, LocalInv, RunOK

LEMMA InitInv == Init => IInv
<1> SUFFICES ASSUME Init PROVE IInv
  OBVIOUS
<1>1. OriginOK
  BY BranchNames, ChangesOfOthers DEF Init, OriginOK, Commits
<1>2. {Base} \in Commits /\ NoCommit \in Commits
  BY ChangesOfOthers DEF Commits, NoCommit
<1>3. RunOK
  <2>1. dirty \in BOOLEAN
    BY DEF Init
  <2>2. pc = "down" /\ runs \in 0 .. MaxRuns /\ wip = "none"
    BY PublicationAssumption DEF Init
  <2>3. head \in Commits /\ branch \in {Default, Topic} /\ source \in Branches
    BY <1>2, BranchNames DEF Init
  <2>4. {initial, reviewed, commit} \subseteq Commits
    BY <1>2 DEF Init
  <2> QED
    BY <2>1, <2>2, <2>3, <2>4 DEF RunOK, Publishing
<1>4. LocalInv
  BY <1>3 DEF Init, LocalInv, RunIsNumbered, HeadHoldsReviewed, FixesAreInCommit, GateOrTraces,
      LeavesCleared, Publishing, Leaving
<1> QED
  BY <1>1, <1>4, InvIsInParts DEF Init, SourceIsPushed, CompleteMeansLanded

\* A step that leaves origin alone keeps what is said about it, if what it begins to
\* rely on is there.
LEMMA OriginUntouched ==
  ASSUME IInv, UNCHANGED origin,
         pc' \in {"tip", "open", "landing", "view"} => source' = source /\ source \in DOMAIN remote,
         pc' = "complete" => \A n \in 1 .. MaxRuns : Fix(n) \in head' => Fix(n) \in remote[Default]
  PROVE  OriginOK' /\ SourceIsPushed' /\ CompleteMeansLanded'
BY InvIsInParts DEF OriginOK, origin, SourceIsPushed, CompleteMeansLanded

LEMMA BeginKeeps ==
  ASSUME IInv, Begin
  PROVE  IInv'
<1>1. runs' \in 1 .. MaxRuns
  BY PublicationAssumption DEF IInv, TypeOK, Begin
<1>2. branch \in Branches /\ NoCommit \in Commits
  BY BranchNames DEF IInv, TypeOK, Commits, NoCommit
<1>3. RunOK'
  <2>1. dirty' \in BOOLEAN
    BY DEF Begin
  <2>2. pc' = "work" /\ wip' \in {"none", "clean", "secret"}
    BY DEF Begin
  <2>3. head' \in Commits /\ branch' \in {Default, Topic} /\ source' \in Branches
    BY <1>2 DEF IInv, TypeOK, Begin
  <2>4. initial' \in Commits /\ reviewed' \in Commits /\ commit' \in Commits
    BY <1>2 DEF IInv, TypeOK, Begin
  <2> QED
    BY <1>1, <2>1, <2>2, <2>3, <2>4 DEF RunOK, Working, Publishing
<1>4. LocalInv'
  BY <1>1, <1>3
  DEF Begin, LocalInv, RunIsNumbered, HeadHoldsReviewed, FixesAreInCommit, GateOrTraces,
      LeavesCleared, Publishing, Leaving
<1>5. OriginOK' /\ SourceIsPushed' /\ CompleteMeansLanded'
  BY OriginUntouched DEF Begin
<1> QED
  BY <1>4, <1>5, PartsGiveInv

LEMMA RepairsCommittedKeeps ==
  ASSUME IInv, RepairsCommitted
  PROVE  IInv'
<1>1. runs \in 1 .. MaxRuns /\ Fix(runs) \in Changes
  BY ChangesOfRuns DEF IInv, RunIsNumbered, RepairsCommitted
<1>2. LocalInv'
  BY <1>1
  DEF IInv, TypeOK, RepairsCommitted, LocalInv, RunOK, RunIsNumbered, HeadHoldsReviewed,
      FixesAreInCommit, GateOrTraces, LeavesCleared, Working, Publishing, Leaving, Commits, run
<1>3. OriginOK' /\ SourceIsPushed' /\ CompleteMeansLanded'
  BY OriginUntouched DEF RepairsCommitted
<1> QED
  BY <1>2, <1>3, PartsGiveInv

\* Review, answer and match.
LEMMA ReviewKeeps ==
  ASSUME IInv, CallReview \/ Answer \/ Match
  PROVE  IInv'
<1>1. LocalInv'
  BY DEF IInv, TypeOK, CallReview, Answer, Match, LocalInv, RunOK, RunIsNumbered,
      HeadHoldsReviewed, FixesAreInCommit, GateOrTraces, LeavesCleared, Working, Publishing,
      Leaving, Commits, local
<1>2. OriginOK' /\ SourceIsPushed' /\ CompleteMeansLanded'
  BY OriginUntouched DEF CallReview, Answer, Match
<1> QED
  BY <1>1, <1>2, PartsGiveInv

\* Without the need for a publication everything is on the default branch already.
LEMMA DecideKeeps ==
  ASSUME IInv, Decide
  PROVE  IInv'
<1>1. LocalInv'
  BY DEF IInv, TypeOK, Decide, LocalInv, RunOK, RunIsNumbered, HeadHoldsReviewed,
      FixesAreInCommit, GateOrTraces, LeavesCleared, Working, Publishing, Leaving, Commits, local
<1>2. pc' = "complete" => head \subseteq remote[Default] /\ head' = head
  BY DEF Decide, NeedsPublication, Contained, local
<1>3. OriginOK' /\ SourceIsPushed' /\ CompleteMeansLanded'
  BY <1>2, OriginUntouched DEF Decide
<1> QED
  BY <1>1, <1>3, PartsGiveInv

\* The checks around the gate, and the gate: a clean tree at the commit is verified.
LEMMA ChecksKeep ==
  ASSUME IInv, Before \/ Gate \/ After
  PROVE  IInv'
<1>1. LocalInv'
  BY DEF IInv, TypeOK, Before, Gate, After, Stop, ExactHead, WipAllowed, LocalInv, RunOK,
      RunIsNumbered, HeadHoldsReviewed, FixesAreInCommit, GateOrTraces, LeavesCleared, Working,
      Publishing, Leaving, Commits, local, run
<1>2. OriginOK' /\ SourceIsPushed' /\ CompleteMeansLanded'
  BY OriginUntouched DEF Before, Gate, After, Stop
<1> QED
  BY <1>1, <1>2, PartsGiveInv

LEMMA CommitIsOne == ASSUME IInv PROVE commit \in Commits /\ Land(commit) \in Branches /\ source \in Branches
BY BranchNames DEF IInv, TypeOK

LEMMA PushKeeps ==
  ASSUME IInv, Push
  PROVE  IInv'
<1>1. LocalInv'
  BY DEF IInv, TypeOK, Push, LocalInv, RunOK, RunIsNumbered, HeadHoldsReviewed, FixesAreInCommit,
      GateOrTraces, LeavesCleared, Working, Publishing, Leaving, Commits, local, run
<1>2. CASE pc' = "fallback" /\ UNCHANGED remote
  BY <1>1, <1>2, OriginUntouched, PartsGiveInv DEF Push, origin
<1>3. CASE CanPush(source) /\ remote' = Put(source, commit)
  <2>1. OriginOK' /\ source \in DOMAIN remote'
    BY <1>3, CommitIsOne, OriginAfterPut, InvIsInParts DEF Push, CanPush
  <2>2. SourceIsPushed' /\ CompleteMeansLanded'
    BY <2>1 DEF Push, run, SourceIsPushed, CompleteMeansLanded
  <2> QED
    BY <1>1, <2>1, <2>2, PartsGiveInv
<1> QED
  BY <1>2, <1>3 DEF Push

LEMMA PushLandingKeeps ==
  ASSUME IInv, PushLanding
  PROVE  IInv'
<1>1. LocalInv'
  BY CommitIsOne
  DEF IInv, TypeOK, PushLanding, Stop, LocalInv, RunOK, RunIsNumbered, HeadHoldsReviewed,
      FixesAreInCommit, GateOrTraces, LeavesCleared, Working, Publishing, Leaving, Commits, local
<1>2. CASE remote' = remote /\ Stop
  BY <1>1, <1>2, OriginUntouched, PartsGiveInv DEF PushLanding, origin, Stop
<1>3. CASE CanPush(source') /\ remote' = Put(source', commit) /\ pc' \in {"tip", "incomplete"}
  <2>1. source' = Land(commit)
    BY DEF PushLanding
  <2>2. OriginOK' /\ Land(commit) \in DOMAIN remote'
    BY <1>3, <2>1, CommitIsOne, OriginAfterPut, InvIsInParts DEF PushLanding, CanPush
  <2>3. SourceIsPushed' /\ CompleteMeansLanded'
    BY <1>3, <2>1, <2>2 DEF SourceIsPushed, CompleteMeansLanded
  <2> QED
    BY <1>1, <2>2, <2>3, PartsGiveInv
<1> QED
  BY <1>2, <1>3 DEF PushLanding

\* The steps of a landing request that change nothing at origin; the proof that
\* completes the run finds the commit, and with it every repair, on the default branch.
LEMMA LandingKeeps ==
  ASSUME IInv, CheckTip \/ View \/ ViewAgain \/ Prove
  PROVE  IInv'
<1>1. LocalInv'
  BY DEF IInv, TypeOK, CheckTip, View, ViewAgain, Prove, Stop, LocalInv, RunOK, RunIsNumbered,
      HeadHoldsReviewed, FixesAreInCommit, GateOrTraces, LeavesCleared, Working, Publishing,
      Leaving, Commits, local, run
<1>2. pc' = "complete" => commit \subseteq remote[Default] /\ pc \in Publishing /\ head' = head
  BY DEF CheckTip, View, ViewAgain, Prove, Stop, Contained, Publishing, local
<1>3. pc' = "complete" => \A n \in 1 .. MaxRuns : Fix(n) \in head' => Fix(n) \in remote[Default]
  BY <1>2 DEF IInv, FixesAreInCommit
<1>4. OriginOK' /\ SourceIsPushed' /\ CompleteMeansLanded'
  BY <1>3, OriginUntouched DEF CheckTip, View, ViewAgain, Prove, Stop, IInv, SourceIsPushed, run
<1> QED
  BY <1>1, <1>4, PartsGiveInv

LEMMA CreatePullRequestKeeps ==
  ASSUME IInv, CreatePullRequest
  PROVE  IInv'
<1>1. LocalInv'
  BY DEF IInv, TypeOK, CreatePullRequest, Stop, LocalInv, RunOK, RunIsNumbered,
      HeadHoldsReviewed, FixesAreInCommit, GateOrTraces, LeavesCleared, Working, Publishing,
      Leaving, Commits, local, run
<1>2. source \in DOMAIN remote
  BY DEF IInv, SourceIsPushed, CreatePullRequest
<1>3. OriginOK'
  <2>1. CASE pr' = pr
    BY <2>1, InvIsInParts DEF CreatePullRequest, OriginOK
  <2>2. CASE pr' = PullRequest(source, "open", NoCommit)
    BY <1>2, <2>2, OriginAfterRequest, InvIsInParts DEF CreatePullRequest
  <2> QED
    BY <2>1, <2>2 DEF CreatePullRequest
<1>4. SourceIsPushed' /\ CompleteMeansLanded'
  BY <1>2 DEF CreatePullRequest, Stop, run, SourceIsPushed, CompleteMeansLanded
<1> QED
  BY <1>1, <1>3, <1>4, PartsGiveInv

LEMMA TryMergeKeeps ==
  ASSUME IInv, TryMerge
  PROVE  IInv'
<1>1. LocalInv'
  BY DEF IInv, TypeOK, TryMerge, LocalInv, RunOK, RunIsNumbered, HeadHoldsReviewed,
      FixesAreInCommit, GateOrTraces, LeavesCleared, Working, Publishing, Leaving, Commits, local, run
<1>2. CASE UNCHANGED origin
  BY <1>1, <1>2, OriginUntouched, PartsGiveInv DEF TryMerge, IInv, SourceIsPushed, run
<1>3. CASE IsOpen(source) /\ Merge(source)
  <2>1. OriginOK' /\ DOMAIN remote' = DOMAIN remote
    BY <1>3, OriginAfterMerge, InvIsInParts DEF IsOpen
  <2>2. SourceIsPushed' /\ CompleteMeansLanded'
    BY <2>1 DEF TryMerge, run, IInv, SourceIsPushed, CompleteMeansLanded
  <2> QED
    BY <1>1, <2>1, <2>2, PartsGiveInv
<1> QED
  BY <1>2, <1>3 DEF TryMerge

\* A process that dies, one that commits, and changes of the tree: HEAD only grows, and
\* by nothing that is a repair.
LEMMA CrashKeeps ==
  ASSUME IInv, Crash
  PROVE  IInv'
<1>1. LocalInv'
  BY BranchNames
  DEF IInv, TypeOK, Crash, LocalInv, RunOK, RunIsNumbered, HeadHoldsReviewed, FixesAreInCommit,
      GateOrTraces, LeavesCleared, Working, Publishing, Leaving, Commits, NoCommit, local
<1>2. OriginOK' /\ SourceIsPushed' /\ CompleteMeansLanded'
  BY OriginUntouched DEF Crash
<1> QED
  BY <1>1, <1>2, PartsGiveInv

LEMMA HeadMovesKeeps ==
  ASSUME IInv, HeadMoves
  PROVE  IInv'
<1>1. PICK x \in {Late} \cup (IF wip = "none" THEN {} ELSE {Snapshot(runs)}) : head' = head \cup {x}
  BY DEF HeadMoves
<1>2. x \in Changes
  BY <1>1, ChangesOfRuns, ChangesOfOthers DEF HeadMoves, IInv, RunIsNumbered, Working, Publishing
<1>3. \A n \in 1 .. MaxRuns : Fix(n) # x
  BY <1>1, FixIsNotOthers
<1>4. head' \in Commits /\ head \subseteq head'
  BY <1>1, <1>2 DEF IInv, TypeOK, Commits
<1>5. \A n \in 1 .. MaxRuns : Fix(n) \in head' => Fix(n) \in head
  BY <1>1, <1>3
<1>6. commit \subseteq head /\ head' = commit => head = commit
  BY <1>4
<1>7. LocalInv'
  BY <1>4, <1>5, <1>6
  DEF IInv, TypeOK, HeadMoves, LocalInv, RunOK, RunIsNumbered, HeadHoldsReviewed,
      FixesAreInCommit, GateOrTraces, LeavesCleared, Publishing, run
<1>8. OriginOK' /\ SourceIsPushed' /\ CompleteMeansLanded'
  BY OriginUntouched DEF HeadMoves, Working, Publishing, IInv, SourceIsPushed, run
<1> QED
  BY <1>7, <1>8, PartsGiveInv

LEMMA TreeChangesKeeps ==
  ASSUME IInv, TreeChanges
  PROVE  IInv'
<1>1. /\ UNCHANGED <<head, pc, runs, wip, initial, reviewed, verdict, commit, source, verified>>
      /\ dirty' = dirty \/ dirty' = TRUE
      /\ branch' \in {Default, Topic}
  BY DEF TreeChanges, run, IInv, TypeOK
<1>2. RunOK'
  BY <1>1 DEF IInv, TypeOK, RunOK
<1>3. GateOrTraces'
  BY <1>1 DEF IInv, GateOrTraces
<1>4. LocalInv'
  BY <1>1, <1>2, <1>3
  DEF IInv, LocalInv, RunIsNumbered, HeadHoldsReviewed, FixesAreInCommit, LeavesCleared
<1>5. OriginOK' /\ SourceIsPushed' /\ CompleteMeansLanded'
  BY OriginUntouched DEF TreeChanges, Working, Publishing, IInv, SourceIsPushed, run
<1> QED
  BY <1>4, <1>5, PartsGiveInv

\* Others only add to the branches of origin.
LEMMA PeersKeep ==
  ASSUME IInv, PeerPushes \/ PeerDecides
  PROVE  IInv'
<1>1. LocalInv'
  BY DEF IInv, TypeOK, PeerPushes, PeerDecides, LocalInv, RunOK, RunIsNumbered,
      HeadHoldsReviewed, FixesAreInCommit, GateOrTraces, LeavesCleared, local, run
<1>2. OriginOK' /\ remote[Default] \subseteq remote'[Default] /\ DOMAIN remote \subseteq DOMAIN remote'
  <2>1. CASE PeerPushes
    <3>1. PICK b \in DOMAIN remote : remote' = Put(b, remote[b] \cup {Peer})
      BY <2>1 DEF PeerPushes
    <3>2. b \in Branches /\ remote[b] \cup {Peer} \in Commits
      BY <3>1, ChangesOfOthers, InvIsInParts DEF OriginOK, Commits
    <3> QED
      BY <2>1, <3>1, <3>2, OriginAfterPut, InvIsInParts DEF PeerPushes
  <2>2. CASE PeerDecides
    <3>1. PICK b \in DOMAIN pr :
              \/ Merge(b)
              \/ (pr' = PullRequest(b, "closed", remote[b]) /\ UNCHANGED remote)
      BY <2>2 DEF PeerDecides
    <3>2. b \in DOMAIN remote
      BY <3>1, InvIsInParts DEF OriginOK
    <3>3. CASE Merge(b)
      BY <3>1, <3>3, OriginAfterMerge, InvIsInParts
    <3>4. CASE pr' = PullRequest(b, "closed", remote[b]) /\ UNCHANGED remote
      BY <3>2, <3>4, OriginAfterRequest, InvIsInParts
    <3> QED
      BY <3>1, <3>3, <3>4
  <2> QED
    BY <2>1, <2>2
<1>3. SourceIsPushed' /\ CompleteMeansLanded'
  BY <1>2 DEF PeerPushes, PeerDecides, local, run, IInv, SourceIsPushed, CompleteMeansLanded
<1> QED
  BY <1>1, <1>2, <1>3, PartsGiveInv

LEMMA NextKeepsInv == IInv /\ [Next]_vars => IInv'
<1> SUFFICES ASSUME IInv, [Next]_vars PROVE IInv'
  OBVIOUS
<1>1. CASE Next
  BY <1>1, BeginKeeps, RepairsCommittedKeeps, ReviewKeeps, DecideKeeps, ChecksKeep, PushKeeps,
     PushLandingKeeps, LandingKeeps, CreatePullRequestKeeps, TryMergeKeeps, CrashKeeps,
     HeadMovesKeeps, TreeChangesKeeps, PeersKeep DEF Next
<1>2. CASE UNCHANGED vars
  BY <1>2
  DEF vars, local, origin, run, IInv, TypeOK, RunIsNumbered, HeadHoldsReviewed, FixesAreInCommit,
      GateOrTraces, LeavesCleared, SourceIsPushed, CompleteMeansLanded
<1> QED
  BY <1>1, <1>2

LEMMA Invariant == Spec => []IInv
BY InitInv, NextKeepsInv, PTL DEF Spec

(***************************************************************************)
(* The theorems                                                            *)
(***************************************************************************)

\* A commit on its way to origin has passed every gate, stays in the history of HEAD and
\* holds the commit that was reviewed; a merged request stays merged.
THEOREM TypeCorrect == Spec => []TypeOK
<1>1. IInv => TypeOK
  BY DEF IInv
<1> QED
  BY <1>1, Invariant, PTL

\* A run reports that it is complete only when every repair committed here is on origin's
\* default branch (_needs_final_publication, _publish_verified_head).
THEOREM Landed == Spec => []CompleteMeansLanded
<1>1. IInv => CompleteMeansLanded
  BY DEF IInv
<1> QED
  BY <1>1, Invariant, PTL

\* The steps of a run that change a branch of origin.
LEMMA OnlyThreePublish ==
  ASSUME Next, Publishes
  PROVE  Push \/ PushLanding \/ TryMerge
BY DEF Next, Publishes, Begin, RepairsCommitted, CallReview, Answer, Match, Decide, Before, Gate,
       After, CheckTip, CreatePullRequest, View, ViewAgain, Prove, Crash, HeadMoves, TreeChanges,
       PeerPushes, PeerDecides, origin

\* A run of Publication leaves behind at origin only the commit it has verified.
LEMMA WhatIsPublished ==
  ASSUME IInv, Next, Publishes
  PROVE  \A b \in DOMAIN remote' :
            \/ b \in DOMAIN remote /\ remote'[b] = remote[b]
            \/ remote'[b] = commit
            \/ b = Default /\ remote'[b] = remote[b] \cup commit
<1>1. CASE Push
  <2>1. remote' = Put(source, commit)
    BY <1>1 DEF Push, Publishes
  <2> QED
    BY <2>1 DEF Put
<1>2. CASE PushLanding
  <2>1. remote' = Put(Land(commit), commit)
    BY <1>2 DEF PushLanding, Publishes
  <2> QED
    BY <2>1 DEF Put
<1>3. CASE TryMerge
  <2>1. HeadMatches /\ Merge(source)
    BY <1>3 DEF TryMerge, Publishes, origin
  <2>2. remote' = Put(Default, remote[Default] \cup commit)
    BY <2>1 DEF Merge, HeadMatches
  <2> QED
    BY <2>2 DEF Put, IInv
<1> QED
  BY <1>1, <1>2, <1>3, OnlyThreePublish

\* Whatever a run pushes or merges is one commit that passed the publication gate in this
\* run as a clean tree, under a verdict about a commit it holds, without the owner's
\* attached work, whoever commits or pushes meanwhile (_publish_verified_head).
THEOREM Verified == Spec => PublishedIsVerified
<1>1. ASSUME IInv, Next, Publishes
      PROVE  /\ commit \in verified /\ verdict /\ reviewed \subseteq commit
             /\ wip # "none" => Snapshot(runs) \notin commit /\ wip # "secret"
  <2>1. pc \in Leaving /\ pc \in Publishing
    BY <1>1, OnlyThreePublish DEF Push, PushLanding, TryMerge, Leaving, Publishing
  <2>2. wip # "none" => wip = "clean" /\ Snapshot(runs) \notin commit
    BY <1>1, <2>1 DEF IInv, LeavesCleared
  <2> QED
    BY <1>1, <2>1, <2>2 DEF IInv, TypeOK, LeavesCleared
<1>2. ASSUME IInv, [Next]_vars, Publishes
      PROVE  Next
  BY <1>2 DEF Publishes, vars
<1>3. IInv /\ [Next]_vars =>
        [Publishes => /\ commit \in verified /\ verdict /\ reviewed \subseteq commit
                      /\ wip # "none" => Snapshot(runs) \notin commit /\ wip # "secret"
                      /\ \A b \in DOMAIN remote' :
                            \/ b \in DOMAIN remote /\ remote'[b] = remote[b]
                            \/ remote'[b] = commit
                            \/ b = Default /\ remote'[b] = remote[b] \cup commit]_vars
  BY <1>1, <1>2, WhatIsPublished
<1> QED
  BY <1>3, Invariant, PTL DEF Spec, PublishedIsVerified
=============================================================================
