---------------------------- MODULE Publication ----------------------------
(***************************************************************************)
(* How the work of a run reaches the default branch of origin: the final   *)
(* review, the publication gate and _publish_verified_head of flexfactor.py*)
(* with git, GitHub, a hook or another process that commits while the gate *)
(* runs, other people who push and merge, and a process that dies between  *)
(* two commands.  A run that dies leaves its commits; the next resumes it. *)
(*                                                                         *)
(* A commit is the set of the changes in its history, so that "is an       *)
(* ancestor of" is inclusion.  HEAD and the remote branches only grow: no  *)
(* one resets or force-pushes them.                                        *)
(***************************************************************************)
EXTENDS Naturals, FiniteSets

CONSTANTS MaxRuns  \* bounds the runs, one after the other

ASSUME PublicationAssumption == MaxRuns \in Nat \ {0}

VARIABLES
    head, branch,  \* HEAD and the branch it is on
    dirty,         \* has the tree uncommitted changes?
    remote,        \* the tip of each branch origin has
    pr,            \* the landing pull request of each branch that has one
    pc, runs,
    wip,           \* "none", "clean" or "secret": the attached snapshot, as it scanned
    initial,       \* initial_commit
    reviewed,      \* final_sha: the commit under final review
    verdict,       \* of the independent review, then of all publication gates
    commit,        \* publication_commit
    source,        \* source_branch
    verified       \* history: what passed the publication gate in this run

local == <<head, branch, dirty>>
origin == <<remote, pr>>
run == <<runs, wip, initial, reviewed, verdict, commit, source, verified>>
vars == <<local, origin, pc, run>>

Default == <<"default">>
Topic == <<"topic">>
Land(c) == <<"land", c>>

Fix(n) == <<"fix", n>>            \* the repairs of run n
Snapshot(n) == <<"wip", n>>       \* the owner's uncommitted work during run n
Base == <<"base">>
Late == <<"late">>                \* committed by a hook or another process
Peer == <<"peer">>                \* pushed by somebody else
Changes == {Base, Late, Peer} \cup {Fix(n) : n \in 1 .. MaxRuns}
                              \cup {Snapshot(n) : n \in 1 .. MaxRuns}
NoCommit == {}

Working == {"work", "review", "answered", "matched"}
Publishing == {"before", "gate", "after", "push", "fallback", "tip", "open",
               "landing", "view", "prove"}

Init ==
    /\ head = {Base} /\ branch \in {Default, Topic} /\ dirty = FALSE
    /\ remote = [b \in {Default} |-> {Base}] /\ pr = [b \in {} |-> NoCommit]
    /\ pc = "down" /\ runs = 0 /\ wip = "none" /\ initial = NoCommit /\ reviewed = NoCommit
    /\ verdict = FALSE /\ commit = NoCommit /\ source = Default /\ verified = {}

----------------------------------------------------------------------------
(* The run up to its final review.                                         *)

Begin ==
    /\ pc \in {"down", "complete", "incomplete"} /\ runs < MaxRuns
    /\ runs' = runs + 1 /\ pc' = "work" /\ initial' = head /\ dirty' = FALSE
    /\ wip' \in {"none", "clean", "secret"}
    /\ reviewed' = NoCommit /\ verdict' = FALSE /\ commit' = NoCommit /\ verified' = {}
    /\ source' = branch
    /\ UNCHANGED <<head, branch, origin>>

RepairsCommitted ==
    /\ pc = "work" /\ head' = head \cup {Fix(runs)}
    /\ UNCHANGED <<branch, dirty, origin, pc, run>>

\* The evidence is built for HEAD as it is now.
CallReview ==
    /\ pc = "work" /\ pc' = "review" /\ reviewed' = head
    /\ UNCHANGED <<local, origin, runs, wip, initial, verdict, commit, source, verified>>

\* _independent_final_review: approve or reject, or no answer.
Answer ==
    /\ pc = "review" /\ pc' = "answered" /\ verdict' \in BOOLEAN
    /\ UNCHANGED <<local, origin, runs, wip, initial, reviewed, commit, source, verified>>

\* head_matches revokes an approval when HEAD has moved; then the other gates of
\* _publication_safety_ready join the verdict.
Match ==
    /\ pc = "answered" /\ pc' = "matched"
    /\ verdict' \in {FALSE, verdict /\ head = reviewed}
    /\ UNCHANGED <<local, origin, runs, wip, initial, reviewed, commit, source, verified>>

----------------------------------------------------------------------------
(* The decision.                                                           *)

Contained(c, b) == b \in DOMAIN remote /\ c \subseteq remote[b]

\* Mutant of NeedsPublication: only this run's first and last commits are compared.
HeadHasMoved(c) == initial # c

\* _needs_final_publication: unpublished work of an earlier run counts as well.
NeedsPublication(c) == initial # c \/ ~Contained(c, Default)

\* Mutant of Decide: the gates are not asked.
DecideAnyway ==
    /\ pc = "matched" /\ commit' = head /\ pc' = "before"
    /\ UNCHANGED <<local, origin, runs, wip, initial, reviewed, verdict, source, verified>>

\* HEAD is read once more: it is what will be published.  A remote that does not answer
\* means that publication is required.  Without the gates the run stays incomplete.
Decide ==
    /\ pc = "matched" /\ commit' = head
    /\ \/ /\ ~NeedsPublication(head)
          /\ pc' \in {"incomplete"} \cup (IF verdict THEN {"complete"} ELSE {})
       \/ pc' = IF verdict THEN "before" ELSE "incomplete"
    /\ UNCHANGED <<local, origin, runs, wip, initial, reviewed, verdict, source, verified>>

----------------------------------------------------------------------------
(* _publish_verified_head.                                                 *)

Stop == pc' = "incomplete"

\* exact_reviewed_head: HEAD is the commit, on the branch the run began on.
ExactHead == head = commit /\ branch = source

\* _wip_publish_guard: no attached snapshot may be in the history of HEAD, nor hold
\* anything shaped like a secret.
WipAllowed == wip = "none" \/ (wip = "clean" /\ Snapshot(runs) \notin head)

\* Before the gate: exact head, clean tree, no owner work.
Before ==
    /\ pc = "before"
    /\ pc' = IF ExactHead /\ ~dirty /\ WipAllowed THEN "gate" ELSE "incomplete"
    /\ UNCHANGED <<local, origin, run>>

\* _publication_gate: build and the strongest suite, over the tree as it is.
Gate ==
    /\ pc = "gate"
    /\ \/ pc' = "after" /\ verified' = IF dirty THEN verified ELSE verified \cup {head}
       \/ Stop /\ UNCHANGED verified
    /\ UNCHANGED <<local, origin, runs, wip, initial, reviewed, verdict, commit, source>>

\* The same three checks again; the default branch is asked of origin, which may not
\* answer, and never of the cache.
After ==
    /\ pc = "after"
    /\ \/ ExactHead /\ ~dirty /\ WipAllowed /\ pc' = "push"
       \/ Stop
    /\ UNCHANGED <<local, origin, run>>

\* A push without force is taken when it is a fast forward.
CanPush(b) == b \in DOMAIN remote => remote[b] \subseteq commit
Put(b, c) == [x \in DOMAIN remote \cup {b} |-> IF x = b THEN c ELSE remote[x]]

\* git push origin commit:refs/heads/branch; one that fails may have been applied.
Push ==
    /\ pc = "push"
    /\ \/ /\ CanPush(source) /\ remote' = Put(source, commit)
          /\ pc' \in {IF source = Default THEN "prove" ELSE "tip", "fallback"}
       \/ pc' = "fallback" /\ UNCHANGED remote
    /\ UNCHANGED <<local, pr, run>>

\* A rejected push goes to flexfactor/land-<commit>.
PushLanding ==
    /\ pc = "fallback" /\ source' = Land(commit)
    /\ \/ CanPush(source') /\ remote' = Put(source', commit) /\ pc' \in {"tip", "incomplete"}
       \/ Stop /\ UNCHANGED remote
    /\ UNCHANGED <<local, pr, runs, wip, initial, reviewed, verdict, commit, verified>>

\* The tip of the source branch must be the commit itself.
CheckTip ==
    /\ pc = "tip"
    /\ \/ remote[source] = commit /\ pc' = "open"
       \/ Stop
    /\ UNCHANGED <<local, origin, run>>

PullRequest(b, state, tip) ==
    [x \in DOMAIN pr \cup {b} |-> IF x = b THEN [state |-> state, head |-> tip] ELSE pr[x]]
IsOpen(b) == b \in DOMAIN pr /\ pr[b].state = "open"

\* gh pr create: GitHub refuses one with nothing to merge; one that exists is used.
CreatePullRequest ==
    /\ pc = "open"
    /\ \/ IsOpen(source) /\ pc' = "landing" /\ UNCHANGED pr
       \/ /\ ~IsOpen(source) /\ ~Contained(remote[source], Default)
          /\ pr' = PullRequest(source, "open", NoCommit) /\ pc' \in {"landing", "incomplete"}
       \/ Stop /\ UNCHANGED pr
    /\ UNCHANGED <<local, remote, run>>

Merge(b) ==
    /\ remote' = Put(Default, remote[Default] \cup remote[b])
    /\ pr' = PullRequest(b, "merged", remote[b])

\* Mutant of HeadMatches: without --match-head-commit.
AnyHead == TRUE

\* gh pr merge --match-head-commit.
HeadMatches == remote[source] = commit

\* One attempt to merge now; its result is not read.
TryMerge ==
    /\ pc = "landing" /\ pc' = "view"
    /\ \/ IsOpen(source) /\ HeadMatches /\ Merge(source)
       \/ UNCHANGED origin
    /\ UNCHANGED <<local, run>>

\* gh pr view: head, state, deadline, or once more.
View ==
    /\ pc = "view"
    /\ LET p == pr[source]
           seen == IF p.state = "open" THEN remote[source] ELSE p.head
       IN  \/ seen = commit /\ p.state = "merged" /\ pc' = "prove"
           \/ (seen # commit \/ p.state = "closed") /\ Stop
    /\ UNCHANGED <<local, origin, run>>

\* No answer, or still open: sleep, or give up at the deadline.
ViewAgain ==
    /\ pc = "view" /\ pc' \in {"landing", "incomplete"}
    /\ UNCHANGED <<local, origin, run>>

\* _remote_branch_contains: fetch, and the commit is in origin's default branch.
Prove ==
    /\ pc = "prove"
    /\ pc' \in {"incomplete"} \cup (IF Contained(commit, Default) THEN {"complete"} ELSE {})
    /\ UNCHANGED <<local, origin, run>>

----------------------------------------------------------------------------
(* The others.                                                             *)

\* The process dies: what it knew is lost, commits, branches and requests stay.
Crash ==
    /\ pc \in Working \cup Publishing /\ pc' = "down"
    /\ wip' = "none" /\ initial' = NoCommit /\ reviewed' = NoCommit /\ verdict' = FALSE
    /\ commit' = NoCommit /\ source' = Default /\ verified' = {}
    /\ UNCHANGED <<local, origin, runs>>

\* A hook, a formatter or another process commits, or merges the attached snapshot.
HeadMoves ==
    /\ pc \in Working \cup Publishing
    /\ \E x \in {Late} \cup (IF wip = "none" THEN {} ELSE {Snapshot(runs)}) :
          head' = head \cup {x}
    /\ UNCHANGED <<branch, dirty, origin, pc, run>>

\* It edits a file, or switches the branch.  (After the last check neither is read.)
TreeChanges ==
    /\ pc \in Working \cup {"before", "gate", "after"}
    /\ \/ dirty' = TRUE /\ UNCHANGED branch
       \/ branch' \in {Default, Topic} \ {branch} /\ UNCHANGED dirty
    /\ UNCHANGED <<head, origin, pc, run>>

\* Somebody pushes to a branch, merges or closes a landing request.
PeerPushes ==
    /\ \E b \in DOMAIN remote : remote' = Put(b, remote[b] \cup {Peer})
    /\ UNCHANGED <<local, pr, pc, run>>

PeerDecides ==
    /\ \E b \in DOMAIN pr :
          /\ pr[b].state = "open"
          /\ \/ Merge(b)
             \/ pr' = PullRequest(b, "closed", remote[b]) /\ UNCHANGED remote
    /\ UNCHANGED <<local, pc, run>>

Next == \/ Begin \/ RepairsCommitted \/ CallReview \/ Answer \/ Match \/ Decide
        \/ Before \/ Gate \/ After \/ Push \/ PushLanding \/ CheckTip \/ CreatePullRequest
        \/ TryMerge \/ View \/ ViewAgain \/ Prove
        \/ Crash \/ HeadMoves \/ TreeChanges \/ PeerPushes \/ PeerDecides

Spec == Init /\ [][Next]_vars

----------------------------------------------------------------------------
(* Properties.                                                             *)

Commits == SUBSET Changes
Branches == {Default, Topic} \cup {Land(c) : c \in Commits}

\* Types; a commit on its way out has passed every gate, stays in the history of HEAD
\* and holds the commit that was reviewed; what a merged request had is on the default
\* branch.
TypeOK ==
    /\ head \in Commits /\ branch \in {Default, Topic} /\ dirty \in BOOLEAN
    /\ DOMAIN remote \subseteq Branches /\ DOMAIN pr \subseteq DOMAIN remote
    /\ \A b \in DOMAIN remote : remote[b] \in Commits
    /\ pc \in {"down", "complete", "incomplete"} \cup Working \cup Publishing
    /\ runs \in 0 .. MaxRuns /\ wip \in {"none", "clean", "secret"}
    /\ {initial, reviewed, commit} \subseteq Commits /\ source \in Branches
    /\ pc \in Publishing => verdict /\ reviewed \subseteq commit /\ commit \subseteq head
    /\ \A b \in DOMAIN pr : pr[b].state = "merged" => pr[b].head \subseteq remote[Default]

\* Does this step of the run change a branch of origin?
Publishes == pc' # pc /\ remote' # remote

\* Whatever the run pushes or merges is one commit, which this run has built and tested
\* as a clean tree, which holds an approved commit, and which does not hold the owner's
\* attached work: not what a hook commits while the gate runs, nor what somebody else
\* pushes to the landing branch ("the exact HEAD", src/flexfactor.py:23740).
PublishedIsVerified ==
    [][Publishes => /\ commit \in verified /\ verdict /\ reviewed \subseteq commit
                    /\ wip # "none" => Snapshot(runs) \notin commit /\ wip # "secret"
                    /\ \A b \in DOMAIN remote' :
                          \/ b \in DOMAIN remote /\ remote'[b] = remote[b]
                          \/ remote'[b] = commit
                          \/ b = Default /\ remote'[b] = remote[b] \cup commit]_vars

\* A run is complete only when the default branch of origin holds every repair that it
\* or an earlier run, dead before its publication, has committed.
CompleteMeansLanded ==
    pc = "complete" =>
        \A n \in 1 .. MaxRuns : Fix(n) \in head => Fix(n) \in remote[Default]

\* What is published is what was reviewed ("An approval for an ancestor is not an
\* approval for the new tip, so a mismatch is a hard stop", src/flexfactor.py:8871).
PublishedIsReviewed == [][Publishes => commit = reviewed]_vars
=============================================================================
