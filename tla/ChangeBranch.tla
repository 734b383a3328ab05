----------------------------- MODULE ChangeBranch -----------------------------
(***************************************************************************)
(* The branch of a change and its pull request, and everyone who writes    *)
(* them: the agents' pods at the end of a turn (two agents share a branch  *)
(* when one adopts it), people at their desks, the server-side merge of the*)
(* base (sync-main), handbacks, and the merge of the pull request.  A head *)
(* is the set of commits it reaches; a push is accepted when it leaves out *)
(* none of the remote's.                                                   *)
(***************************************************************************)
EXTENDS Naturals, FiniteSets

CONSTANTS
    Agents,
    Callers,      \* handbacks that may be in progress at once
    MaxCommits,   \* bound: commits ever made
    MaxPrs,       \* bound: pull requests ever opened
    Outsiders     \* people and sync-main write the branch while a pod has it: BOOLEAN

VARIABLES
    main,         \* the base branch
    branch,       \* the change's branch on the remote; {} before it exists
    pr,           \* the pull requests of the branch
    row,          \* agents.state and agents.pr_number
    found,        \* ensureAdoptedPrNumber: the open PR it has read and not yet written
    w,            \* the pods
    hb,           \* the handbacks in progress
    reviewers,    \* live review agents
    last,         \* the last commit made
    done,         \* history: the head an agent completed with
    landed        \* history: the commits squashed into the base

vars == <<main, branch, pr, row, found, w, hb, reviewers, last, done, landed>>

None == 0
Root == 0
Heads == SUBSET (Root..MaxCommits)
Prs == 1..MaxPrs
NoPod == [pc |-> "none", base |-> {}, head |-> {}, pr |-> None]
NoHandback == [pc |-> "none", agent |-> "nobody", state |-> "none", old |-> None, pr |-> None]

TypeOK ==
    /\ main \in Heads /\ branch \in Heads /\ landed \in Heads /\ last \in 0..MaxCommits
    /\ pr \in [Prs -> {"none", "open", "merged"}]
    /\ row \in [Agents -> [state : {"none", "pending", "queued", "running", "paused", "completed", "verified"},
                           pr : Prs \cup {None}]]
    /\ found \in [Agents -> Prs \cup {None}]
    /\ w \in [Agents -> [pc : {"none", "clone", "turn", "pr", "set", "final"}, base : Heads,
                         head : Heads, pr : Prs \cup {None}]]
    /\ hb \in [Callers -> [pc : {"none", "pr", "write", "checks", "review"}, agent : Agents \cup {"nobody"},
                           state : {"none", "pending", "queued", "running", "paused", "completed", "verified"},
                           old : Prs \cup {None}, pr : Prs \cup {None}]]
    /\ reviewers \in [Agents -> Nat]
    /\ done \in [Agents -> Heads]

Init ==
    /\ main = {Root} /\ branch = {} /\ landed = {} /\ last = 0
    /\ pr = [n \in Prs |-> "none"]
    /\ row = [a \in Agents |-> [state |-> "none", pr |-> None]]
    /\ found = [a \in Agents |-> None]
    /\ w = [a \in Agents |-> NoPod]
    /\ hb = [c \in Callers |-> NoHandback]
    /\ reviewers = [a \in Agents |-> 0]
    /\ done = [a \in Agents |-> {}]

OpenPrs == {n \in Prs : pr[n] = "open"}
Unused == {n \in Prs : pr[n] = "none" /\ \A m \in Prs : m < n => pr[m] # "none"}
Exists(a) == row[a].state # "none"
Commit == last < MaxCommits /\ last' = last + 1
Undisturbed == Outsiders \/ \A a \in Agents : w[a].pc = "none"

-----------------------------------------------------------------------------
\* The forge.  findOpenPr, else create, else (one exists by now) findOpenPr again: n is the
\* answer, None when the branch has no commits the base has not.
EnsurePullRequest(n) ==
    \/ OpenPrs # {} /\ n \in OpenPrs /\ UNCHANGED pr
    \/ OpenPrs = {} /\ branch \subseteq main /\ n = None /\ UNCHANGED pr
    \/ OpenPrs = {} /\ ~(branch \subseteq main) /\ n \in Unused /\ pr' = [pr EXCEPT ![n] = "open"]

\* GitHub merges the base into the head, a conflict apart; "already current" is no failure
UpdateBranch ==
    IF main \subseteq branch THEN UNCHANGED <<branch, last>>
    ELSE Commit /\ branch' = branch \cup main \cup {last + 1}

MainMoves ==
    /\ Commit /\ main' = main \cup {last + 1}
    /\ UNCHANGED <<branch, pr, row, found, w, hb, reviewers, done, landed>>

-----------------------------------------------------------------------------
\* POST /api/agents: a branch of its own, or the one that is adopted
CreateAgent(a) ==
    /\ ~Exists(a) /\ (branch # {} \/ \A o \in Agents : ~Exists(o))
    /\ row' = [row EXCEPT ![a].state = "pending"]
    /\ UNCHANGED <<main, branch, pr, found, w, hb, reviewers, last, done, landed>>

\* A local change's branch is cut from the base; the create fails where one exists
EnsureRemoteBranch ==
    /\ branch = {} /\ \E a \in Agents : Exists(a)
    /\ branch' = main
    /\ UNCHANGED <<main, pr, row, found, w, hb, reviewers, last, done, landed>>

\* ensureAdoptedPrNumber, at the creation or at a click on merge: looked up, then written
ResolveOpenPrByBranch(a) ==
    /\ Exists(a) /\ row[a].pr = None /\ found[a] = None
    /\ \E n \in OpenPrs : found' = [found EXCEPT ![a] = n]
    /\ UNCHANGED <<main, branch, pr, row, w, hb, reviewers, last, done, landed>>

EnsureAdoptedPrNumber(a) ==
    /\ found[a] # None
    /\ row' = [row EXCEPT ![a].pr = found[a]]
    /\ found' = [found EXCEPT ![a] = None]
    /\ UNCHANGED <<main, branch, pr, w, hb, reviewers, last, done, landed>>

-----------------------------------------------------------------------------
\* The pod: continue the branch if the remote has it, else start from the base
Queues(a) == row' = [row EXCEPT ![a].state = IF @ \in {"queued", "running"} THEN @ ELSE "queued"]
SendInput(a) ==
    /\ row[a].state \in {"pending", "paused", "completed"} /\ w[a].pc = "none"
    /\ Queues(a)
    /\ UNCHANGED <<main, branch, pr, found, w, hb, reviewers, last, done, landed>>

Dispatch(a) ==
    /\ row[a].state = "queued" /\ w[a].pc = "none"
    /\ row' = [row EXCEPT ![a].state = "running"]
    /\ w' = [w EXCEPT ![a] = [NoPod EXCEPT !.pc = "clone"]]
    /\ UNCHANGED <<main, branch, pr, found, hb, reviewers, last, done, landed>>

Clone(a) ==
    /\ w[a].pc = "clone"
    /\ w' = [w EXCEPT ![a].pc = "turn", ![a].base = main, ![a].head = IF branch # {} THEN branch ELSE main]
    /\ UNCHANGED <<main, branch, pr, row, found, hb, reviewers, last, done, landed>>

\* The turn commits, or does what syncMainPrompt asks
Works(a) ==
    /\ w[a].pc = "turn" /\ Commit
    /\ \/ w' = [w EXCEPT ![a].head = @ \cup {last + 1}]
       \/ w' = [w EXCEPT ![a].head = @ \cup main \cup {last + 1}, ![a].base = main]
    /\ UNCHANGED <<main, branch, pr, row, found, hb, reviewers, done, landed>>

\* Nothing ahead of the base as it was fetched: no push and no PR.  A push that is rejected
\* is an event, and the PR is looked for all the same.
Pushes(a) ==
    /\ w[a].pc = "turn"
    /\ LET ahead == ~(w[a].head \subseteq w[a].base)
       IN  /\ branch' = IF ahead /\ branch \subseteq w[a].head THEN w[a].head ELSE branch
           /\ w' = [w EXCEPT ![a].pc = IF ahead THEN "pr" ELSE "final"]
    /\ UNCHANGED <<main, pr, row, found, hb, reviewers, last, done, landed>>

OpensPr(a) ==
    /\ w[a].pc = "pr"
    /\ \E n \in Prs \cup {None} :
          /\ EnsurePullRequest(n)
          /\ w' = [w EXCEPT ![a].pr = n, ![a].pc = IF n = None THEN "final" ELSE "set"]
    /\ UNCHANGED <<main, branch, row, found, hb, reviewers, last, done, landed>>

SetAgentPullRequest(a) ==
    /\ w[a].pc = "set"
    /\ row' = [row EXCEPT ![a].pr = w[a].pr]
    /\ w' = [w EXCEPT ![a].pc = "final"]
    /\ UNCHANGED <<main, branch, pr, found, hb, reviewers, last, done, landed>>

Completes(a) ==
    /\ w[a].pc = "final"
    /\ row' = [row EXCEPT ![a].state = "completed"]
    /\ done' = [done EXCEPT ![a] = w[a].head]
    /\ w' = [w EXCEPT ![a] = NoPod]
    /\ UNCHANGED <<main, branch, pr, found, hb, reviewers, last, landed>>

PodDies(a) ==
    /\ w[a].pc # "none"
    /\ row' = [row EXCEPT ![a].state = IF @ = "running" THEN "paused" ELSE @]
    /\ w' = [w EXCEPT ![a] = NoPod]
    /\ UNCHANGED <<main, branch, pr, found, hb, reviewers, last, done, landed>>

-----------------------------------------------------------------------------
\* A person pulls, commits and pushes
PersonPushes ==
    /\ Undisturbed /\ branch # {} /\ Commit
    /\ branch' = branch \cup {last + 1}
    /\ UNCHANGED <<main, pr, row, found, w, hb, reviewers, done, landed>>

\* sync-main looks at the PR and not at the state; a conflict goes to the agent
SyncMainClean(a) ==
    /\ Undisturbed /\ row[a].pr \in OpenPrs
    /\ UpdateBranch
    /\ UNCHANGED <<main, pr, row, found, w, hb, reviewers, done, landed>>

SyncMainByAgent(a) ==
    /\ Exists(a) /\ row[a].state # "verified" /\ (row[a].pr \in OpenPrs \/ row[a].pr = None)
    /\ Queues(a)
    /\ UNCHANGED <<main, branch, pr, found, w, hb, reviewers, last, done, landed>>

\* The land gate's merge: squashed into one commit of the base
MergePr(a) ==
    /\ row[a].state = "completed" /\ row[a].pr \in OpenPrs /\ Commit
    /\ main' = main \cup {last + 1}
    /\ landed' = landed \cup branch
    /\ pr' = [pr EXCEPT ![row[a].pr] = "merged"]
    /\ row' = [row EXCEPT ![a].state = "verified"]
    /\ UNCHANGED <<branch, found, w, hb, reviewers, done>>

-----------------------------------------------------------------------------
\* handbackChange: the agent as it was read, the PR, the row, the gates, the reviewer
HandbackReads(c, a) ==
    /\ hb[c].pc = "none" /\ Exists(a) /\ branch # {}
    /\ hb' = [hb EXCEPT ![c] = [pc |-> "pr", agent |-> a, state |-> row[a].state,
                              old |-> row[a].pr, pr |-> None]]
    /\ UNCHANGED <<main, branch, pr, row, found, w, reviewers, last, done, landed>>

HandbackOpensPr(c) ==
    /\ hb[c].pc = "pr"
    /\ \E n \in Prs \cup {None} :
          /\ EnsurePullRequest(n)
          /\ hb' = [hb EXCEPT ![c] = IF n = None THEN NoHandback ELSE [@ EXCEPT !.pc = "write", !.pr = n]]
    /\ UNCHANGED <<main, branch, row, found, w, reviewers, last, done, landed>>

HandbackWrites(c) ==
    /\ hb[c].pc = "write"
    /\ row' = [row EXCEPT ![hb[c].agent].pr = IF hb[c].old # hb[c].pr THEN hb[c].pr ELSE @,
                          ![hb[c].agent].state =
                              IF hb[c].state \in {"pending", "paused", "queued"} THEN "completed" ELSE @]
    /\ hb' = [hb EXCEPT ![c].pc = "checks"]
    /\ UNCHANGED <<main, branch, pr, found, w, reviewers, last, done, landed>>

HandbackChecks(c) ==
    /\ hb[c].pc = "checks"
    /\ hb' = [hb EXCEPT ![c] = IF reviewers[hb[c].agent] > 0 THEN NoHandback ELSE [@ EXCEPT !.pc = "review"]]
    /\ UNCHANGED <<main, branch, pr, row, found, w, reviewers, last, done, landed>>

HandbackDispatchesReview(c) ==
    /\ hb[c].pc = "review"
    /\ reviewers' = [reviewers EXCEPT ![hb[c].agent] = @ + 1]
    /\ hb' = [hb EXCEPT ![c] = NoHandback]
    /\ UNCHANGED <<main, branch, pr, row, found, w, last, done, landed>>

ReviewerEnds(a) ==
    /\ reviewers[a] > 0
    /\ reviewers' = [reviewers EXCEPT ![a] = @ - 1]
    /\ UNCHANGED <<main, branch, pr, row, found, w, hb, last, done, landed>>

Next ==
    \/ MainMoves \/ EnsureRemoteBranch \/ PersonPushes
    \/ \E a \in Agents :
          \/ CreateAgent(a) \/ ResolveOpenPrByBranch(a) \/ EnsureAdoptedPrNumber(a)
          \/ SendInput(a) \/ Dispatch(a) \/ Clone(a) \/ Works(a) \/ Pushes(a) \/ OpensPr(a)
          \/ SetAgentPullRequest(a) \/ Completes(a) \/ PodDies(a)
          \/ SyncMainClean(a) \/ SyncMainByAgent(a) \/ MergePr(a) \/ ReviewerEnds(a)
          \/ \E c \in Callers : HandbackReads(c, a)
    \/ \E c \in Callers : \/ HandbackOpensPr(c) \/ HandbackWrites(c)
                          \/ HandbackChecks(c) \/ HandbackDispatchesReview(c)

Spec == Init /\ [][Next]_vars

-----------------------------------------------------------------------------
\* sync-branch.ts:8-9: whoever writes the branch, nothing that was on it is rewritten away.
NothingRewritten == [][branch \subseteq branch']_vars

\* github.ts:352-357: two writers that both open the pull request get the same one, and a row
\* never points at one that does not exist.
OnePullRequest ==
    /\ Cardinality(OpenPrs) <= 1
    /\ \A a \in Agents : row[a].pr = None \/ pr[row[a].pr] # "none"

\* worker/index.ts:845-847 "the branch is pushed regardless": a change that was merged carries
\* the work its agent completed with.
VerifiedHasLanded == \A a \in Agents : row[a].state = "verified" => done[a] \subseteq landed

\* handback.ts:46-50 closes a change that never ran or was paused: a change whose pod is at work
\* is not completed.
AtWorkIsNotCompleted == \A a \in Agents : w[a].pc # "none" => row[a].state # "completed"

\* handback.ts:61 "A review is already in progress": a change has one reviewer.
OneReviewer == \A a \in Agents : reviewers[a] <= 1
=============================================================================
