----------------------------- MODULE StagingMerge -----------------------------
(***************************************************************************)
(* A change whose review flagged it (hold or fix), and the two ways past   *)
(* the flag: an override, or a deploy of the branch to staging that passed *)
(* since the review.  The merge handler reads the recommendation, the time *)
(* of the latest review and the deploys one after another, then retests and*)
(* merges; agents push, reviewers die and come back meanwhile.             *)
(***************************************************************************)
EXTENDS Naturals, FiniteSets

CONSTANTS
    Reviews,      \* review agents, numbered as their rows are created: 1..n
    Deploys,      \* deploys of the branch, numbered likewise: 1..n
    MaxCommits,   \* bound: commits pushed to the branch
    MaxDeaths     \* bound: reviewers whose pod dies before their verdict

VARIABLES
    head,         \* the branch on GitHub
    rec,          \* agents.recommendation, and the row of reviews that wrote it
    review,       \* rows of reviews and their reviewers
    deploy,       \* runs of phase deploy on the branch
    now,          \* the clock that completed_at is read from, advanced at every completion
    click,        \* the handler of a Merge, up to the merge itself; by, at: who flagged, when
    deaths

vars == <<head, rec, review, deploy, now, click, deaths>>

None == "none"
Flags == {"hold", "fix"}
Clock == 0..(Cardinality(Reviews) + Cardinality(Deploys) + MaxDeaths)
Last(S) == IF S = {} THEN 0 ELSE CHOOSE x \in S : \A y \in S : y <= x

NoReview == [agent |-> None, status |-> None, commit |-> 0, at |-> 0]
NoDeploy == [status |-> None, commit |-> 0, at |-> 0]
NoClick == [pc |-> "idle", override |-> FALSE, rec |-> None, by |-> 0, at |-> 0, since |-> 0,
            validated |-> FALSE]

TypeOK ==
    /\ head \in 1..MaxCommits
    /\ rec \in [is : {None, "merge"} \cup Flags, by : Reviews \cup {0}]
    /\ review \in [Reviews -> [agent : {None, "running", "paused", "completed"}, at : Clock,
                               status : {None, "running", "done", "error"}, commit : 0..MaxCommits]]
    /\ deploy \in [Deploys -> [status : {None, "running", "passed", "failed"},
                               commit : 0..MaxCommits, at : Clock]]
    /\ now \in Clock /\ deaths \in 0..MaxDeaths
    /\ click \in [pc : {"idle", "since", "deploys", "decide", "landing", "merged"}, by : Reviews \cup {0},
                  at : Clock, override : BOOLEAN, rec : {None, "merge"} \cup Flags, since : Clock,
                  validated : BOOLEAN]

Init ==
    /\ head = 1 /\ rec = [is |-> None, by |-> 0]
    /\ review = [v \in Reviews |-> NoReview]
    /\ deploy = [d \in Deploys |-> NoDeploy]
    /\ now = 0 /\ click = NoClick /\ deaths = 0

-----------------------------------------------------------------------------
Push ==
    /\ head < MaxCommits /\ click.pc # "merged"
    /\ head' = head + 1
    /\ UNCHANGED <<rec, review, deploy, now, click, deaths>>

\* Refused while a reviewer is at work; one that was paused is not
Dispatch(v) ==
    /\ \A w \in Reviews : review[w].agent = None <=> w >= v
    /\ \A w \in Reviews : review[w].agent # "running"
    /\ review' = [review EXCEPT ![v] = [agent |-> "running", status |-> "running", commit |-> head, at |-> 0]]
    /\ UNCHANGED <<head, rec, deploy, now, click, deaths>>

\* applyReviewResult: the verdict on the change, the row closed
Verdict(v, is) ==
    /\ review[v].agent = "running"
    /\ now' = now + 1
    /\ review' = [review EXCEPT ![v].agent = "completed", ![v].status = "done", ![v].at = now']
    /\ rec' = [is |-> is, by |-> v]
    /\ UNCHANGED <<head, deploy, click, deaths>>

\* interruptReviewForDeadReviewer: a hold in the place of a verdict, unless there is one
ReviewerDies(v) ==
    /\ review[v].agent = "running" /\ deaths < MaxDeaths
    /\ deaths' = deaths + 1 /\ now' = now + 1
    /\ review' = [review EXCEPT ![v].agent = "paused", ![v].status = "error", ![v].at = now']
    /\ rec' = IF rec.is = None THEN [is |-> "hold", by |-> v] ELSE rec
    /\ UNCHANGED <<head, deploy, click>>

ReviewerResumes(v) ==
    /\ review[v].agent = "paused"
    /\ review' = [review EXCEPT ![v].agent = "running"]
    /\ UNCHANGED <<head, rec, deploy, now, click, deaths>>

RequestChanges ==
    /\ rec.is # None /\ click.pc # "merged"
    /\ rec' = [is |-> None, by |-> 0]
    /\ UNCHANGED <<head, review, deploy, now, click, deaths>>

-----------------------------------------------------------------------------
\* deployAgentBranch: the run is inserted running; its pod clones the branch when it gets there
DeployAgentBranch(d) ==
    /\ \A x \in Deploys : deploy[x].status = None <=> x >= d
    /\ deploy' = [deploy EXCEPT ![d].status = "running"]
    /\ UNCHANGED <<head, rec, review, now, click, deaths>>

Clones(d) ==
    /\ deploy[d].status = "running" /\ deploy[d].commit = 0
    /\ deploy' = [deploy EXCEPT ![d].commit = head]
    /\ UNCHANGED <<head, rec, review, now, click, deaths>>

Ends(d, s) ==
    /\ deploy[d].status = "running" /\ (s = "passed" => deploy[d].commit > 0)
    /\ now' = now + 1
    /\ deploy' = [deploy EXCEPT ![d].status = s, ![d].at = now']
    /\ UNCHANGED <<head, rec, review, click, deaths>>

\* The latest review row that is done, by its creation: 0 when there is none
GetLatestReviewCompletedAt ==
    LET v == Last({w \in Reviews : review[w].status = "done"}) IN IF v = 0 THEN 0 ELSE review[v].at

HasPassedBranchDeploySince(since) == \E d \in Deploys : deploy[d].status = "passed" /\ deploy[d].at > since

-----------------------------------------------------------------------------
Clicks(override) ==
    /\ click.pc = "idle"
    /\ click' = [NoClick EXCEPT !.pc = IF rec.is \in Flags THEN "since" ELSE "decide",
                                !.override = override, !.rec = rec.is, !.by = rec.by,
                                !.at = IF rec.by = 0 THEN 0 ELSE review[rec.by].at]
    /\ UNCHANGED <<head, rec, review, deploy, now, deaths>>

ReadsSince ==
    /\ click.pc = "since"
    /\ click' = [click EXCEPT !.pc = "deploys", !.since = GetLatestReviewCompletedAt]
    /\ UNCHANGED <<head, rec, review, deploy, now, deaths>>

ReadsDeploys ==
    /\ click.pc = "deploys"
    /\ click' = [click EXCEPT !.pc = "decide", !.validated = HasPassedBranchDeploySince(click.since)]
    /\ UNCHANGED <<head, rec, review, deploy, now, deaths>>

MayLand == click.rec \in Flags => click.override \/ click.validated

\* Refused with needsOverride, or on to the rebase and the retest
Decides ==
    /\ click.pc = "decide"
    /\ click' = IF MayLand THEN [click EXCEPT !.pc = "landing"] ELSE NoClick
    /\ UNCHANGED <<head, rec, review, deploy, now, deaths>>

\* The retest passed and GitHub merged, or either did not
Lands ==
    /\ click.pc = "landing"
    /\ click' \in {[click EXCEPT !.pc = "merged"], NoClick}
    /\ UNCHANGED <<head, rec, review, deploy, now, deaths>>

Next ==
    \/ Push \/ RequestChanges
    \/ \E v \in Reviews : \/ Dispatch(v) \/ ReviewerDies(v) \/ ReviewerResumes(v)
                          \/ \E is \in {"merge", "hold"} : Verdict(v, is)
    \/ \E d \in Deploys : \/ DeployAgentBranch(d) \/ Clones(d)
                          \/ \E s \in {"passed", "failed"} : Ends(d, s)
    \/ \E override \in BOOLEAN : Clicks(override)
    \/ ReadsSince \/ ReadsDeploys \/ Decides \/ Lands

Spec == Init /\ [][Next]_vars

-----------------------------------------------------------------------------
Cleanly == click.pc \in {"landing", "merged"} /\ click.rec \in Flags /\ ~click.override

\* router.ts, the HOLD-merge guard: a flagged change is landed without an override only after a
\* deploy of its branch passed, and no later than the flag it passes was read.
LandedWasDeployed == Cleanly => \E d \in Deploys : deploy[d].status = "passed"

\* queries.ts:1421-1424: that deploy passed after the review that flagged the change.
ValidatedAfterTheFlag ==
    Cleanly => \E d \in Deploys : deploy[d].status = "passed" /\ deploy[d].at > click.at

\* The same comment: what was watched on staging is what the review flagged, or later.
ValidatedWhatWasFlagged ==
    Cleanly => \E d \in Deploys : deploy[d].status = "passed" /\ deploy[d].commit >= review[click.by].commit

\* router.ts, "don't let it ship silently": what merges is not flagged, or somebody passed the flag.
HoldNeverShipsSilently ==
    click.pc = "merged" => (rec.is \in Flags => click.rec \in Flags)

-----------------------------------------------------------------------------
(* The inductive invariant (proved in FurtherProofs).                       *)

Passed == \E d \in Deploys : deploy[d].status = "passed"

IInv == /\ deploy \in [Deploys -> [status : {None, "running", "passed", "failed"}, commit : Nat, at : Nat]]
        /\ now \in Nat /\ head \in Nat
        /\ click = [pc |-> click.pc, override |-> click.override, rec |-> click.rec, by |-> click.by,
                    at |-> click.at, since |-> click.since, validated |-> click.validated]
        /\ click.validated => Passed
        /\ Cleanly => click.validated
=============================================================================
