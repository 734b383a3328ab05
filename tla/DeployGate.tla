------------------------------ MODULE DeployGate ------------------------------
(***************************************************************************)
(* From a merged change to a shipped one, on one repository and ref: the   *)
(* proposal after a land, the tests of main that gate it, the final review,*)
(* the human's click, the deploy manager with its recorder, and what       *)
(* cleans up after a lost pod or a boss that restarts between two awaits.  *)
(* The clicks are the executors: one approval creates one deploy manager.  *)
(***************************************************************************)
EXTENDS Naturals, FiniteSets

CONSTANTS
    Changes,      \* changes that land: 1..n, numbered in the order they do
    Deploys,      \* deploy runs that may be proposed: 1..n
    Tests,        \* test phases the repository declares
    Clicks,       \* clicks of humans on a deploy card
    DeployPhases, \* whether the deploy phase runs as an agent: a subset of BOOLEAN
    MaxGateFaults \* bound: launches that fail, lost pods, lost connections, restarts

ASSUME PhasesBoolean == DeployPhases \subseteq BOOLEAN
ASSUME GateBounds == MaxGateFaults \in Nat /\ Changes \cup Deploys \subseteq Nat \ {0}

VARIABLES
    managed,      \* the deploy phase declares agent: true
    merged,       \* changes in state verified, on main
    claimed,      \* agents.deployed_by_agent_id, by click
    run,          \* the deploy runs: status, recommendation, the changes the review read
    test,         \* the gate test runs, by proposal and phase
    proposal,     \* maybeProposeDeploy, per change
    review,       \* produceReview, per proposal or gate test
    click,        \* the handler of an approval or rejection
    exec,         \* the executor an approval launched
    reconcile,    \* reconcileDeployRun, per executor
    bossListens,  \* the LISTEN connections of the boss
    gateFaults

gateVars == <<managed, merged, claimed, run, test, proposal, review, click, exec, reconcile,
              bossListens, gateFaults>>
calls == <<proposal, review, click, reconcile>>

None == "none"
NoOne == 0
Batch == Changes \X Tests
Reviewing == Changes \X (Tests \cup {None})   \* <<c, None>>: the proposal of c itself
Active == {"pending", "pending_review", "pending_approval", "running"}
Terminal == {"passed", "failed"}

NoRun == [status |-> None, rec |-> None, seen |-> {}]
NoTest == [run |-> NoOne, status |-> None, pod |-> FALSE]
NoProposal == [pc |-> "idle", run |-> NoOne]
NoReview == [pc |-> "idle", run |-> NoOne, red |-> FALSE, seen |-> {}]
NoClick == [pc |-> "idle", run |-> NoOne]
NoExec == [run |-> NoOne, st |-> None, agent |-> None, recorder |-> "off"]

GateTypeOK ==
    /\ managed \in DeployPhases /\ merged \subseteq Changes
    /\ claimed \in [Changes -> Clicks \cup {None}]
    /\ run \in [Deploys -> [status : Active \cup Terminal \cup {None, "aborted"},
                            rec : {None, "approve", "hold", "reject"}, seen : SUBSET Changes]]
    /\ test \in [Batch -> [run : Deploys \cup {NoOne}, pod : BOOLEAN,
                           status : {None, "pending", "running", "aborted"} \cup Terminal]]
    /\ proposal \in [Changes -> [pc : {"idle", "check", "dedupe", "insert", "gate", "review", "over"},
                                 run : Deploys \cup {NoOne}]]
    /\ review \in [Reviewing -> [pc : {"idle", "heard", "read", "ask"}, run : Deploys \cup {NoOne},
                                 red : BOOLEAN, seen : SUBSET Changes]]
    /\ click \in [Clicks -> [pc : {"idle", "approve", "reject", "created", "launched", "claimed", "over"},
                             run : Deploys \cup {NoOne}]]
    /\ exec \in [Clicks -> [run : Deploys \cup {NoOne}, st : {None, "made", "up", "down"},
                            agent : {None, "running", "ended"}, recorder : {"off", "on", "wrote"}]]
    /\ reconcile \in [Clicks -> {"idle", "heard", "fail"}]
    /\ bossListens \in BOOLEAN /\ gateFaults \in 0..MaxGateFaults
    \* nothing runs for a deploy nobody proposed, and a claim names a live deploy
    /\ \A k \in Clicks : exec[k].run # NoOne => run[exec[k].run].status # None
    /\ \A c \in Changes : claimed[c] # None => c \in merged /\ exec[claimed[c]].run # NoOne

GateInit ==
    /\ managed \in DeployPhases
    /\ merged = {} /\ claimed = [c \in Changes |-> None]
    /\ run = [d \in Deploys |-> NoRun]
    /\ test = [b \in Batch |-> NoTest]
    /\ proposal = [c \in Changes |-> NoProposal]
    /\ review = [v \in Reviewing |-> NoReview]
    /\ click = [k \in Clicks |-> NoClick]
    /\ exec = [k \in Clicks |-> NoExec]
    /\ reconcile = [k \in Clicks |-> "idle"]
    /\ bossListens = TRUE /\ gateFaults = 0

GateFault == gateFaults < MaxGateFaults /\ gateFaults' = gateFaults + 1
SetStatus(d, status) == run' = [run EXCEPT ![d].status = status]

-----------------------------------------------------------------------------
\* maybeProposeDeploy, after the merge of c

ActiveDeployRuns == {d \in Deploys : run[d].status \in Active}
Propose(c, pc, d) == proposal' = [proposal EXCEPT ![c] = [pc |-> pc, run |-> d]]

Lands(c) ==
    /\ c \notin merged /\ 1..(c - 1) \subseteq merged
    /\ merged' = merged \cup {c}
    /\ Propose(c, "check", NoOne)
    /\ UNCHANGED <<managed, claimed, run, test, review, click, exec, reconcile, bossListens, gateFaults>>

ChecksActive(c) ==
    /\ proposal[c].pc = "check"
    /\ Propose(c, IF ActiveDeployRuns = {} THEN "dedupe" ELSE "over", NoOne)
    /\ UNCHANGED <<managed, merged, claimed, run, test, review, click, exec, reconcile, bossListens, gateFaults>>

\* runPhase, past the resolution of the phase: an open deploy is returned as if it
\* had just been created, and the caller gates it again
Dedupes(c) ==
    /\ proposal[c].pc = "dedupe"
    /\ \/ ActiveDeployRuns = {} /\ Propose(c, "insert", NoOne)
       \/ \E d \in ActiveDeployRuns : Propose(c, "gate", d)
    /\ UNCHANGED <<managed, merged, claimed, run, test, review, click, exec, reconcile, bossListens, gateFaults>>

InsertsRun(c) ==
    /\ proposal[c].pc = "insert"
    /\ \E d \in Deploys : /\ run[d].status = None /\ \A e \in 1..(d - 1) : run[e].status # None
                          /\ SetStatus(d, "pending_review")
                          /\ Propose(c, "gate", d)
    /\ UNCHANGED <<managed, merged, claimed, test, review, click, exec, reconcile, bossListens, gateFaults>>

\* runDeployGateTests: the row, then the pod; a launch that throws leaves its row
\* and makes the caller review at once, as if the repository had no tests
LaunchesTest(c) ==
    /\ proposal[c].pc = "gate"
    /\ \E t \in Tests :
          /\ test[<<c, t>>].status = None
          /\ \/ /\ test' = [test EXCEPT ![<<c, t>>] = [run |-> proposal[c].run, status |-> "pending",
                                                       pod |-> TRUE]]
                /\ UNCHANGED <<proposal, gateFaults>>
             \/ /\ GateFault
                /\ test' = [test EXCEPT ![<<c, t>>] = [run |-> proposal[c].run, status |-> "pending",
                                                       pod |-> FALSE]]
                /\ Propose(c, "review", proposal[c].run)
    /\ UNCHANGED <<managed, merged, claimed, run, review, click, exec, reconcile, bossListens>>

GateLaunched(c) ==
    /\ proposal[c].pc = "gate" /\ \A t \in Tests : test[<<c, t>>].status # None
    /\ IF Tests = {} THEN Propose(c, "review", proposal[c].run) ELSE Propose(c, "over", NoOne)
    /\ UNCHANGED <<managed, merged, claimed, run, test, review, click, exec, reconcile, bossListens, gateFaults>>

ReviewsAtOnce(c) ==
    /\ proposal[c].pc = "review"
    /\ Propose(c, "over", NoOne)
    /\ review' = [review EXCEPT ![<<c, None>>] = [NoReview EXCEPT !.pc = "read", !.run = proposal[c].run]]
    /\ UNCHANGED <<managed, merged, claimed, run, test, click, exec, reconcile, bossListens, gateFaults>>

-----------------------------------------------------------------------------
\* the gate tests, each in a pod of its own

Notified(b) == IF bossListens /\ review[b].pc = "idle"
               THEN review' = [review EXCEPT ![b] = [NoReview EXCEPT !.pc = "heard", !.run = test[b].run]]
               ELSE UNCHANGED review

TestRuns(b) ==
    /\ test[b].status = "pending" /\ test[b].pod
    /\ test' = [test EXCEPT ![b].status = "running"]
    /\ UNCHANGED <<managed, merged, claimed, run, calls, exec, bossListens, gateFaults>>

TestEnds(b) ==
    /\ test[b].status = "running" /\ test[b].pod
    /\ \E s \in Terminal : test' = [test EXCEPT ![b].status = s, ![b].pod = FALSE]
    /\ Notified(b)
    /\ UNCHANGED <<managed, merged, claimed, run, proposal, click, exec, reconcile, bossListens, gateFaults>>

TestPodLost(b) ==
    /\ test[b].pod /\ GateFault
    /\ test' = [test EXCEPT ![b].pod = FALSE]
    /\ UNCHANGED <<managed, merged, claimed, run, calls, exec, bossListens>>

\* reapOrphanedPipelineRuns, once the row has aged and no pod carries it
SweepsTest(b) ==
    /\ test[b].status \in {"pending", "running"} /\ ~test[b].pod
    /\ test' = [test EXCEPT ![b].status = "aborted"]
    /\ Notified(b)
    /\ UNCHANGED <<managed, merged, claimed, run, proposal, click, exec, reconcile, bossListens, gateFaults>>

-----------------------------------------------------------------------------
\* maybeGateDeployReview and produceReview

GateTests(d) == {b \in Batch : test[b].run = d}
Pending(d) == run[d].status = "pending_review"

GateComplete(d) == \A b \in GateTests(d) : test[b].status \in Terminal

EvaluatesGate(b) ==
    /\ review[b].pc = "heard"
    /\ review' = IF Pending(review[b].run) /\ GateComplete(review[b].run)
                 THEN [review EXCEPT ![b].pc = "read"] ELSE [review EXCEPT ![b] = NoReview]
    /\ UNCHANGED <<managed, merged, claimed, run, test, proposal, click, exec, reconcile, bossListens, gateFaults>>

\* merged, and claimed by no deploy: what a launch claims
Unshipped == {c \in merged : claimed[c] = None}

\* the run, its tests and the changes it will ship, read for the prompt
ReadsForReview(v) ==
    /\ review[v].pc = "read"
    /\ review' = IF Pending(review[v].run)
                 THEN [review EXCEPT ![v].pc = "ask",
                          ![v].red = \E b \in GateTests(review[v].run) : test[b].status = "failed",
                          ![v].seen = Unshipped]
                 ELSE [review EXCEPT ![v] = NoReview]
    /\ UNCHANGED <<managed, merged, claimed, run, test, proposal, click, exec, reconcile, bossListens, gateFaults>>

\* a red test overrides the answer; no credential or a call that throws is a hold
Recommendations(v) == IF review[v].red THEN {"reject", "hold"} ELSE {"approve", "hold", "reject"}

\* mutant: whatever the run's status has become, the review reopens it
WritesReviewAnyway(v) ==
    /\ review[v].pc = "ask"
    /\ \E rec \in Recommendations(v) :
          run' = [run EXCEPT ![review[v].run] = [status |-> "pending_approval", rec |-> rec,
                                                 seen |-> review[v].seen]]
    /\ review' = [review EXCEPT ![v] = NoReview]
    /\ UNCHANGED <<managed, merged, claimed, test, proposal, click, exec, reconcile, bossListens, gateFaults>>

WritesReview(v) ==
    /\ review[v].pc = "ask"
    /\ \E rec \in Recommendations(v) :
          run' = IF Pending(review[v].run)
                 THEN [run EXCEPT ![review[v].run] = [status |-> "pending_approval", rec |-> rec,
                                                      seen |-> review[v].seen]]
                 ELSE run
    /\ review' = [review EXCEPT ![v] = NoReview]
    /\ UNCHANGED <<managed, merged, claimed, test, proposal, click, exec, reconcile, bossListens, gateFaults>>

-----------------------------------------------------------------------------
\* the human's click: a check, an await, then unconditional writes

SetClick(k, pc, d) == click' = [click EXCEPT ![k] = [pc |-> pc, run |-> d]]

Approves(k) ==
    /\ click[k].pc = "idle"
    /\ \E d \in Deploys : run[d].status = "pending_approval" /\ SetClick(k, "approve", d)
    /\ UNCHANGED <<managed, merged, claimed, run, test, proposal, review, exec, reconcile, bossListens, gateFaults>>

Rejects(k) ==
    /\ click[k].pc = "idle"
    /\ \E d \in Deploys : /\ run[d].status \in {"pending_review", "pending_approval"}
                          /\ SetClick(k, "reject", d)
    /\ UNCHANGED <<managed, merged, claimed, run, test, proposal, review, exec, reconcile, bossListens, gateFaults>>

WritesRejection(k) ==
    /\ click[k].pc = "reject"
    /\ SetStatus(click[k].run, "failed") /\ SetClick(k, "over", NoOne)
    /\ UNCHANGED <<managed, merged, claimed, test, proposal, review, exec, reconcile, bossListens, gateFaults>>

\* dispatchDeployAgent: the agent, the links and the run's status, the manifest,
\* the start; a plain phase only gets a status and a pod
CreatesExecutor(k) ==
    /\ click[k].pc = "approve"
    /\ exec' = [exec EXCEPT ![k] = [NoExec EXCEPT !.st = "made", !.run = click[k].run]]
    /\ SetClick(k, "created", click[k].run)
    /\ UNCHANGED <<managed, merged, claimed, run, test, proposal, review, reconcile, bossListens, gateFaults>>

MarksLaunched(k) ==
    /\ click[k].pc = "created"
    /\ SetStatus(click[k].run, IF managed THEN "running" ELSE "pending")
    /\ SetClick(k, IF managed THEN "launched" ELSE "claimed", click[k].run)
    /\ UNCHANGED <<managed, merged, claimed, test, proposal, review, exec, reconcile, bossListens, gateFaults>>

ClaimsManifest(k) ==
    /\ click[k].pc = "launched"
    /\ claimed' = [c \in Changes |-> IF c \in Unshipped THEN k ELSE claimed[c]]
    /\ SetClick(k, "claimed", click[k].run)
    /\ UNCHANGED <<managed, merged, run, test, proposal, review, exec, reconcile, bossListens, gateFaults>>

Starts(k) ==
    /\ click[k].pc = "claimed"
    /\ \/ /\ exec' = [exec EXCEPT ![k].st = "up", ![k].agent = IF managed THEN "running" ELSE None]
          /\ UNCHANGED gateFaults
       \/ exec' = [exec EXCEPT ![k].st = "down"] /\ GateFault
    /\ SetClick(k, "over", NoOne)
    /\ UNCHANGED <<managed, merged, claimed, run, test, proposal, review, reconcile, bossListens>>

-----------------------------------------------------------------------------
\* the executor's pod: the command, the recorder, the agent

RecorderStarts(k) ==
    /\ exec[k].st = "up" /\ exec[k].recorder = "off"
    /\ exec' = [exec EXCEPT ![k].recorder = "on"]
    /\ SetStatus(exec[k].run, "running")
    /\ UNCHANGED <<managed, merged, claimed, test, calls, bossListens, gateFaults>>

\* the pod is finished when the recorder has written and the agent is over
Finished(e) == e.recorder = "wrote" /\ e.agent # "running"
\* mutant: an executor that is down forgets the deploy it launched
DownForgets(k) == [NoExec EXCEPT !.st = "down"]
Down(k) == [NoExec EXCEPT !.run = exec[k].run, !.st = "down"]
Settle(k, e) == exec' = [exec EXCEPT ![k] = IF Finished(e) THEN Down(k) ELSE e]

\* the command's exit code, or the time-out of one that never wrote its exit file
RecorderWrites(k) ==
    /\ exec[k].st = "up" /\ exec[k].recorder = "on"
    /\ \E s \in Terminal : SetStatus(exec[k].run, s)
    /\ Settle(k, [exec[k] EXCEPT !.recorder = "wrote"])
    /\ UNCHANGED <<managed, merged, claimed, test, calls, bossListens, gateFaults>>

AgentEnds(k) ==
    /\ exec[k].st = "up" /\ exec[k].agent = "running"
    /\ Settle(k, [exec[k] EXCEPT !.agent = "ended"])
    /\ reconcile' = [reconcile EXCEPT ![k] = IF bossListens THEN "heard" ELSE @]
    /\ UNCHANGED <<managed, merged, claimed, run, test, proposal, review, click, bossListens, gateFaults>>

\* the agent is reconciled to paused, which the relay does not take for an end
PodLost(k) ==
    /\ exec[k].st = "up" /\ GateFault
    /\ exec' = [exec EXCEPT ![k] = Down(k)]
    /\ UNCHANGED <<managed, merged, claimed, run, test, calls, bossListens>>

\* reconcileDeployRun: the read, then the write; a run that is still running has no
\* exit code, for the recorder writes both in one statement
ReadsDeployRun(k) ==
    /\ reconcile[k] = "heard"
    /\ reconcile' = [reconcile EXCEPT ![k] = IF run[exec[k].run].status = "running" THEN "fail" ELSE "idle"]
    /\ UNCHANGED <<managed, merged, claimed, run, test, proposal, review, click, exec, bossListens, gateFaults>>

FailsDeployRun(k) ==
    /\ reconcile[k] = "fail"
    /\ SetStatus(exec[k].run, "failed")
    /\ reconcile' = [reconcile EXCEPT ![k] = "idle"]
    /\ UNCHANGED <<managed, merged, claimed, test, proposal, review, click, exec, bossListens, gateFaults>>

Launching(d) == \E k \in Clicks : click[k].run = d /\ click[k].pc \in {"created", "launched", "claimed"}

\* mutant: an agent that is linked drives the run, pod or no pod
DrivenByRow(d) == \E k \in Clicks : exec[k].run = d /\ exec[k].st \in {"made", "up", "down"}
Driven(d) == \E k \in Clicks : exec[k].run = d /\ exec[k].st = "up"

\* the grace of the sweep outlasts a launch that is under way
SweepsRun(d) ==
    /\ run[d].status \in {"pending", "running"} /\ ~Driven(d) /\ ~Launching(d)
    /\ SetStatus(d, "aborted")
    /\ UNCHANGED <<managed, merged, claimed, test, calls, exec, bossListens, gateFaults>>

-----------------------------------------------------------------------------
BossDisconnects ==
    /\ bossListens /\ GateFault /\ bossListens' = FALSE
    /\ UNCHANGED <<managed, merged, claimed, run, test, calls, exec>>

BossReconnects ==
    /\ ~bossListens /\ bossListens' = TRUE
    /\ UNCHANGED <<managed, merged, claimed, run, test, calls, exec, gateFaults>>

BossRestarts ==
    /\ GateFault /\ bossListens' = FALSE
    /\ proposal' = [c \in Changes |-> IF proposal[c].pc = "idle" THEN NoProposal
                                      ELSE [NoProposal EXCEPT !.pc = "over"]]
    /\ review' = [v \in Reviewing |-> NoReview]
    /\ click' = [k \in Clicks |-> IF click[k].pc = "idle" THEN NoClick ELSE [NoClick EXCEPT !.pc = "over"]]
    /\ reconcile' = [k \in Clicks |-> "idle"]
    /\ UNCHANGED <<managed, merged, claimed, run, test, exec>>

Proposes(c) == ChecksActive(c) \/ Dedupes(c) \/ InsertsRun(c) \/ LaunchesTest(c) \/ GateLaunched(c)
               \/ ReviewsAtOnce(c)
Tested(b) == TestRuns(b) \/ TestEnds(b) \/ SweepsTest(b)
Produces(v) == (v \in Batch /\ EvaluatesGate(v)) \/ ReadsForReview(v) \/ WritesReview(v)
Handles(k) == WritesRejection(k) \/ CreatesExecutor(k) \/ MarksLaunched(k) \/ ClaimsManifest(k) \/ Starts(k)
Executes(k) == RecorderStarts(k) \/ RecorderWrites(k) \/ AgentEnds(k)
Reconciles(k) == ReadsDeployRun(k) \/ FailsDeployRun(k)

GateNext ==
    \/ \E c \in Changes : Lands(c) \/ Proposes(c)
    \/ \E b \in Batch : Tested(b) \/ TestPodLost(b)
    \/ \E v \in Reviewing : Produces(v)
    \/ \E k \in Clicks : Approves(k) \/ Rejects(k) \/ Handles(k)
    \/ \E k \in Clicks : Executes(k) \/ PodLost(k) \/ Reconciles(k)
    \/ \E d \in Deploys : SweepsRun(d)
    \/ BossDisconnects \/ BossReconnects \/ BossRestarts

Boss == \/ \E c \in Changes : Proposes(c)
        \/ \E v \in Reviewing : Produces(v)
        \/ \E k \in Clicks : Handles(k) \/ Reconciles(k)
Pods == \/ \E b \in Batch : Tested(b)
        \/ \E k \in Clicks : Executes(k)

\* Awaits of the boss end, a pod that is not lost ends, the sweep runs every ten
\* seconds, and the connections are retried. No human has to click.
GateFairness ==
    /\ WF_gateVars(Boss) /\ WF_gateVars(Pods)
    /\ WF_gateVars(\E d \in Deploys : SweepsRun(d)) /\ WF_gateVars(BossReconnects)

GateSpec == GateInit /\ [][GateNext]_gateVars /\ GateFairness

-----------------------------------------------------------------------------
\* A card that a human or a launch has decided never comes back for approval, and
\* its recommendation stands: the second of two reviews of one gate, which two tests
\* that end together start, writes nothing (completion.ts:76).
DecidedStaysDecided ==
    [][\A d \in Deploys : run[d].status \notin {None, "pending_review"} =>
           /\ run'[d].rec = run[d].rec
           /\ run'[d].status = "pending_approval" => run[d].status = "pending_approval"]_gateVars

\* A deploy that was launched ends: the recorder writes it, or the relay reconciles
\* it, or, when its pod is lost, the agent merely paused, the dispatch cut by a
\* restart, the orphan sweep does (pod-dispatcher.ts:743, deploy-agent.ts:129).
DeployRunEnds ==
    \A d \in Deploys : run[d].status \in {"pending", "running"}
                       ~> run[d].status \in Terminal \cup {"aborted"}

\* review.ts:201 "Never let the deploy show APPROVE past a red pre-deploy test".
RedTestBlocks ==
    \A d \in Deploys : run[d].rec = "approve" => \A b \in GateTests(d) : test[b].status # "failed"

\* review.ts:141 "THE CHANGES THIS DEPLOY SHIPS": the manifest is claimed at launch,
\* from whatever is merged by then.
ShippedWasReviewed ==
    \A c \in Changes : claimed[c] # None => c \in run[exec[claimed[c]].run].seen

==============================================================================
