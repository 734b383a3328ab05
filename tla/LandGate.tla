------------------------------- MODULE LandGate -------------------------------
(***************************************************************************)
(* The tests that gate one agent's pull request and the land gate that     *)
(* merges it (POST /merge and /test, pipeline/service.ts and               *)
(* pipeline/completion.ts).                                                *)
(*   jobs        a land, a test request or an auto-test, which runs test   *)
(*               phases one after the other: insert a run, launch its pod  *)
(*   runs        the rows of pipeline_runs, each with its runner pod and   *)
(*               the completion handler its NOTIFY starts in the boss      *)
(*   sweep       reapOrphanedPipelineRuns                                  *)
(* Runs of a land (land_on_pass) and of the PR gate are told apart by      *)
(* their mode only.  The forge is GitHub, seen from forge/github.ts.       *)
(***************************************************************************)
EXTENDS Naturals, Sequences, FiniteSets, SequencesExt

CONSTANTS
    Phases,       \* the test phases of the repo's pipeline.yaml, in its order
    Lands,        \* the clicks on Merge
    Tests,        \* the times the PR's tests are run
    MaxPushes,    \* bound: pushes to the branch, and times main moves
    MaxFaults,    \* bound: crashes, lost connections, pods that die, errors thrown
    MaxMisreads   \* bound: reads of pipeline.yaml that GitHub does not answer

ASSUME PhasesDeclared == Phases \in Seq(STRING) /\ Phases # <<>> /\ IsInjective(Phases)
ASSUME JobsApart == Lands \cap Tests = {}
ASSUME JobsFinite == IsFiniteSet(Lands) /\ IsFiniteSet(Tests)
ASSUME BoundsNat == MaxPushes \in Nat /\ MaxFaults \in Nat /\ MaxMisreads \in Nat

Jobs == Lands \cup Tests
Phase == ToSet(Phases)
MaxRuns == Len(Phases) * Cardinality(Jobs)      \* a job inserts each phase once
Finished == {"passed", "failed"}
InFlight == {"pending", "running"}

Run == [phase : Phase, land : BOOLEAN,
        status : InFlight \cup Finished \cup {"aborted"},
        exit : {"none", "zero", "other"},          \* exit_code
        posted : BOOLEAN,                          \* pr_posted
        head : Nat,                                \* the commit its pod cloned; 0: none yet
        pod : {"none", "starting", "up", "exited"},
        gate : {"none", "expect", "read", "claim", "act", "record", "propose"},
        expected : SUBSET Phase,                   \* what its handler waits for
        green : BOOLEAN,                           \* what its handler made of it
        by : Jobs]                                 \* history: what inserted it

Job == [pc : {"idle", "guard", "update", "list", "insert", "launch", "direct",
              "record", "propose", "done"},
        todo : {SubSeq(Phases, i, k) : i \in 1 .. Len(Phases) + 1, k \in 0 .. Len(Phases)},
        run : Nat]                                 \* the run it is launching

VARIABLES
    runs,       \* pipeline_runs of this agent, oldest first
    job,
    verified,   \* agents.state is "verified"
    head,       \* the branch's head commit; commits are numbered
    ready,      \* the pull request is no longer a draft
    merged,     \* the pull request is merged
    proposed,   \* the deploy has been proposed
    listening,  \* the boss's LISTEN connection is up
    sweep,      \* where the orphan sweep is, and the runs it holds
    verdicts,   \* history: land batches acted upon
    pushes, faults, misreads

forge == <<head, ready, merged>>
budget == <<pushes, faults, misreads>>
vars == <<runs, job, verified, head, ready, merged, proposed, listening, sweep,
          verdicts, pushes, faults, misreads>>

TypeOK ==
    /\ runs \in Seq(Run) /\ Len(runs) <= MaxRuns
    /\ job \in [Jobs -> Job]
    /\ \A j \in Jobs : job[j].run \in 0 .. Len(runs)
    /\ verified \in BOOLEAN /\ ready \in BOOLEAN /\ merged \in BOOLEAN
    /\ proposed \in BOOLEAN /\ listening \in BOOLEAN
    /\ head \in Nat /\ verdicts \in Nat
    /\ sweep \in [pc : {"idle", "listed", "write"}, held : SUBSET (DOMAIN runs)]
    /\ pushes \in 0..MaxPushes
    /\ faults \in 0..MaxFaults
    /\ misreads \in 0..MaxMisreads

NoSweep == [pc |-> "idle", held |-> {}]

Init ==
    /\ runs = <<>>
    /\ job = [j \in Jobs |-> [pc |-> "idle", todo |-> <<>>, run |-> 0]]
    /\ verified = FALSE
    /\ head = 1 /\ ready = FALSE /\ merged = FALSE
    /\ proposed = FALSE
    /\ listening = TRUE
    /\ sweep = NoSweep
    /\ verdicts = 0
    /\ pushes = MaxPushes /\ faults = MaxFaults /\ misreads = MaxMisreads

-----------------------------------------------------------------------------
Fault == faults > 0 /\ faults' = faults - 1 /\ UNCHANGED <<pushes, misreads>>
Misread == misreads > 0 /\ misreads' = misreads - 1 /\ UNCHANGED <<pushes, faults>>
NoBudget == UNCHANGED budget

NewCommit == head' = head + 1 /\ pushes > 0 /\ pushes' = pushes - 1
             /\ UNCHANGED <<faults, misreads>>

Put(r, run) == runs' = [runs EXCEPT ![r] = run]

\* updatePipelineRun with completed: the status, whatever it was, and a NOTIFY,
\* which starts a completion handler if the boss is listening.  (A run completes
\* twice only around an abort, and of its two handlers one has nothing to do.)
Complete(run, status) ==
    [run EXCEPT !.status = status,
                !.gate = IF listening /\ @ = "none" THEN "expect" ELSE @]

\* markReadyForReview, whose failure is ignored, then mergePr: GitHub refuses a draft
\* and a second merge, and may refuse otherwise.
MergePr(Then, Else) ==
    \/ /\ ~merged
       /\ merged' = TRUE /\ ready' = TRUE
       /\ Then /\ NoBudget
    \/ merged /\ UNCHANGED <<merged, ready>> /\ Else /\ NoBudget
    \/ UNCHANGED merged /\ ready' \in {ready, TRUE} /\ Else /\ Fault

-----------------------------------------------------------------------------
(* Running the test phases: for a land, with the checks of POST /merge     *)
(* before it.                                                              *)

JobAt(j, pc) == job[j].pc = pc
JobTo(j, pc) == job' = [job EXCEPT ![j].pc = pc]
JobStep == UNCHANGED <<listening, sweep, verdicts>>

\* The request reads the agent; a merged one is refused.
Click(j) ==
    /\ JobAt(j, "idle")
    /\ JobTo(j, IF j \in Tests THEN "list" ELSE IF verified THEN "done" ELSE "guard")
    /\ NoBudget
    /\ JobStep
    /\ UNCHANGED <<runs, verified, forge, proposed>>

\* POST /test runs the one phase it names.
TestOnePhase(j) ==
    /\ j \in Tests /\ JobAt(j, "idle")
    /\ \E p \in Phase : job' = [job EXCEPT ![j].pc = "insert", ![j].todo = <<p>>]
    /\ NoBudget
    /\ JobStep
    /\ UNCHANGED <<runs, verified, forge, proposed>>

LandInFlight == \E r \in DOMAIN runs : runs[r].land /\ runs[r].status \in InFlight

\* The double-click guard.  (The review's guard follows; a click that it refuses
\* changes nothing.)
CheckInFlight(j) ==
    /\ JobAt(j, "guard")
    /\ JobTo(j, IF LandInFlight THEN "done" ELSE "update")
    /\ NoBudget
    /\ JobStep
    /\ UNCHANGED <<runs, verified, forge, proposed>>

\* updateBranch: merges main into the branch if main has moved.  A conflict
\* refuses the land.
UpdateBranch(j) ==
    /\ JobAt(j, "update")
    /\ \/ JobTo(j, "list") /\ UNCHANGED head /\ NoBudget
       \/ JobTo(j, "list") /\ NewCommit
       \/ JobTo(j, "done") /\ UNCHANGED head /\ Fault
    /\ JobStep
    /\ UNCHANGED <<runs, verified, ready, merged, proposed>>

\* listTestPhases.  A read GitHub does not answer says "no test phase", and a land
\* goes on to merge.
ListPhases(j) ==
    /\ JobAt(j, "list")
    /\ \/ job' = [job EXCEPT ![j].pc = "insert", ![j].todo = Phases] /\ NoBudget
       \/ JobTo(j, IF j \in Lands THEN "direct" ELSE "done") /\ Misread
    /\ JobStep
    /\ UNCHANGED <<runs, verified, forge, proposed>>

\* runPhase: resolvePhase, then the row.
InsertRun(j) ==
    /\ JobAt(j, "insert")
    /\ runs' = Append(runs, [phase |-> Head(job[j].todo), land |-> j \in Lands,
                             status |-> "pending", exit |-> "none", posted |-> FALSE, head |-> 0,
                             pod |-> "none", gate |-> "none", expected |-> {},
                             green |-> FALSE, by |-> j])
    /\ job' = [job EXCEPT ![j].pc = "launch", ![j].run = Len(runs) + 1]
    /\ NoBudget
    /\ JobStep
    /\ UNCHANGED <<verified, forge, proposed>>

SamePhaseAgain(todo) == todo                                             \* mutant
Rest(todo) == Tail(todo)

\* launchResolved; then the next phase.
LaunchRun(j) ==
    /\ JobAt(j, "launch")
    /\ Put(job[j].run, [runs[job[j].run] EXCEPT !.pod = "starting"])
    /\ job' = [job EXCEPT ![j].pc = IF Rest(job[j].todo) = <<>> THEN "done" ELSE "insert",
                          ![j].todo = Rest(@)]
    /\ NoBudget
    /\ JobStep
    /\ UNCHANGED <<verified, forge, proposed>>

\* Any call may throw, which ends the request: the rows that are there stay, and the
\* phases left are not run.
JobThrows(j) ==
    /\ job[j].pc \notin {"idle", "done"}
    /\ JobTo(j, "done")
    /\ Fault
    /\ JobStep
    /\ UNCHANGED <<runs, verified, forge, proposed>>

\* No test phase: merge now.
MergeDirectly(j) ==
    /\ JobAt(j, "direct")
    /\ MergePr(JobTo(j, "record"), JobTo(j, "done"))
    /\ JobStep
    /\ UNCHANGED <<runs, verified, head, proposed>>

RecordDirect(j) ==
    /\ JobAt(j, "record")
    /\ JobTo(j, "propose")
    /\ verified' = TRUE
    /\ NoBudget
    /\ JobStep
    /\ UNCHANGED <<runs, forge, proposed>>

\* maybeProposeDeploy, which does nothing while a deploy is open.
ProposeDirect(j) ==
    /\ JobAt(j, "propose")
    /\ JobTo(j, "done")
    /\ proposed' = TRUE
    /\ NoBudget
    /\ JobStep
    /\ UNCHANGED <<runs, verified, forge>>

JobGoesOn(j) == \/ CheckInFlight(j) \/ UpdateBranch(j) \/ ListPhases(j) \/ InsertRun(j)
                \/ LaunchRun(j) \/ MergeDirectly(j) \/ RecordDirect(j) \/ ProposeDirect(j)

-----------------------------------------------------------------------------
(* The runner pod of run r.                                                *)

RunnerStep == UNCHANGED <<job, verified, forge, proposed, listening, sweep, verdicts>>

\* It writes "running" over whatever the row says, and clones the branch.
RunnerStarts(r) ==
    /\ runs[r].pod = "starting"
    /\ Put(r, [runs[r] EXCEPT !.pod = "up", !.status = "running", !.head = head])
    /\ NoBudget
    /\ RunnerStep

RunnerEnds(r) ==
    /\ runs[r].pod = "up"
    /\ \E s \in Finished :
          Put(r, [Complete(runs[r], s) EXCEPT !.pod = "exited",
                                              !.exit = IF s = "passed" THEN "zero" ELSE "other"])
    /\ NoBudget
    /\ RunnerStep

\* Nothing is recorded.
RunnerDies(r) ==
    /\ runs[r].pod \in {"starting", "up"}
    /\ Put(r, [runs[r] EXCEPT !.pod = "exited"])
    /\ Fault
    /\ RunnerStep

\* reapFinishedAgentPods, which collects pipeline pods too.
PodReaped(r) ==
    /\ runs[r].pod = "exited"
    /\ Put(r, [runs[r] EXCEPT !.pod = "none"])
    /\ NoBudget
    /\ RunnerStep

-----------------------------------------------------------------------------
(* gatePr and gateTestBatch, run by the completion of run r.               *)

GateStep == UNCHANGED <<job, listening, sweep>>

\* The phases to wait for; an unanswered read leaves this run's own.
Expect(r) ==
    /\ runs[r].gate = "expect"
    /\ \/ Put(r, [runs[r] EXCEPT !.gate = "read", !.expected = Phase]) /\ NoBudget
       \/ Put(r, [runs[r] EXCEPT !.gate = "read", !.expected = {runs[r].phase}]) /\ Misread
    /\ GateStep
    /\ UNCHANGED <<verified, forge, proposed, verdicts>>

SamePhase(i, r, p) == runs[i].phase = p /\ runs[i].posted \in BOOLEAN      \* mutant
OfBatch(i, r, p) == runs[i].phase = p /\ runs[i].land = runs[r].land

Candidates(r, p) == {i \in DOMAIN runs : OfBatch(i, r, p)}
Newest(S) == CHOOSE i \in S : \A k \in S : k <= i

CoveredAnyway(r) == runs[r].expected # {}                                \* mutant
Covered(r) == \A p \in runs[r].expected : Candidates(r, p) # {}

\* It goes on only if the newest run of every phase, in this mode, has finished.
ReadBatch(r) ==
    /\ runs[r].gate = "read"
    /\ LET batch == {Newest(Candidates(r, p)) : p \in {q \in runs[r].expected :
                                                         Candidates(r, q) # {}}}
           complete == /\ Covered(r)
                       /\ \A i \in batch : runs[i].status \in Finished
       IN  Put(r, IF complete
                  THEN [runs[r] EXCEPT !.gate = "claim",
                                       !.green = \A i \in batch : runs[i].status = "passed"]
                  ELSE [runs[r] EXCEPT !.gate = "none", !.expected = {}])
    /\ NoBudget
    /\ GateStep
    /\ UNCHANGED <<verified, forge, proposed, verdicts>>

ClaimableTwice(r) ==                                                     \* mutant
    {i \in DOMAIN runs : /\ runs[i].phase \in runs[r].expected
                         /\ runs[i].land = runs[r].land
                         /\ runs[i].status \in Finished}
Claimable(r) ==
    {i \in DOMAIN runs : /\ runs[i].phase \in runs[r].expected
                         /\ runs[i].land = runs[r].land
                         /\ runs[i].status \in Finished
                         /\ ~runs[i].posted}

\* claimTestBatch, one statement of the database.
ClaimBatch(r) ==
    /\ runs[r].gate = "claim"
    /\ runs' = [i \in DOMAIN runs |->
                  LET run == [runs[i] EXCEPT !.posted = @ \/ i \in Claimable(r)]
                  IN  IF i # r THEN run
                      ELSE IF Claimable(r) = {}
                      THEN [run EXCEPT !.gate = "none", !.expected = {}, !.green = FALSE]
                      ELSE [run EXCEPT !.gate = "act"]]
    /\ NoBudget
    /\ GateStep
    /\ UNCHANGED <<verified, forge, proposed, verdicts>>

Leave(r) == Put(r, [runs[r] EXCEPT !.gate = "none", !.expected = {}, !.green = FALSE])

\* A red land is blocked, a green one merged; a merge that fails is only reported.
ActOnLand(r) ==
    /\ runs[r].gate = "act" /\ runs[r].land
    /\ verdicts' = verdicts + 1
    /\ IF runs[r].green
       THEN MergePr(Put(r, [runs[r] EXCEPT !.gate = "record"]), Leave(r))
       ELSE Leave(r) /\ UNCHANGED <<ready, merged>> /\ NoBudget
    /\ GateStep
    /\ UNCHANGED <<verified, head, proposed>>

\* The PR gate comments, and marks a green pull request ready.
ActOnPr(r) ==
    /\ runs[r].gate = "act" /\ ~runs[r].land
    /\ Leave(r)
    /\ ready' = (ready \/ runs[r].green)
    /\ NoBudget
    /\ GateStep
    /\ UNCHANGED <<verified, head, merged, proposed, verdicts>>

RecordLand(r) ==
    /\ runs[r].gate = "record"
    /\ Put(r, [runs[r] EXCEPT !.gate = "propose"])
    /\ verified' = TRUE
    /\ NoBudget
    /\ GateStep
    /\ UNCHANGED <<forge, proposed, verdicts>>

ProposeDeploy(r) ==
    /\ runs[r].gate = "propose"
    /\ Leave(r)
    /\ proposed' = TRUE
    /\ NoBudget
    /\ GateStep
    /\ UNCHANGED <<verified, forge, verdicts>>

\* Any await of the handler may throw; what it had claimed stays claimed.
GateThrows(r) ==
    /\ runs[r].gate # "none"
    /\ Leave(r)
    /\ Fault
    /\ GateStep
    /\ UNCHANGED <<verified, forge, proposed, verdicts>>

Gate(r) == \/ Expect(r) \/ ReadBatch(r) \/ ClaimBatch(r) \/ ActOnLand(r) \/ ActOnPr(r)
           \/ RecordLand(r) \/ ProposeDeploy(r)

-----------------------------------------------------------------------------
(* reapOrphanedPipelineRuns: the rows, the pods, the writes.               *)

SweepStep == UNCHANGED <<job, verified, forge, proposed, listening, verdicts>>

RunningOnly == {r \in DOMAIN runs : runs[r].status = "running"}          \* mutant
Unfinished == {r \in DOMAIN runs : runs[r].status \in InFlight}
Launching == {job[j].run : j \in {k \in Jobs : JobAt(k, "launch")}}

\* A launch that takes longer than the grace period is a fault.
SweepLists ==
    /\ sweep = NoSweep
    /\ \/ sweep' = [pc |-> "listed", held |-> Unfinished \ Launching] /\ NoBudget
       \/ sweep' = [pc |-> "listed", held |-> Unfinished] /\ Fault
    /\ sweep'.held # {}
    /\ SweepStep
    /\ UNCHANGED runs

WithoutPod == {r \in sweep.held : runs[r].pod = "none"}

SweepFindsPods ==
    /\ sweep.pc = "listed"
    /\ sweep' = IF WithoutPod = {} THEN NoSweep ELSE [pc |-> "write", held |-> WithoutPod]
    /\ NoBudget
    /\ SweepStep
    /\ UNCHANGED runs

SweepAborts ==
    /\ sweep.pc = "write"
    /\ runs' = [r \in DOMAIN runs |->
                  IF r \in sweep.held THEN Complete(runs[r], "aborted") ELSE runs[r]]
    /\ sweep' = NoSweep
    /\ NoBudget
    /\ SweepStep

Sweep == SweepLists \/ SweepFindsPods \/ SweepAborts

-----------------------------------------------------------------------------
(* The boss, and the agent.                                                *)

\* LISTEN, without a look at the runs completed in the meantime.
Connect ==
    /\ ~listening
    /\ listening' = TRUE
    /\ NoBudget
    /\ UNCHANGED <<runs, job, verified, forge, proposed, sweep, verdicts>>

Disconnect ==
    /\ listening
    /\ listening' = FALSE
    /\ Fault
    /\ UNCHANGED <<runs, job, verified, forge, proposed, sweep, verdicts>>

\* Requests, handlers and the sweep were memory.
BossCrash ==
    /\ Fault
    /\ listening' = FALSE
    /\ job' = [j \in Jobs |-> IF JobAt(j, "idle") THEN job[j]
                              ELSE [pc |-> "done", todo |-> <<>>, run |-> 0]]
    /\ runs' = [r \in DOMAIN runs |-> [runs[r] EXCEPT !.gate = "none", !.expected = {},
                                                      !.green = FALSE]]
    /\ sweep' = NoSweep
    /\ UNCHANGED <<verified, forge, proposed, verdicts>>

\* The agent, sent back to work or still at it, pushes to its branch.
AgentPushes ==
    /\ ~merged
    /\ NewCommit
    /\ UNCHANGED <<runs, job, verified, ready, merged, proposed, listening, sweep, verdicts>>

-----------------------------------------------------------------------------
Next == \/ \E j \in Jobs : Click(j) \/ TestOnePhase(j) \/ JobGoesOn(j) \/ JobThrows(j)
        \/ \E r \in DOMAIN runs : \/ RunnerStarts(r) \/ RunnerEnds(r) \/ RunnerDies(r)
                                  \/ PodReaped(r) \/ Gate(r) \/ GateThrows(r)
        \/ Sweep \/ Connect \/ Disconnect \/ BossCrash \/ AgentPushes

Spec == Init /\ [][Next]_vars
AtRun(r, A) == r \in DOMAIN runs /\ A

\* Calls return, pods start and end, timers fire.
Fairness ==
    /\ \A j \in Jobs : WF_vars(JobGoesOn(j))
    /\ \A r \in 1..MaxRuns :
         /\ WF_vars(AtRun(r, RunnerStarts(r)))
         /\ WF_vars(AtRun(r, RunnerEnds(r)))
         /\ WF_vars(AtRun(r, PodReaped(r)))
         /\ WF_vars(AtRun(r, Gate(r)))
    /\ WF_vars(Sweep)
    /\ WF_vars(Connect)

FairSpec == Spec /\ Fairness

-----------------------------------------------------------------------------
(* Properties.                                                             *)

Retested == {runs[r].by : r \in {i \in DOMAIN runs : runs[i].land}}

\* The phases complete at the same moment, each with a handler that finds all of
\* them finished; a land is acted upon by one of them (completion.ts:116-119,
\* "claims the batch atomically so exactly one completion drives the outcome").
OneActPerLand == verdicts <= Cardinality(Retested)

\* By its exit code: the sweep may have written "aborted" over a status.
PassedIn(p, land) == \E r \in DOMAIN runs :
                         /\ runs[r].phase = p /\ runs[r].land = land
                         /\ runs[r].exit = "zero"

\* A pull request is merged after every phase has passed in a land's own retest,
\* and not on what the PR gate's tests said, unless GitHub did not answer a read of
\* pipeline.yaml (completion.ts:120-165, keyed by land_on_pass).
MergedAfterRetest ==
    [][~merged /\ merged' => misreads < MaxMisreads \/ \A p \in Phase : PassedIn(p, TRUE)]_vars

\* README.md:36, "merge rebases the branch on main, re-runs tests, and merges only
\* on green": with no exception for a read that GitHub did not answer.
MergesOnlyOnGreen ==
    [][~merged /\ merged' => \A p \in Phase : PassedIn(p, TRUE)]_vars

\* It leaves draft after every phase has passed, in one mode or the other
\* (completion.ts:1-5, "verify before it's reviewable").
ReadyAfterTests == [][~ready /\ ready' =>
                        \E land \in BOOLEAN : \A p \in Phase : PassedIn(p, land)]_vars

\* A land does not block the pull request for ever: a run that is never launched,
\* or whose pod dies, is finished for it (pod-dispatcher.ts:743-758).
LandReleases == LandInFlight ~> ~LandInFlight

\* completion.ts:116-118, "Acts only when EVERY test phase has a terminal run in this
\* cycle (land vs PR-gate, keyed by land_on_pass)".
ActsOnOneCycle ==
    [][\A r \in DOMAIN runs :
         runs[r].gate = "read" /\ runs'[r].gate = "claim" =>
           \A p \in runs[r].expected : runs[Newest(Candidates(r, p))].by = runs[r].by]_vars
=============================================================================
