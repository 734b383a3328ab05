----------------------------- MODULE Supervision -----------------------------
(***************************************************************************)
(* The permission requests of one agent in pod mode, and the supervision   *)
(* cycles that judge them and the agent.                                   *)
(*   worker   asks (canUseTool), polls its row, times out, is steered      *)
(*   user     answers through the boss, which checks before it writes      *)
(*   cycles   runChecks, await by await: the guarded cycle of the          *)
(*            orchestrator pod and the cycles an admin starts in the boss  *)
(* A row is decided by whoever writes it last.  Each process keeps its own *)
(* counts of what it did to the agent.  Pods are the subject of AgentPod:  *)
(* here a pod is there, or terminating.                                    *)
(***************************************************************************)
EXTENDS Naturals, FiniteSets, FiniteSetsExt

CONSTANTS
    BossCycles,      \* cycles of POST /api/supervisor/run: nothing keeps them apart
    Requests,        \* bound: the requests the agent may raise, in this order (naturals)
    ToolOf,          \* the tool each request is for
    Policy,          \* the agent's permission_policy
    Priority,        \* the agent's priority
    Threshold,       \* config.advisoryBlockThreshold
    MaxActions,      \* MAX_ACTIONS_PER_AGENT
    MaxEvents        \* bound: edits of frozen code, messages of users, cycles in the boss,
                     \* cycles without a credential and restarts of the orchestrator, together

ASSUME RequestsAreNumbers == Requests \subseteq Nat \ {0}
ASSUME BoundsNat == {Threshold, MaxActions, MaxEvents} \subseteq Nat

\* The ticks of the orchestrator: the interval's, and a second cycle should one start while
\* the first is under way (the deadline timer of a request does not wait for the interval).
OrchCycles == {"interval", "deadline"}
Cycles == BossCycles \cup OrchCycles
Processes == {"boss", "orchestrator"}
ProcessOf(c) == IF c \in OrchCycles THEN "orchestrator" ELSE "boss"
None == "none"

VARIABLES
    state,     \* agents.state
    strikes,   \* agents.advisory_strikes
    worker,    \* where the worker is, the request it waits for, and whether its pod terminates
    row,       \* permission_requests: status, resolved_by, and how long it has been pending
    told,      \* history: what the agent was told about each request
    approved,  \* history: the requests somebody approved
    steer,     \* a steer command is pending in agent_commands
    user,      \* the answer resolvePermissionRequest is about to write
    cycle,     \* where each cycle is, and what it has read
    inFlight,  \* cycleInFlight of the orchestrator
    acts,      \* lastSupervisorAction (still cooling down?) and supervisorActionCount
    events

rowVars == <<row, approved>>
agentVars == <<state, strikes, worker, steer>>
superVars == <<cycle, inFlight, acts>>
vars == <<state, strikes, worker, row, told, approved, steer, user, cycle, inFlight, acts,
          events>>

NoRow == [status |-> None, by |-> None, age |-> 0]
Row == [status : {None, "pending", "approved", "denied"},
        by : {None, "user", "supervisor", "timeout"},
        age : 0..2]      \* 1: past the five minutes of the supervisor; 2: past the worker's timeout
Idle == [pc |-> "idle", stale |-> {}, todo |-> {}, ok |-> FALSE, then |-> None]

NoAnswer == [req |-> 0, decision |-> None]
NoWorker == [pc |-> None, req |-> 0, dying |-> FALSE]

TypeOK ==
    /\ state \in {"running", "completed", "paused"}
    /\ strikes \in 0..MaxEvents
    /\ worker \in [pc : {None, "boot", "busy", "wait", "resume"}, req : Requests \cup {0},
                   dying : BOOLEAN]
    /\ worker.pc = None => worker = NoWorker
    /\ row \in [Requests -> Row]
    /\ told \in [Requests -> {None, "allow", "deny", "answer"}]
    /\ approved \in SUBSET Requests
    /\ steer \in BOOLEAN
    /\ user \in [req : Requests \cup {0}, decision : {None, "approved", "denied"}]
    /\ cycle \in [Cycles -> [pc : {"idle", "blocks", "suspects", "judge", "pending", "review",
                                   "write", "budget", "completed", "assess", "stop"},
                             stale : SUBSET Requests, todo : SUBSET Requests,
                             ok : BOOLEAN, then : {None, "pending", "suspects", "completed"}]]
    /\ inFlight \in BOOLEAN
    /\ acts \in [Processes -> [cooling : BOOLEAN, count : Nat]]
    /\ events \in 0..MaxEvents

Init ==
    /\ state = "running"
    /\ strikes = 0
    /\ worker = [NoWorker EXCEPT !.pc = "busy"]
    /\ row = [r \in Requests |-> NoRow]
    /\ told = [r \in Requests |-> None]
    /\ approved = {}
    /\ steer = FALSE
    /\ user = NoAnswer
    /\ cycle = [c \in Cycles |-> Idle]
    /\ inFlight = FALSE
    /\ acts = [p \in Processes |-> [cooling |-> FALSE, count |-> 0]]
    /\ events = 0

(***************************************************************************)
(* The request row and the policy.                                         *)
(***************************************************************************)
Happens == events < MaxEvents /\ events' = events + 1

Pending == {r \in Requests : row[r].status = "pending"}

\* UPDATE ... WHERE id = $4, whatever the row says
Resolve(r, decision, by) ==
    /\ row' = [row EXCEPT ![r] = [status |-> decision, by |-> by, age |-> @.age]]
    /\ approved' = IF decision = "approved" THEN approved \cup {r} ELSE approved

\* The call that reaches this point was not auto-approved: a dangerous command or a path
\* outside the clone escalates under "auto", every call that writes under "ask" and "strict",
\* and the two conversations under all three.
Escalates(tool) ==
    tool \in {"AskUserQuestion", "ExitPlanMode", "DangerousBash"} \/ Policy \in {"ask", "strict"}

\* Mutant: any answer to a request that is not a question counts as consent.
MapAnswerAsConsent(tool, decision, answered) ==
    IF tool = "AskUserQuestion" /\ answered THEN "answer"
    ELSE IF decision = "approved" \/ answered THEN "allow"
    ELSE "deny"

\* What the agent reads as the result of its call.
MapPermissionDecision(tool, decision, answered) ==
    IF tool = "AskUserQuestion" /\ answered THEN "answer"
    ELSE IF decision = "approved" /\ ~(tool = "ExitPlanMode" /\ answered) THEN "allow"
    ELSE "deny"

(***************************************************************************)
(* The worker.                                                             *)
(***************************************************************************)
WorkerBoots ==
    /\ worker.pc = "boot"
    /\ worker' = [worker EXCEPT !.pc = "busy"]
    /\ state' = "running"
    /\ UNCHANGED <<strikes, row, told, approved, steer, user, superVars, events>>

\* canUseTool past the policy: the row is inserted, and the worker waits on it.
Ask(r) ==
    /\ worker.pc = "busy"
    /\ row[r].status = None
    /\ \A q \in Requests : q < r => row[q].status # None
    /\ Escalates(ToolOf[r])
    /\ row' = [row EXCEPT ![r].status = "pending"]
    /\ worker' = [worker EXCEPT !.pc = "wait", !.req = r]
    /\ UNCHANGED <<state, strikes, told, approved, steer, user, superVars, events>>

Hear(r, decision, answered) ==
    /\ told' = [told EXCEPT ![r] = MapPermissionDecision(ToolOf[r], decision, answered)]
    /\ worker' = [worker EXCEPT !.pc = "resume"]

\* The poll of each second finds the row decided.
PollFinds ==
    LET r == worker.req IN
    /\ worker.pc = "wait"
    /\ r \notin Pending
    /\ \E answered \in IF row[r].by = "user" THEN BOOLEAN ELSE {TRUE} :
          Hear(r, row[r].status, answered)
    /\ UNCHANGED <<state, strikes, rowVars, steer, user, superVars, events>>

\* The deadline passes between two polls: denied, whatever the row says by now.
WaitTimesOut ==
    /\ worker.pc = "wait"
    /\ row[worker.req].age = 2
    /\ Hear(worker.req, "denied", TRUE)
    /\ \/ Resolve(worker.req, "denied", "timeout")
       \/ UNCHANGED rowVars         \* the write fails, and the error is swallowed
    /\ UNCHANGED <<state, strikes, steer, user, superVars, events>>

\* A steer interrupts the turn: a wait ends as denied and leaves its row pending.
Steered ==
    /\ steer
    /\ worker.pc \in {"busy", "wait"}
    /\ steer' = FALSE
    /\ IF worker.pc = "wait" THEN Hear(worker.req, "denied", TRUE)
       ELSE UNCHANGED <<told, worker>>
    /\ UNCHANGED <<state, strikes, rowVars, user, superVars, events>>

\* After the wait: the state is flipped back to running, errors ignored.
Resumes ==
    /\ worker.pc = "resume"
    /\ worker' = [worker EXCEPT !.pc = "busy", !.req = 0]
    /\ state' \in {state, "running"}
    /\ UNCHANGED <<strikes, rowVars, told, steer, user, superVars, events>>

\* The lease hook in advisory mode lets the edit pass and counts it.
EditsFrozenCode ==
    /\ worker.pc = "busy"
    /\ Happens
    /\ strikes' = strikes + 1
    /\ UNCHANGED <<state, worker, rowVars, told, steer, user, superVars>>

Finishes ==
    /\ worker.pc = "busy"
    /\ worker' = NoWorker
    /\ state' = "completed"
    /\ UNCHANGED <<strikes, rowVars, told, steer, user, superVars, events>>

\* The grace period of a deleted pod ends.
PodGone ==
    /\ worker.dying
    /\ worker' = NoWorker
    /\ UNCHANGED <<state, strikes, rowVars, told, steer, user, superVars, events>>

\* createAgentPod: a pod that is there takes no second prompt (AgentPod.MessageDelivered).
DeletePodAnyway(w) == [w EXCEPT !.dying = TRUE]     \* mutant: whether or not there is one
CreateAgentPod(w) == IF w.pc = None THEN [NoWorker EXCEPT !.pc = "boot"] ELSE w
DeleteAgentPod(w) == IF w.pc = None THEN w ELSE [w EXCEPT !.dying = TRUE]

Elapse(r) ==
    /\ r \in Pending
    /\ row[r].age < 2
    /\ row' = [row EXCEPT ![r].age = @ + 1]
    /\ UNCHANGED <<agentVars, told, approved, user, superVars, events>>

(***************************************************************************)
(* The user, through the API or MCP.                                       *)
(***************************************************************************)
\* resolvePermissionRequest reads the row and refuses one that is not pending ...
UserAnswers(r, decision) ==
    /\ user = NoAnswer
    /\ r \in Pending
    /\ user' = [req |-> r, decision |-> decision]
    /\ UNCHANGED <<agentVars, rowVars, told, superVars, events>>

\* ... and after its await writes without looking again.
AnswerIsWritten ==
    /\ user # NoAnswer
    /\ Resolve(user.req, user.decision, "user")
    /\ user' = NoAnswer
    /\ UNCHANGED <<agentVars, told, superVars, events>>

Forget(p) ==
    /\ acts' = [acts EXCEPT ![p] = [cooling |-> FALSE, count |-> 0]]

\* POST /input and /urgent: a steer for a running agent, else a pod; then the counts are
\* reset, in the memory of the boss.
UserSends(urgent) ==
    /\ Happens
    /\ IF urgent /\ state = "running"
       THEN steer' = TRUE /\ UNCHANGED worker
       ELSE worker' = CreateAgentPod(worker) /\ UNCHANGED steer
    /\ Forget("boss")
    /\ UNCHANGED <<state, strikes, rowVars, told, user, cycle, inFlight>>

(***************************************************************************)
(* One cycle of runChecks.  The findings, the overlap watch, the health    *)
(* and stuck checks only notify.                                           *)
(***************************************************************************)
CanBlock(c) == c \in OrchCycles         \* depsFromManager gives neither blockAgent nor steerAgent

CanActOnAgent(c) ==
    LET a == acts[ProcessOf(c)] IN ~a.cooling /\ a.count < MaxActions

\* recordAction, n times over
RecordAction(c, n) ==
    acts' = [acts EXCEPT ![ProcessOf(c)] = [cooling |-> TRUE, count |-> @.count + n]]

Goto(c, pc) == cycle' = [cycle EXCEPT ![c].pc = pc]

\* The pod has been deleted, the state is still to be written.
GotoStop(c, then) == cycle' = [cycle EXCEPT ![c] = [@ EXCEPT !.pc = "stop", !.then = then]]

\* runGuarded: a tick that finds a cycle in flight is skipped.
MayStart(c) == c \in OrchCycles => ~inFlight

\* The credential is resolved anew for each cycle; without one the cycle only notifies.
Starts(c) ==
    /\ cycle[c].pc = "idle"
    /\ c = "deadline" => cycle["interval"].pc # "idle"
    /\ MayStart(c)
    /\ \E ok \in BOOLEAN :
          /\ IF ok /\ c \in OrchCycles THEN UNCHANGED events ELSE Happens
          /\ cycle' = [cycle EXCEPT ![c] = [Idle EXCEPT !.pc = "blocks", !.ok = ok,
                                               !.stale = {r \in Pending : row[r].age >= 1}]]
    /\ inFlight' = (inFlight \/ c \in OrchCycles)
    /\ UNCHANGED <<agentVars, rowVars, told, user, acts>>

\* The hard threshold; the pod is deleted first, the state is written after.
BlockStrikes(c) ==
    /\ cycle[c].pc = "blocks"
    /\ IF CanBlock(c) /\ state = "running" /\ strikes >= Threshold
       THEN /\ worker' = DeleteAgentPod(worker)
            /\ GotoStop(c, "suspects")
       ELSE Goto(c, "suspects") /\ UNCHANGED worker
    /\ UNCHANGED <<state, strikes, steer, rowVars, told, user, inFlight, acts, events>>

\* The second half of pauseAgent and blockAgent.
WritePaused(c) ==
    /\ cycle[c].pc = "stop"
    /\ state' = "paused"
    /\ cycle' = [cycle EXCEPT ![c] = [@ EXCEPT !.pc = cycle[c].then, !.then = None]]
    /\ UNCHANGED <<strikes, worker, steer, rowVars, told, user, inFlight, acts, events>>

ReviewSuspects(c) ==
    /\ cycle[c].pc = "suspects"
    /\ IF CanBlock(c) /\ cycle[c].ok /\ state = "running" /\ strikes >= 1 /\ CanActOnAgent(c)
       THEN Goto(c, "judge")
       ELSE Goto(c, "pending")
    /\ UNCHANGED <<agentVars, rowVars, told, user, inFlight, acts, events>>

\* evaluateAgent: continue, block, notify or done; a call that fails answers notify.
JudgeSuspect(c) ==
    /\ cycle[c].pc = "judge"
    /\ RecordAction(c, 1)
    /\ \/ Goto(c, "pending") /\ steer' = TRUE /\ UNCHANGED worker
       \/ /\ worker' = DeleteAgentPod(worker)
          /\ GotoStop(c, "pending")
          /\ UNCHANGED steer
       \/ Goto(c, "pending") /\ UNCHANGED <<worker, steer>>
    /\ UNCHANGED <<state, strikes, rowVars, told, user, inFlight, events>>

\* The list of pending requests, and of those the stale ones that a Claude may judge.
ReadPending(c) ==
    /\ cycle[c].pc = "pending"
    /\ LET todo == IF cycle[c].ok THEN cycle[c].stale \cap Pending ELSE {} IN
       cycle' = [cycle EXCEPT ![c] = [@ EXCEPT !.pc = IF todo = {} THEN "budget" ELSE "review",
                                               !.todo = todo, !.stale = {}]]
    /\ UNCHANGED <<agentVars, rowVars, told, user, inFlight, acts, events>>

Reviewed(c) == Min(cycle[c].todo)       \* ORDER BY created_at

NextReview(c, todo) ==
    cycle' = [cycle EXCEPT ![c] = [@ EXCEPT !.pc = IF todo = {} THEN "budget" ELSE "review",
                                            !.todo = todo]]

\* evaluatePermission: approved or denied, denied when the call fails.  The orchestrator
\* writes the row; the boss looks first whether it is still pending.
JudgePermission(c) ==
    /\ cycle[c].pc = "review"
    /\ IF c \in OrchCycles
       THEN /\ \E d \in {"approved", "denied"} : Resolve(Reviewed(c), d, "supervisor")
            /\ NextReview(c, cycle[c].todo \ {Reviewed(c)})
       ELSE IF Reviewed(c) \in Pending
       THEN Goto(c, "write") /\ UNCHANGED rowVars
       ELSE NextReview(c, cycle[c].todo \ {Reviewed(c)}) /\ UNCHANGED rowVars
    /\ UNCHANGED <<agentVars, told, user, inFlight, acts, events>>

WriteVerdict(c) ==
    /\ cycle[c].pc = "write"
    /\ \E d \in {"approved", "denied"} : Resolve(Reviewed(c), d, "supervisor")
    /\ NextReview(c, cycle[c].todo \ {Reviewed(c)})
    /\ UNCHANGED <<agentVars, told, user, inFlight, acts, events>>

\* The priority ladder of the daily budget, and the caps of the agent's owner.
BudgetPauses(dailyPercent, capReached) ==
    \/ dailyPercent >= 110
    \/ dailyPercent >= 100 /\ Priority # "high"
    \/ dailyPercent >= 90 /\ Priority = "low"
    \/ capReached

\* getAgentsToPause lists running agents.  The orchestrator deletes the pod and then writes;
\* the boss finds no runner in pod mode and only writes.
PauseForBudget(c) ==
    /\ cycle[c].pc = "budget"
    /\ \E dailyPercent \in {89, 90, 100, 110}, capReached \in BOOLEAN :
          IF state = "running" /\ BudgetPauses(dailyPercent, capReached)
          THEN /\ worker' = IF c \in OrchCycles THEN DeleteAgentPod(worker) ELSE worker
               /\ GotoStop(c, "completed")
          ELSE Goto(c, "completed") /\ UNCHANGED worker
    /\ UNCHANGED <<state, strikes, steer, rowVars, told, user, inFlight, acts, events>>

\* Mutant: the finally that clears cycleInFlight is missing.
EndsHolding(c) ==
    /\ cycle' = [cycle EXCEPT ![c] = Idle]
    /\ UNCHANGED inFlight

Ends(c) ==
    /\ cycle' = [cycle EXCEPT ![c] = Idle]
    /\ inFlight' = (inFlight /\ c \notin OrchCycles)

\* A completed agent that has supervisor_instructions
ReviewCompleted(c) ==
    /\ cycle[c].pc = "completed"
    /\ IF cycle[c].ok /\ state = "completed" /\ CanActOnAgent(c)
       THEN Goto(c, "assess") /\ UNCHANGED inFlight
       ELSE Ends(c)
    /\ UNCHANGED <<agentVars, rowVars, told, user, acts, events>>

\* continue and notify record the action in their branch and again after it; done, once.
JudgeCompleted(c) ==
    /\ cycle[c].pc = "assess"
    /\ \/ RecordAction(c, 2) /\ worker' = CreateAgentPod(worker)
       \/ \E n \in 1..2 : RecordAction(c, n) /\ UNCHANGED <<worker>>
    /\ Ends(c)
    /\ UNCHANGED <<state, strikes, steer, rowVars, told, user, events>>

(***************************************************************************)
(* The environment.                                                        *)
(***************************************************************************)
CooldownPasses(p) ==
    /\ acts[p].cooling
    /\ acts' = [acts EXCEPT ![p].cooling = FALSE]
    /\ UNCHANGED <<agentVars, rowVars, told, user, cycle, inFlight, events>>

OrchestratorRestarts ==
    /\ Happens
    /\ cycle' = [c \in Cycles |-> IF c \in OrchCycles THEN Idle ELSE cycle[c]]
    /\ inFlight' = FALSE
    /\ Forget("orchestrator")
    /\ UNCHANGED <<agentVars, rowVars, told, user>>

Step(c) ==
    \/ BlockStrikes(c) \/ WritePaused(c) \/ ReviewSuspects(c) \/ JudgeSuspect(c)
    \/ ReadPending(c) \/ JudgePermission(c) \/ WriteVerdict(c) \/ PauseForBudget(c)
    \/ ReviewCompleted(c) \/ JudgeCompleted(c)

Worker ==
    \/ WorkerBoots \/ PollFinds \/ WaitTimesOut \/ Steered \/ Resumes \/ EditsFrozenCode
    \/ Finishes \/ PodGone
    \/ \E r \in Requests : Ask(r)

User ==
    \/ AnswerIsWritten
    \/ \E r \in Requests, d \in {"approved", "denied"} : UserAnswers(r, d)
    \/ \E urgent \in BOOLEAN : UserSends(urgent)

Environment ==
    \/ OrchestratorRestarts
    \/ \E r \in Requests : Elapse(r)
    \/ \E p \in Processes : CooldownPasses(p)

Next == Worker \/ User \/ Environment \/ \E c \in Cycles : Starts(c) \/ Step(c)

\* The interval timer starts cycles and time passes; a cycle, a poll and a call come to an
\* end (the SDK's calls are bounded by maxTurns).
\* Nothing makes a user answer, nor an agent ask.
Fairness ==
    /\ WF_vars(Starts("interval")) /\ WF_vars(Step("interval"))
    /\ \A r \in Requests : WF_vars(Elapse(r))
    /\ WF_vars(PollFinds \/ WaitTimesOut)

Spec == Init /\ [][Next]_vars /\ Fairness

(***************************************************************************)
(* Properties.                                                             *)
(***************************************************************************)
\* What the agent was allowed to do, the user or the supervisor approved: neither a timeout,
\* a steer nor a race between them lets an escalated call through.
AllowedWasApproved == \A r \in Requests : told[r] = "allow" => r \in approved

\* A request that is past the five minutes does not stay pending: a cycle judges it, the
\* requester being alive or not, although cycles are lost with the orchestrator and find no
\* credential.
StaleIsJudged == \A r \in Requests : (row[r].age >= 1 /\ r \in Pending) ~> (r \notin Pending)

\* A call the user has denied stays denied: nobody's approval replaces the human's no.
HumanDenialStands ==
    [][\A r \in Requests : row[r].by = "user" /\ row[r].status = "denied"
                              => row'[r].status # "approved"]_vars
=============================================================================
