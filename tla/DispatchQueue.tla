---------------------------- MODULE DispatchQueue ----------------------------
(***************************************************************************)
(* The supervisor's dispatch loop (server/src/supervisor/dispatcher.ts):   *)
(* agents wait in the database in state "queued"; processQueue, called on  *)
(* a NOTIFY, on a timer and after each dispatch, counts the active agents, *)
(* reads the queue and starts one dispatchQueued flow per free slot.       *)
(*                                                                         *)
(* The boss is one event loop: what runs between two awaits is one step.   *)
(* Every value read before an await and used after it is kept here         *)
(* (activeSeen, slots, rows and the row of each flow), so a step may act   *)
(* on a stale one.  The database writes are unconditional, as in           *)
(* queries.updateAgentState.  A pod is seen from the outside only; the     *)
(* steps inside createAgentPod are those of module AgentPod.               *)
(***************************************************************************)
EXTENDS Integers, FiniteSets, Functions

CONSTANTS
    Agents,         \* the agents in the database
    MaxConcurrent,  \* config.maxConcurrentAgents
    TopSize,        \* the largest t-shirt size; the sizes are 1..TopSize
    MaxOps,         \* bound: operations users perform, messages excepted
    MaxInputs,      \* bound: messages users send
    MaxFaults       \* bound: crashes, dead pods, errors thrown, lost connections

ASSUME AgentsFinite == IsFiniteSet(Agents)
ASSUME CapNat == MaxConcurrent \in Nat
ASSUME SizesNat == TopSize \in Nat /\ TopSize >= 2
ASSUME BoundsNat == MaxOps \in Nat /\ MaxInputs \in Nat /\ MaxFaults \in Nat

State == {"pending", "queued", "running", "completed", "failed", "paused", "aborted"}
ActiveStates == {"running", "waiting_permission", "waiting_input"}

Unsized == 0
Size == Unsized .. TopSize

\* A pod as the control plane can tell it: absent, created but its worker not
\* up yet, its worker up, exited after recording its result, or dead without
\* having recorded one (on resources, or otherwise).
PodPhase == {"none", "starting", "up", "exited", "oom", "dead"}

\* What dispatchQueued uses of the row it was given.
Row == [id : Agents, size : Size, marker : BOOLEAN]

FlowPc == {"none", "size", "consume", "create", "fail", "done"}
FlowRec == [pc : FlowPc, size : Size, marker : BOOLEAN]

VARIABLES
    state,       \* agents.state
    size,        \* agents.size
    marker,      \* agents.error_message matches RESOURCE_FAILURE
    pod,         \* the pod of each agent
    listening,   \* the LISTEN connection is up
    nudged,      \* a notification has arrived and is not handled yet
    sweepPc,     \* where processQueue is; anything but "idle" is processing = true
    activeSeen,  \* how many active agents its first query returned
    slots,       \* the free slots it computed
    rows,        \* the rows its second query returned
    dispatching, \* the keys of the in-flight map
    flow,        \* the dispatchQueued flow of each agent
    ops,         \* user operations left
    inputs,      \* user messages left
    faults,      \* faults left
    deaths,      \* history: resource deaths of each agent
    bumps        \* history: size increases of each agent

dbVars == <<state, size, marker>>
sweepVars == <<sweepPc, activeSeen, slots, rows>>
history == <<deaths, bumps>>
vars == <<state, size, marker, pod, listening, nudged, sweepPc, activeSeen,
          slots, rows, dispatching, flow, ops, inputs, faults, deaths, bumps>>

NoFlow == [pc |-> "none", size |-> Unsized, marker |-> FALSE]

TypeOK ==
    /\ state \in [Agents -> State]
    /\ size \in [Agents -> Size]
    /\ marker \in [Agents -> BOOLEAN]
    /\ pod \in [Agents -> PodPhase]
    /\ listening \in BOOLEAN
    /\ nudged \in BOOLEAN
    /\ sweepPc \in {"idle", "count", "read", "launch"}
    /\ activeSeen \in Nat
    /\ slots \in Nat
    /\ rows \in SUBSET Row
    /\ dispatching \in SUBSET Agents
    /\ flow \in [Agents -> FlowRec]
    /\ ops \in 0..MaxOps
    /\ inputs \in 0..MaxInputs
    /\ faults \in 0..MaxFaults
    /\ deaths \in [Agents -> Nat]
    /\ bumps \in [Agents -> Nat]

\* createAgent: "pending", with the size the caller gave or none.
Init ==
    /\ state = [a \in Agents |-> "pending"]
    /\ size \in [Agents -> {Unsized, 1}]
    /\ marker = [a \in Agents |-> FALSE]
    /\ pod = [a \in Agents |-> "none"]
    /\ listening = FALSE
    /\ nudged = FALSE
    /\ sweepPc = "idle"
    /\ activeSeen = 0
    /\ slots = 0
    /\ rows = {}
    /\ dispatching = {}
    /\ flow = [a \in Agents |-> NoFlow]
    /\ ops = MaxOps
    /\ inputs = MaxInputs
    /\ faults = MaxFaults
    /\ deaths = [a \in Agents |-> 0]
    /\ bumps = [a \in Agents |-> 0]

-----------------------------------------------------------------------------
(* The database and the notification channel.                              *)

Active == {a \in Agents : state[a] \in ActiveStates}
Queued == {a \in Agents : state[a] = "queued"}

Write(a, s) == state' = [state EXCEPT ![a] = s]
WriteMsg(a, s, resource) == Write(a, s) /\ marker' = [marker EXCEPT ![a] = resource]

\* notifyAgentQueued: heard only while the boss holds its LISTEN connection.
Notify == nudged' = (nudged \/ listening)

UserOp == ops > 0 /\ ops' = ops - 1 /\ UNCHANGED <<inputs, faults>>
Message == inputs > 0 /\ inputs' = inputs - 1 /\ UNCHANGED <<ops, faults>>
Fault == faults > 0 /\ faults' = faults - 1 /\ UNCHANGED <<ops, inputs>>
NoBudget == UNCHANGED <<ops, inputs, faults>>
BossIdle == UNCHANGED <<sweepVars, dispatching, flow>>

-----------------------------------------------------------------------------
(* processQueue.                                                           *)

\* The mutex, then the query for the active agents, evaluated by the database.
EnterSweep ==
    /\ sweepPc = "idle"
    /\ sweepPc' = "count"
    /\ activeSeen' = Cardinality(Active)
    /\ UNCHANGED <<slots, rows>>

\* The 30 s timer of index.ts.
TimerSweep ==
    /\ EnterSweep
    /\ NoBudget
    /\ UNCHANGED <<dbVars, pod, listening, nudged, dispatching, flow, history>>

\* A notification: dropped when a sweep is already running.
NotifiedSweep ==
    /\ nudged
    /\ nudged' = FALSE
    /\ IF sweepPc = "idle" THEN EnterSweep ELSE UNCHANGED sweepVars
    /\ NoBudget
    /\ UNCHANGED <<dbVars, pod, listening, dispatching, flow, history>>

FreeSlotsForgettingFlights == MaxConcurrent - activeSeen                \* mutant
FreeSlots == MaxConcurrent - activeSeen - Cardinality(dispatching)

\* The count arrives; the in-flight map is read only now.
ComputeSlots ==
    /\ sweepPc = "count"
    /\ IF FreeSlots <= 0 THEN slots' = 0 /\ sweepPc' = "idle"
                         ELSE slots' = FreeSlots /\ sweepPc' = "read"
    /\ activeSeen' = 0
    /\ NoBudget
    /\ UNCHANGED <<dbVars, pod, listening, nudged, rows, dispatching, flow, history>>

\* The query for the queued agents, evaluated by the database.
ReadQueue ==
    /\ sweepPc = "read"
    /\ rows' = {[id |-> a, size |-> size[a], marker |-> marker[a]] : a \in Queued}
    /\ sweepPc' = "launch"
    /\ NoBudget
    /\ UNCHANGED <<dbVars, pod, listening, nudged, activeSeen, slots,
                   dispatching, flow, history>>

\* An agent that has a size and whose last pod died on resources.
ResourceDeath(r) == r.size # Unsized /\ r.marker

Launchable == {r \in rows : r.id \notin dispatching}

BatchSizeUnlimited == Cardinality(Launchable)                           \* mutant
BatchSize == IF Cardinality(Launchable) < slots THEN Cardinality(Launchable) ELSE slots

\* The loop over the rows, which the query returns in no particular order: one
\* flow for each agent not already in flight, until the slots run out.
LaunchRows(S) ==
    /\ S \subseteq Launchable
    /\ Cardinality(S) = BatchSize
    /\ dispatching' = dispatching \cup {r.id : r \in S}
    /\ flow' = [a \in Agents |->
                  IF \E r \in S : r.id = a
                  THEN LET r == CHOOSE q \in S : q.id = a
                       IN  IF r.size = Unsized \/ ResourceDeath(r)
                           THEN [pc |-> "size", size |-> r.size, marker |-> r.marker]
                           ELSE [NoFlow EXCEPT !.pc = "create"]
                  ELSE flow[a]]

KeepMutex == UNCHANGED sweepPc                                          \* mutant
ReleaseMutex == sweepPc' = "idle"

Launch ==
    /\ sweepPc = "launch"
    /\ \E S \in SUBSET rows : LaunchRows(S)
    /\ ReleaseMutex
    /\ rows' = {}
    /\ slots' = 0
    /\ NoBudget
    /\ UNCHANGED <<dbVars, pod, listening, nudged, activeSeen, history>>

\* A query throws: the catch and the finally of the loop.
SweepThrows ==
    /\ sweepPc \in {"count", "read"}
    /\ Fault
    /\ sweepPc' = "idle"
    /\ activeSeen' = 0
    /\ slots' = 0
    /\ UNCHANGED <<dbVars, pod, listening, nudged, rows, dispatching, flow, history>>

-----------------------------------------------------------------------------
(* dispatchQueued, one flow per agent in the in-flight map.                *)

\* A flow uses its row in its first step only.
FlowTo(a, pc) == flow' = [flow EXCEPT ![a] = [NoFlow EXCEPT !.pc = pc]]

NextSizeUpUncapped(s) == s + 1                                          \* mutant
NextSizeUp(s) == IF s = TopSize THEN TopSize ELSE s + 1

\* assessSize on the row the flow was given, which may be stale by now, and
\* setAgentSize when the answer differs from that row's size.  A resource death
\* goes one size up; an agent without a size gets the answer of a Claude call,
\* or the default.
AssessSize(a) ==
    /\ flow[a].pc = "size"
    /\ \E assessed \in IF ResourceDeath(flow[a]) THEN {NextSizeUp(flow[a].size)}
                                                 ELSE Size \ {Unsized} :
         /\ size' = [size EXCEPT ![a] = IF assessed = flow[a].size THEN @ ELSE assessed]
         /\ bumps' = [bumps EXCEPT ![a] =
                         IF ResourceDeath(flow[a]) /\ size'[a] > size[a] THEN @ + 1 ELSE @]
    /\ FlowTo(a, IF ResourceDeath(flow[a]) THEN "consume" ELSE "create")
    /\ NoBudget
    /\ UNCHANGED <<state, marker, pod, listening, nudged, sweepVars, dispatching, deaths>>

ForgetToClear(a) == Write(a, "queued") /\ UNCHANGED marker              \* mutant
ClearMarker(a) == WriteMsg(a, "queued", FALSE)

\* "Consume the failure marker": an unconditional write of the whole state.
ConsumeMarker(a) ==
    /\ flow[a].pc = "consume"
    /\ ClearMarker(a)
    /\ FlowTo(a, "create")
    /\ NoBudget
    /\ UNCHANGED <<size, pod, listening, nudged, sweepVars, dispatching, history>>

\* createAgentPod, which does not look at the state of the agent: a pod that is
\* starting or up is left alone, a terminal one is replaced.
CreatePod(a) == pod' = [pod EXCEPT ![a] = IF @ \in {"starting", "up"} THEN @ ELSE "starting"]

DispatchPod(a) ==
    /\ flow[a].pc = "create"
    /\ CreatePod(a)
    /\ FlowTo(a, "done")
    /\ NoBudget
    /\ UNCHANGED <<dbVars, listening, nudged, sweepVars, dispatching, history>>

\* Any await of the flow may throw, and so may the write in the catch.
DispatchThrows(a) ==
    /\ flow[a].pc \in {"size", "consume", "create", "fail"}
    /\ Fault
    /\ FlowTo(a, IF flow[a].pc = "fail" THEN "done" ELSE "fail")
    /\ UNCHANGED <<dbVars, pod, listening, nudged, sweepVars, dispatching, history>>

\* The catch: the agent is failed with the error, which is not a resource one.
DispatchFailed(a) ==
    /\ flow[a].pc = "fail"
    /\ WriteMsg(a, "failed", FALSE)
    /\ FlowTo(a, "done")
    /\ NoBudget
    /\ UNCHANGED <<size, pod, listening, nudged, sweepVars, dispatching, history>>

KeepInFlight(a) == UNCHANGED dispatching                                \* mutant
LeaveFlight(a) == dispatching' = dispatching \ {a}

\* The finally: out of the in-flight map, and a sweep if none is running.
DispatchSettles(a) ==
    /\ flow[a].pc = "done"
    /\ flow' = [flow EXCEPT ![a] = NoFlow]
    /\ LeaveFlight(a)
    /\ IF sweepPc = "idle" THEN EnterSweep ELSE UNCHANGED sweepVars
    /\ NoBudget
    /\ UNCHANGED <<dbVars, pod, listening, nudged, history>>

-----------------------------------------------------------------------------
(* The boss process and its LISTEN connection.                             *)

\* startQueueListener connected: LISTEN, then the catch-up sweep.
Connect ==
    /\ ~listening
    /\ listening' = TRUE
    /\ IF sweepPc = "idle" THEN EnterSweep ELSE UNCHANGED sweepVars
    /\ NoBudget
    /\ UNCHANGED <<dbVars, pod, nudged, dispatching, flow, history>>

\* The connection drops: what is notified before Connect is lost.
Disconnect ==
    /\ listening
    /\ Fault
    /\ listening' = FALSE
    /\ UNCHANGED <<dbVars, pod, nudged, sweepVars, dispatching, flow, history>>

\* The boss restarts: its mutex, its map and its flows were memory.
BossCrash ==
    /\ Fault
    /\ listening' = FALSE
    /\ nudged' = FALSE
    /\ sweepPc' = "idle"
    /\ activeSeen' = 0
    /\ slots' = 0
    /\ rows' = {}
    /\ dispatching' = {}
    /\ flow' = [a \in Agents |-> NoFlow]
    /\ UNCHANGED <<dbVars, pod, history>>

-----------------------------------------------------------------------------
(* The users, through the API.                                             *)

\* startAgent: no state is refused, the error message is kept.
StartAgent(a) ==
    /\ UserOp
    /\ Write(a, "queued")
    /\ Notify
    /\ BossIdle
    /\ UNCHANGED <<size, marker, pod, listening, history>>

\* POST /redispatch.
Redispatch(a) ==
    /\ state[a] \notin {"running", "queued"}
    /\ UserOp
    /\ WriteMsg(a, "queued", FALSE)
    /\ Notify
    /\ BossIdle
    /\ UNCHANGED <<size, pod, listening, history>>

\* pauseAgent: in pod mode there is no runner and only the row is written.
PauseAgent(a) ==
    /\ UserOp
    /\ Write(a, "paused")
    /\ BossIdle
    /\ UNCHANGED <<size, marker, pod, listening, nudged, history>>

\* killAgent: the pod first, then the row unless it is final.
KillAgent(a) ==
    /\ UserOp
    /\ pod' = [pod EXCEPT ![a] = "none"]
    /\ IF state[a] \in {"completed", "failed", "aborted"}
       THEN UNCHANGED state ELSE Write(a, "aborted")
    /\ BossIdle
    /\ UNCHANGED <<size, marker, listening, nudged, history>>

\* POST /size: refused while running or queued.
Resize(a) ==
    /\ state[a] \notin {"running", "queued"}
    /\ UserOp
    /\ \E s \in Size \ {Unsized} : s # size[a] /\ size' = [size EXCEPT ![a] = s]
    /\ BossIdle
    /\ UNCHANGED <<state, marker, pod, listening, nudged, history>>

\* sendInput: builds the pod itself, past the queue and its cap.
SendInput(a) ==
    /\ Message
    /\ CreatePod(a)
    /\ BossIdle
    /\ UNCHANGED <<dbVars, listening, nudged, history>>

-----------------------------------------------------------------------------
(* The workers in their pods, and the reapers.                             *)

\* The worker is up and writes "running" over whatever the row says.
WorkerBoots(a) ==
    /\ pod[a] = "starting"
    /\ pod' = [pod EXCEPT ![a] = "up"]
    /\ Write(a, "running")
    /\ NoBudget
    /\ BossIdle
    /\ UNCHANGED <<size, marker, listening, nudged, history>>

\* The worker ends its run and records it; an error may be about resources.
WorkerEnds(a) ==
    /\ pod[a] = "up"
    /\ pod' = [pod EXCEPT ![a] = "exited"]
    /\ \/ Write(a, "completed") /\ NoBudget /\ UNCHANGED <<marker, deaths>>
       \/ WriteMsg(a, "failed", FALSE) /\ NoBudget /\ UNCHANGED deaths
       \/ /\ WriteMsg(a, "failed", TRUE)
          /\ deaths' = [deaths EXCEPT ![a] = @ + 1]
          /\ Fault
    /\ BossIdle
    /\ UNCHANGED <<size, listening, nudged, bumps>>

\* The pod dies and nothing is recorded.
PodDies(a) ==
    /\ pod[a] = "up"
    /\ Fault
    /\ \/ /\ pod' = [pod EXCEPT ![a] = "oom"]
          /\ deaths' = [deaths EXCEPT ![a] = @ + 1]
       \/ /\ pod' = [pod EXCEPT ![a] = "dead"]
          /\ UNCHANGED deaths
    /\ BossIdle
    /\ UNCHANGED <<dbVars, listening, nudged, bumps>>

\* reapFinishedAgentPods on a terminal pod; reconcileFailedAgentPod on one that
\* died.  Only an agent that still claims to be active is touched.
ReapPod(a) ==
    /\ pod[a] \in {"exited", "oom", "dead"}
    /\ pod' = [pod EXCEPT ![a] = "none"]
    /\ LET requeue == pod[a] = "oom" /\ size[a] \notin {Unsized, TopSize}
       IN  IF pod[a] = "exited" \/ state[a] \notin ActiveStates
           THEN UNCHANGED <<state, marker, nudged>>
           ELSE /\ WriteMsg(a, IF requeue THEN "queued" ELSE "paused", pod[a] = "oom")
                /\ IF requeue THEN Notify ELSE UNCHANGED nudged
    /\ NoBudget
    /\ BossIdle
    /\ UNCHANGED <<size, listening, history>>

\* A pod that cannot attach its volume never starts; the reaper drops it and
\* queues its agent again, whatever state the agent is in.
ReapWedged(a) ==
    /\ pod[a] = "starting"
    /\ Fault
    /\ pod' = [pod EXCEPT ![a] = "none"]
    /\ Write(a, "queued")
    /\ Notify
    /\ BossIdle
    /\ UNCHANGED <<size, marker, listening, history>>

\* reconcileOrphanedAgents: an active agent whose pod no longer beats.
HeartbeatReap(a) ==
    /\ state[a] \in ActiveStates
    /\ pod[a] \notin {"starting", "up"}
    /\ WriteMsg(a, "paused", FALSE)
    /\ NoBudget
    /\ BossIdle
    /\ UNCHANGED <<size, pod, listening, nudged, history>>

-----------------------------------------------------------------------------
Sweep == TimerSweep \/ NotifiedSweep \/ ComputeSlots \/ ReadQueue \/ Launch
         \/ SweepThrows

Flow(a) == \/ AssessSize(a) \/ ConsumeMarker(a) \/ DispatchPod(a)
           \/ DispatchThrows(a) \/ DispatchFailed(a) \/ DispatchSettles(a)

User(a) == \/ StartAgent(a) \/ Redispatch(a) \/ PauseAgent(a) \/ KillAgent(a)
           \/ Resize(a) \/ SendInput(a)

Cluster(a) == \/ WorkerBoots(a) \/ WorkerEnds(a) \/ PodDies(a)
              \/ ReapPod(a) \/ ReapWedged(a) \/ HeartbeatReap(a)

Next == \/ Sweep \/ Connect \/ Disconnect \/ BossCrash
        \/ \E a \in Agents : Flow(a) \/ User(a) \/ Cluster(a)

Spec == Init /\ [][Next]_vars

\* The timers fire, an await returns, a pod starts, a worker ends its run.
\* Nothing is assumed of the users, of notifications or of faults.
Fairness ==
    /\ WF_vars(TimerSweep)
    /\ WF_vars(ComputeSlots)
    /\ WF_vars(ReadQueue)
    /\ WF_vars(Launch)
    /\ \A a \in Agents :
         /\ WF_vars(AssessSize(a) \/ ConsumeMarker(a) \/ DispatchPod(a)
                    \/ DispatchFailed(a) \/ DispatchSettles(a))
         /\ WF_vars(WorkerBoots(a))
         /\ WF_vars(WorkerEnds(a))
         /\ WF_vars(ReapPod(a))
         /\ WF_vars(HeartbeatReap(a))

FairSpec == Spec /\ Fairness

-----------------------------------------------------------------------------
(* Properties.                                                             *)

\* The in-flight map never holds more than the cap, although the mutex, the map
\* and the two queries are read at four different moments and each flow that
\* ends starts another sweep (dispatcher.ts:95-129).
DispatchBound == Cardinality(dispatching) <= MaxConcurrent

\* The map and the flows agree: an agent is in the map exactly while a flow of
\* its own runs, whatever throws and whenever the boss restarts, so that no
\* agent is dispatched twice at once and none is locked out (the .catch, the
\* .finally and the `dispatching.has` of dispatcher.ts:110-126).
FlowsTracked == dispatching = {a \in Agents : flow[a].pc # "none"}

\* Seen as slots, the queue is a bounded pool: it takes free slots only and
\* gives back what it took.
Pool == INSTANCE SlotPool WITH Jobs <- Agents, Cap <- MaxConcurrent,
                               holders <- dispatching
ImplementsPool == Pool!Spec

\* A queued agent leaves the queue, although notifications are lost, sweeps are
\* skipped by the mutex and the boss restarts: the timer, the sweep at each
\* connect and the sweep after each dispatch make up for it (dispatcher.ts:4).
QueuedIsServed == \A a \in Agents : state[a] = "queued" ~> state[a] # "queued"

\* What has gone wrong, the resource deaths of the other agents apart.
OwnFaults(a) == MaxFaults - faults - SumFunctionOnSet(deaths, Agents \ {a})

\* An agent grows at most twice for each fault of its own, be it a resource death or an error
\* or restart that has cut its dispatch off between the new size and the consumed marker. No
\* order of sweeps, requeues and user actions gives more: the marker is copied by one flow and
\* one sweep at a time, and only the second of two dispatches can have a copy that is out of
\* date (dispatcher.ts:87-89, 111-116).
BumpsPaid == \A a \in Agents : bumps[a] <= 2 * OwnFaults(a)

\* dispatcher.ts:87-88, "so the next requeue doesn't bump again off a stale message (each bump
\* must be earned by a fresh resource death)": one bump for each, and for each cut.
BumpsEarned == \A a \in Agents : bumps[a] <= OwnFaults(a)

\* dispatcher.ts:97, "An in-flight dispatch counts against the concurrency cap":
\* the pods that run or are about to, and the dispatches, fit in the cap.
PodsWithinCap ==
    Cardinality(dispatching \cup {a \in Agents : pod[a] \in {"starting", "up"}})
        <= MaxConcurrent

\* server/test/state-machine.test.ts, "rejects aborted -> anything (terminal)":
\* nothing but a user brings a killed agent back.
AbortedIsTerminal ==
    [][\A a \in Agents : state[a] = "aborted" /\ state'[a] # "aborted"
                           => ops' < ops \/ inputs' < inputs]_vars
=============================================================================
