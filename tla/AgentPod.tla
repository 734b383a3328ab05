------------------------------- MODULE AgentPod -------------------------------
(***************************************************************************)
(* One agent in pod mode, call by call: its row, its pod and the secret    *)
(* with its credentials, and the actors that share them without a lock.    *)
(*   creators   createAgentPod, run by the dispatcher and by each message  *)
(*   stopper    deleteAgentPod, run by a kill and by a budget pause        *)
(*   reaper     reapFinishedAgentPods and reconcileFailedAgentPod          *)
(*   monitor    reconcileOrphanedAgents, on the sidecar's heartbeat        *)
(*   worker     the process in the pod                                     *)
(* Every call to Kubernetes or to the database is one step.  All of them   *)
(* name the pod and the secret by the agent, so a step may hit a pod that  *)
(* is not the one its actor saw.                                           *)
(***************************************************************************)
EXTENDS Naturals

CONSTANTS
    Messages,       \* the messages users send, each once
    MaxPodOps,      \* bound: starts, pauses, kills and budget pauses
    MaxPodFaults    \* bound: calls that throw, pods and nodes that die

ASSUME MessagesNotDispatch == "dispatch" \notin Messages
ASSUME PodBounds == MaxPodOps \in Nat /\ MaxPodFaults \in Nat

Creators == Messages \cup {"dispatch"}
Task == "dispatch"      \* the turn of a pod the dispatcher made: the agent's own prompt

State == {"pending", "queued", "running", "completed", "failed", "paused", "aborted"}
FinalStates == {"completed", "failed", "aborted"}
TerminalPhases == {"Succeeded", "Failed"}

NoPod == [phase |-> "None", worker |-> "none", deleting |-> FALSE, turn |-> Task]
Pod == [phase : {"None", "Pending", "Running"} \cup TerminalPhases,
        worker : {"none", "booting", "working", "recorded"},
        deleting : BOOLEAN,     \* deletionTimestamp is set; the pod may run on for its grace period
        turn : Creators]        \* whose turn it is to run; Task once the worker has it

VARIABLES
    agentState,    \* agents.state
    recent,        \* agents.updated_at is newer than the monitor's cutoff
    beat,          \* agents.last_heartbeat_at: "never", "fresh" or "stale"
    pod,           \* the pod of that name
    secret,        \* the secret of that name exists
    creator,       \* where each createAgentPod is
    stopper,       \* where the kill or the budget pause is, and which
    reaper,        \* where the sweep is with this pod, and whether it listed it as Failed
    monitor,       \* the monitor has listed this agent as stale
    fate,          \* history: what became of each message
    podOps, podFaults

dbVars == <<agentState, recent, beat>>
podVars == <<agentState, recent, beat, pod, secret, creator, stopper, reaper, monitor,
             fate, podOps, podFaults>>

PodTypeOK ==
    /\ agentState \in State
    /\ recent \in BOOLEAN
    /\ beat \in {"never", "fresh", "stale"}
    /\ pod \in Pod /\ (pod.phase = "None" => pod = NoPod)
    /\ secret \in BOOLEAN
    /\ creator \in [Creators -> {"idle", "secret", "unset", "reset", "volume", "phase",
                                 "replace", "wait", "create", "recover", "fail"}]
    /\ stopper \in [pc : {"idle", "pod", "secret", "read", "write"}, kind : {"kill", "budget"}]
    /\ reaper \in [pc : {"idle", "pod", "secret", "read", "write"}, failed : BOOLEAN]
    /\ monitor \in BOOLEAN
    /\ fate \in [Messages -> {"unsent", "sent", "seen", "refused"}]
    /\ podOps \in 0..MaxPodOps
    /\ podFaults \in 0..MaxPodFaults

StopperIdle == [pc |-> "idle", kind |-> "kill"]
ReaperIdle == [pc |-> "idle", failed |-> FALSE]

PodInit ==
    /\ agentState = "pending"
    /\ recent = FALSE
    /\ beat = "never"
    /\ pod = NoPod
    /\ secret = FALSE
    /\ creator = [c \in Creators |-> "idle"]
    /\ stopper = StopperIdle
    /\ reaper = ReaperIdle
    /\ monitor = FALSE
    /\ fate = [m \in Messages |-> "unsent"]
    /\ podOps = MaxPodOps
    /\ podFaults = MaxPodFaults

-----------------------------------------------------------------------------
\* updateAgentState: no condition on the state it replaces.
Write(s) == agentState' = s /\ recent' = TRUE /\ UNCHANGED beat

UserOp == podOps > 0 /\ podOps' = podOps - 1 /\ UNCHANGED podFaults
PodFault == podFaults > 0 /\ podFaults' = podFaults - 1 /\ UNCHANGED podOps
NoBudget == UNCHANGED <<podOps, podFaults>>

\* A deletion is accepted at once; the pod goes when its containers have stopped.
DeletePodAnyway == pod' = [pod EXCEPT !.deleting = TRUE]                \* mutant
DeletePod == pod' = IF pod = NoPod THEN pod ELSE [pod EXCEPT !.deleting = TRUE]

-----------------------------------------------------------------------------
(* createAgentPod, run by c.                                               *)

Creating(c, from, to) == creator[c] = from /\ creator' = [creator EXCEPT ![c] = to]
CreatorStep == NoBudget /\ UNCHANGED <<stopper, reaper, monitor>>

\* The dispatcher takes a queued agent.
StartDispatch ==
    /\ agentState = "queued"
    /\ Creating("dispatch", "idle", "secret")
    /\ CreatorStep
    /\ UNCHANGED <<dbVars, pod, secret, fate>>

\* sendInput, whatever the agent is doing.
SendInput(m) ==
    /\ fate[m] = "unsent"
    /\ fate' = [fate EXCEPT ![m] = "sent"]
    /\ Creating(m, "idle", "secret")
    /\ CreatorStep
    /\ UNCHANGED <<dbVars, pod, secret>>

\* upsertAgentCredSecret: create it, or delete it and create it again; a delete
\* that finds nothing and a second create that conflicts are thrown.
CreateSecret(c) ==
    /\ Creating(c, "secret", IF secret THEN "unset" ELSE "volume")
    /\ secret' = TRUE
    /\ CreatorStep
    /\ UNCHANGED <<dbVars, pod, fate>>

DeleteOldSecret(c) ==
    /\ Creating(c, "unset", IF secret THEN "reset" ELSE "fail")
    /\ secret' = FALSE
    /\ CreatorStep
    /\ UNCHANGED <<dbVars, pod, fate>>

RecreateSecret(c) ==
    /\ Creating(c, "reset", IF secret THEN "fail" ELSE "volume")
    /\ secret' = TRUE
    /\ CreatorStep
    /\ UNCHANGED <<dbVars, pod, fate>>

\* ensureUserWorkspacePvc.
EnsureVolume(c) ==
    /\ Creating(c, "volume", "phase")
    /\ CreatorStep
    /\ UNCHANGED <<dbVars, pod, secret, fate>>

\* A pod that is up or coming up is left alone, and the call returns.
ReadPhase(c) ==
    /\ Creating(c, "phase", CASE pod.phase \in {"Running", "Pending"} -> "idle"
                              [] pod.phase \in TerminalPhases -> "replace"
                              [] OTHER -> "create")
    /\ CreatorStep
    /\ UNCHANGED <<dbVars, pod, secret, fate>>

ReplacePod(c) ==
    /\ Creating(c, "replace", "wait")
    /\ DeletePod
    /\ CreatorStep
    /\ UNCHANGED <<dbVars, secret, fate>>

\* waitForPodGone, which gives up after a while.
StopWaiting(c) ==
    /\ Creating(c, "wait", "create")
    /\ CreatorStep
    /\ UNCHANGED <<dbVars, pod, secret, fate>>

\* A pod of that name that has come meanwhile is left, and the call returns.
CreatePod(c) ==
    /\ Creating(c, "create", "idle")
    /\ pod' = IF pod = NoPod THEN [NoPod EXCEPT !.phase = "Pending", !.turn = c] ELSE pod
    /\ CreatorStep
    /\ UNCHANGED <<dbVars, secret, fate>>

\* Any other error of the create deletes the secret before it is thrown again.
CreateRefused(c) ==
    /\ Creating(c, "create", "recover")
    /\ PodFault
    /\ UNCHANGED <<dbVars, pod, secret, stopper, reaper, monitor, fate>>

DropSecret(c) ==
    /\ Creating(c, "recover", "fail")
    /\ secret' = FALSE
    /\ CreatorStep
    /\ UNCHANGED <<dbVars, pod, fate>>

\* An error before the create is thrown as it is.
CreatorThrows(c) ==
    /\ creator[c] \in {"secret", "volume", "phase", "replace"}
    /\ Creating(c, creator[c], "fail")
    /\ PodFault
    /\ UNCHANGED <<dbVars, pod, secret, stopper, reaper, monitor, fate>>

\* The caller's catch; the sender of a message is told.
CreatorFailed(c) ==
    /\ Creating(c, "fail", "idle")
    /\ Write("failed")
    /\ fate' = IF c \in Messages THEN [fate EXCEPT ![c] = "refused"] ELSE fate
    /\ CreatorStep
    /\ UNCHANGED <<pod, secret>>

Create(c) == \/ CreateSecret(c) \/ DeleteOldSecret(c) \/ RecreateSecret(c)
             \/ EnsureVolume(c) \/ ReadPhase(c) \/ ReplacePod(c) \/ StopWaiting(c)
             \/ CreatePod(c) \/ DropSecret(c) \/ CreatorFailed(c)

-----------------------------------------------------------------------------
(* deleteAgentPod: the pod, then the secret; then what the caller writes.  *)

Stopping(from, to) == stopper.pc = from /\ stopper' = [stopper EXCEPT !.pc = to]
StopperStep == NoBudget /\ UNCHANGED <<creator, reaper, monitor, fate>>

\* killAgent at any time, the orchestrator's pause of a running agent.
StartStop(kind) ==
    /\ stopper = StopperIdle
    /\ kind = "budget" => agentState = "running"
    /\ UserOp
    /\ stopper' = [pc |-> "pod", kind |-> kind]
    /\ UNCHANGED <<dbVars, pod, secret, creator, reaper, monitor, fate>>

StopPod ==
    /\ Stopping("pod", "secret")
    /\ DeletePod
    /\ StopperStep
    /\ UNCHANGED <<dbVars, secret>>

StopSecret ==
    /\ Stopping("secret", IF stopper.kind = "kill" THEN "read" ELSE "write")
    /\ secret' = FALSE
    /\ StopperStep
    /\ UNCHANGED <<dbVars, pod>>

\* A kill reads the row and leaves a final one; a budget pause does not look.
StopRead ==
    /\ stopper.pc = "read"
    /\ stopper' = IF agentState \in FinalStates THEN StopperIdle ELSE [stopper EXCEPT !.pc = "write"]
    /\ StopperStep
    /\ UNCHANGED <<dbVars, pod, secret>>

StopWrite ==
    /\ stopper.pc = "write"
    /\ Write(IF stopper.kind = "kill" THEN "aborted" ELSE "paused")
    /\ stopper' = StopperIdle
    /\ StopperStep
    /\ UNCHANGED <<pod, secret>>

Stop == StopPod \/ StopSecret \/ StopRead \/ StopWrite

-----------------------------------------------------------------------------
(* reapFinishedAgentPods, acting on one listing, pod after pod.            *)

ReaperStep == NoBudget /\ UNCHANGED <<creator, stopper, monitor, fate>>

ListPods ==
    /\ reaper = ReaperIdle
    /\ pod.phase \in TerminalPhases
    /\ reaper' = [pc |-> "pod", failed |-> pod.phase = "Failed"]
    /\ ReaperStep
    /\ UNCHANGED <<dbVars, pod, secret>>

\* A pod that is gone by now makes the call throw, which ends the sweep.
ReapPod ==
    /\ reaper.pc = "pod"
    /\ DeletePod
    /\ reaper' = IF pod = NoPod THEN ReaperIdle ELSE [reaper EXCEPT !.pc = "secret"]
    /\ ReaperStep
    /\ UNCHANGED <<dbVars, secret>>

ReapSecret ==
    /\ reaper.pc = "secret"
    /\ secret' = FALSE
    /\ reaper' = IF reaper.failed THEN [reaper EXCEPT !.pc = "read"] ELSE ReaperIdle
    /\ ReaperStep
    /\ UNCHANGED <<dbVars, pod>>

\* reconcileFailedAgentPod: an agent that is not active has recorded its end.
ReapRead ==
    /\ reaper.pc = "read"
    /\ reaper' = IF agentState = "running" THEN [reaper EXCEPT !.pc = "write"] ELSE ReaperIdle
    /\ ReaperStep
    /\ UNCHANGED <<dbVars, pod, secret>>

\* Queued again after a resource death, which the size decides; paused otherwise.
ReapWrite ==
    /\ reaper.pc = "write"
    /\ \E s \in {"queued", "paused"} : Write(s)
    /\ reaper' = ReaperIdle
    /\ ReaperStep
    /\ UNCHANGED <<pod, secret>>

Reap == ListPods \/ ReapPod \/ ReapSecret \/ ReapRead \/ ReapWrite

-----------------------------------------------------------------------------
(* reconcileOrphanedAgents: the listing, then the write.                   *)

StaleReadFlipped == agentState = "running" /\ beat = "fresh" /\ ~recent     \* mutant
StaleReadGraceless == agentState = "running" /\ beat = "stale"               \* mutant
StaleRead == agentState = "running" /\ beat = "stale" /\ ~recent

ListStale ==
    /\ ~monitor
    /\ StaleRead
    /\ monitor' = TRUE
    /\ NoBudget
    /\ UNCHANGED <<dbVars, pod, secret, creator, stopper, reaper, fate>>

PauseStale ==
    /\ monitor
    /\ Write("paused")
    /\ monitor' = FALSE
    /\ NoBudget
    /\ UNCHANGED <<pod, secret, creator, stopper, reaper, fate>>

-----------------------------------------------------------------------------
(* The other API calls: rows only.                                         *)

ApiStep == UserOp /\ UNCHANGED <<pod, secret, creator, stopper, reaper, monitor, fate>>

StartAgent == ApiStep /\ Write("queued")

PauseAgent == ApiStep /\ Write("paused")

-----------------------------------------------------------------------------
(* The pod, its worker and its sidecar.                                    *)

ClusterStep == UNCHANGED <<creator, stopper, reaper, monitor>>
Alive == pod.phase = "Running"

\* The container cannot be made without its secret.
PodStarts ==
    /\ pod.phase = "Pending" /\ ~pod.deleting /\ secret
    /\ pod' = [pod EXCEPT !.phase = "Running", !.worker = "booting"]
    /\ NoBudget
    /\ ClusterStep
    /\ UNCHANGED <<dbVars, secret, fate>>

\* The worker writes "running" over whatever the row says, and starts the turn.
WorkerBoots ==
    /\ Alive /\ pod.worker = "booting"
    /\ Write("running")
    /\ pod' = [pod EXCEPT !.worker = "working", !.turn = Task]
    /\ fate' = IF pod.turn \in Messages THEN [fate EXCEPT ![pod.turn] = "seen"] ELSE fate
    /\ NoBudget
    /\ ClusterStep
    /\ UNCHANGED secret

\* It records the end of its run, and then exits.
WorkerRecords ==
    /\ Alive /\ pod.worker = "working"
    /\ \E s \in {"completed", "failed"} : Write(s)
    /\ pod' = [pod EXCEPT !.worker = "recorded"]
    /\ NoBudget
    /\ ClusterStep
    /\ UNCHANGED <<secret, fate>>

WorkerExits ==
    /\ Alive /\ pod.worker = "recorded"
    /\ \E ph \in TerminalPhases : pod' = [pod EXCEPT !.phase = ph, !.worker = "none"]
    /\ NoBudget
    /\ ClusterStep
    /\ UNCHANGED <<dbVars, secret, fate>>

\* The worker is killed; or the node is lost, and its pod collected unseen.
PodDies ==
    /\ Alive
    /\ PodFault
    /\ \/ pod' = [pod EXCEPT !.phase = "Failed", !.worker = "none", !.turn = Task]
       \/ pod' = NoPod
    /\ ClusterStep
    /\ UNCHANGED <<dbVars, secret, fate>>

\* The containers of a deleted pod have stopped.
PodGone ==
    /\ pod.deleting
    /\ pod' = NoPod
    /\ NoBudget
    /\ ClusterStep
    /\ UNCHANGED <<dbVars, secret, fate>>

SidecarBeats ==
    /\ Alive /\ beat # "fresh"
    /\ beat' = "fresh"
    /\ NoBudget
    /\ ClusterStep
    /\ UNCHANGED <<agentState, recent, pod, secret, fate>>

\* reaperStaleSeconds pass without a beat; without a write to the row.  A sidecar
\* beats several times in that time, so a live pod's beat is never stale once it
\* has beaten, and its first beat comes before its first write has aged.
BeatAges ==
    /\ ~Alive /\ beat = "fresh"
    /\ beat' = "stale"
    /\ NoBudget
    /\ ClusterStep
    /\ UNCHANGED <<agentState, recent, pod, secret, fate>>

RowAges ==
    /\ recent
    /\ Alive => beat = "fresh"
    /\ recent' = FALSE
    /\ NoBudget
    /\ ClusterStep
    /\ UNCHANGED <<agentState, beat, pod, secret, fate>>

Cluster == \/ PodStarts \/ WorkerBoots \/ WorkerRecords \/ WorkerExits \/ PodDies
           \/ PodGone \/ SidecarBeats \/ BeatAges \/ RowAges

-----------------------------------------------------------------------------
PodNext == \/ StartDispatch
        \/ \E m \in Messages : SendInput(m)
        \/ \E c \in Creators : Create(c) \/ CreateRefused(c) \/ CreatorThrows(c)
        \/ \E kind \in {"kill", "budget"} : StartStop(kind)
        \/ Stop \/ Reap \/ ListStale \/ PauseStale \/ StartAgent \/ PauseAgent
        \/ Cluster

PodSpec == PodInit /\ [][PodNext]_podVars

\* Timers fire, calls return, time passes and a worker ends its run.  Nothing is
\* assumed of users or faults.
PodFairness ==
    /\ WF_podVars(StartDispatch)
    /\ WF_podVars(\E c \in Creators : Create(c))
    /\ WF_podVars(Stop) /\ WF_podVars(Reap) /\ WF_podVars(ListStale \/ PauseStale)
    /\ WF_podVars(PodStarts \/ WorkerBoots \/ WorkerRecords \/ WorkerExits)
    /\ WF_podVars(PodGone)
    /\ WF_podVars(SidecarBeats) /\ WF_podVars(BeatAges) /\ WF_podVars(RowAges)

PodFairSpec == PodSpec /\ PodFairness

-----------------------------------------------------------------------------
(* Properties.                                                             *)

\* The row says running, and no worker runs.
Lost == agentState = "running" /\ ~Alive /\ pod.phase # "Pending"

\* An agent whose pod has died or disappeared does not stay "running", provided
\* its sidecar has beaten once (reaper.ts:6-11, queries.ts:791-800).
LostIsReconciled == Lost /\ beat # "never" ~> ~Lost

\* The monitor never takes an agent for dead whose worker has announced itself,
\* although at that moment the last beat on record may be that of an older pod
\* (the updated_at grace of queries.ts:796-804).
MonitorSparesWorkers == [][~monitor /\ monitor' => ~(Alive /\ pod.worker = "working")]_podVars

\* README.md:31, "messages sent while an agent is busy combine and deliver on the
\* next turn".
MessageDelivered == \A m \in Messages : fate[m] = "sent" ~> fate[m] \in {"seen", "refused"}
=============================================================================
