-------------------------------- MODULE DevEnv --------------------------------
(***************************************************************************)
(* The dev environments of one change (dev/dev-env.ts): rows in dev_envs,  *)
(* the Deployment they share a name with, and the boss's work on them, each*)
(* one step between two awaits:                                            *)
(*   starter    POST /dev-env and the MCP tool                             *)
(*   prov       the provisioning a start leaves running in the background  *)
(*   stop       stopDevEnv, on a row its caller read earlier: by a user, by*)
(*              a starter that replaces a failed one, or by the reaper     *)
(***************************************************************************)
EXTENDS Naturals, FiniteSets

CONSTANTS
    Envs,         \* rows that may be inserted: 1..n (a bound: no start without a free one)
    Starters,     \* clients that start environments, one request at a time
    MaxOps,       \* bound: users' stops and extensions
    MaxFaults     \* bound: calls to the cluster that fail, restarts

ASSUME BoundsNat == {MaxOps, MaxFaults} \subseteq Nat /\ Envs \subseteq Nat \ {0}

VARIABLES
    env,          \* dev_envs: status, and whether expires_at has passed
    deployment,   \* the row whose body the Deployment has; 0: there is none
    up,           \* the Deployment's pod runs
    prov, starter, stop,
    listed,       \* the reaper's snapshot of the live rows it still has to visit
    ops, faults

vars == <<env, deployment, up, prov, starter, stop, listed, ops, faults>>

Statuses == {"starting", "ready", "failed", "stopping", "stopped"}
Stoppers == Starters \cup {"user", "reaper"}
NoEnv == 0
NoStop == [pc |-> "idle", env |-> NoEnv, was |-> "none"]

TypeOK ==
    /\ env \in [Envs -> [status : Statuses \cup {"none"}, expired : BOOLEAN]]
    /\ deployment \in Envs \cup {NoEnv} /\ up \in BOOLEAN
    /\ prov \in [Envs -> {"none", "image", "create", "wait", "cleanup", "boot", "probe", "ready",
                          "failing", "fail", "over"}]
    /\ starter \in [Starters -> {"idle", "replace", "insert"}]
    /\ stop \in [Stoppers -> [pc : {"idle", "mark", "delete", "done", "undo"}, env : Envs \cup {NoEnv},
                              was : Statuses \cup {"none"}]]
    /\ listed \in [Envs -> [status : Statuses \cup {"none"}, expired : BOOLEAN]]
    /\ ops \in 0..MaxOps /\ faults \in 0..MaxFaults
    \* only a row that was inserted is provisioned, deployed or stopped
    /\ \A e \in Envs : env[e].status = "none" =>
          prov[e] = "none" /\ deployment # e /\ \A x \in Stoppers : stop[x].env # e
    /\ up => deployment # NoEnv

Row(status, expired) == [status |-> status, expired |-> expired]

Init ==
    /\ env = [e \in Envs |-> Row("none", FALSE)]
    /\ deployment = NoEnv /\ up = FALSE
    /\ prov = [e \in Envs |-> "none"]
    /\ starter = [s \in Starters |-> "idle"]
    /\ stop = [x \in Stoppers |-> NoStop]
    /\ listed = [e \in Envs |-> Row("none", FALSE)]
    /\ ops = 0 /\ faults = 0

Op == ops < MaxOps /\ ops' = ops + 1
Fault == faults < MaxFaults /\ faults' = faults + 1

Exists(e) == env[e].status # "none"
Live(e) == env[e].status \notin {"none", "stopped"}
\* getLiveDevEnvForAgent: the newest row that is not stopped
Newest(e) == Live(e) /\ \A f \in Envs : Live(f) => f <= e
SetStatus(e, status) == env' = [env EXCEPT ![e].status = status]

-----------------------------------------------------------------------------
\* startDevEnv

BeginStop(x, e, was) == stop' = [stop EXCEPT ![x] = [pc |-> "mark", env |-> e, was |-> was]]

\* a live environment that has not failed is returned as it is: no step
ReadsLive(s) ==
    /\ starter[s] = "idle" /\ \E e \in Envs : ~Exists(e)
    /\ \/ \E e \in Envs : /\ Newest(e) /\ env[e].status = "failed"
                          /\ starter' = [starter EXCEPT ![s] = "replace"] /\ BeginStop(s, e, "failed")
       \/ /\ \A e \in Envs : ~Live(e)
          /\ starter' = [starter EXCEPT ![s] = "insert"] /\ UNCHANGED stop
    /\ UNCHANGED <<env, deployment, up, prov, listed, ops, faults>>

InsertsEnv(s) ==
    /\ starter[s] = "insert"
    /\ starter' = [starter EXCEPT ![s] = "idle"]
    /\ \E e \in Envs : /\ ~Exists(e) /\ \A f \in 1..(e - 1) : Exists(f)
                       /\ env' = [env EXCEPT ![e] = Row("starting", FALSE)]
                       /\ prov' = [prov EXCEPT ![e] = "image"]
    /\ UNCHANGED <<deployment, up, stop, listed, ops, faults>>

-----------------------------------------------------------------------------
\* provision

Goes(e, pc) == prov' = [prov EXCEPT ![e] = pc]
\* mutant: only a stop that is over counts
CancelledWhenStopped(e) == env[e].status = "stopped"
Cancelled(e) == env[e].status \in {"stopping", "stopped"}

\* resolveAgentImage falls back to the base image, so it always yields one
ResolvesImage(e) ==
    /\ prov[e] = "image"
    /\ Goes(e, IF Cancelled(e) THEN "over" ELSE "create")
    /\ UNCHANGED <<env, deployment, up, starter, stop, listed, ops, faults>>

\* create, or replace the leftover of the same name: the pod is a new one
Deploys(e) ==
    /\ prov[e] = "create"
    /\ \/ Goes(e, "wait") /\ deployment' = e /\ up' = FALSE /\ UNCHANGED faults
       \/ Goes(e, "failing") /\ Fault /\ UNCHANGED <<deployment, up>>
    /\ UNCHANGED <<env, starter, stop, listed, ops>>

\* one poll: cancelled, the pod runs, or it cannot start or took too long
PollsPod(e) ==
    /\ prov[e] = "wait"
    /\ IF Cancelled(e) THEN Goes(e, "cleanup") /\ UNCHANGED faults
       ELSE \/ up /\ Goes(e, "boot") /\ UNCHANGED faults
            \/ Goes(e, "failing") /\ (deployment = NoEnv \/ ~up) /\ UNCHANGED faults
    /\ UNCHANGED <<env, deployment, up, starter, stop, listed, ops>>

\* the Deployment is deleted by its name, errors are swallowed
CleansUp(e) ==
    /\ prov[e] = "cleanup"
    /\ Goes(e, "over")
    /\ \/ deployment' = NoEnv /\ up' = FALSE /\ UNCHANGED faults
       \/ Fault /\ UNCHANGED <<deployment, up>>
    /\ UNCHANGED <<env, starter, stop, listed, ops>>

\* clone, setup and start in the pod; without a pod the exec throws
Boots(e) ==
    /\ prov[e] = "boot"
    /\ \/ up /\ Goes(e, IF Cancelled(e) THEN "over" ELSE "probe")
       \/ Goes(e, "failing")
    /\ UNCHANGED <<env, deployment, up, starter, stop, listed, ops, faults>>

\* the ready check, then the last look at the row, then the unconditional write
Probes(e) ==
    /\ prov[e] = "probe"
    /\ \/ up /\ Goes(e, IF Cancelled(e) THEN "over" ELSE "ready")
       \/ Goes(e, "failing")
    /\ UNCHANGED <<env, deployment, up, starter, stop, listed, ops, faults>>

MarksReady(e) ==
    /\ prov[e] = "ready" /\ SetStatus(e, "ready") /\ Goes(e, "over")
    /\ UNCHANGED <<deployment, up, starter, stop, listed, ops, faults>>

Fails(e) ==
    /\ prov[e] = "failing"
    /\ Goes(e, IF Cancelled(e) THEN "over" ELSE "fail")
    /\ UNCHANGED <<env, deployment, up, starter, stop, listed, ops, faults>>

MarksFailed(e) ==
    /\ prov[e] = "fail" /\ SetStatus(e, "failed") /\ Goes(e, "over")
    /\ UNCHANGED <<deployment, up, starter, stop, listed, ops, faults>>

PodRuns ==
    /\ deployment # NoEnv /\ ~up /\ up' = TRUE
    /\ UNCHANGED <<env, deployment, prov, starter, stop, listed, ops, faults>>

-----------------------------------------------------------------------------
\* stopDevEnv

MarksStopping(x) ==
    /\ stop[x].pc = "mark"
    /\ IF stop[x].was = "stopped" THEN stop' = [stop EXCEPT ![x].pc = "done"] /\ UNCHANGED env
       ELSE SetStatus(stop[x].env, "stopping") /\ stop' = [stop EXCEPT ![x].pc = "delete"]
    /\ UNCHANGED <<deployment, up, prov, starter, listed, ops, faults>>

\* mutant: the Deployment goes, its pod stays
OrphansThePod(x) ==
    /\ stop[x].pc = "delete"
    /\ \/ deployment' = NoEnv /\ stop' = [stop EXCEPT ![x].pc = "done"] /\ UNCHANGED <<up, faults>>
       \/ Fault /\ stop' = [stop EXCEPT ![x].pc = "undo"] /\ UNCHANGED <<deployment, up>>
    /\ UNCHANGED <<env, prov, starter, listed, ops>>
DeletesDeployment(x) ==
    /\ stop[x].pc = "delete"
    /\ \/ deployment' = NoEnv /\ up' = FALSE /\ stop' = [stop EXCEPT ![x].pc = "done"] /\ UNCHANGED faults
       \/ Fault /\ stop' = [stop EXCEPT ![x].pc = "undo"] /\ UNCHANGED <<deployment, up>>
    /\ UNCHANGED <<env, prov, starter, listed, ops>>

\* a starter goes on to its insert only when the stop did not throw
Returns(x, next) == starter' = IF x \in Starters THEN [starter EXCEPT ![x] = next] ELSE starter

MarksStopped(x) ==
    /\ stop[x].pc = "done"
    /\ SetStatus(stop[x].env, "stopped") /\ stop' = [stop EXCEPT ![x] = NoStop]
    /\ Returns(x, "insert")
    /\ UNCHANGED <<deployment, up, prov, listed, ops, faults>>

\* the status goes back to what the caller had read
UndoesStop(x) ==
    /\ stop[x].pc = "undo"
    /\ SetStatus(stop[x].env, stop[x].was) /\ stop' = [stop EXCEPT ![x] = NoStop]
    /\ Returns(x, "idle")
    /\ UNCHANGED <<deployment, up, prov, listed, ops, faults>>

UserStops ==
    /\ stop["user"].pc = "idle" /\ Op
    /\ \E e \in Envs : Newest(e) /\ BeginStop("user", e, env[e].status)
    /\ UNCHANGED <<env, deployment, up, prov, starter, listed, faults>>

\* an extension, or a sync of a ready environment, which extends it too
Extends ==
    /\ Op
    /\ \E e \in Envs : Newest(e) /\ env' = [env EXCEPT ![e].expired = FALSE]
    /\ UNCHANGED <<deployment, up, prov, starter, stop, listed, faults>>

-----------------------------------------------------------------------------
\* reapDevEnvs: one listing, then the rows one after the other

\* mutant: a failed environment needs no reaping
UnlessFailed(e) == Live(e) /\ env[e].status # "failed"
GetLiveDevEnvs(e) == Live(e)

Unlisted == Row("none", FALSE)
Reaping == stop["reaper"].pc # "idle" \/ \E e \in Envs : listed[e] # Unlisted

\* rows the pass would leave alone whatever happens meanwhile are not kept
Due(e) == GetLiveDevEnvs(e) /\ (env[e].expired \/ env[e].status \in {"starting", "stopping"})
Lists ==
    /\ ~Reaping /\ \E e \in Envs : Due(e)
    /\ listed' = [e \in Envs |-> IF Due(e) THEN env[e] ELSE Unlisted]
    /\ UNCHANGED <<env, deployment, up, prov, starter, stop, ops, faults>>

Provisioning(e) == prov[e] \notin {"none", "over"}

\* decided on the listed row, and on the provisioning set as it is by now
Visits(e) ==
    /\ listed[e] # Unlisted /\ stop["reaper"].pc = "idle"
    /\ \A f \in 1..(e - 1) : listed[f] = Unlisted
    /\ listed' = [listed EXCEPT ![e] = Unlisted]
    /\ \/ /\ listed[e].expired \/ listed[e].status = "stopping"
          /\ BeginStop("reaper", e, listed[e].status) /\ UNCHANGED env
       \/ /\ ~listed[e].expired /\ listed[e].status = "starting" /\ ~Provisioning(e)
          /\ SetStatus(e, "failed") /\ UNCHANGED stop
       \/ /\ ~listed[e].expired /\ listed[e].status = "starting" /\ Provisioning(e)
          /\ UNCHANGED <<env, stop>>
    /\ UNCHANGED <<deployment, up, prov, starter, ops, faults>>

Expires(e) ==
    /\ Live(e) /\ ~env[e].expired
    /\ env' = [env EXCEPT ![e].expired = TRUE]
    /\ UNCHANGED <<deployment, up, prov, starter, stop, listed, ops, faults>>

\* what the boss had in memory is gone
Restarts ==
    /\ Fault
    /\ prov' = [e \in Envs |-> IF Provisioning(e) THEN "over" ELSE prov[e]]
    /\ starter' = [s \in Starters |-> "idle"]
    /\ stop' = [x \in Stoppers |-> NoStop]
    /\ listed' = [e \in Envs |-> Unlisted]
    /\ UNCHANGED <<env, deployment, up, ops>>

Starts(s) == ReadsLive(s) \/ InsertsEnv(s)
Provisions(e) == \/ ResolvesImage(e) \/ Deploys(e) \/ PollsPod(e) \/ CleansUp(e) \/ Boots(e)
                 \/ Probes(e) \/ MarksReady(e) \/ Fails(e) \/ MarksFailed(e)
Stops(x) == MarksStopping(x) \/ DeletesDeployment(x) \/ MarksStopped(x) \/ UndoesStop(x)

Next ==
    \/ \E s \in Starters : Starts(s)
    \/ \E e \in Envs : Provisions(e) \/ Visits(e) \/ Expires(e)
    \/ \E x \in Stoppers : Stops(x)
    \/ PodRuns \/ UserStops \/ Extends \/ Lists \/ Restarts

\* Awaits end, the reaper runs every minute, and time passes. Fairness is stated for
\* each kind of work, which asks less than for each row and caller.
Fairness ==
    /\ WF_vars(\E s \in Starters : InsertsEnv(s))
    /\ WF_vars(\E e \in Envs : Provisions(e))
    /\ WF_vars(\E x \in Stoppers : Stops(x))
    /\ WF_vars(Lists \/ \E e \in Envs : Visits(e))
    /\ WF_vars(\E e \in Envs : Expires(e))

Spec == Init /\ [][Next]_vars /\ Fairness

-----------------------------------------------------------------------------
\* Nobody is provisioning or stopping an environment.
Quiet == /\ \A e \in Envs : ~Provisioning(e)
         /\ \A x \in Stoppers : stop[x].pc = "idle"

\* Nothing runs that no row stands for. However stops, replacements and the reaper
\* cross a provisioning, once they are through a Deployment belongs to a live row:
\* a provisioning that creates it after a stop has deleted it removes it again
\* (dev-env.ts:231). Only a call that failed or a restart leaves one behind.
NoLeakedDeployment ==
    Quiet /\ faults = 0 /\ deployment # NoEnv => \E e \in Envs : Live(e)

\* Every environment is reclaimed: whatever stops, failures, restarts and late
\* writes of its provisioning do to its row, it ends up stopped (dev-env.ts:381).
EnvReclaimed == \A e \in Envs : Live(e) ~> env[e].status = "stopped"

\* dev-env.ts:157 "Start (or return the live) dev environment for a change".
OneLiveEnv == Cardinality({e \in Envs : Live(e)}) <= 1

===============================================================================
