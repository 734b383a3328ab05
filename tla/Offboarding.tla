----------------------------- MODULE Offboarding -----------------------------
(***************************************************************************)
(* The end of agents and of a user: the handler that deletes one agent     *)
(* (router.ts), the prune of the test user's agents, and offboardUser of   *)
(* AgentManager, with an await between their steps.  One user who may be   *)
(* offboarded; the agents are that user's, and several of them may share a *)
(* branch.  What the tables refer to is part of the state: a row that      *)
(* another one refers to cannot be deleted.                                *)
(***************************************************************************)
EXTENDS Naturals, FiniteSets

CONSTANTS
    Agents,
    Branches,
    Kinds         \* tables besides agents whose rows refer to a user

VARIABLES
    user,         \* the row of users is there
    tombstone,    \* offboarded_identities has the user's subject and email
    creds,        \* the rows of user_credentials and user_git_credentials: {"claude", "git"}
    refs,         \* tables with rows of the user: secrets, runs, reviews, tokens
    volume,       \* the user's workspace volume
    rows,         \* agents: the rows that are there
    state, branch,  \* columns of agents
    pod, env,     \* per agent: a worker pod; a dev environment (its Deployment)
    remote,       \* branches on GitHub
    pc, seen,     \* per agent: where its deletion is; the state it was read with
    off, left     \* where offboardUser is; the agents it has listed and not yet deleted

vars == <<user, tombstone, creds, refs, volume, rows, state, branch, pod, env, remote, pc, seen, off, left>>

Active == {"running", "waiting"}
AgentStates == Active \cup {"pending", "queued", "paused", "completed", "aborted"}

TypeOK ==
    /\ user \in BOOLEAN /\ tombstone \in BOOLEAN /\ volume \in BOOLEAN
    /\ creds \in SUBSET {"claude", "git"}
    /\ refs \in SUBSET Kinds
    /\ rows \in SUBSET Agents
    /\ state \in [Agents -> AgentStates]
    /\ branch \in [Agents -> Branches]
    /\ pod \in SUBSET Agents /\ env \in SUBSET Agents
    /\ remote \in SUBSET Branches
    /\ pc \in [Agents -> {"none", "kill", "env", "count", "push", "delete"}]
    /\ seen \in [Agents -> AgentStates]
    /\ off \in {"none", "agents", "volume", "claude", "git", "tombstone", "delete", "done", "failed"}
    /\ left \in SUBSET Agents

Init ==
    /\ user = TRUE /\ tombstone = FALSE /\ volume = TRUE
    /\ creds = {"claude", "git"} /\ refs = {}
    /\ rows = {} /\ pod = {} /\ env = {} /\ remote = {}
    /\ state = [a \in Agents |-> "pending"]
    /\ branch \in [Agents -> Branches]
    /\ pc = [a \in Agents |-> "none"]
    /\ seen = [a \in Agents |-> "pending"]
    /\ off = "none" /\ left = {}

userVars == <<user, tombstone, creds, refs, volume, off>>
agentVars == <<rows, state, branch, pod, env, remote>>

-----------------------------------------------------------------------------
(* What users and agents do meanwhile.                                     *)

\* insertAgent; the column that names the creator refers to the row of the user.
CreateAgent(a) ==
    /\ user /\ a \notin rows /\ pc[a] = "none" /\ a \notin left
    /\ rows' = rows \cup {a}
    /\ state' = [state EXCEPT ![a] = "pending"]
    /\ UNCHANGED <<userVars, branch, pod, env, remote, pc, seen, left>>

\* startAgent, and the other ways into the queue.
StartAgent(a) ==
    /\ a \in rows /\ state[a] \notin Active
    /\ state' = [state EXCEPT ![a] = "queued"]
    /\ UNCHANGED <<userVars, rows, branch, pod, env, remote, pc, seen, left>>

\* The dispatch of a queued agent creates its pod with the user's credential.
Dispatches(a) ==
    /\ a \in rows /\ state[a] = "queued" /\ creds = {"claude", "git"}
    /\ pod' = pod \cup {a}
    /\ UNCHANGED <<userVars, rows, state, branch, env, remote, pc, seen, left>>

\* The worker starts, works, pushes its branch, waits, and ends.
Works(a) ==
    /\ a \in rows /\ a \in pod
    /\ \E s \in Active \cup {"paused", "completed"} :
          /\ state' = [state EXCEPT ![a] = s]
          /\ pod' = IF s \in Active THEN pod ELSE pod \ {a}
    /\ remote' = remote \cup {branch[a]}
    /\ UNCHANGED <<userVars, rows, branch, env, pc, seen, left>>

StartDevEnv(a) ==
    /\ a \in rows /\ env' = env \cup {a}
    /\ UNCHANGED <<userVars, rows, state, branch, pod, remote, pc, seen, left>>

\* A secret is stored, a run launched, a review requested, a token created; credentials set.
WritesRow ==
    /\ user
    /\ \/ \E k \in Kinds : refs' = refs \cup {k} /\ UNCHANGED creds
       \/ \E c \in {"claude", "git"} : creds' = creds \cup {c} /\ UNCHANGED refs
    /\ UNCHANGED <<user, tombstone, volume, off, agentVars, pc, seen, left>>

-----------------------------------------------------------------------------
(* The deletion of one agent: by the handler, or as a part of offboardUser. *)

\* Who runs the deletion of a: its errors end the handler, and are dropped by the others.
\* Bound: the handler is not called for an agent that offboardUser has listed.
ByHandler(a) == a \notin left

Steps(a, from, to) == pc[a] = from /\ pc' = [pc EXCEPT ![a] = to]

\* DELETE /api/agents/:id reads the row.
DeleteAgentHandler(a) ==
    /\ a \in rows /\ ByHandler(a)
    /\ Steps(a, "none", "kill")
    /\ seen' = [seen EXCEPT ![a] = state[a]]
    /\ UNCHANGED <<userVars, agentVars, left>>

\* An agent that was running when it was read is killed; others are not.
Kills(a) ==
    /\ Steps(a, "kill", IF ByHandler(a) THEN "env" ELSE "count")
    /\ IF seen[a] \in Active
       THEN pod' = pod \ {a} /\ state' = [state EXCEPT ![a] = "aborted"]
       ELSE UNCHANGED <<pod, state>>
    /\ UNCHANGED <<userVars, rows, branch, env, remote, seen, left>>

KillFails(a) ==
    /\ seen[a] \in Active
    /\ Steps(a, "kill", IF ByHandler(a) THEN "none" ELSE "count")
    /\ UNCHANGED <<userVars, agentVars, seen, left>>

\* The handler stops the dev environment, whose row goes with the agent's; the error of
\* that call is dropped.
StopsEnv(a) ==
    /\ Steps(a, "env", "count")
    /\ env' \in {env, env \ {a}}
    /\ UNCHANGED <<userVars, rows, state, branch, pod, remote, seen, left>>

\* deleteAgentRemoteBranch counts the other agents of the branch, and reads the token.
CountsSiblings(a) ==
    /\ Steps(a, "count",
         IF (\E b \in rows \ {a} : branch[b] = branch[a]) \/ "git" \notin creds THEN "delete" ELSE "push")
    /\ UNCHANGED <<userVars, agentVars, seen, left>>

\* The push that deletes the branch, or its failure, which is dropped.
DeletesBranch(a) ==
    /\ Steps(a, "push", "delete")
    /\ remote' \in {remote, remote \ {branch[a]}}
    /\ UNCHANGED <<userVars, rows, state, branch, pod, env, seen, left>>

\* The rows of the agent go in one transaction, and its dev environment's with them.
DeleteAgent(a) ==
    /\ Steps(a, "delete", "none")
    /\ rows' = rows \ {a} /\ left' = left \ {a}
    /\ UNCHANGED <<userVars, state, branch, pod, env, remote, seen>>

-----------------------------------------------------------------------------
(* offboardUser.                                                           *)

\* The user and the agents are read once.  Bound: no agent is being deleted as it begins.
OffboardUser ==
    /\ user /\ off \in {"none", "failed"} /\ \A a \in Agents : pc[a] = "none"
    /\ off' = "agents" /\ left' = rows
    /\ seen' = [a \in Agents |-> IF a \in rows THEN state[a] ELSE seen[a]]
    /\ UNCHANGED <<user, tombstone, creds, refs, volume, agentVars, pc>>

\* The next agent of the list, with the state it was listed with.
OffboardsAgent(a) ==
    /\ off = "agents" /\ a \in left /\ \A b \in left : pc[b] = "none"
    /\ Steps(a, "none", "kill")
    /\ UNCHANGED <<userVars, agentVars, seen, left>>

Offs(from, to) == off = from /\ off' = to /\ UNCHANGED <<agentVars, pc, seen, left>>

AgentsDone ==
    /\ left = {} /\ Offs("agents", "volume")
    /\ UNCHANGED <<user, tombstone, creds, refs, volume>>

\* The error of the volume's deletion is dropped.
DeletesVolume ==
    /\ Offs("volume", "claude")
    /\ volume' \in BOOLEAN /\ (volume' => volume)
    /\ UNCHANGED <<user, tombstone, creds, refs>>

DeletesCredential ==
    /\ \/ Offs("claude", "git") /\ creds' = creds \ {"claude"}
       \/ Offs("git", "tombstone") /\ creds' = creds \ {"git"}
    /\ UNCHANGED <<user, tombstone, refs, volume>>

RecordsTombstone ==
    /\ Offs("tombstone", "delete") /\ tombstone' = TRUE
    /\ UNCHANGED <<user, creds, refs, volume>>

\* deleteUser: a transaction that fails while a row refers to the user's.
DeleteUser ==
    /\ IF refs = {} /\ rows = {}
       THEN Offs("delete", "done") /\ user' = FALSE /\ creds' = {}
       ELSE Offs("delete", "failed") /\ UNCHANGED <<user, creds>>
    /\ UNCHANGED <<tombstone, refs, volume>>

\* A statement fails: offboardUser throws.
OffboardThrows ==
    /\ \E at \in {"claude", "git", "tombstone", "delete"} : Offs(at, "failed")
    /\ UNCHANGED <<user, tombstone, creds, refs, volume>>

Restart ==
    /\ pc' = [a \in Agents |-> "none"] /\ left' = {}
    /\ off' = IF off \in {"none", "done"} THEN off ELSE "failed"
    /\ UNCHANGED <<user, tombstone, creds, refs, volume, agentVars, seen>>

Next ==
    \/ \E a \in Agents :
          \/ CreateAgent(a) \/ StartAgent(a) \/ Dispatches(a) \/ Works(a) \/ StartDevEnv(a)
          \/ DeleteAgentHandler(a) \/ Kills(a) \/ KillFails(a) \/ StopsEnv(a)
          \/ CountsSiblings(a) \/ DeletesBranch(a) \/ DeleteAgent(a) \/ OffboardsAgent(a)
    \/ WritesRow \/ OffboardUser \/ AgentsDone \/ DeletesVolume \/ DeletesCredential
    \/ RecordsTombstone \/ DeleteUser \/ OffboardThrows \/ Restart

Spec == Init /\ [][Next]_vars

-----------------------------------------------------------------------------
(* Properties.                                                             *)

\* A user whose row is gone has left nothing behind in the tables and is remembered as
\* offboarded: no agent, no credential, no row that a later user could trip over
\* (manager.ts:479-483), whatever was created, failed or restarted meanwhile.
GoneLeavesNothing == ~user => rows = {} /\ creds = {} /\ refs = {} /\ tombstone

\* Refuted: offboarding that meets no error removes the user (manager.ts:443-445).  deleteUser
\* clears the credentials and the audit log, and not the secrets, the runs, the requested
\* reviews and the tokens, whose columns refer to the row.
OffboardCompletes == [][off = "delete" /\ off' = "failed" => refs = {}]_vars

\* Refuted: the Deployment of a dev environment does not outlive its agent ("the row cascades
\* with the agent, the pod wouldn't", router.ts:851).  offboardUser and the prune do not stop it.
NoOrphanedEnv == off = "done" => env = {}

\* Refuted: a branch goes only when no other agent targets it (queries.ts:243-245): the count
\* is read before the push, and an agent may be created on the branch in between.
SiblingsKeepBranch ==
    [][\A b \in remote : b \notin remote' => Cardinality({a \in rows : branch[a] = b}) <= 1]_vars

-----------------------------------------------------------------------------
(* The inductive invariant (proved in FurtherProofs).                       *)

IInv == TypeOK /\ GoneLeavesNothing /\ (off = "delete" => tombstone)
=============================================================================
