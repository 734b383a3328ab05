----------------------------- MODULE ImageBuilds -----------------------------
(***************************************************************************)
(* On-demand toolchain images (agent/image-builder.ts, agent-image.ts and  *)
(* image-prewarm.ts): callers in one boss process that each need images,   *)
(* the single flight per image, the kaniko pod that builds one, and the    *)
(* registry.  An image is its tag: the identity of the OS base and the     *)
(* repository's declaration it was keyed on.  A step of a caller runs from *)
(* one await to the next; what follows a settled promise in the same turn  *)
(* of the event loop belongs to the step that settles it.                  *)
(***************************************************************************)
EXTENDS Naturals

CONSTANTS
    Agents,       \* dispatches and pre-builds: they fall back to the base image
    Phases,       \* launches of pipeline phases: they fail without their images
    Bases,        \* identities of the OS base: what a deploy may change
    Decls         \* contents of agent.Dockerfile and the files it folds in

VARIABLES
    base, decl,   \* the deployed base and the repository's declaration
    registry,     \* tags pushed
    baked,        \* the declaration that the clone of an image's build had
    pod,          \* phase of the build pod of each image
    inflight,     \* inflightBuilds: the images whose promise is in the map
    pc, cur, todo \* per caller: where it is, the image it ensures, those left

vars == <<base, decl, registry, baked, pod, inflight, pc, cur, todo>>

Callers == Agents \cup Phases
Images == Bases \X Decls

\* From the entry in the map until the promise settles.
Building == {"create", "conflict", "recreate", "wait", "clean-ok", "clean-err"}
Busy == Building \cup {"check", "joined"}

TypeOK ==
    /\ base \in Bases /\ decl \in Decls
    /\ registry \in SUBSET Images
    /\ baked \in [Images -> Decls]
    /\ pod \in [Images -> {"none", "Pending", "Running", "Succeeded", "Failed"}]
    /\ inflight \in SUBSET Images
    /\ pc \in [Callers -> Busy \cup {"idle", "ready", "fallback", "failed"}]
    /\ cur \in [Callers -> Images]
    /\ todo \in [Callers -> SUBSET Images]

\* configKey and agentImageRef: hashes that tell two bases or declarations apart.
AgentImageRef(b, d) == <<b, d>>

Init ==
    /\ base \in Bases /\ decl \in Decls
    /\ registry = {}
    /\ baked = [i \in Images |-> decl]
    /\ pod = [i \in Images |-> "none"]
    /\ inflight = {}
    /\ pc = [c \in Callers |-> "idle"]
    /\ cur = [c \in Callers |-> AgentImageRef(base, decl)]
    /\ todo = [c \in Callers |-> {}]

-----------------------------------------------------------------------------
(* What a caller asks for.                                                 *)

\* resolveAgentImage: the repository declares nothing, or the declaration cannot be read.
RunsInBase(a) ==
    /\ pc[a] \in {"idle", "ready", "fallback"}
    /\ pc' = [pc EXCEPT ![a] = "fallback"]
    /\ UNCHANGED <<base, decl, registry, baked, pod, inflight, cur, todo>>

\* resolveAgentImage: one image, keyed on what was read.
ResolveAgentImage(a) ==
    /\ pc[a] \in {"idle", "ready", "fallback"}
    /\ cur' = [cur EXCEPT ![a] = AgentImageRef(base, decl)]
    /\ todo' = [todo EXCEPT ![a] = {}]
    /\ pc' = [pc EXCEPT ![a] = "check"]
    /\ UNCHANGED <<base, decl, registry, baked, pod, inflight>>

\* imagesToEnsure: the phase's own image and those of its services, where they declare a
\* build; the tags are the repository's own.
EnsurePipelineImages(p) ==
    /\ pc[p] \in {"idle", "ready", "failed"}
    /\ \E wanted \in SUBSET Images : \E first \in wanted :
          /\ cur' = [cur EXCEPT ![p] = first]
          /\ todo' = [todo EXCEPT ![p] = wanted \ {first}]
    /\ pc' = [pc EXCEPT ![p] = "check"]
    /\ UNCHANGED <<base, decl, registry, baked, pod, inflight>>

\* The callers of S have their image: each goes on to its next one, or is done.
\* imagesToEnsure lists them in an order no property tells apart.
Ensured(S) ==
    /\ \E next \in [S -> Images] :
          /\ \A c \in S : next[c] \in IF todo[c] = {} THEN {cur[c]} ELSE todo[c]
          /\ cur' = [c \in Callers |-> IF c \in S THEN next[c] ELSE cur[c]]
          /\ todo' = [c \in Callers |-> IF c \in S THEN todo[c] \ {next[c]} ELSE todo[c]]
    /\ pc' = [c \in Callers |-> IF c \notin S THEN pc[c]
                                ELSE IF todo[c] = {} THEN "ready" ELSE "check"]

\* The error reaches the callers of S: an agent runs in the base image, a phase fails.
Refused(S) ==
    /\ pc' = [c \in Callers |-> IF c \notin S THEN pc[c]
                                ELSE IF c \in Agents THEN "fallback" ELSE "failed"]
    /\ UNCHANGED <<cur, todo>>

-----------------------------------------------------------------------------
(* ensureImage and the single flight.                                      *)

\* The registry answers that the tag is there.
Reuses(c) ==
    /\ pc[c] = "check" /\ cur[c] \in registry
    /\ Ensured({c})
    /\ UNCHANGED <<base, decl, registry, baked, pod, inflight>>

\* imageExists says no: there is no such tag, or it could not tell.  With no build in
\* flight the caller starts one; the map is read and written in one turn.
StartsBuild(c) ==
    /\ pc[c] = "check" /\ cur[c] \notin inflight
    /\ inflight' = inflight \cup {cur[c]}
    /\ pc' = [pc EXCEPT ![c] = "create"]
    /\ UNCHANGED <<base, decl, registry, baked, pod, cur, todo>>

\* The same answer with a build in flight: the caller waits for that promise.
Joins(c) ==
    /\ pc[c] = "check" /\ cur[c] \in inflight
    /\ pc' = [pc EXCEPT ![c] = "joined"]
    /\ UNCHANGED <<base, decl, registry, baked, pod, inflight, cur, todo>>

CreatesPod(c) ==
    /\ pc[c] = "create" /\ pod[cur[c]] = "none"
    /\ pod' = [pod EXCEPT ![cur[c]] = "Pending"]
    /\ pc' = [pc EXCEPT ![c] = "wait"]
    /\ UNCHANGED <<base, decl, registry, baked, inflight, cur, todo>>

\* A pod of that name exists, or the call failed: both are taken for a conflict.
CreateConflicts(c) ==
    /\ pc[c] = "create"
    /\ pc' = [pc EXCEPT ![c] = "conflict"]
    /\ UNCHANGED <<base, decl, registry, baked, pod, inflight, cur, todo>>

Adopts(c) ==
    /\ pc[c] = "conflict" /\ pod[cur[c]] \in {"Pending", "Running"}
    /\ pc' = [pc EXCEPT ![c] = "wait"]
    /\ UNCHANGED <<base, decl, registry, baked, pod, inflight, cur, todo>>

\* The pod is terminal or gone, or it could not be read: it is deleted, unless that call
\* fails too, and created again after two seconds.
Replaces(c) ==
    /\ pc[c] = "conflict"
    /\ pod' \in {pod, [pod EXCEPT ![cur[c]] = "none"]}
    /\ pc' = [pc EXCEPT ![c] = "recreate"]
    /\ UNCHANGED <<base, decl, registry, baked, inflight, cur, todo>>

Recreates(c) ==
    /\ pc[c] = "recreate" /\ pod[cur[c]] = "none"
    /\ pod' = [pod EXCEPT ![cur[c]] = "Pending"]
    /\ pc' = [pc EXCEPT ![c] = "wait"]
    /\ UNCHANGED <<base, decl, registry, baked, inflight, cur, todo>>

\* The promise of c settles: it leaves the map, and all who wait on it go on.
Settles(c) == {d \in Callers : d = c \/ (pc[d] = "joined" /\ cur[d] = cur[c])}
LeavesFlight(c) == inflight' = inflight \ {cur[c]}

\* The second create fails before the block whose end deletes the pod.
RecreateFails(c) ==
    /\ pc[c] = "recreate"
    /\ LeavesFlight(c) /\ Refused(Settles(c))
    /\ UNCHANGED <<base, decl, registry, baked, pod>>

PollSucceeds(c) ==
    /\ pc[c] = "wait" /\ pod[cur[c]] = "Succeeded"
    /\ pc' = [pc EXCEPT ![c] = "clean-ok"]
    /\ UNCHANGED <<base, decl, registry, baked, pod, inflight, cur, todo>>

\* The pod failed or is gone, it cannot be read, or the build took too long.
PollFails(c) ==
    /\ pc[c] = "wait"
    /\ pc' = [pc EXCEPT ![c] = "clean-err"]
    /\ UNCHANGED <<base, decl, registry, baked, pod, inflight, cur, todo>>

\* The pod is deleted whatever the outcome; the error of that call is dropped.
Finishes(c) ==
    /\ pc[c] \in {"clean-ok", "clean-err"}
    /\ pod' \in {pod, [pod EXCEPT ![cur[c]] = "none"]}
    /\ LeavesFlight(c)
    /\ IF pc[c] = "clean-ok" THEN Ensured(Settles(c)) ELSE Refused(Settles(c))
    /\ UNCHANGED <<base, decl, registry, baked>>

-----------------------------------------------------------------------------
(* The pod, the repository and the process.                                *)

\* The pod starts and clones the branch at its head of that moment.
PodStarts(i) ==
    /\ pod[i] = "Pending"
    /\ pod' = [pod EXCEPT ![i] = "Running"]
    /\ baked' = [baked EXCEPT ![i] = decl]
    /\ UNCHANGED <<base, decl, registry, inflight, pc, cur, todo>>

PodPushes(i) ==
    /\ pod[i] = "Running"
    /\ registry' = registry \cup {i}
    /\ UNCHANGED <<base, decl, baked, pod, inflight, pc, cur, todo>>

PodEnds(i) ==
    /\ \/ pod[i] = "Running" /\ i \in registry /\ pod' = [pod EXCEPT ![i] = "Succeeded"]
       \/ pod[i] \in {"Pending", "Running"} /\ pod' = [pod EXCEPT ![i] = "Failed"]
    /\ UNCHANGED <<base, decl, registry, baked, inflight, pc, cur, todo>>

\* A commit to the branch the images are built from.
RepoMoves ==
    /\ \E d \in Decls : decl' = d
    /\ UNCHANGED <<base, registry, baked, pod, inflight, pc, cur, todo>>

\* The process ends and another starts, of a build whose OS layers may differ.
Restart ==
    /\ \E b \in Bases : base' = b
    /\ inflight' = {}
    /\ pc' = [c \in Callers |-> "idle"]
    /\ todo' = [c \in Callers |-> {}]
    /\ UNCHANGED <<decl, registry, baked, pod, cur>>

Next ==
    \/ \E a \in Agents : RunsInBase(a) \/ ResolveAgentImage(a)
    \/ \E p \in Phases : EnsurePipelineImages(p)
    \/ \E c \in Callers :
          \/ Reuses(c) \/ StartsBuild(c) \/ Joins(c)
          \/ CreatesPod(c) \/ CreateConflicts(c) \/ Adopts(c) \/ Replaces(c)
          \/ Recreates(c) \/ RecreateFails(c)
          \/ PollSucceeds(c) \/ PollFails(c) \/ Finishes(c)
    \/ \E i \in Images : PodStarts(i) \/ PodPushes(i) \/ PodEnds(i)
    \/ RepoMoves \/ Restart

Spec == Init /\ [][Next]_vars

-----------------------------------------------------------------------------
(* Properties.                                                             *)

\* One build per image (image-builder.ts:216-220): two callers are never both at work on
\* the pod of an image, and who joined a build waits on one that is under way.
SingleFlight ==
    /\ \A c, d \in Callers : pc[c] \in Building /\ pc[d] \in Building /\ cur[c] = cur[d] => c = d
    /\ \A c \in Callers : pc[c] = "joined" =>
          \E d \in Callers : pc[d] \in Building /\ cur[d] = cur[c]

\* Who is told that its image is there finds it in the registry, whoever built it and
\* whatever happened to the pod meanwhile.
ReadyIsPushed == \A c \in Callers : pc[c] = "ready" => cur[c] \in registry

\* Refuted: "the tag is the cache key" (image-builder.ts:8-9), but the build clones the
\* head of the branch when its pod starts, not the commit the key was computed from.
TagIsItsContent == \A i \in registry : baked[i] = i[2]

\* Refuted: a healthy build is not deleted before its time is up; a read of the pod that
\* fails is taken for a pod that is gone (image-builder.ts:281).
ConflictSparesHealthy ==
    [][\A c \in Callers : pc[c] = "conflict" /\ pc'[c] = "recreate" /\ pod[cur[c]] = "Running"
          => pod'[cur[c]] # "none"]_vars

-----------------------------------------------------------------------------
(* The inductive invariant (proved in FurtherProofs).                       *)

Flight ==
    /\ \A c, d \in Callers : pc[c] \in Building /\ pc[d] \in Building /\ cur[c] = cur[d] => c = d
    /\ \A c \in Callers : pc[c] \in Building \cup {"joined"} => cur[c] \in inflight
    /\ \A i \in inflight : \E c \in Callers : pc[c] \in Building /\ cur[c] = i

Pushed ==
    /\ \A i \in Images : pod[i] = "Succeeded" => i \in registry
    /\ \A c \in Callers : pc[c] \in {"clean-ok", "ready"} => cur[c] \in registry

IInv == TypeOK /\ Flight /\ Pushed
=============================================================================
