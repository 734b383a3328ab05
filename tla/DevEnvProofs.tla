----------------------------- MODULE DevEnvProofs -----------------------------
(***************************************************************************)
(* DevEnv keeps its types, and leaks no Deployment.                        *)
(*                                                                         *)
(* NoLeakedDeployment speaks of a quiet moment; what keeps it true until   *)
(* then is NoFault. While no call failed and nothing restarted, a          *)
(* Deployment is of a live row or still watched by the provisioning that   *)
(* made it, which removes it when it finds its row cancelled; and a stop   *)
(* past its first write keeps the row cancelled until that is seen.        *)
(*                                                                         *)
(* RowMoves, StopMoves, ProvMoves, DeploymentMoves and ListedMoves say what*)
(* any step may do to one row, one stop, one provisioning, the Deployment  *)
(* and one listed row. The lemmas that the invariant is kept rest on them  *)
(* alone.                                                                  *)
(***************************************************************************)
EXTENDS DevEnv, TLAPS

\* A stop in progress and a listed row are of a row that was live when it was read.
StopOK(x) == stop[x].pc # "idle" => stop[x].env \in Envs /\ stop[x].was \in Statuses \ {"stopped"}
ListedOK(e) == listed[e] # Unlisted => Exists(e) /\ listed[e].status \in Statuses \ {"stopped"}

\* The provisionings that can still create the Deployment, or have just done it.
Undeployed == {"image", "create", "wait"}

\* The stop has written "stopping", and not yet "stopped".
StopsIt(x, e) == stop[x].pc \in {"delete", "done"} /\ stop[x].env = e

NoFault ==
    /\ \A x \in Stoppers : stop[x].pc # "undo"
    /\ \A x \in Stoppers, e \in Envs : StopsIt(x, e) /\ prov[e] \in Undeployed => Cancelled(e)
    /\ \A x \in Stoppers, e \in Envs :
          stop[x].pc = "done" /\ stop[x].env = e /\ deployment = e => prov[e] \in {"wait", "cleanup"}
    /\ \A e \in Envs : deployment = e => prov[e] \in {"wait", "cleanup"} \/ Live(e)

-----------------------------------------------------------------------------
(* The parts of the type invariant.                                        *)

EnvRec == [status : Statuses \cup {"none"}, expired : BOOLEAN]
StopRec == [pc : {"idle", "mark", "delete", "done", "undo"}, env : Envs \cup {NoEnv},
            was : Statuses \cup {"none"}]

RestTyped ==
    /\ prov \in [Envs -> {"none", "image", "create", "wait", "cleanup", "boot", "probe", "ready",
                          "failing", "fail", "over"}]
    /\ starter \in [Starters -> {"idle", "replace", "insert"}]
    /\ listed \in [Envs -> EnvRec]
DeploymentTyped == deployment \in Envs \cup {NoEnv} /\ up \in BOOLEAN /\ (up => deployment # NoEnv)
CountsTyped == ops \in 0..MaxOps /\ faults \in 0..MaxFaults
StopsTyped == stop \in [Stoppers -> StopRec]
RowsTyped == env \in [Envs -> EnvRec]

Typed == RestTyped /\ DeploymentTyped /\ CountsTyped /\ StopsTyped /\ RowsTyped

\* Only a row that was inserted is provisioned, deployed or stopped.
AbsentOK(e) ==
    env[e].status = "none" => prov[e] = "none" /\ deployment # e /\ \A x \in Stoppers : stop[x].env # e

LEMMA TypeParts == TypeOK <=> Typed /\ \A e \in Envs : AbsentOK(e)
  BY DEF TypeOK, Typed, RestTyped, DeploymentTyped, CountsTyped, StopsTyped, RowsTyped, EnvRec,
     StopRec, AbsentOK

LEMMA Numbers == MaxOps \in Nat /\ MaxFaults \in Nat /\ Envs \subseteq Nat \ {0} /\ NoEnv \notin Envs
  BY BoundsNat DEF NoEnv

LEMMA RowTyped ==
    /\ \A st \in Statuses \cup {"none"}, ex \in BOOLEAN :
          Row(st, ex) \in EnvRec /\ Row(st, ex).status = st /\ Row(st, ex).expired = ex
    /\ Unlisted \in EnvRec /\ Unlisted.status = "none"
  BY DEF Row, EnvRec, Unlisted

LEMMA NoStopTyped == NoStop \in StopRec /\ NoStop.pc = "idle" /\ NoStop.env = NoEnv
  BY DEF NoStop, StopRec

-----------------------------------------------------------------------------
(* What one step does to one row, one stop and the Deployment.             *)

RowMoves(e) ==
    \/ env'[e].status = env[e].status
    \/ /\ env[e].status = "none" /\ env'[e].status = "starting" /\ prov'[e] = "image"
    \/ prov[e] \in {"ready", "fail"} /\ env'[e].status \in {"ready", "failed"}
    \/ /\ UNCHANGED <<prov, deployment>>
       /\ \/ listed[e] # Unlisted /\ ~Provisioning(e) /\ env'[e].status = "failed"
          \/ \E x \in Stoppers :
                /\ stop[x].env = e
                /\ \/ stop[x].pc = "mark" /\ env'[e].status = "stopping"
                   \/ stop[x].pc = "done" /\ env'[e].status = "stopped"
                   \/ stop[x].pc = "undo" /\ env'[e].status = stop[x].was

StopMoves(x) ==
    \/ stop'[x] = stop[x]
    \/ stop'[x] = NoStop
    \/ \E e \in Envs :
          /\ stop'[x].pc = "mark" /\ stop'[x].env = e
          /\ \/ Live(e) /\ stop'[x].was = env[e].status
             \/ listed[e] # Unlisted /\ stop'[x].was = listed[e].status
    \/ /\ stop'[x].env = stop[x].env /\ stop'[x].was = stop[x].was
       /\ \/ /\ stop[x].pc = "mark" /\ stop[x].was = "stopped"
          \/ /\ stop[x].pc = "mark" /\ stop'[x].pc = "delete"
             /\ \A e \in Envs : stop[x].env = e => env'[e].status = "stopping"
          \/ stop[x].pc = "delete" /\ stop'[x].pc = "done" /\ deployment' = NoEnv
          \/ stop[x].pc = "delete" /\ stop'[x].pc = "undo" /\ faults' = faults + 1

ProvMoves(e) ==
    \/ prov'[e] = prov[e]
    \/ prov'[e] = "image" /\ env[e].status = "none" /\ env'[e].status = "starting"
    \/ prov[e] = "image" /\ prov'[e] \in {"create", "over"}
    \/ prov[e] = "create" /\ prov'[e] \in {"wait", "failing"}
    \/ prov[e] = "wait" /\ prov'[e] = "cleanup"
    \/ prov[e] = "wait" /\ ~Cancelled(e) /\ prov'[e] \in {"boot", "failing"} /\ env' = env
    \/ prov[e] = "cleanup" /\ prov'[e] = "over" /\ (deployment' = NoEnv \/ faults' = faults + 1)
    \/ /\ prov[e] \in {"boot", "probe", "ready", "failing", "fail"}
       /\ prov'[e] \in {"probe", "ready", "failing", "fail", "over"}
    \/ prov'[e] = "over" /\ Provisioning(e) /\ faults' = faults + 1

DeploymentMoves ==
    \/ deployment' \in {deployment, NoEnv}
    \/ \E e \in Envs : prov[e] = "create" /\ prov'[e] = "wait" /\ deployment' = e

LEMMA RowSteps ==
    ASSUME Typed, [Next]_vars, NEW e \in Envs
    PROVE  RowMoves(e)
<1> USE RowTyped DEF Typed, RestTyped, StopsTyped, RowsTyped, RowMoves
<1>1. ASSUME NEW s \in Starters, ReadsLive(s) PROVE RowMoves(e)
  BY <1>1 DEF ReadsLive
<1>2. ASSUME NEW s \in Starters, InsertsEnv(s) PROVE RowMoves(e)
  <2>1. PICK f \in Envs :
          /\ env[f].status = "none"
          /\ env' = [env EXCEPT ![f] = Row("starting", FALSE)]
          /\ prov' = [prov EXCEPT ![f] = "image"]
    BY <1>2 DEF InsertsEnv, Exists
  <2>2. deployment' = deployment
    BY <1>2 DEF InsertsEnv
  <2>3. CASE f = e
    <3>1. env'[e].status = "starting"
      BY <2>1, <2>3 DEF Statuses
    <3>2. prov'[e] = "image"
      BY <2>1, <2>3
    <3> QED BY <2>1, <2>2, <2>3, <3>1, <3>2
  <2>4. CASE f # e
    BY <2>1, <2>2, <2>4
  <2> QED BY <2>3, <2>4
<1>3. ASSUME NEW f \in Envs, ResolvesImage(f) \/ Deploys(f) \/ PollsPod(f) \/ CleansUp(f)
                             \/ Boots(f) \/ Probes(f) \/ Fails(f)
      PROVE  RowMoves(e)
  BY <1>3 DEF ResolvesImage, Deploys, PollsPod, CleansUp, Boots, Probes, Fails
<1>4. ASSUME NEW f \in Envs, MarksReady(f) \/ MarksFailed(f) PROVE RowMoves(e)
  <2>1. PICK st \in {"ready", "failed"} : env' = [env EXCEPT ![f].status = st]
    BY <1>4 DEF MarksReady, MarksFailed, SetStatus
  <2>2. prov[f] \in {"ready", "fail"} /\ deployment' = deployment
    BY <1>4 DEF MarksReady, MarksFailed
  <2> QED BY <2>1, <2>2 DEF EnvRec
<1>5. CASE PodRuns \/ UserStops \/ Lists \/ Restarts \/ UNCHANGED vars
  BY <1>5 DEF PodRuns, UserStops, Lists, Restarts, vars
<1>6. CASE Extends
  BY <1>6 DEF Extends, EnvRec
<1>7. ASSUME NEW f \in Envs, Visits(f) PROVE RowMoves(e)
  BY <1>7 DEF Visits, SetStatus, EnvRec
<1>8. ASSUME NEW f \in Envs, Expires(f) PROVE RowMoves(e)
  BY <1>8 DEF Expires, EnvRec
<1>9. ASSUME NEW x \in Stoppers, MarksStopping(x) PROVE RowMoves(e)
  BY <1>9 DEF MarksStopping, SetStatus, EnvRec
<1>10. ASSUME NEW x \in Stoppers, DeletesDeployment(x) PROVE RowMoves(e)
  BY <1>10 DEF DeletesDeployment
<1>11. ASSUME NEW x \in Stoppers, MarksStopped(x) \/ UndoesStop(x) PROVE RowMoves(e)
  BY <1>11 DEF MarksStopped, UndoesStop, SetStatus, EnvRec
<1> QED
  BY <1>1, <1>2, <1>3, <1>4, <1>5, <1>6, <1>7, <1>8, <1>9, <1>10, <1>11
  DEF Next, Starts, Provisions, Stops

LEMMA StopSteps ==
    ASSUME Typed, [Next]_vars, NEW x \in Stoppers
    PROVE  StopMoves(x)
<1> USE DEF Typed, RestTyped, StopsTyped, RowsTyped, StopMoves
<1>1. ASSUME NEW s \in Starters, ReadsLive(s) PROVE StopMoves(x)
  BY <1>1 DEF ReadsLive, BeginStop, Newest, Live
<1>2. ASSUME NEW s \in Starters, InsertsEnv(s) PROVE StopMoves(x)
  BY <1>2 DEF InsertsEnv
<1>3. ASSUME NEW f \in Envs, Provisions(f) \/ Expires(f) PROVE StopMoves(x)
  BY <1>3 DEF Provisions, ResolvesImage, Deploys, PollsPod, CleansUp, Boots, Probes, Fails, MarksReady,
              MarksFailed, Expires
<1>4. CASE PodRuns \/ Lists \/ Restarts \/ Extends \/ UNCHANGED vars
  BY <1>4 DEF PodRuns, Lists, Restarts, Extends, vars
<1>5. CASE UserStops
  BY <1>5 DEF UserStops, BeginStop, Newest
<1>6. ASSUME NEW f \in Envs, Visits(f) PROVE StopMoves(x)
  BY <1>6 DEF Visits, BeginStop
<1>7. ASSUME NEW y \in Stoppers, MarksStopping(y) PROVE StopMoves(x)
  BY <1>7 DEF MarksStopping, SetStatus, StopRec, EnvRec
<1>8. ASSUME NEW y \in Stoppers, DeletesDeployment(y) PROVE StopMoves(x)
  BY <1>8 DEF DeletesDeployment, Fault, StopRec
<1>9. ASSUME NEW y \in Stoppers, MarksStopped(y) \/ UndoesStop(y) PROVE StopMoves(x)
  BY <1>9 DEF MarksStopped, UndoesStop
<1> QED
  BY <1>1, <1>2, <1>3, <1>4, <1>5, <1>6, <1>7, <1>8, <1>9 DEF Next, Starts, Stops

LEMMA ProvSteps ==
    ASSUME Typed, [Next]_vars, NEW e \in Envs
    PROVE  ProvMoves(e) /\ DeploymentMoves
<1> USE RowTyped DEF Typed, RestTyped, StopsTyped, RowsTyped, ProvMoves, DeploymentMoves
<1> DEFINE P == ProvMoves(e) /\ DeploymentMoves
<1>1. ASSUME NEW s \in Starters, ReadsLive(s) PROVE P
  BY <1>1 DEF ReadsLive
<1>2. ASSUME NEW s \in Starters, InsertsEnv(s) PROVE P
  <2>1. PICK f \in Envs :
          /\ env[f].status = "none"
          /\ env' = [env EXCEPT ![f] = Row("starting", FALSE)]
          /\ prov' = [prov EXCEPT ![f] = "image"]
    BY <1>2 DEF InsertsEnv, Exists
  <2>2. deployment' = deployment
    BY <1>2 DEF InsertsEnv
  <2>3. CASE f = e
    <3>1. env'[e].status = "starting"
      BY <2>1, <2>3 DEF Statuses
    <3>2. prov'[e] = "image"
      BY <2>1, <2>3
    <3> QED BY <2>1, <2>2, <2>3, <3>1, <3>2
  <2>4. CASE f # e
    BY <2>1, <2>2, <2>4
  <2> QED BY <2>3, <2>4
<1>3. ASSUME NEW f \in Envs, ResolvesImage(f) \/ PollsPod(f) \/ Boots(f) \/ Probes(f) \/ Fails(f)
                             \/ MarksReady(f) \/ MarksFailed(f)
      PROVE  P
  BY <1>3 DEF ResolvesImage, PollsPod, Boots, Probes, Fails, MarksReady, MarksFailed, Goes
<1>4. ASSUME NEW f \in Envs, Deploys(f) \/ CleansUp(f) PROVE P
  BY <1>4 DEF Deploys, CleansUp, Goes, Fault
<1>5. CASE PodRuns \/ UserStops \/ Lists \/ Extends \/ UNCHANGED vars
  BY <1>5 DEF PodRuns, UserStops, Lists, Extends, vars
<1>6. CASE Restarts
  BY <1>6 DEF Restarts, Fault
<1>7. ASSUME NEW f \in Envs, Visits(f) \/ Expires(f) PROVE P
  BY <1>7 DEF Visits, Expires
<1>8. ASSUME NEW x \in Stoppers, Stops(x) PROVE P
  BY <1>8 DEF Stops, MarksStopping, DeletesDeployment, MarksStopped, UndoesStop
<1> QED
  BY <1>1, <1>2, <1>3, <1>4, <1>5, <1>6, <1>7, <1>8 DEF Next, Starts, Provisions

-----------------------------------------------------------------------------
(* Type correctness.                                                       *)

LEMMA TypeInit == Init => Typed /\ \A e \in Envs : AbsentOK(e)
<1> SUFFICES ASSUME Init PROVE Typed /\ \A e \in Envs : AbsentOK(e)
  OBVIOUS
<1>1. RestTyped /\ RowsTyped
  BY RowTyped DEF Init, RestTyped, RowsTyped
<1>2. StopsTyped
  BY NoStopTyped DEF Init, StopsTyped
<1>3. DeploymentTyped
  BY DEF Init, DeploymentTyped
<1>4. CountsTyped
  BY Numbers DEF Init, CountsTyped
<1>5. \A e \in Envs : AbsentOK(e)
  BY NoStopTyped, Numbers DEF Init, AbsentOK
<1> QED BY <1>1, <1>2, <1>3, <1>4, <1>5 DEF Typed

LEMMA RowsStep ==
    ASSUME Typed, \A x \in Stoppers : StopOK(x), [Next]_vars
    PROVE  RowsTyped'
<1> USE RowTyped DEF Typed, RestTyped, StopsTyped, RowsTyped
<1>0. ASSUME NEW e \in Envs, NEW st \in Statuses, SetStatus(e, st) PROVE RowsTyped'
  BY <1>0 DEF SetStatus, EnvRec
<1>1. ASSUME NEW s \in Starters, InsertsEnv(s) PROVE RowsTyped'
  <2>1. PICK f \in Envs : env' = [env EXCEPT ![f] = Row("starting", FALSE)]
    BY <1>1 DEF InsertsEnv
  <2> QED BY <2>1 DEF Statuses
<1>2. ASSUME NEW f \in Envs, MarksReady(f) \/ MarksFailed(f) PROVE RowsTyped'
  BY <1>0, <1>2 DEF MarksReady, MarksFailed, Statuses
<1>3. ASSUME NEW f \in Envs, Visits(f) PROVE RowsTyped'
  BY <1>0, <1>3 DEF Visits, Statuses
<1>4. ASSUME NEW x \in Stoppers, MarksStopping(x) \/ MarksStopped(x) PROVE RowsTyped'
  BY <1>0, <1>4 DEF MarksStopping, MarksStopped, Statuses, StopOK
<1>5. ASSUME NEW x \in Stoppers, UndoesStop(x) PROVE RowsTyped'
  BY <1>0, <1>5 DEF UndoesStop, StopOK
<1>6. ASSUME NEW e \in Envs, NEW b \in BOOLEAN, env' = [env EXCEPT ![e].expired = b]
      PROVE  RowsTyped'
  <2> DEFINE r == [env[e] EXCEPT !.expired = b]
  <2>1. r \in EnvRec
    BY DEF EnvRec
  <2>2. env' = [env EXCEPT ![e] = r]
    BY <1>6
  <2> HIDE DEF r
  <2> QED BY <2>1, <2>2
<1>7. CASE Extends
  BY <1>6, <1>7 DEF Extends
<1>71. ASSUME NEW f \in Envs, Expires(f) PROVE RowsTyped'
  BY <1>6, <1>71 DEF Expires
<1>8. CASE PodRuns \/ UserStops \/ Lists \/ Restarts \/ UNCHANGED vars
  BY <1>8 DEF PodRuns, UserStops, Lists, Restarts, vars
<1>9. ASSUME NEW f \in Envs, ResolvesImage(f) \/ Deploys(f) \/ PollsPod(f) \/ CleansUp(f)
                             \/ Boots(f) \/ Probes(f) \/ Fails(f)
      PROVE  RowsTyped'
  BY <1>9 DEF ResolvesImage, Deploys, PollsPod, CleansUp, Boots, Probes, Fails
<1>10. ASSUME NEW s \in Starters, ReadsLive(s) PROVE RowsTyped'
  BY <1>10 DEF ReadsLive
<1>11. ASSUME NEW x \in Stoppers, DeletesDeployment(x) PROVE RowsTyped'
  BY <1>11 DEF DeletesDeployment
<1> QED
  BY <1>1, <1>2, <1>3, <1>4, <1>5, <1>7, <1>71, <1>8, <1>9, <1>10, <1>11
  DEF Next, Starts, Provisions, Stops

LEMMA StopsStep ==
    ASSUME Typed, [Next]_vars
    PROVE  StopsTyped'
<1> USE NoStopTyped DEF Typed, RestTyped, StopsTyped, RowsTyped
<1>0. ASSUME NEW x \in Stoppers, NEW e \in Envs, NEW was \in Statuses \cup {"none"}, BeginStop(x, e, was)
      PROVE  StopsTyped'
  BY <1>0 DEF BeginStop, StopRec
<1>1. ASSUME NEW s \in Starters, ReadsLive(s) PROVE StopsTyped'
  <2>1. s \in Stoppers
    BY DEF Stoppers
  <2> QED BY <1>0, <1>1, <2>1 DEF ReadsLive, Statuses
<1>2. CASE UserStops
  BY <1>0, <1>2 DEF UserStops, Stoppers, EnvRec
<1>3. ASSUME NEW f \in Envs, Visits(f) PROVE StopsTyped'
  BY <1>0, <1>3 DEF Visits, Stoppers, EnvRec
<1>41. ASSUME NEW x \in Stoppers, NEW p \in {"delete", "done", "undo"}, stop' = [stop EXCEPT ![x].pc = p]
       PROVE  StopsTyped'
  <2> DEFINE r == [stop[x] EXCEPT !.pc = p]
  <2>1. r \in StopRec
    BY DEF StopRec
  <2>2. stop' = [stop EXCEPT ![x] = r]
    BY <1>41
  <2> HIDE DEF r
  <2> QED BY <2>1, <2>2
<1>4. ASSUME NEW x \in Stoppers, MarksStopping(x) PROVE StopsTyped'
  BY <1>4, <1>41 DEF MarksStopping
<1>5. ASSUME NEW x \in Stoppers, DeletesDeployment(x) PROVE StopsTyped'
  BY <1>5, <1>41 DEF DeletesDeployment
<1>6. ASSUME NEW x \in Stoppers, MarksStopped(x) \/ UndoesStop(x) PROVE StopsTyped'
  BY <1>6 DEF MarksStopped, UndoesStop
<1>7. CASE Restarts
  BY <1>7 DEF Restarts
<1>8. CASE PodRuns \/ Extends \/ Lists \/ UNCHANGED vars
  BY <1>8 DEF PodRuns, Extends, Lists, vars
<1>9. ASSUME NEW f \in Envs, Provisions(f) \/ Expires(f) PROVE StopsTyped'
  BY <1>9 DEF Provisions, ResolvesImage, Deploys, PollsPod, CleansUp, Boots, Probes, Fails, MarksReady,
              MarksFailed, Expires
<1>10. ASSUME NEW s \in Starters, InsertsEnv(s) PROVE StopsTyped'
  BY <1>10 DEF InsertsEnv
<1> QED
  BY <1>1, <1>2, <1>3, <1>4, <1>5, <1>6, <1>7, <1>8, <1>9, <1>10 DEF Next, Starts, Stops

LEMMA RestStep ==
    ASSUME Typed, [Next]_vars
    PROVE  RestTyped'
<1> USE RowTyped DEF Typed, RestTyped, RowsTyped
<1>1. ASSUME NEW s \in Starters, ReadsLive(s) \/ InsertsEnv(s) PROVE RestTyped'
  BY <1>1 DEF ReadsLive, InsertsEnv
<1>2. ASSUME NEW f \in Envs, ResolvesImage(f) \/ PollsPod(f) \/ Boots(f) \/ Probes(f) \/ Fails(f)
                             \/ MarksReady(f) \/ MarksFailed(f) \/ Deploys(f) \/ CleansUp(f)
      PROVE  RestTyped'
  BY <1>2 DEF ResolvesImage, PollsPod, Boots, Probes, Fails, MarksReady, MarksFailed, Deploys, CleansUp, Goes
<1>4. CASE PodRuns \/ UserStops \/ Extends \/ UNCHANGED vars
  BY <1>4 DEF PodRuns, UserStops, Extends, vars
<1>5. CASE Lists
  BY <1>5 DEF Lists
<1>6. CASE Restarts
  BY <1>6 DEF Restarts
<1>7. ASSUME NEW f \in Envs, Visits(f) \/ Expires(f) PROVE RestTyped'
  BY <1>7 DEF Visits, Expires
<1>8. ASSUME NEW x \in Stoppers, MarksStopping(x) \/ MarksStopped(x) \/ UndoesStop(x) \/ DeletesDeployment(x)
      PROVE  RestTyped'
  BY <1>8 DEF MarksStopping, MarksStopped, UndoesStop, DeletesDeployment, Returns
<1> QED
  BY <1>1, <1>2, <1>4, <1>5, <1>6, <1>7, <1>8 DEF Next, Starts, Provisions, Stops

\* The Deployment as a step may leave it: as it was, gone, or replaced, its pod not up.
LEMMA DeploymentStep ==
    ASSUME Typed, [Next]_vars
    PROVE  DeploymentTyped'
<1> DEFINE Same == deployment' = deployment /\ up' = up
           Gone == deployment' = NoEnv /\ ~up' /\ up' \in BOOLEAN
           Replaced == deployment' \in Envs /\ ~up' /\ up' \in BOOLEAN
<1>1. ASSUME NEW s \in Starters, Starts(s) PROVE Same
  BY <1>1 DEF Starts, ReadsLive, InsertsEnv
<1>2. ASSUME NEW f \in Envs, Visits(f) \/ Expires(f) PROVE Same
  BY <1>2 DEF Visits, Expires
<1>3. ASSUME NEW f \in Envs, ResolvesImage(f) \/ PollsPod(f) \/ Boots(f) \/ Probes(f) \/ Fails(f)
                             \/ MarksReady(f) \/ MarksFailed(f)
      PROVE  Same
  BY <1>3 DEF ResolvesImage, PollsPod, Boots, Probes, Fails, MarksReady, MarksFailed
<1>4. ASSUME NEW f \in Envs, Deploys(f) PROVE Same \/ Replaced
  <2>1. CASE deployment' = f /\ up' = FALSE
    BY <2>1
  <2>2. CASE Same
    BY <2>2
  <2> QED BY <1>4, <2>1, <2>2 DEF Deploys
<1>5. ASSUME NEW f \in Envs, CleansUp(f) PROVE Same \/ Gone
  <2>1. CASE deployment' = NoEnv /\ up' = FALSE
    BY <2>1
  <2>2. CASE Same
    BY <2>2
  <2> QED BY <1>5, <2>1, <2>2 DEF CleansUp
<1>6. ASSUME NEW x \in Stoppers, DeletesDeployment(x) PROVE Same \/ Gone
  <2>1. CASE deployment' = NoEnv /\ up' = FALSE
    BY <2>1
  <2>2. CASE Same
    BY <2>2
  <2> QED BY <1>6, <2>1, <2>2 DEF DeletesDeployment
<1>7. ASSUME NEW x \in Stoppers, MarksStopping(x) \/ MarksStopped(x) \/ UndoesStop(x) PROVE Same
  BY <1>7 DEF MarksStopping, MarksStopped, UndoesStop
<1>8. ASSUME UserStops \/ Extends \/ Lists \/ Restarts \/ UNCHANGED vars PROVE Same
  BY <1>8 DEF UserStops, Extends, Lists, Restarts, vars
<1>9. deployment \in Envs \cup {NoEnv} /\ up \in BOOLEAN /\ (up => deployment # NoEnv)
  BY DEF Typed, DeploymentTyped
<1>10. CASE PodRuns
  BY <1>9, <1>10 DEF PodRuns, DeploymentTyped
<1>11. CASE Same
  BY <1>9, <1>11 DEF DeploymentTyped
<1>12. CASE Gone \/ Replaced
  BY <1>12 DEF DeploymentTyped
<1> HIDE DEF Same, Gone, Replaced
<1> QED
  BY <1>1, <1>2, <1>3, <1>4, <1>5, <1>6, <1>7, <1>8, <1>10, <1>11, <1>12
  DEF Next, Starts, Provisions, Stops

LEMMA CountsStep ==
    ASSUME Typed, [Next]_vars
    PROVE  CountsTyped'
<1> DEFINE Kept == ops' = ops /\ faults' = faults
           Failed == Fault /\ ops' = ops
           Operated == Op /\ faults' = faults
<1>1. ASSUME NEW s \in Starters, Starts(s) PROVE Kept
  BY <1>1 DEF Starts, ReadsLive, InsertsEnv
<1>2. ASSUME NEW f \in Envs, Visits(f) \/ Expires(f) PROVE Kept
  BY <1>2 DEF Visits, Expires
<1>3. ASSUME NEW f \in Envs, Provisions(f) PROVE Kept \/ Failed
  BY <1>3 DEF Provisions, ResolvesImage, PollsPod, Boots, Probes, Fails, MarksReady, MarksFailed, Deploys,
              CleansUp
<1>4. ASSUME NEW x \in Stoppers, Stops(x) PROVE Kept \/ Failed
  BY <1>4 DEF Stops, MarksStopping, MarksStopped, UndoesStop, DeletesDeployment
<1>5. CASE PodRuns \/ Lists \/ UNCHANGED vars
  <2>1. Kept
    BY <1>5 DEF PodRuns, Lists, vars
  <2> QED BY <2>1 DEF Typed, CountsTyped
<1>6. CASE UserStops \/ Extends
  <2>1. Operated
    BY <1>6 DEF UserStops, Extends
  <2> QED BY <2>1, Numbers DEF Op, Typed, CountsTyped
<1>7. CASE Restarts
  BY <1>7, Numbers DEF Restarts, Fault, Typed, CountsTyped
<1>8. ASSUME Kept \/ Failed PROVE CountsTyped'
  BY <1>8, Numbers DEF Fault, Typed, CountsTyped
<1> HIDE DEF Kept, Failed, Operated
<1> QED BY <1>1, <1>2, <1>3, <1>4, <1>5, <1>6, <1>7, <1>8 DEF Next

LEMMA FaultsGrow ==
    ASSUME Typed, [Next]_vars
    PROVE  faults' \in {faults, faults + 1} /\ faults \in Nat
<1> USE Numbers DEF Typed, CountsTyped
<1>1. ASSUME NEW s \in Starters, Starts(s) PROVE faults' = faults
  BY <1>1 DEF Starts, ReadsLive, InsertsEnv
<1>2. ASSUME NEW f \in Envs, Provisions(f) \/ Visits(f) \/ Expires(f) PROVE faults' \in {faults, faults + 1}
  BY <1>2 DEF Provisions, ResolvesImage, Deploys, PollsPod, CleansUp, Boots, Probes, Fails, MarksReady,
              MarksFailed, Visits, Expires, Fault
<1>3. ASSUME NEW x \in Stoppers, Stops(x) PROVE faults' \in {faults, faults + 1}
  BY <1>3 DEF Stops, MarksStopping, DeletesDeployment, MarksStopped, UndoesStop, Fault
<1>4. CASE PodRuns \/ UserStops \/ Extends \/ Lists \/ Restarts \/ UNCHANGED vars
  BY <1>4 DEF PodRuns, UserStops, Extends, Lists, Restarts, Fault, vars
<1> QED BY <1>1, <1>2, <1>3, <1>4 DEF Next

LEMMA ListedMoves ==
    ASSUME Typed, [Next]_vars, NEW e \in Envs
    PROVE  \/ listed'[e] \in {listed[e], Unlisted}
           \/ listed'[e] = env[e] /\ Live(e) /\ env' = env
<1> USE DEF Typed, RestTyped
<1> DEFINE Still == listed'[e] \in {listed[e], Unlisted}
<1>1. ASSUME NEW s \in Starters, Starts(s) PROVE Still
  BY <1>1 DEF Starts, ReadsLive, InsertsEnv
<1>2. ASSUME NEW f \in Envs, Provisions(f) \/ Expires(f) PROVE Still
  BY <1>2 DEF Provisions, ResolvesImage, Deploys, PollsPod, CleansUp, Boots, Probes, Fails, MarksReady,
              MarksFailed, Expires
<1>3. ASSUME NEW f \in Envs, Visits(f) PROVE Still
  BY <1>3 DEF Visits
<1>4. ASSUME NEW x \in Stoppers, Stops(x) PROVE Still
  BY <1>4 DEF Stops, MarksStopping, DeletesDeployment, MarksStopped, UndoesStop
<1>5. CASE PodRuns \/ UserStops \/ Extends \/ Restarts \/ UNCHANGED vars
  BY <1>5 DEF PodRuns, UserStops, Extends, Restarts, vars
<1>6. CASE Lists
  BY <1>6 DEF Lists, Due, GetLiveDevEnvs
<1> QED BY <1>1, <1>2, <1>3, <1>4, <1>5, <1>6 DEF Next

\* The rows, the stops and the listing of a state: what the step lemmas rest on.
Rows == /\ Typed
        /\ \A e \in Envs : AbsentOK(e)
        /\ \A x \in Stoppers : StopOK(x)
        /\ \A e \in Envs : ListedOK(e)

\* A row that is there stays there.
LEMMA RowStays ==
    ASSUME Rows, [Next]_vars, NEW e \in Envs, Exists(e)
    PROVE  Exists(e)'
<1>1. RowMoves(e)
  BY RowSteps DEF Rows
<1>2. ASSUME NEW x \in Stoppers, stop[x].pc = "undo" PROVE stop[x].was # "none"
  BY <1>2 DEF Rows, StopOK, Statuses
<1> QED BY <1>1, <1>2 DEF RowMoves, Exists

LEMMA AbsentStep ==
    ASSUME Rows, [Next]_vars, NEW e \in Envs
    PROVE  AbsentOK(e)'
<1> SUFFICES ASSUME env'[e].status = "none"
             PROVE  prov'[e] = "none" /\ deployment' # e /\ \A x \in Stoppers : stop'[x].env # e
  BY DEF AbsentOK
<1>1. env[e].status = "none"
  BY RowStays DEF Exists
<1>2. prov[e] = "none" /\ deployment # e /\ \A x \in Stoppers : stop[x].env # e
  BY <1>1 DEF Rows, AbsentOK
<1>3. ProvMoves(e) /\ DeploymentMoves
  BY ProvSteps DEF Rows
<1>4. prov'[e] = "none"
  BY <1>2, <1>3 DEF ProvMoves, Provisioning
<1>5. deployment' # e
  BY <1>2, <1>3, Numbers DEF DeploymentMoves
<1>6. ASSUME NEW x \in Stoppers PROVE stop'[x].env # e
  <2>1. StopMoves(x)
    BY StopSteps DEF Rows
  <2>2. ASSUME NEW f \in Envs, Live(f) \/ listed[f] # Unlisted PROVE f # e
    BY <1>1, <2>2 DEF Rows, ListedOK, Exists, Live
  <2> QED BY <1>2, <2>1, <2>2, NoStopTyped, Numbers DEF StopMoves
<1> QED BY <1>4, <1>5, <1>6

LEMMA StopOKStep ==
    ASSUME Rows, [Next]_vars, NEW x \in Stoppers
    PROVE  StopOK(x)'
<1> SUFFICES ASSUME stop'[x].pc # "idle"
             PROVE  stop'[x].env \in Envs /\ stop'[x].was \in Statuses \ {"stopped"}
  BY DEF StopOK
<1>1. StopMoves(x)
  BY StopSteps DEF Rows
<1>2. stop[x].pc # "idle" => stop[x].env \in Envs /\ stop[x].was \in Statuses \ {"stopped"}
  BY DEF Rows, StopOK
<1>3. ASSUME NEW e \in Envs, Live(e) PROVE env[e].status \in Statuses \ {"stopped"}
  BY <1>3 DEF Rows, Typed, RowsTyped, EnvRec, Live
<1>4. ASSUME NEW e \in Envs, listed[e] # Unlisted PROVE listed[e].status \in Statuses \ {"stopped"}
  BY <1>4 DEF Rows, ListedOK
<1> QED BY <1>1, <1>2, <1>3, <1>4, NoStopTyped DEF StopMoves

LEMMA ListedOKStep ==
    ASSUME Rows, [Next]_vars, NEW e \in Envs
    PROVE  ListedOK(e)'
<1> SUFFICES ASSUME listed'[e] # Unlisted
             PROVE  Exists(e)' /\ listed'[e].status \in Statuses \ {"stopped"}
  BY DEF ListedOK, Unlisted, Row
<1>1. CASE listed'[e] = listed[e]
  BY <1>1, RowStays DEF Rows, ListedOK
<1>2. CASE listed'[e] = env[e] /\ Live(e) /\ env' = env
  BY <1>2 DEF Rows, Typed, RowsTyped, EnvRec, Live, Exists
<1> QED BY <1>1, <1>2, ListedMoves DEF Rows

LEMMA RowsInit == Init => Rows
<1> SUFFICES ASSUME Init PROVE Rows
  OBVIOUS
<1>1. \A x \in Stoppers : StopOK(x)
  BY NoStopTyped DEF Init, StopOK
<1>2. \A e \in Envs : ListedOK(e)
  BY DEF Init, ListedOK, Unlisted
<1> QED BY <1>1, <1>2, TypeInit DEF Rows

LEMMA RowsInv ==
    ASSUME Rows, [Next]_vars
    PROVE  Rows'
<1>1. Typed' 
  BY RestStep, DeploymentStep, CountsStep, StopsStep, RowsStep DEF Rows, Typed
<1>2. \A e \in Envs : AbsentOK(e)'
  BY AbsentStep
<1>3. \A x \in Stoppers : StopOK(x)'
  BY StopOKStep
<1>4. \A e \in Envs : ListedOK(e)'
  BY ListedOKStep
<1> QED BY <1>1, <1>2, <1>3, <1>4 DEF Rows, Stoppers

-----------------------------------------------------------------------------
(* No Deployment without a row.                                            *)

LEMMA NoFaultInit == Init => NoFault
  BY NoStopTyped, Numbers DEF Init, NoFault, StopsIt

\* Without a fault a stop comes to its end, and one that marks its row has not done it before.
LEMMA StopsForward ==
    ASSUME Rows, NoFault, [Next]_vars, faults' = faults, NEW x \in Stoppers
    PROVE  \/ stop'[x] = stop[x]
           \/ stop'[x].pc \in {"idle", "mark"}
           \/ /\ stop[x].pc = "mark" /\ stop'[x].pc = "delete" /\ stop'[x].env = stop[x].env
              /\ \A e \in Envs : stop[x].env = e => env'[e].status = "stopping"
           \/ /\ stop[x].pc = "delete" /\ stop'[x].pc = "done" /\ stop'[x].env = stop[x].env
              /\ deployment' = NoEnv
<1>1. StopMoves(x)
  BY StopSteps DEF Rows
<1>2. stop[x].pc # "idle" => stop[x].was # "stopped"
  BY DEF Rows, StopOK
<1>3. faults' # faults + 1
  BY FaultsGrow DEF Rows
<1> QED BY <1>1, <1>2, <1>3, NoStopTyped DEF StopMoves

\* A stop that has marked its row, before and after a step.
LEMMA StopsItStep ==
    ASSUME Rows, NoFault, [Next]_vars, faults' = faults, NEW x \in Stoppers, NEW e \in Envs, StopsIt(x, e)'
    PROVE  StopsIt(x, e) \/ (env'[e].status = "stopping" /\ stop[x].env = e)
  BY StopsForward DEF StopsIt

LEMMA CancelledStays ==
    ASSUME Rows, NoFault, [Next]_vars, NEW e \in Envs, Cancelled(e), prov[e] \in Undeployed
    PROVE  Cancelled(e)'
<1>1. RowMoves(e)
  BY RowSteps DEF Rows
<1>2. \A x \in Stoppers : stop[x].pc # "undo"
  BY DEF NoFault
<1>3. Provisioning(e)
  BY DEF Undeployed, Provisioning
<1> QED BY <1>1, <1>2, <1>3 DEF RowMoves, Cancelled, Undeployed

LEMMA NoFaultStep ==
    ASSUME Rows, NoFault, [Next]_vars, faults' = faults
    PROVE  NoFault'
<1>0. faults' # faults + 1
  BY FaultsGrow DEF Rows
<1>1. ASSUME NEW x \in Stoppers PROVE stop'[x].pc # "undo"
  BY StopsForward DEF NoFault
<1>2. ASSUME NEW x \in Stoppers, NEW e \in Envs, StopsIt(x, e)', prov'[e] \in Undeployed
      PROVE  Cancelled(e)'
  <2>1. CASE env'[e].status = "stopping"
    BY <2>1 DEF Cancelled
  <2>2. CASE StopsIt(x, e)
    <3>1. ProvMoves(e)
      BY ProvSteps DEF Rows
    <3>2. env[e].status # "none"
      BY <2>2 DEF Rows, AbsentOK, StopsIt
    <3>3. prov[e] \in Undeployed
      BY <1>2, <3>1, <3>2 DEF ProvMoves, Undeployed
    <3>4. Cancelled(e)
      BY <2>2, <3>3 DEF NoFault
    <3> QED BY <3>3, <3>4, CancelledStays
  <2> QED BY <1>2, <2>1, <2>2, StopsItStep
<1>3. ASSUME NEW x \in Stoppers, NEW e \in Envs, stop'[x].pc = "done", stop'[x].env = e, deployment' = e
      PROVE  prov'[e] \in {"wait", "cleanup"}
  <2>1. stop[x].pc = "done" /\ stop[x].env = e
    BY <1>3, StopsForward, Numbers
  <2>2. ProvMoves(e) /\ DeploymentMoves
    BY ProvSteps DEF Rows
  <2>3. CASE deployment = e
    <3>1. prov[e] \in {"wait", "cleanup"}
      BY <2>1, <2>3 DEF NoFault
    <3>2. prov[e] = "wait" => Cancelled(e)
      BY <2>1 DEF NoFault, StopsIt, Undeployed
    <3>3. deployment' # NoEnv /\ env[e].status # "none"
      BY <1>3, <2>3, Numbers DEF Rows, AbsentOK
    <3>4. CASE prov[e] = "wait"
      BY <1>0, <2>2, <3>2, <3>3, <3>4 DEF ProvMoves
    <3>5. CASE prov[e] = "cleanup"
      BY <1>0, <2>2, <3>3, <3>5 DEF ProvMoves
    <3> QED BY <3>1, <3>4, <3>5
  <2>4. CASE deployment # e
    BY <1>3, <2>2, <2>4, Numbers DEF DeploymentMoves
  <2> QED BY <2>3, <2>4
<1>4. ASSUME NEW e \in Envs, deployment' = e PROVE prov'[e] \in {"wait", "cleanup"} \/ Live(e)'
  <2>1. ProvMoves(e) /\ DeploymentMoves /\ RowMoves(e)
    BY ProvSteps, RowSteps DEF Rows
  <2>2. CASE deployment # e
    BY <1>4, <2>1, <2>2, Numbers DEF DeploymentMoves
  <2>3. CASE deployment = e
    <3>1. env[e].status # "none"
      BY <2>3 DEF Rows, AbsentOK
    <3>2. CASE prov[e] \in {"wait", "cleanup"}
      BY <1>0, <1>4, <2>1, <3>1, <3>2, Numbers DEF ProvMoves, Cancelled, Live
    <3>3. CASE Live(e)
      <4>1. ASSUME NEW x \in Stoppers, stop[x].pc = "done", stop[x].env = e
            PROVE  prov[e] \in {"wait", "cleanup"}
        BY <2>3, <4>1 DEF NoFault
      <4>2. \A x \in Stoppers : stop[x].pc # "undo"
        BY DEF NoFault
      <4> QED BY <2>1, <3>1, <3>2, <3>3, <4>1, <4>2 DEF RowMoves, Live
    <3> QED BY <2>3, <3>2, <3>3 DEF NoFault
  <2> QED BY <2>2, <2>3
<1> QED BY <1>1, <1>2, <1>3, <1>4 DEF NoFault, Stoppers

-----------------------------------------------------------------------------
(* The invariant and the theorems.                                         *)

Inv == Rows /\ (faults = 0 => NoFault)

LEMMA InvInit == Init => Inv
  BY RowsInit, NoFaultInit DEF Inv

LEMMA InvStep == Inv /\ [Next]_vars => Inv'
<1> SUFFICES ASSUME Inv, [Next]_vars PROVE Inv'
  OBVIOUS
<1>1. Rows /\ Rows'
  BY RowsInv DEF Inv
<1>2. ASSUME faults' = 0 PROVE faults = 0 /\ faults' = faults
  BY <1>1, <1>2, FaultsGrow DEF Rows
<1> QED BY <1>1, <1>2, NoFaultStep DEF Inv

\* An environment's row, its provisioning, the stops and the Deployment are what they may
\* be, and a row nobody inserted is neither provisioned nor deployed nor stopped.
THEOREM TypeCorrect == Spec => []TypeOK
<1>1. Inv => TypeOK
  BY TypeParts DEF Inv, Rows
<1> QED BY <1>1, InvInit, InvStep, PTL DEF Spec

\* Whatever starts, replacements, users' stops and the reaper do to each other, and however
\* many rows and clients there are: when they are through and nothing failed, a Deployment
\* that is there belongs to a live row (dev-env.ts:231).
THEOREM NoLeak == Spec => []NoLeakedDeployment
<1>1. ASSUME Inv PROVE NoLeakedDeployment
  <2> SUFFICES ASSUME Quiet, faults = 0, deployment # NoEnv PROVE \E e \in Envs : Live(e)
    BY DEF NoLeakedDeployment
  <2>1. deployment \in Envs
    BY <1>1 DEF Inv, Rows, Typed, DeploymentTyped
  <2>2. prov[deployment] \in {"wait", "cleanup"} \/ Live(deployment)
    BY <1>1, <2>1 DEF Inv, NoFault
  <2> QED BY <2>1, <2>2 DEF Quiet, Provisioning
<1> QED BY <1>1, InvInit, InvStep, PTL DEF Spec

===============================================================================
