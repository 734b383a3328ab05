--------------------------- MODULE SupervisionProofs ---------------------------
(***************************************************************************)
(* What holds of Supervision for every policy, every tool, every number of *)
(* requests, cycles and events: the types, and that no escalated call of   *)
(* the agent goes ahead without an approval.                               *)
(*                                                                         *)
(* What the worker hears is the row as it polls it, which any of three     *)
(* writers may have written over any other.  What makes it safe is that    *)
(* every write of "approved" is recorded where it is made, so a row that   *)
(* says so has been approved, whoever wrote it last (Consented); and that  *)
(* the worker hears of its own request only (Attends).                     *)
(*                                                                         *)
(* The last two parts are about what users see: AgentStatus, where a page  *)
(* reads row by row, and LivePage, where the last command for an agent     *)
(* that waits in a queue is the one that counts (LastCounts).              *)
(***************************************************************************)
EXTENDS Supervision, Sequences, WellFoundedInduction, TLAPS

CONSTANTS Reviewers, Executors, Runs, Envs, Refs, Worked, MaxTorn
VARIABLES change, agents, run, link, env, card, header, torn
Ui == INSTANCE AgentStatus

CONSTANTS Agents, Home, Asks, Kinds, MaxDrops, MaxCloses, MaxMoves, MaxEdits, MaxInFlight, InOrder
VARIABLES agentRow, log, ask, relay, sock, commands, subs, down, tab, reqs, used
Live == INSTANCE LivePage WITH row <- agentRow, events <- log, page <- tab

\* A row that says approved has been approved by somebody.
Consented == \A r \in Requests : row[r].status = "approved" => r \in approved

\* A worker that waits, waits for a request; an answer on its way is to one.
Attends == /\ worker.pc = "wait" => worker.req \in Requests
           /\ user # NoAnswer => user.req \in Requests /\ user.decision # None

\* A cycle that judges has something to judge, one that stops an agent goes on afterwards.
Occupied ==
    \A c \in Cycles : /\ cycle[c].pc \in {"review", "write"} => cycle[c].todo # {}
                      /\ cycle[c].pc = "stop" => cycle[c].then # None

\* A strike is an event.
Struck == strikes <= events

IInv == TypeOK /\ AllowedWasApproved /\ Consented /\ Attends /\ Occupied /\ Struck

-----------------------------------------------------------------------------
(* Facts about the parts of the state.                                     *)

\* A cycle that judges, judges a request.
LEMMA ReviewedIsRequest ==
    ASSUME IInv, NEW c \in Cycles, cycle[c].pc \in {"review", "write"}
    PROVE  Reviewed(c) \in Requests /\ Reviewed(c) \in cycle[c].todo
<1> DEFINE T == cycle[c].todo
<1>1. T \subseteq Requests /\ T # {} /\ T \subseteq Nat
  BY RequestsAreNumbers DEF IInv, TypeOK, Occupied
<1>2. \E x \in T : \A y \in T : x <= y
  <2> DEFINE R == {p \in Nat \X Nat : p[1] < p[2]}
  <2>1. IsWellFoundedOn(R, Nat)
    BY NatLessThanWellFounded DEF OpToRel
  <2>2. \E x \in T : \A y \in T : <<y, x>> \notin R
    <3> HIDE DEF T, R
    <3> QED BY <1>1, <2>1, WFMin
  <2>3. \A x \in T, y \in T : <<y, x>> \notin R => x <= y
    BY <1>1
  <2> QED BY <2>2, <2>3
<1>3. Min(T) \in T
  BY ONLY <1>2 DEF Min
<1> QED BY <1>1, <1>3 DEF Reviewed

\* A write of a decision keeps the rows typed and approvals recorded.
LEMMA ResolveHolds ==
    ASSUME IInv, NEW r \in Requests, NEW d \in {"approved", "denied"},
           NEW by \in {"user", "supervisor", "timeout"}, Resolve(r, d, by)
    PROVE  /\ row' \in [Requests -> Row] /\ approved' \in SUBSET Requests
           /\ approved \subseteq approved' /\ Consented'
<1> USE DEF IInv, TypeOK, Resolve, Row
<1>1. row' \in [Requests -> Row]
  OBVIOUS
<1>2. approved' \in SUBSET Requests /\ approved \subseteq approved'
  OBVIOUS
<1>3. ASSUME NEW q \in Requests, row'[q].status = "approved" PROVE q \in approved'
  <2>1. CASE q = r
    BY <1>3, <2>1
  <2>2. CASE q # r
    BY <1>3, <2>2 DEF Consented
  <2> QED BY <2>1, <2>2
<1> QED BY <1>1, <1>2, <1>3 DEF Consented

\* What the worker hears as "allow" was approved; a wait that ends otherwise allows nothing.
LEMMA HearHolds ==
    ASSUME IInv, NEW r \in Requests, NEW d, NEW answered \in BOOLEAN,
           Hear(r, d, answered), d = "approved" => r \in approved,
           worker.pc # None
    PROVE  /\ told' \in [Requests -> {None, "allow", "deny", "answer"}]
           /\ \A q \in Requests : told'[q] = "allow" => q \in approved
           /\ worker' = [worker EXCEPT !.pc = "resume"]
<1> USE DEF IInv, TypeOK, Hear
<1>1. MapPermissionDecision(ToolOf[r], d, answered) \in {"allow", "deny", "answer"}
  BY DEF MapPermissionDecision
<1>2. MapPermissionDecision(ToolOf[r], d, answered) = "allow" => d = "approved"
  BY DEF MapPermissionDecision
<1> QED BY <1>1, <1>2 DEF AllowedWasApproved

-----------------------------------------------------------------------------
(* The steps.                                                              *)

CycleRec == [pc : {"idle", "blocks", "suspects", "judge", "pending", "review", "write",
                   "budget", "completed", "assess", "stop"},
             stale : SUBSET Requests, todo : SUBSET Requests,
             ok : BOOLEAN, then : {None, "pending", "suspects", "completed"}]

\* What a cycle may become.
Good(k) == /\ k \in CycleRec
           /\ k.pc \in {"review", "write"} => k.todo # {}
           /\ k.pc = "stop" => k.then # None

\* A step of a cycle that leaves that cycle good leaves all of them good.
LEMMA CycleHolds ==
    ASSUME IInv, NEW c \in Cycles, NEW k, Good(k), cycle' = [cycle EXCEPT ![c] = k]
    PROVE  cycle' \in [Cycles -> CycleRec] /\ Occupied'
BY DEF IInv, TypeOK, Occupied, Good, CycleRec

LEMMA Gotos ==
    ASSUME IInv, NEW c \in Cycles
    PROVE  /\ \A pc \in {"suspects", "judge", "pending", "budget", "completed", "assess"} :
                 Good([cycle[c] EXCEPT !.pc = pc])
           /\ cycle[c].todo # {} => Good([cycle[c] EXCEPT !.pc = "write"])
           /\ \A then \in {"suspects", "pending", "completed"} :
                 Good([cycle[c] EXCEPT !.pc = "stop", !.then = then])
           /\ \A todo \in SUBSET Requests :
                 /\ Good([cycle[c] EXCEPT !.pc = IF todo = {} THEN "budget" ELSE "review",
                                          !.todo = todo])
                 /\ Good([cycle[c] EXCEPT !.pc = IF todo = {} THEN "budget" ELSE "review",
                                          !.todo = todo, !.stale = {}])
           /\ Good(Idle)
           /\ cycle[c].pc = "stop" => Good([cycle[c] EXCEPT !.pc = cycle[c].then, !.then = None])
<1>1. cycle[c] \in CycleRec
  BY DEF IInv, TypeOK, CycleRec
<1> QED BY <1>1 DEF Good, CycleRec, Idle, IInv, Occupied, None

\* A worker after its pod has been deleted or created.
LEMMA WorkerTyped ==
    ASSUME IInv
    PROVE  \A w \in {DeleteAgentPod(worker), CreateAgentPod(worker)} :
              /\ w \in [pc : {None, "boot", "busy", "wait", "resume"}, req : Requests \cup {0},
                        dying : BOOLEAN]
              /\ w.pc = None => w = NoWorker
              /\ w.pc = "wait" => w.req \in Requests
BY DEF IInv, TypeOK, Attends, DeleteAgentPod, CreateAgentPod, NoWorker, None

LEMMA WorkerHolds == ASSUME IInv, Worker PROVE IInv'
<1> USE DEF IInv, TypeOK, superVars, rowVars
<1>1. CASE WorkerBoots
  BY <1>1 DEF WorkerBoots, AllowedWasApproved, Consented, Attends, Occupied, Struck, None
<1>2. CASE PollFinds
  <2>1. worker.req \in Requests /\ worker.pc # None
    BY <1>2 DEF PollFinds, Attends, None
  <2>2. PICK answered \in BOOLEAN : Hear(worker.req, row[worker.req].status, answered)
    BY <1>2 DEF PollFinds
  <2>3. row[worker.req].status = "approved" => worker.req \in approved
    BY <2>1 DEF Consented
  <2>4. /\ told' \in [Requests -> {None, "allow", "deny", "answer"}]
        /\ \A q \in Requests : told'[q] = "allow" => q \in approved
        /\ worker' = [worker EXCEPT !.pc = "resume"]
    BY <2>1, <2>2, <2>3, HearHolds DEF IInv
  <2> QED BY <1>2, <2>4 DEF PollFinds, AllowedWasApproved, Consented, Attends, Occupied, Struck, None
<1>3. CASE WaitTimesOut
  <2>1. worker.req \in Requests /\ worker.pc # None
    BY <1>3 DEF WaitTimesOut, Attends, None
  <2>2. /\ told' \in [Requests -> {None, "allow", "deny", "answer"}]
        /\ \A q \in Requests : told'[q] = "allow" => q \in approved
        /\ worker' = [worker EXCEPT !.pc = "resume"]
    BY <1>3, <2>1, HearHolds DEF WaitTimesOut
  <2>3. /\ row' \in [Requests -> Row] /\ approved' \in SUBSET Requests
        /\ approved \subseteq approved' /\ Consented'
    BY <1>3, <2>1, ResolveHolds DEF WaitTimesOut, Consented
  <2> QED BY <1>3, <2>2, <2>3 DEF WaitTimesOut, AllowedWasApproved, Attends, Occupied, Struck, None
<1>4. CASE Steered
  <2>1. CASE worker.pc = "wait"
    <3>1. worker.req \in Requests
      BY <2>1 DEF Attends
    <3>2. /\ told' \in [Requests -> {None, "allow", "deny", "answer"}]
          /\ \A q \in Requests : told'[q] = "allow" => q \in approved
          /\ worker' = [worker EXCEPT !.pc = "resume"]
      BY <1>4, <2>1, <3>1, HearHolds DEF Steered, None
    <3> QED BY <1>4, <3>2 DEF Steered, AllowedWasApproved, Consented, Attends, Occupied, Struck, None
  <2>2. CASE worker.pc # "wait"
    BY <1>4, <2>2 DEF Steered, AllowedWasApproved, Consented, Attends, Occupied, Struck
  <2> QED BY <2>1, <2>2
<1>5. CASE Resumes
  BY <1>5 DEF Resumes, AllowedWasApproved, Consented, Attends, Occupied, Struck, None
<1>6. CASE EditsFrozenCode
  BY <1>6, BoundsNat DEF EditsFrozenCode, Happens, AllowedWasApproved, Consented, Attends, Occupied, Struck
<1>7. CASE Finishes \/ PodGone
  <2>1. /\ worker' = NoWorker /\ state' \in {"running", "completed", "paused"}
        /\ UNCHANGED <<strikes, row, approved, told, steer, user, cycle, inFlight, acts, events>>
    BY <1>7 DEF Finishes, PodGone
  <2>2. NoWorker \in [pc : {None, "boot", "busy", "wait", "resume"}, req : Requests \cup {0},
                      dying : BOOLEAN] /\ NoWorker.pc # "wait"
    BY DEF NoWorker, None
  <2> QED BY <2>1, <2>2 DEF AllowedWasApproved, Consented, Attends, Occupied, Struck
<1>8. ASSUME NEW r \in Requests, Ask(r) PROVE IInv'
  <2>1. row' \in [Requests -> Row]
    BY <1>8 DEF Ask, Row
  <2>2. Consented'
    BY <1>8 DEF Ask, Consented, Row
  <2> QED BY <1>8, <2>1, <2>2 DEF Ask, AllowedWasApproved, Attends, Occupied, Struck, None
<1> QED BY <1>1, <1>2, <1>3, <1>4, <1>5, <1>6, <1>7, <1>8 DEF Worker

LEMMA UserHolds == ASSUME IInv, User PROVE IInv'
<1> USE DEF IInv, TypeOK, superVars, rowVars, agentVars
<1>1. CASE AnswerIsWritten
  <2>1. user.req \in Requests /\ user.decision \in {"approved", "denied"}
    BY <1>1 DEF AnswerIsWritten, Attends
  <2>2. /\ row' \in [Requests -> Row] /\ approved' \in SUBSET Requests
        /\ approved \subseteq approved' /\ Consented'
    BY <1>1, <2>1, ResolveHolds DEF AnswerIsWritten
  <2> QED BY <1>1, <2>2 DEF AnswerIsWritten, NoAnswer, AllowedWasApproved, Attends, Occupied, Struck
<1>2. ASSUME NEW r \in Requests, NEW d \in {"approved", "denied"}, UserAnswers(r, d) PROVE IInv'
  BY <1>2 DEF UserAnswers, AllowedWasApproved, Consented, Attends, Occupied, Struck, None
<1>3. ASSUME NEW urgent \in BOOLEAN, UserSends(urgent) PROVE IInv'
  <2>1. acts' \in [Processes -> [cooling : BOOLEAN, count : Nat]]
    BY <1>3 DEF UserSends, Forget
  <2>2. events' \in 0..MaxEvents /\ Struck'
    BY <1>3, BoundsNat DEF UserSends, Happens, Struck
  <2>3. /\ worker' = worker \/ worker' = CreateAgentPod(worker)
        /\ steer' \in BOOLEAN
        /\ UNCHANGED <<state, strikes, row, approved, told, user, cycle, inFlight>>
    BY <1>3 DEF UserSends
  <2>4. /\ worker' \in [pc : {None, "boot", "busy", "wait", "resume"}, req : Requests \cup {0},
                        dying : BOOLEAN]
        /\ worker'.pc = None => worker' = NoWorker
        /\ worker'.pc = "wait" => worker'.req \in Requests
    BY <2>3, WorkerTyped DEF Attends
  <2> QED BY <2>1, <2>2, <2>3, <2>4 DEF AllowedWasApproved, Consented, Attends, Occupied
<1> QED BY <1>1, <1>2, <1>3 DEF User

LEMMA EnvironmentHolds == ASSUME IInv, Environment PROVE IInv'
<1> USE DEF IInv, TypeOK, superVars, rowVars, agentVars
<1>1. CASE OrchestratorRestarts
  <2>1. cycle' \in [Cycles -> CycleRec] /\ Occupied'
    BY <1>1 DEF OrchestratorRestarts, Idle, CycleRec, Occupied
  <2>2. acts' \in [Processes -> [cooling : BOOLEAN, count : Nat]]
    BY <1>1 DEF OrchestratorRestarts, Forget
  <2>3. events' \in 0..MaxEvents /\ Struck'
    BY <1>1, BoundsNat DEF OrchestratorRestarts, Happens, Struck
  <2>4. inFlight' \in BOOLEAN
           /\ UNCHANGED <<state, strikes, worker, steer, row, approved, told, user>>
    BY <1>1 DEF OrchestratorRestarts
  <2> QED BY <2>1, <2>2, <2>3, <2>4
          DEF CycleRec, AllowedWasApproved, Consented, Attends
<1>2. ASSUME NEW r \in Requests, Elapse(r) PROVE IInv'
  <2>1. row' \in [Requests -> Row]
    BY <1>2 DEF Elapse, Row
  <2>2. Consented'
    BY <1>2 DEF Elapse, Consented, Row
  <2> QED BY <1>2, <2>1, <2>2 DEF Elapse, AllowedWasApproved, Attends, Occupied, Struck
<1>3. ASSUME NEW p \in Processes, CooldownPasses(p) PROVE IInv'
  <2>1. acts' \in [Processes -> [cooling : BOOLEAN, count : Nat]]
    BY <1>3 DEF CooldownPasses
  <2> QED BY <1>3, <2>1 DEF CooldownPasses, AllowedWasApproved, Consented, Attends, Occupied, Struck
<1> QED BY <1>1, <1>2, <1>3 DEF Environment

\* What every step of a cycle leaves alone, or keeps in order, in steps that decide no request.
Keeps == UNCHANGED <<state, strikes, row, approved, told, user, events>>

\* A step that only moves a cycle on, and may touch the worker's pod, a steer or the counts.
LEMMA MovesHold ==
    ASSUME IInv, NEW c \in Cycles, NEW k, Good(k), cycle' = [cycle EXCEPT ![c] = k], Keeps,
           worker' \in {worker, DeleteAgentPod(worker), CreateAgentPod(worker)},
           steer' \in BOOLEAN, inFlight' \in BOOLEAN,
           acts' \in [Processes -> [cooling : BOOLEAN, count : Nat]]
    PROVE  IInv'
<1> USE DEF IInv
<1>1. cycle' \in [Cycles -> CycleRec] /\ Occupied'
  BY CycleHolds
<1>2. /\ worker' \in [pc : {None, "boot", "busy", "wait", "resume"}, req : Requests \cup {0},
                      dying : BOOLEAN]
      /\ worker'.pc = None => worker' = NoWorker
      /\ worker'.pc = "wait" => worker'.req \in Requests
  BY WorkerTyped DEF TypeOK, Attends
<1> QED BY <1>1, <1>2 DEF Keeps, TypeOK, CycleRec, AllowedWasApproved, Consented, Attends, Struck

\* Counting an action.
LEMMA Counts ==
    ASSUME IInv, NEW c \in Cycles, NEW n \in Nat, RecordAction(c, n)
    PROVE  acts' \in [Processes -> [cooling : BOOLEAN, count : Nat]]
BY DEF IInv, TypeOK, RecordAction, ProcessOf, Processes

LEMMA StartsHold == ASSUME IInv, NEW c \in Cycles, Starts(c) PROVE IInv'
<1>0. PICK ok \in BOOLEAN :
        /\ IF ok /\ c \in OrchCycles THEN UNCHANGED events ELSE Happens
        /\ cycle' = [cycle EXCEPT ![c] = [Idle EXCEPT !.pc = "blocks", !.ok = ok,
                                             !.stale = {r \in Pending : row[r].age >= 1}]]
  BY DEF Starts
<1> USE DEF IInv, TypeOK, superVars, rowVars, agentVars
<1>1. Good([Idle EXCEPT !.pc = "blocks", !.ok = ok, !.stale = {r \in Pending : row[r].age >= 1}])
  BY DEF Good, CycleRec, Idle, Pending
<1>2. cycle' \in [Cycles -> CycleRec] /\ Occupied'
  BY <1>0, <1>1, CycleHolds
<1>3. /\ inFlight' \in BOOLEAN
      /\ UNCHANGED <<state, strikes, worker, steer, row, approved, told, user, acts>>
  BY DEF Starts
<1>4. events' \in 0..MaxEvents /\ Struck'
  BY <1>0, <1>3, BoundsNat DEF Happens, Struck
<1> QED BY <1>2, <1>3, <1>4 DEF CycleRec, AllowedWasApproved, Consented, Attends

\* A verdict of the supervisor is written, and the next request looked at.
LEMMA VerdictHolds ==
    ASSUME IInv, NEW c \in Cycles, cycle[c].pc \in {"review", "write"},
           NEW d \in {"approved", "denied"}, Resolve(Reviewed(c), d, "supervisor"),
           NextReview(c, cycle[c].todo \ {Reviewed(c)}),
           UNCHANGED <<agentVars, told, user, inFlight, acts, events>>
    PROVE  IInv'
<1> USE DEF IInv, TypeOK, agentVars
<1>1. /\ row' \in [Requests -> Row] /\ approved' \in SUBSET Requests
      /\ approved \subseteq approved' /\ Consented'
  BY ReviewedIsRequest, ResolveHolds
<1>2. cycle' \in [Cycles -> CycleRec] /\ Occupied'
  <2> DEFINE todo == cycle[c].todo \ {Reviewed(c)}
             k == [cycle[c] EXCEPT !.pc = IF todo = {} THEN "budget" ELSE "review", !.todo = todo]
  <2>1. todo \in SUBSET Requests
    OBVIOUS
  <2>2. Good(k)
    BY <2>1, Gotos
  <2>3. cycle' = [cycle EXCEPT ![c] = k]
    BY DEF NextReview
  <2> QED BY <2>2, <2>3, CycleHolds
<1> QED BY <1>1, <1>2 DEF CycleRec, AllowedWasApproved, Attends, Struck

LEMMA StepHolds == ASSUME IInv, NEW c \in Cycles, Step(c) PROVE IInv'
<1> USE DEF Keeps, agentVars, rowVars
<1>0. /\ inFlight \in BOOLEAN /\ steer \in BOOLEAN
      /\ acts \in [Processes -> [cooling : BOOLEAN, count : Nat]]
  BY DEF IInv, TypeOK
<1>1. CASE BlockStrikes(c)
  <2>1. CASE GotoStop(c, "suspects") /\ worker' = DeleteAgentPod(worker)
    BY <1>0, <1>1, <2>1, Gotos, MovesHold DEF BlockStrikes, GotoStop
  <2>2. CASE Goto(c, "suspects") /\ UNCHANGED worker
    BY <1>0, <1>1, <2>2, Gotos, MovesHold DEF BlockStrikes, Goto
  <2> QED BY <1>1, <2>1, <2>2 DEF BlockStrikes
<1>2. CASE WritePaused(c)
  <2>1. cycle' \in [Cycles -> CycleRec] /\ Occupied'
    BY <1>2, Gotos, CycleHolds DEF WritePaused
  <2> QED BY <1>2, <2>1 DEF WritePaused, IInv, TypeOK, CycleRec, AllowedWasApproved, Consented,
                            Attends, Struck
<1>3. CASE ReviewSuspects(c)
  BY <1>0, <1>3, Gotos, MovesHold DEF ReviewSuspects, Goto
<1>4. CASE JudgeSuspect(c)
  <2>1. acts' \in [Processes -> [cooling : BOOLEAN, count : Nat]]
    BY <1>4, Counts DEF JudgeSuspect
  <2>2. CASE GotoStop(c, "pending") /\ worker' = DeleteAgentPod(worker) /\ UNCHANGED steer
    BY <1>0, <1>4, <2>1, <2>2, Gotos, MovesHold DEF JudgeSuspect, GotoStop
  <2>3. CASE Goto(c, "pending") /\ UNCHANGED worker /\ steer' \in BOOLEAN
    BY <1>0, <1>4, <2>1, <2>3, Gotos, MovesHold DEF JudgeSuspect, Goto
  <2> QED BY <1>0, <1>4, <2>2, <2>3 DEF JudgeSuspect
<1>5. CASE ReadPending(c)
  <2> DEFINE todo == IF cycle[c].ok THEN cycle[c].stale \cap Pending ELSE {}
             k == [cycle[c] EXCEPT !.pc = IF todo = {} THEN "budget" ELSE "review",
                                   !.todo = todo, !.stale = {}]
  <2>1. todo \in SUBSET Requests
    BY DEF Pending
  <2>2. Good(k)
    BY <2>1, Gotos
  <2>3. cycle' = [cycle EXCEPT ![c] = k]
    BY <1>5 DEF ReadPending
  <2>4. UNCHANGED <<agentVars, rowVars, told, user, inFlight, acts, events>>
    BY <1>5 DEF ReadPending
  <2> HIDE DEF k
  <2> QED BY <1>0, <2>2, <2>3, <2>4, MovesHold
<1>6. CASE JudgePermission(c)
  <2>1. CASE c \in OrchCycles
    BY <1>6, <2>1, VerdictHolds DEF JudgePermission
  <2>2. CASE c \notin OrchCycles /\ Reviewed(c) \in Pending
    <3>1. cycle[c].todo # {}
      BY <1>6 DEF JudgePermission, IInv, Occupied
    <3> QED BY <1>0, <1>6, <2>2, <3>1, Gotos, MovesHold DEF JudgePermission, Goto
  <2>3. CASE c \notin OrchCycles /\ Reviewed(c) \notin Pending
    <3> DEFINE todo == cycle[c].todo \ {Reviewed(c)}
               k == [cycle[c] EXCEPT !.pc = IF todo = {} THEN "budget" ELSE "review", !.todo = todo]
    <3>1. todo \in SUBSET Requests
      BY DEF IInv, TypeOK
    <3>2. Good(k)
      BY <3>1, Gotos
    <3>3. cycle' = [cycle EXCEPT ![c] = k] /\ UNCHANGED <<row, approved>>
      BY <1>6, <2>3 DEF JudgePermission, NextReview
    <3>4. UNCHANGED <<agentVars, told, user, inFlight, acts, events>>
      BY <1>6 DEF JudgePermission
    <3> HIDE DEF k
    <3> QED BY <1>0, <3>2, <3>3, <3>4, MovesHold
  <2> QED BY <2>1, <2>2, <2>3
<1>7. CASE WriteVerdict(c)
  BY <1>7, VerdictHolds DEF WriteVerdict
<1>8. CASE PauseForBudget(c)
  <2>1. /\ Keeps /\ UNCHANGED <<steer, inFlight, acts>>
        /\ worker' \in {worker, DeleteAgentPod(worker)}
        /\ GotoStop(c, "completed") \/ Goto(c, "completed")
    BY <1>8 DEF PauseForBudget
  <2>2. CASE GotoStop(c, "completed")
    <3> DEFINE k == [cycle[c] EXCEPT !.pc = "stop", !.then = "completed"]
    <3>1. Good(k) /\ cycle' = [cycle EXCEPT ![c] = k]
      BY <2>2, Gotos DEF GotoStop
    <3> HIDE DEF k, Keeps
    <3> QED BY <1>0, <2>1, <3>1, MovesHold
  <2>3. CASE Goto(c, "completed")
    <3> DEFINE k == [cycle[c] EXCEPT !.pc = "completed"]
    <3>1. Good(k) /\ cycle' = [cycle EXCEPT ![c] = k]
      BY <2>3, Gotos DEF Goto
    <3> HIDE DEF k, Keeps
    <3> QED BY <1>0, <2>1, <3>1, MovesHold
  <2> QED BY <2>1, <2>2, <2>3
<1>9. CASE ReviewCompleted(c)
  <2>1. CASE Goto(c, "assess") /\ UNCHANGED inFlight
    BY <1>0, <1>9, <2>1, Gotos, MovesHold DEF ReviewCompleted, Goto
  <2>2. CASE Ends(c)
    BY <1>0, <1>9, <2>2, Gotos, MovesHold DEF ReviewCompleted, Ends
  <2> QED BY <1>9, <2>1, <2>2 DEF ReviewCompleted
<1>10. CASE JudgeCompleted(c)
  <2>1. acts' \in [Processes -> [cooling : BOOLEAN, count : Nat]]
    BY <1>10, Counts DEF JudgeCompleted
  <2>2. worker' \in {worker, CreateAgentPod(worker)}
    BY <1>10 DEF JudgeCompleted
  <2> QED BY <1>0, <1>10, <2>1, <2>2, Gotos, MovesHold DEF JudgeCompleted, Ends
<1> QED BY <1>1, <1>2, <1>3, <1>4, <1>5, <1>6, <1>7, <1>8, <1>9, <1>10 DEF Step

-----------------------------------------------------------------------------
(* The theorems.                                                           *)

LEMMA InitHolds == Init => IInv
<1> SUFFICES ASSUME Init PROVE IInv
  OBVIOUS
<1>1. /\ worker \in [pc : {None, "boot", "busy", "wait", "resume"}, req : Requests \cup {0},
                     dying : BOOLEAN]
      /\ worker.pc # None /\ worker.pc # "wait"
  BY DEF Init, NoWorker, None
<1>2. /\ row \in [Requests -> Row] /\ approved \in SUBSET Requests /\ Consented
  BY DEF Init, Row, NoRow, None, Consented
<1>3. told \in [Requests -> {None, "allow", "deny", "answer"}] /\ AllowedWasApproved
  BY DEF Init, None, AllowedWasApproved
<1>4. user \in [req : Requests \cup {0}, decision : {None, "approved", "denied"}]
  BY DEF Init, NoAnswer
<1>5. cycle \in [Cycles -> CycleRec] /\ Occupied
  BY DEF Init, Idle, CycleRec, Occupied
<1>6. /\ state \in {"running", "completed", "paused"} /\ steer \in BOOLEAN
      /\ inFlight \in BOOLEAN /\ acts \in [Processes -> [cooling : BOOLEAN, count : Nat]]
  BY DEF Init
<1>7. strikes \in 0..MaxEvents /\ events \in 0..MaxEvents /\ Struck
  BY BoundsNat DEF Init, Struck
<1>8. Attends
  BY <1>1 DEF Init, Attends
<1> QED BY <1>1, <1>2, <1>3, <1>4, <1>5, <1>6, <1>7, <1>8 DEF IInv, TypeOK, CycleRec

LEMMA NextHolds == IInv /\ [Next]_vars => IInv'
<1> SUFFICES ASSUME IInv, [Next]_vars PROVE IInv'
  OBVIOUS
<1>1. CASE UNCHANGED vars
  BY <1>1 DEF vars, IInv, TypeOK, AllowedWasApproved, Consented, Attends, Occupied, Struck
<1> QED BY <1>1, WorkerHolds, UserHolds, EnvironmentHolds, StartsHold, StepHolds DEF Next

\* The types of the request rows, the worker and the cycles.
THEOREM TypeCorrect == Spec => []TypeOK
<1>1. IInv => TypeOK
  BY DEF IInv
<1> QED BY InitHolds, NextHolds, <1>1, PTL DEF Spec

\* Whatever the policy, and however users, timeouts, steers and the cycles of both processes
\* write over each other's answers: a call the agent was allowed to make (permissions.ts,
\* worker/index.ts canUseTool) was approved by the user or the supervisor.
THEOREM AllowedIsApproved == Spec => []AllowedWasApproved
<1>1. IInv => AllowedWasApproved
  BY DEF IInv
<1> QED BY InitHolds, NextHolds, <1>1, PTL DEF Spec

-----------------------------------------------------------------------------
(* What two pages read of a change.                                        *)

ChangeRec == [state : Ui!States, recommendation : {Ui!None, "merge", "fix", "hold"},
              pr : BOOLEAN, deployed_by : Executors \cup {Ui!None}]
StatusT == /\ change \in ChangeRec
           /\ agents \in [Reviewers \cup Executors -> Ui!States \cup {Ui!None}]
           /\ link \in [Executors -> [pc : {"idle", "link", "run", "claim", "done"}, run : Runs \cup {0}]]

\* A deploy agent runs once its dispatch is through, and not before.
ExecutorOK(e) ==
    /\ link[e].pc = "idle" => agents[e] = Ui!None
    /\ link[e].pc \in {"link", "run", "claim"} => agents[e] = "pending"
    /\ link[e].pc = "done" => agents[e] \in {"running", "completed", "failed"}

\* Who has claimed a change was dispatched.
ClaimOK(a) == a \in ChangeRec /\ (a.deployed_by # Ui!None => link[a.deployed_by].pc = "done")

\* What a page has read of the end of a deploy agent is so of the agent that it read had claimed
\* the change, which it read before.
EndStates == {"completed", "verified", "failed", "aborted"}
PageOK(page) ==
    /\ page.n \in 0..8
    /\ {"agent", "deploy_agent_state"} \subseteq DOMAIN page.got
    /\ ClaimOK(page.got["agent"])
    /\ page.n < 2 => page.got["deploy_agent_state"] = Ui!None
    /\ page.got["deploy_agent_state"] \in EndStates =>
         /\ page.got["agent"].deployed_by \in Executors
         /\ agents[page.got["agent"].deployed_by] = page.got["deploy_agent_state"]

StatusOK == /\ StatusT /\ (\A e \in Executors : ExecutorOK(e)) /\ ClaimOK(change)
            /\ PageOK(card) /\ PageOK(header)

\* The names of the deploy agents, of the reviewers and of nobody are apart.
Unambiguous == /\ Ui!None \notin Executors /\ Reviewers \cap Executors = {} /\ Worked \subseteq Ui!States

\* What no step undoes.
Lasting == \A e \in Executors : /\ link[e].pc = "done" => link'[e].pc = "done"
                                /\ agents[e] \in EndStates => agents'[e] = agents[e]

\* Reading one more row keeps a page sound.
LEMMA ReadKeeps ==
    ASSUME Unambiguous, StatusOK, NEW page, PageOK(page), NEW q, NEW v, page.n < 8,
           q = "agent" => page.n < 2 /\ v = change,
           q = "deploy_agent_state" => page.n >= 2 /\ v = Ui!StateOf(page.got["agent"].deployed_by)
    PROVE  PageOK([n |-> page.n + 1, got |-> [page.got EXCEPT ![q] = v]])
<1> DEFINE new == [page.got EXCEPT ![q] = v]
           p == [n |-> page.n + 1, got |-> new]
<1>0. p.n = page.n + 1 /\ p.got = new
  OBVIOUS
<1>1. DOMAIN new = DOMAIN page.got /\ page.n + 1 \in 0..8
  BY DEF PageOK
<1>2. ASSUME q = "agent" PROVE PageOK(p)
  <2>1. new["agent"] = change /\ new["deploy_agent_state"] = page.got["deploy_agent_state"]
    BY <1>2 DEF PageOK
  <2>2. page.got["deploy_agent_state"] = Ui!None /\ Ui!None \notin EndStates
    BY <1>2 DEF PageOK, Ui!None, EndStates
  <2> HIDE DEF new, p
  <2> QED BY <1>0, <1>1, <2>1, <2>2 DEF PageOK, StatusOK
<1>3. ASSUME q = "deploy_agent_state" PROVE PageOK(p)
  <2>1. new["agent"] = page.got["agent"] /\ new["deploy_agent_state"] = v
    BY <1>3 DEF PageOK
  <2>2. page.got["agent"].deployed_by \in Executors \cup {Ui!None} /\ Ui!None \notin EndStates
    BY DEF PageOK, ClaimOK, ChangeRec, Ui!None, EndStates
  <2>3. v \in EndStates => page.got["agent"].deployed_by \in Executors /\ agents[page.got["agent"].deployed_by] = v
    BY <1>3, <2>2 DEF Ui!StateOf
  <2>4. ~(page.n + 1 < 2)
    BY <1>3 DEF PageOK
  <2> HIDE DEF new, p
  <2> QED BY <1>0, <1>1, <2>1, <2>3, <2>4 DEF PageOK
<1>4. ASSUME q \notin {"agent", "deploy_agent_state"} PROVE PageOK(p)
  <2>1. new["agent"] = page.got["agent"] /\ new["deploy_agent_state"] = page.got["deploy_agent_state"]
    BY <1>4 DEF PageOK
  <2>2. page.n + 1 < 2 => page.n < 2
    BY DEF PageOK
  <2> HIDE DEF new, p
  <2> QED BY <1>0, <1>1, <2>1, <2>2 DEF PageOK
<1> QED BY <1>2, <1>3, <1>4

\* Both requests read the agent before the state of its deploy agent.
LEMMA ListKeeps ==
    ASSUME Unambiguous, StatusOK, Ui!ListReads
    PROVE  PageOK(card') /\ UNCHANGED <<change, agents, link, header>>
<1> DEFINE q == Ui!ListQueries[card.n + 1]
           v == Ui!ListAnswer(q, card.got["agent"])
<1>1. card.n < 8 /\ card.n \in 0..8 /\ PageOK(card)
  BY DEF Ui!ListReads, Ui!ListQueries, StatusOK, PageOK
<1>2. card' = [n |-> card.n + 1, got |-> [card.got EXCEPT ![q] = v]] /\ UNCHANGED <<change, agents, link, header>>
  BY DEF Ui!ListReads, Ui!Read
<1>3. q = "agent" => card.n < 2 /\ v = change
  BY <1>1 DEF Ui!ListQueries, Ui!ListAnswer
<1>4. q = "deploy_agent_state" => card.n >= 2 /\ v = Ui!StateOf(card.got["agent"].deployed_by)
  BY <1>1 DEF Ui!ListQueries, Ui!ListAnswer
<1> HIDE DEF q, v
<1>5. PageOK([n |-> card.n + 1, got |-> [card.got EXCEPT ![q] = v]])
  BY <1>1, <1>3, <1>4, ReadKeeps
<1> QED BY <1>2, <1>5

LEMMA DetailKeeps ==
    ASSUME Unambiguous, StatusOK, Ui!DetailReads
    PROVE  PageOK(header') /\ UNCHANGED <<change, agents, link, card>>
<1> DEFINE q == Ui!DetailQueries[header.n + 1]
           v == Ui!DetailAnswer(q, header.got["agent"])
<1>1. header.n < 8 /\ header.n \in 0..8 /\ PageOK(header)
  BY DEF Ui!DetailReads, Ui!DetailQueries, StatusOK, PageOK
<1>2. /\ header' = [n |-> header.n + 1, got |-> [header.got EXCEPT ![q] = v]]
      /\ UNCHANGED <<change, agents, link, card>>
  BY DEF Ui!DetailReads, Ui!Read
<1>3. q = "agent" => header.n < 2 /\ v = change
  BY <1>1 DEF Ui!DetailQueries, Ui!DetailAnswer
<1>4. q = "deploy_agent_state" => header.n >= 2 /\ v = Ui!StateOf(header.got["agent"].deployed_by)
  BY <1>1 DEF Ui!DetailQueries, Ui!DetailAnswer
<1> HIDE DEF q, v
<1>5. PageOK([n |-> header.n + 1, got |-> [header.got EXCEPT ![q] = v]])
  BY <1>1, <1>3, <1>4, ReadKeeps
<1> QED BY <1>2, <1>5

\* A page that reads nothing stays sound while what it has read lasts.
LEMMA PagesLast ==
    ASSUME Unambiguous, StatusOK, Lasting, NEW page, PageOK(page)
    PROVE  /\ page.n \in 0..8
           /\ {"agent", "deploy_agent_state"} \subseteq DOMAIN page.got
           /\ page.got["agent"] \in ChangeRec
           /\ page.got["agent"].deployed_by # Ui!None => link'[page.got["agent"].deployed_by].pc = "done"
           /\ page.n < 2 => page.got["deploy_agent_state"] = Ui!None
           /\ page.got["deploy_agent_state"] \in EndStates =>
                /\ page.got["agent"].deployed_by \in Executors
                /\ agents'[page.got["agent"].deployed_by] = page.got["deploy_agent_state"]
BY DEF PageOK, ClaimOK, ChangeRec, Lasting

\* What the rows that matter keep, whoever writes.
Rows == /\ StatusT' /\ (\A e \in Executors : ExecutorOK(e)') /\ ClaimOK(change)' /\ Lasting

\* The writes that leave the change, its agents and the links alone; that do not claim the change;
\* that are about a reviewer.
LEMMA SameRows ==
    ASSUME StatusOK, UNCHANGED <<change, agents, link>>
    PROVE  Rows
<1>1. StatusT' /\ Ui!None' = Ui!None /\ ChangeRec' = ChangeRec
  BY DEF StatusOK, StatusT, ChangeRec, Ui!States, Ui!None
<1> QED BY <1>1 DEF StatusOK, Rows, ExecutorOK, ClaimOK, Lasting

LEMMA ChangeWrites ==
    ASSUME StatusOK, UNCHANGED <<agents, link>>, change' \in ChangeRec,
           change'.deployed_by = change.deployed_by
    PROVE  Rows
BY DEF StatusOK, StatusT, Rows, ExecutorOK, ClaimOK, Lasting, ChangeRec, Ui!States, Ui!None

LEMMA ReviewerWrites ==
    ASSUME Unambiguous, StatusOK, NEW v \in Reviewers, NEW s \in Ui!States,
           agents' = [agents EXCEPT ![v] = s], link' = link,
           change' \in ChangeRec, change'.deployed_by = change.deployed_by
    PROVE  Rows
<1>1. /\ agents' \in [Reviewers \cup Executors -> Ui!States \cup {Ui!None}]
      /\ \A e \in Executors : agents'[e] = agents[e]
  BY DEF StatusOK, StatusT, Unambiguous
<1> QED BY <1>1 DEF StatusOK, StatusT, Rows, ExecutorOK, ClaimOK, Lasting, ChangeRec, Ui!States, Ui!None

\* Every write keeps the rows sound, and what is over stays so.
LEMMA RowsStep ==
    ASSUME Unambiguous, StatusOK, [Ui!Next]_(Ui!vars)
    PROVE  Rows /\ (UNCHANGED <<card, header>> \/ Ui!ListReads \/ Ui!DetailReads)
<1> DEFINE Pages == UNCHANGED <<card, header>>
<1>1. CASE Ui!ListReads \/ Ui!DetailReads
  <2>1. UNCHANGED <<change, agents, link>>
    BY <1>1 DEF Ui!ListReads, Ui!DetailReads
  <2> QED BY <1>1, <2>1, SameRows
<1>2. ASSUME NEW s \in Worked, Ui!ChangeMoves(s) PROVE Rows /\ Pages
  <2>1. Pages /\ UNCHANGED <<agents, link>>
        /\ change' = [change EXCEPT !.state = s, !.pr = @ \/ s = "completed"]
    BY <1>2 DEF Ui!ChangeMoves, Ui!Writes, Ui!pages
  <2>2. change' \in ChangeRec /\ change'.deployed_by = change.deployed_by
    BY <2>1 DEF StatusOK, StatusT, ChangeRec, Unambiguous
  <2> QED BY <2>1, <2>2, ChangeWrites
<1>3. CASE Ui!RequestChanges
  <2>1. Pages /\ UNCHANGED <<agents, link>>
        /\ change' = [change EXCEPT !.recommendation = Ui!None, !.state = "running"]
    BY <1>3 DEF Ui!RequestChanges, Ui!Writes, Ui!pages
  <2>2. change' \in ChangeRec /\ change'.deployed_by = change.deployed_by
    BY <2>1 DEF StatusOK, StatusT, ChangeRec, Ui!States
  <2> QED BY <2>1, <2>2, ChangeWrites
<1>4. ASSUME NEW r \in Runs, NEW s, Ui!RunMoves(r, s) PROVE Rows /\ Pages
  <2>1. Pages /\ UNCHANGED <<agents, link>>
        /\ change' \in {change, [change EXCEPT !.state = "verified"]}
    BY <1>4 DEF Ui!RunMoves, Ui!Writes, Ui!pages
  <2>2. change' \in ChangeRec /\ change'.deployed_by = change.deployed_by
    BY <2>1 DEF StatusOK, StatusT, ChangeRec, Ui!States
  <2> QED BY <2>1, <2>2, ChangeWrites
<1>5. ASSUME NEW v \in Reviewers, Ui!Review(v) PROVE Rows /\ Pages
  <2>1. Pages /\ UNCHANGED <<change, link>> /\ agents' = [agents EXCEPT ![v] = "running"]
    BY <1>5 DEF Ui!Review, Ui!Writes, Ui!pages
  <2>2. "running" \in Ui!States /\ change' \in ChangeRec
    BY <2>1 DEF StatusOK, StatusT, Ui!States
  <2> QED BY <2>1, <2>2, ReviewerWrites
<1>6. ASSUME NEW v \in Reviewers, NEW rec \in {"merge", "hold"}, Ui!ReviewEnds(v, rec) PROVE Rows /\ Pages
  <2>1. /\ Pages /\ UNCHANGED link /\ agents' = [agents EXCEPT ![v] = "completed"]
        /\ change' = [change EXCEPT !.recommendation = rec]
    BY <1>6 DEF Ui!ReviewEnds, Ui!Writes, Ui!pages
  <2>2. "completed" \in Ui!States /\ change' \in ChangeRec /\ change'.deployed_by = change.deployed_by
    BY <2>1 DEF StatusOK, StatusT, Ui!States, ChangeRec
  <2> QED BY <2>1, <2>2, ReviewerWrites
<1>7. ASSUME NEW v \in Reviewers, Ui!ReviewerStops(v, "paused") PROVE Rows /\ Pages
  <2>1. /\ Pages /\ UNCHANGED link /\ agents' = [agents EXCEPT ![v] = "paused"]
        /\ change' \in {change, [change EXCEPT !.recommendation = "hold"]}
    <3>1. change.recommendation \in {Ui!None, "merge", "fix", "hold"} /\ change \in ChangeRec
      BY DEF StatusOK, StatusT, ChangeRec
    <3>2. [change EXCEPT !.recommendation = change.recommendation] = change
      BY <3>1 DEF ChangeRec
    <3> QED BY <1>7, <3>2 DEF Ui!ReviewerStops, Ui!Writes, Ui!pages
  <2>2. "paused" \in Ui!States /\ change' \in ChangeRec /\ change'.deployed_by = change.deployed_by
    BY <2>1 DEF StatusOK, StatusT, Ui!States, ChangeRec
  <2> QED BY <2>1, <2>2, ReviewerWrites
<1>8. ASSUME NEW r \in Runs, NEW e \in Executors, Ui!Approve(r, e) PROVE Rows /\ Pages
  <2>1. /\ Pages /\ UNCHANGED change /\ agents[e] = Ui!None
        /\ agents' = [agents EXCEPT ![e] = "pending"]
        /\ link' = [link EXCEPT ![e] = [pc |-> "link", run |-> r]]
    BY <1>8 DEF Ui!Approve, Ui!Writes, Ui!pages
  <2>2. link[e].pc = "idle"
    BY <2>1 DEF StatusOK, StatusT, ExecutorOK, Ui!None
  <2> QED BY <2>1, <2>2 DEF StatusOK, StatusT, Rows, ExecutorOK, ClaimOK, Lasting, ChangeRec, Ui!States,
                        Ui!None, EndStates
<1>9. ASSUME NEW e \in Executors, Ui!LinkRun(e) \/ Ui!StartRun(e) PROVE Rows /\ Pages
  <2>1. /\ Pages /\ UNCHANGED <<change, agents>>
        /\ \/ link[e].pc = "link" /\ link' = [link EXCEPT ![e].pc = "run"]
           \/ link[e].pc = "run" /\ link' = [link EXCEPT ![e].pc = "claim"]
    BY <1>9 DEF Ui!LinkRun, Ui!StartRun, Ui!Writes, Ui!pages
  <2> QED BY <2>1 DEF StatusOK, StatusT, Rows, ExecutorOK, ClaimOK, Lasting, ChangeRec, Ui!States,
                        Ui!None, EndStates
<1>10. ASSUME NEW e \in Executors, Ui!ClaimDeployManifest(e) PROVE Rows /\ Pages
  <2>1. /\ Pages /\ link[e].pc = "claim" /\ agents' = [agents EXCEPT ![e] = "running"]
        /\ link' = [link EXCEPT ![e].pc = "done"]
        /\ change' \in {change, [change EXCEPT !.deployed_by = e]}
    BY <1>10 DEF Ui!ClaimDeployManifest, Ui!Writes, Ui!pages
  <2> QED BY <2>1 DEF StatusOK, StatusT, Rows, ExecutorOK, ClaimOK, Lasting, ChangeRec, Ui!States,
                        Ui!None, EndStates
<1>11. ASSUME NEW e \in Executors, NEW s \in {"completed", "failed"}, Ui!ExecutorEnds(e, s) PROVE Rows /\ Pages
  <2>1. /\ Pages /\ UNCHANGED <<change, link>> /\ agents[e] = "running" /\ agents' = [agents EXCEPT ![e] = s]
    BY <1>11 DEF Ui!ExecutorEnds, Ui!Writes, Ui!pages
  <2> QED BY <2>1 DEF StatusOK, StatusT, Rows, ExecutorOK, ClaimOK, Lasting, ChangeRec, Ui!States,
                        Ui!None, EndStates
<1>12. ASSUME \/ \E land \in BOOLEAN : Ui!Test(land)
              \/ \E r \in Runs : Ui!Assess(r) \/ Ui!Reject(r)
              \/ \E owner \in {Ui!Change, Ui!None}, ref \in Refs : Ui!Propose(owner, ref)
              \/ \E e \in Envs, s \in {"starting", "ready", "failed", "stopping", "stopped"} : Ui!EnvMoves(e, s)
              \/ UNCHANGED Ui!vars
       PROVE  Rows /\ Pages
  <2>1. Pages /\ UNCHANGED <<change, agents, link>>
    BY <1>12 DEF Ui!Test, Ui!Assess, Ui!Reject, Ui!Propose, Ui!EnvMoves, Ui!Writes, Ui!pages, Ui!vars
  <2> QED BY <2>1, SameRows
<1> HIDE DEF Pages
<1>13. Pages => UNCHANGED <<card, header>>
  BY DEF Pages
<1> QED BY <1>1, <1>2, <1>3, <1>4, <1>5, <1>6, <1>7, <1>8, <1>9, <1>10, <1>11, <1>12, <1>13 DEF Ui!Next

\* Rows and pages together.
LEMMA StatusStep == ASSUME Unambiguous, StatusOK, [Ui!Next]_(Ui!vars) PROVE StatusOK'
<1>1. Rows /\ (UNCHANGED <<card, header>> \/ Ui!ListReads \/ Ui!DetailReads)
  BY RowsStep
<1>2. Ui!None' = Ui!None /\ ChangeRec' = ChangeRec /\ EndStates' = EndStates
  BY DEF ChangeRec, Ui!None, Ui!States, EndStates
<1>3. card' = card => PageOK(card)'
  BY <1>1, <1>2, PagesLast DEF StatusOK, Rows, PageOK, ClaimOK
<1>4. header' = header => PageOK(header)'
  BY <1>1, <1>2, PagesLast DEF StatusOK, Rows, PageOK, ClaimOK
<1>5. Ui!ListReads => PageOK(card)' /\ PageOK(header)'
  BY <1>2, <1>4, ListKeeps DEF PageOK, ClaimOK
<1>6. Ui!DetailReads => PageOK(card)' /\ PageOK(header)'
  BY <1>2, <1>3, DetailKeeps DEF PageOK, ClaimOK
<1> QED BY <1>1, <1>3, <1>4, <1>5, <1>6 DEF StatusOK, Rows

\* Nothing is read, claimed or dispatched at first.
LEMMA StatusInit == ASSUME Unambiguous PROVE Ui!Init => StatusOK
<1> SUFFICES ASSUME Ui!Init PROVE StatusOK
  OBVIOUS
<1>1. Ui!NewChange \in ChangeRec /\ Ui!NewChange.deployed_by = Ui!None
  BY DEF Ui!NewChange, ChangeRec, Ui!States
<1>2. PageOK(Ui!Unread)
  BY <1>1 DEF PageOK, ClaimOK, Ui!Unread, Ui!None, EndStates
<1>3. StatusT /\ \A e \in Executors : ExecutorOK(e)
  BY <1>1 DEF Ui!Init, StatusT, ExecutorOK, Ui!States, Ui!None
<1> QED BY <1>1, <1>2, <1>3 DEF Ui!Init, StatusOK, ClaimOK

\* A change reads deployed, or failed to deploy, only after the agent that claimed it ended: for
\* any number of agents, runs and writes that come between the queries (agent-status.ts:1-6).
THEOREM ReadsAfterTheFact == ASSUME Unambiguous PROVE Ui!Spec => []Ui!ReadsDeployedAfterTheFact
<1>1. StatusOK /\ [Ui!Next]_(Ui!vars) => StatusOK'
  BY StatusStep
<1>2. ASSUME StatusOK PROVE Ui!ReadsDeployedAfterTheFact
  <2> SUFFICES ASSUME NEW page \in {card, header}, Ui!Shown(page) \in {"deployed", "deploy_failed"}
               PROVE  \E e \in Executors : agents[e] \in {"completed", "failed"} /\ link[e].pc = "done"
    BY DEF Ui!ReadsDeployedAfterTheFact
  <2> DEFINE a == page.got["agent"]
             e == a.deployed_by
  <2>1. PageOK(page) /\ a \in ChangeRec
    BY <1>2 DEF StatusOK, PageOK, ClaimOK
  <2>2. e # Ui!None /\ page.got["deploy_agent_state"] \in EndStates
    BY <2>1 DEF Ui!Shown, Ui!ComputeAgentStatus, ChangeRec, Ui!States, Ui!None, EndStates
  <2>3. e \in Executors /\ agents[e] \in EndStates /\ link[e].pc = "done"
    BY <2>1, <2>2 DEF PageOK, ClaimOK
  <2>4. agents[e] \in {"completed", "failed"}
    BY <1>2, <2>3 DEF StatusOK, ExecutorOK, EndStates
  <2> QED BY <2>3, <2>4
<1> QED BY StatusInit, <1>1, <1>2, PTL DEF Ui!Spec

-----------------------------------------------------------------------------
\* The runs, of which no deploy is without a ref.
RunRec == [phase : {Ui!None, "test", "deploy"}, land : BOOLEAN,
           status : Ui!Active \cup {Ui!None, "passed", "failed"},
           agent : {Ui!None, Ui!Change} \cup Executors, ref : {Ui!None, "main", "branch"}]
RunsOK == /\ run \in [Runs -> RunRec]
          /\ \A r \in Runs : run[r].phase = "deploy" => run[r].ref = "main"

\* While nothing is written, what a page has read is what the rows say.
Keys == {"agent", "deploy_ids", "testing", "landing", "reviewing", "deploy_status",
         "deploy_agent_state", "dev_env"}
Says(q) == Ui!DetailAnswer(q, change)
Fresh(page, queries) ==
    /\ page.n \in 0..8 /\ Keys \subseteq DOMAIN page.got
    /\ torn = 0 => \A j \in 1..page.n : page.got[queries[j]] = Says(queries[j])
FreshPages == torn \in Nat /\ Fresh(card, Ui!ListQueries) /\ Fresh(header, Ui!DetailQueries)

\* The two requests ask the same, each thing once, the agent before its deploy agent.
LEMMA Queries ==
    /\ \A j \in 1..8 : Ui!ListQueries[j] \in Keys /\ Ui!DetailQueries[j] \in Keys
    /\ \A i, j \in 1..8 : i # j => /\ Ui!ListQueries[i] # Ui!ListQueries[j]
                                   /\ Ui!DetailQueries[i] # Ui!DetailQueries[j]
    /\ Ui!ListQueries[2] = "agent" /\ Ui!ListQueries[7] = "deploy_agent_state"
    /\ Ui!DetailQueries[1] = "agent" /\ Ui!DetailQueries[5] = "deploy_agent_state"
    /\ \A q \in Keys : \E i, j \in 1..8 : Ui!ListQueries[i] = q /\ Ui!DetailQueries[j] = q
    /\ Len(Ui!ListQueries) = 8 /\ Len(Ui!DetailQueries) = 8
<1>1. 1..8 = {1, 2, 3, 4, 5, 6, 7, 8}
  OBVIOUS
<1> QED BY <1>1 DEF Ui!ListQueries, Ui!DetailQueries, Keys

\* Both answer alike, whatever the query.
LEMMA AnswersAgree ==
    ASSUME RunsOK, NEW q \in Keys, NEW a
    PROVE  Ui!ListAnswer(q, a) = Ui!DetailAnswer(q, a)
<1>1. (Ui!Change \in Ui!GetAgentsWithActiveTestRuns) = Ui!HasActiveTestRuns(Ui!Change)
  <2>1. (Ui!Change \in Ui!GetAgentsWithActiveTestRuns) <=> Ui!HasActiveTestRuns(Ui!Change)
    BY DEF Ui!GetAgentsWithActiveTestRuns, Ui!HasActiveTestRuns, Ui!Change, Ui!None
  <2>2. Ui!HasActiveTestRuns(Ui!Change) \in BOOLEAN
    BY DEF Ui!HasActiveTestRuns
  <2> QED BY <2>1, <2>2
<1>2. (Ui!Change \in Ui!GetAgentsWithLandInFlight) = Ui!HasLandInFlight(Ui!Change)
  <2>1. (Ui!Change \in Ui!GetAgentsWithLandInFlight) <=> Ui!HasLandInFlight(Ui!Change)
    BY DEF Ui!GetAgentsWithLandInFlight, Ui!HasLandInFlight, Ui!Change, Ui!None
  <2>2. Ui!HasLandInFlight(Ui!Change) \in BOOLEAN
    BY DEF Ui!HasLandInFlight
  <2> QED BY <2>1, <2>2
<1>3. (Ui!Change \in Ui!GetAgentsWithActiveReview) = Ui!HasActiveReviewAgent
  <2>1. (Ui!Change \in Ui!GetAgentsWithActiveReview) <=> Ui!HasActiveReviewAgent
    BY DEF Ui!GetAgentsWithActiveReview, Ui!HasActiveReviewAgent, Ui!Ended, Ui!ClosedReviews
  <2>2. Ui!HasActiveReviewAgent \in BOOLEAN
    BY DEF Ui!HasActiveReviewAgent
  <2> QED BY <2>1, <2>2
<1>4. (Ui!Change \in Ui!GetDeployAgentIds) = Ui!IsDeployAgent(Ui!Change)
  <2>1. (Ui!Change \in Ui!GetDeployAgentIds) <=> Ui!IsDeployAgent(Ui!Change)
    BY DEF Ui!GetDeployAgentIds, Ui!IsDeployAgent, Ui!Change, Ui!None
  <2>2. Ui!IsDeployAgent(Ui!Change) \in BOOLEAN
    BY DEF Ui!IsDeployAgent
  <2> QED BY <2>1, <2>2
<1>5. Ui!RunsWhere(LAMBDA x : Ui!ShipsNow(x) /\ x.ref \in {"main", Ui!None})
        = Ui!RunsWhere(LAMBDA x : Ui!ShipsNow(x) /\ x.ref = "main")
  BY DEF RunsOK, Ui!RunsWhere, Ui!ShipsNow, Ui!None
<1>6. Ui!GetActiveDeployStatusByRepoRef
        = LET r == Ui!GetActiveDeployRun("main") IN IF r = 0 THEN Ui!None ELSE run[r].status
  BY <1>5 DEF Ui!GetActiveDeployStatusByRepoRef, Ui!GetActiveDeployRun
<1> USE DEF Ui!ListAnswer, Ui!DetailAnswer
<1>7. CASE q = "deploy_ids"
  BY <1>4, <1>7
<1>8. CASE q = "agent"
  BY <1>8
<1>9. CASE q = "testing"
  BY <1>1, <1>9
<1>10. CASE q = "landing"
  BY <1>2, <1>10
<1>11. CASE q = "reviewing"
  BY <1>3, <1>11
<1>12. CASE q = "deploy_status"
  BY <1>6, <1>12
<1>13. CASE q = "deploy_agent_state"
  BY <1>13
<1>14. CASE q = "dev_env"
  BY <1>14 DEF Ui!GetLiveDevEnvForAgent
<1> QED BY <1>7, <1>8, <1>9, <1>10, <1>11, <1>12, <1>13, <1>14 DEF Keys

\* An answer looks at the agent that was read for its deploy agent only.
LEMMA AnswerIsSaid ==
    ASSUME RunsOK, NEW q \in Keys, NEW a, q = "deploy_agent_state" => a = change
    PROVE  Ui!ListAnswer(q, a) = Says(q) /\ Ui!DetailAnswer(q, a) = Says(q)
<1>1. Ui!DetailAnswer(q, a) = Says(q)
  BY DEF Says, Ui!DetailAnswer, Keys
<1> QED BY <1>1, AnswersAgree

\* One more row, read while nothing is written, is what the rows say.
LEMMA ReadIsFresh ==
    ASSUME NEW page, NEW Q \in {Ui!ListQueries, Ui!DetailQueries}, NEW v, Fresh(page, Q), page.n < 8,
           torn = 0 => v = Says(Q[page.n + 1])
    PROVE  Fresh([n |-> page.n + 1, got |-> [page.got EXCEPT ![Q[page.n + 1]] = v]], Q)
<1> DEFINE k == page.n + 1
           new == [page.got EXCEPT ![Q[k]] = v]
           p == [n |-> k, got |-> new]
<1>1. /\ k \in 1..8 /\ Q[k] \in Keys /\ \A j \in 1..page.n : j \in 1..8 /\ j # k
      /\ \A j \in 1..k : j = k \/ j \in 1..page.n
  BY Queries DEF Fresh
<1>2. \A j \in 1..page.n : Q[j] \in Keys /\ Q[j] # Q[k]
  BY <1>1, Queries
<1>3. DOMAIN new = DOMAIN page.got /\ new[Q[k]] = v /\ \A j \in 1..page.n : new[Q[j]] = page.got[Q[j]]
  BY <1>1, <1>2 DEF Fresh
<1>4. p.n = k /\ p.got = new
  OBVIOUS
<1> HIDE DEF k, new, p
<1>5. Fresh(p, Q)
  <2>1. ASSUME torn = 0, NEW j \in 1..k PROVE new[Q[j]] = Says(Q[j])
    <3>1. CASE j = k
      BY <1>3, <2>1, <3>1 DEF k
    <3>2. CASE j \in 1..page.n
      BY <1>3, <2>1, <3>2 DEF Fresh
    <3> QED BY <1>1, <3>1, <3>2
  <2>2. k \in 0..8
    BY <1>1
  <2> QED BY <1>3, <1>4, <2>1, <2>2 DEF Fresh
<1> QED BY <1>5 DEF k, new, p

\* Whoever does not read, writes.
LEMMA ReadsOrWrites ==
    ASSUME Ui!Next
    PROVE  Ui!ListReads \/ Ui!DetailReads \/ Ui!Writes
BY DEF Ui!Next, Ui!ChangeMoves, Ui!Review, Ui!ReviewEnds, Ui!ReviewerStops, Ui!RequestChanges, Ui!Test,
       Ui!RunMoves, Ui!Propose, Ui!Assess, Ui!Reject, Ui!Approve, Ui!LinkRun, Ui!StartRun,
       Ui!ClaimDeployManifest, Ui!ExecutorEnds, Ui!EnvMoves

\* A run keeps its phase and its ref, and no deploy is inserted without a ref.
LEMMA RunsStep ==
    ASSUME Unambiguous, Refs \subseteq {"main"}, StatusT, RunsOK, [Ui!Next]_(Ui!vars)
    PROVE  RunsOK'
<1> USE DEF RunsOK
<1>1. RunRec' = RunRec
  BY DEF RunRec, Ui!Active, Ui!Gated, Ui!None, Ui!Change
<1>2. ASSUME NEW x \in RunRec, Ui!Insert(x), x.phase = "deploy" => x.ref = "main" PROVE RunsOK'
  <2>1. PICK r \in Runs : run' = [run EXCEPT ![r] = x]
    BY <1>2 DEF Ui!Insert
  <2> QED BY <1>1, <1>2, <2>1
<1>3. ASSUME NEW land \in BOOLEAN, Ui!Test(land) PROVE RunsOK'
  <2> DEFINE x == [phase |-> "test", status |-> "pending", land |-> land, agent |-> Ui!Change, ref |-> "branch"]
  <2>1. x \in RunRec /\ x.phase # "deploy" /\ Ui!Insert(x)
    BY <1>3 DEF Ui!Test, RunRec, Ui!Active, Ui!Gated
  <2> HIDE DEF x
  <2> QED BY <1>2, <2>1
<1>4. ASSUME NEW owner \in {Ui!Change, Ui!None}, NEW ref \in Refs, Ui!Propose(owner, ref) PROVE RunsOK'
  <2> DEFINE x == [phase |-> "deploy", status |-> "pending_review", land |-> FALSE, agent |-> owner, ref |-> ref]
  <2>1. x \in RunRec /\ x.ref = "main" /\ Ui!Insert(x)
    BY <1>4 DEF Ui!Propose, RunRec, Ui!Active, Ui!Gated
  <2> HIDE DEF x
  <2> QED BY <1>2, <2>1
<1>5. ASSUME NEW r, NEW s \in Ui!Active \cup {"passed", "failed"}, run' = [run EXCEPT ![r].status = s]
      PROVE  RunsOK'
  <2>1. \A x \in RunRec : /\ [x EXCEPT !.status = s] \in RunRec
                          /\ [x EXCEPT !.status = s].phase = x.phase
                          /\ [x EXCEPT !.status = s].ref = x.ref
    BY <1>5 DEF RunRec
  <2>2. run' \in [Runs -> RunRec]
    BY <1>5, <2>1
  <2>3. \A i \in Runs : run'[i].phase = run[i].phase /\ run'[i].ref = run[i].ref
    BY <1>5, <2>1
  <2> QED BY <1>1, <2>2, <2>3
<1>6. ASSUME NEW r \in Runs, \/ \E s \in {"running", "passed", "failed"} : Ui!RunMoves(r, s)
                             \/ Ui!Assess(r) \/ Ui!Reject(r)
      PROVE  RunsOK'
  <2>1. \E s \in Ui!Active \cup {"passed", "failed"} : run' = [run EXCEPT ![r].status = s]
    BY <1>6 DEF Ui!RunMoves, Ui!Assess, Ui!Reject, Ui!Active, Ui!Gated
  <2> QED BY <1>5, <2>1
<1>7. ASSUME NEW e \in Executors, Ui!LinkRun(e) PROVE RunsOK'
  <2>1. ASSUME NEW r, run' = [run EXCEPT ![r].agent = e] PROVE RunsOK'
    <3>1. \A x \in RunRec : /\ [x EXCEPT !.agent = e] \in RunRec
                            /\ [x EXCEPT !.agent = e].phase = x.phase
                            /\ [x EXCEPT !.agent = e].ref = x.ref
      BY <1>7 DEF RunRec
    <3>2. run' \in [Runs -> RunRec]
      BY <2>1, <3>1 DEF RunsOK
    <3>3. \A s \in Runs : run'[s].phase = run[s].phase /\ run'[s].ref = run[s].ref
      BY <2>1, <3>1 DEF RunsOK
    <3> QED BY <1>1, <3>2, <3>3 DEF RunsOK
  <2>2. run' = [run EXCEPT ![link[e].run].agent = e]
    BY <1>7 DEF Ui!LinkRun
  <2> QED BY <2>1, <2>2
<1>8. ASSUME NEW e \in Executors, Ui!StartRun(e) PROVE RunsOK'
  <2>1. run' = [run EXCEPT ![link[e].run].status = "running"] /\ "running" \in Ui!Active
    BY <1>8 DEF Ui!StartRun, Ui!Active
  <2> QED BY <1>5, <2>1
<1>9. ASSUME \/ Ui!ListReads \/ Ui!DetailReads \/ \E s \in Worked : Ui!ChangeMoves(s)
             \/ \E v \in Reviewers : \/ Ui!Review(v) \/ Ui!ReviewerStops(v, "paused")
                                     \/ \E rec \in {"merge", "hold"} : Ui!ReviewEnds(v, rec)
             \/ Ui!RequestChanges
             \/ \E r \in Runs, e \in Executors : Ui!Approve(r, e)
             \/ \E e \in Executors : \/ Ui!ClaimDeployManifest(e)
                                     \/ \E s \in {"completed", "failed"} : Ui!ExecutorEnds(e, s)
             \/ \E e \in Envs, s \in {"starting", "ready", "failed", "stopping", "stopped"} : Ui!EnvMoves(e, s)
             \/ UNCHANGED Ui!vars
      PROVE  RunsOK'
  <2>1. UNCHANGED run
    BY <1>9 DEF Ui!ListReads, Ui!DetailReads, Ui!ChangeMoves, Ui!Review, Ui!ReviewerStops, Ui!ReviewEnds,
                Ui!RequestChanges, Ui!Approve, Ui!ClaimDeployManifest, Ui!ExecutorEnds, Ui!EnvMoves, Ui!vars
  <2> QED BY <1>1, <2>1
<1> QED BY <1>3, <1>4, <1>6, <1>7, <1>8, <1>9 DEF Ui!Next

\* What the rows say does not change while none is written.
LEMMA SaysLasts ==
    ASSUME UNCHANGED <<change, agents, run, link, env>>
    PROVE  \A q : Says(q)' = Says(q)
BY DEF Says, Ui!DetailAnswer, Ui!IsDeployAgent, Ui!HasActiveTestRuns, Ui!HasLandInFlight,
       Ui!HasActiveReviewAgent, Ui!GetActiveDeployRun, Ui!GetLiveDevEnvForAgent, Ui!StateOf, Ui!LiveEnvs,
       Ui!RunsWhere, Ui!ShipsNow, Ui!InTest, Ui!Landing, Ui!Dispatched, Ui!Last

\* A write while the requests run is counted; before them there is nothing read.
LEMMA FreshStep ==
    ASSUME RunsOK, FreshPages, [Ui!Next]_(Ui!vars)
    PROVE  FreshPages'
<1>1. CASE Ui!Writes
  <2>1. card' = card /\ header' = header /\ torn' = IF Ui!Loading THEN torn + 1 ELSE 0
    BY <1>1 DEF Ui!Writes, Ui!pages
  <2>2. CASE Ui!Loading
    <3>1. torn' \in Nat /\ torn' # 0
      BY <2>1, <2>2 DEF FreshPages
    <3> QED BY <2>1, <3>1 DEF FreshPages, Fresh
  <2>3. CASE ~Ui!Loading
    <3>1. card.n = 0 /\ header.n = 0 /\ torn' = 0
      BY <2>1, <2>3 DEF Ui!Loading, FreshPages, Fresh
    <3> QED BY <2>1, <3>1 DEF FreshPages, Fresh
  <2> QED BY <2>2, <2>3
<1>2. CASE UNCHANGED Ui!vars
  <2>1. UNCHANGED <<change, agents, run, link, env, card, header, torn>>
    BY <1>2 DEF Ui!vars
  <2> QED BY <2>1, SaysLasts DEF FreshPages, Fresh, Ui!ListQueries, Ui!DetailQueries
<1>3. CASE Ui!ListReads
  <2> DEFINE q == Ui!ListQueries[card.n + 1]
             v == Ui!ListAnswer(q, card.got["agent"])
  <2>1. /\ UNCHANGED <<change, agents, run, link, env, header, torn>> /\ card.n < 8 /\ card.n \in 0..8
        /\ card' = [n |-> card.n + 1, got |-> [card.got EXCEPT ![q] = v]]
    BY <1>3, Queries DEF Ui!ListReads, Ui!Read, FreshPages, Fresh
  <2>2. q \in Keys
    BY <2>1, Queries
  <2>3. torn = 0 => v = Says(q)
    <3> SUFFICES ASSUME torn = 0 PROVE v = Says(q)
      OBVIOUS
    <3>1. ASSUME q = "deploy_agent_state" PROVE card.got["agent"] = change
      <4>1. 2 \in 1..card.n
        BY <2>1, <3>1 DEF Ui!ListQueries
      <4>2. Says("agent") = change
        BY DEF Says, Ui!DetailAnswer
      <4> QED BY <4>1, <4>2, Queries DEF FreshPages, Fresh
    <3> QED BY <2>2, <3>1, AnswerIsSaid
  <2> HIDE DEF q, v
  <2>4. Fresh([n |-> card.n + 1, got |-> [card.got EXCEPT ![q] = v]], Ui!ListQueries)
    BY <2>1, <2>3, ReadIsFresh DEF FreshPages, q
  <2>5. Fresh(card', Ui!ListQueries)
    BY <2>1, <2>4
  <2> QED BY <2>1, <2>5, SaysLasts DEF FreshPages, Fresh, Ui!ListQueries, Ui!DetailQueries
<1>4. CASE Ui!DetailReads
  <2> DEFINE q == Ui!DetailQueries[header.n + 1]
             v == Ui!DetailAnswer(q, header.got["agent"])
  <2>1. /\ UNCHANGED <<change, agents, run, link, env, card, torn>> /\ header.n < 8 /\ header.n \in 0..8
        /\ header' = [n |-> header.n + 1, got |-> [header.got EXCEPT ![q] = v]]
    BY <1>4, Queries DEF Ui!DetailReads, Ui!Read, FreshPages, Fresh
  <2>2. q \in Keys
    BY <2>1, Queries
  <2>3. torn = 0 => v = Says(q)
    <3> SUFFICES ASSUME torn = 0 PROVE v = Says(q)
      OBVIOUS
    <3>1. ASSUME q = "deploy_agent_state" PROVE header.got["agent"] = change
      <4>1. 1 \in 1..header.n
        BY <2>1, <3>1 DEF Ui!DetailQueries
      <4>2. Says("agent") = change
        BY DEF Says, Ui!DetailAnswer
      <4> QED BY <4>1, <4>2, Queries DEF FreshPages, Fresh
    <3> QED BY <2>2, <3>1, AnswerIsSaid
  <2> HIDE DEF q, v
  <2>4. Fresh([n |-> header.n + 1, got |-> [header.got EXCEPT ![q] = v]], Ui!DetailQueries)
    BY <2>1, <2>3, ReadIsFresh DEF FreshPages, q
  <2>5. Fresh(header', Ui!DetailQueries)
    BY <2>1, <2>4
  <2> QED BY <2>1, <2>5, SaysLasts DEF FreshPages, Fresh, Ui!ListQueries, Ui!DetailQueries
<1> QED BY <1>1, <1>2, <1>3, <1>4, ReadsOrWrites

\* The card and the header of a change agree, whatever state it is in, when no row was written
\* while the two requests ran and no deploy is without a ref (agent-status.ts:1-6).
THEOREM CardAgrees ==
    ASSUME Unambiguous, Refs \subseteq {"main"} PROVE Ui!Spec => []Ui!CardAgreesWithHeader
<1>1. Ui!Init => StatusOK /\ RunsOK /\ FreshPages
  <2> SUFFICES ASSUME Ui!Init PROVE RunsOK /\ FreshPages
    BY StatusInit
  <2>1. RunsOK
    <3>1. Ui!NoRun \in RunRec /\ Ui!NoRun.phase # "deploy"
      BY DEF RunRec, Ui!NoRun, Ui!None
    <3> QED BY <3>1 DEF Ui!Init, RunsOK
  <2>2. FreshPages
    BY DEF Ui!Init, FreshPages, Fresh, Ui!Unread, Keys
  <2> QED BY <2>1, <2>2
<1>2. StatusOK /\ RunsOK /\ FreshPages /\ [Ui!Next]_(Ui!vars) => StatusOK' /\ RunsOK' /\ FreshPages'
  BY StatusStep, RunsStep, FreshStep DEF StatusOK
<1>3. ASSUME FreshPages PROVE Ui!CardAgreesWithHeader
  <2> SUFFICES ASSUME Ui!Loaded, torn = 0
               PROVE  Ui!Shown(card) = Ui!Shown(header) /\ card.got["deploy_ids"] = header.got["deploy_ids"]
    BY DEF Ui!CardAgreesWithHeader
  <2>1. card.n = 8 /\ header.n = 8
    BY Queries DEF Ui!Loaded
  <2>2. \A q \in Keys : card.got[q] = Says(q) /\ header.got[q] = Says(q)
    BY <1>3, <2>1, Queries DEF FreshPages, Fresh
  <2>3. /\ card.got["agent"] = header.got["agent"] /\ card.got["deploy_ids"] = header.got["deploy_ids"]
        /\ card.got["testing"] = header.got["testing"] /\ card.got["landing"] = header.got["landing"]
        /\ card.got["reviewing"] = header.got["reviewing"]
        /\ card.got["deploy_status"] = header.got["deploy_status"]
        /\ card.got["deploy_agent_state"] = header.got["deploy_agent_state"]
        /\ card.got["dev_env"] = header.got["dev_env"]
    BY <2>2 DEF Keys
  <2> QED BY <2>3 DEF Ui!Shown, Ui!ComputeAgentStatus
<1> QED BY <1>1, <1>2, <1>3, PTL DEF Ui!Spec

-----------------------------------------------------------------------------
(* What a page is subscribed to.                                           *)

Commands == [op : {"subscribe", "unsubscribe"}, agent : Agents]

\* Of the commands for one agent the last one counts: it subscribes if the page views that agent.
LastCounts(q, a) ==
    \A i \in 1..Len(q) :
        (\A j \in 1..Len(q) : j > i => q[j].agent # q[i].agent) => (q[i].op = "subscribe" <=> q[i].agent = a)

\* An agent that no command names is subscribed to if the page views it.
Unnamed(q, S, a) == \A b \in Agents : (\A i \in 1..Len(q) : q[i].agent # b) => (b \in S <=> b = a)

SocketOK ==
    /\ commands \in Seq(Commands) /\ subs \subseteq Agents
    /\ "viewed" \in DOMAIN tab /\ tab.viewed \in Agents
    /\ LastCounts(commands, tab.viewed)
    /\ sock = "open" => Unnamed(commands, subs, tab.viewed)
    /\ sock # "open" => subs = {}
    /\ sock = "closed" => commands = <<>>

\* On reconnecting the viewed agent comes before all else; a command taken is the first; a page
\* that moves on says which agent it leaves and which it now views.
LEMMA PrependCounts ==
    ASSUME NEW q \in Seq(Commands), NEW a \in Agents, LastCounts(q, a)
    PROVE  LET p == <<[op |-> "subscribe", agent |-> a]>> \o q
           IN  p \in Seq(Commands) /\ LastCounts(p, a) /\ Unnamed(p, {}, a)
<1> DEFINE c == [op |-> "subscribe", agent |-> a]
           p == <<c>> \o q
<1>1. c \in Commands /\ c.op = "subscribe" /\ c.agent = a
  BY DEF Commands
<1>2. p \in Seq(Commands) /\ Len(p) = Len(q) + 1 /\ p[1] = c /\ Len(q) \in Nat
      /\ \A i \in 1..Len(q) : p[i + 1] = q[i]
  BY <1>1
<1> HIDE DEF p, c
<1>3. LastCounts(p, a)
  <2> SUFFICES ASSUME NEW i \in 1..Len(p), \A j \in 1..Len(p) : j > i => p[j].agent # p[i].agent
               PROVE  p[i].op = "subscribe" <=> p[i].agent = a
    BY DEF LastCounts
  <2>1. CASE i = 1
    BY <1>1, <1>2, <2>1
  <2>2. CASE i # 1
    <3>1. i - 1 \in 1..Len(q) /\ p[i] = q[i - 1]
      <4>1. i - 1 \in 1..Len(q) /\ (i - 1) + 1 = i
        BY <1>2, <2>2
      <4> QED BY <1>2, <4>1
    <3>2. ASSUME NEW j \in 1..Len(q), j > i - 1 PROVE q[j].agent # q[i - 1].agent
      <4>1. j + 1 \in 1..Len(p) /\ j + 1 > i /\ p[j + 1] = q[j]
        BY <1>2, <3>2
      <4> QED BY <3>1, <4>1
    <3> QED BY <3>1, <3>2 DEF LastCounts
  <2> QED BY <2>1, <2>2
<1>4. Unnamed(p, {}, a)
  <2>1. 1 \in 1..Len(p) /\ p[1].agent = a
    BY <1>1, <1>2
  <2> QED BY <2>1 DEF Unnamed
<1> QED BY <1>2, <1>3, <1>4 DEF p, c

LEMMA HeadCounts ==
    ASSUME NEW q \in Seq(Commands), q # <<>>, NEW a \in Agents, NEW S,
           LastCounts(q, a), Unnamed(q, S, a)
    PROVE  /\ Tail(q) \in Seq(Commands) /\ Head(q) \in Commands /\ LastCounts(Tail(q), a)
           /\ Unnamed(Tail(q), IF Head(q).op = "subscribe" THEN S \cup {Head(q).agent}
                               ELSE S \ {Head(q).agent}, a)
<1> DEFINE c == Head(q)
           t == Tail(q)
           T == IF c.op = "subscribe" THEN S \cup {c.agent} ELSE S \ {c.agent}
<1>1. /\ t \in Seq(Commands) /\ c \in Commands /\ c = q[1] /\ Len(q) \in Nat /\ Len(q) > 0
      /\ Len(t) = Len(q) - 1 /\ \A i \in 1..Len(t) : t[i] = q[i + 1]
  OBVIOUS
<1> HIDE DEF c, t
<1>2. LastCounts(t, a)
  <2> SUFFICES ASSUME NEW i \in 1..Len(t), \A j \in 1..Len(t) : j > i => t[j].agent # t[i].agent
               PROVE  t[i].op = "subscribe" <=> t[i].agent = a
    BY DEF LastCounts
  <2>1. i + 1 \in 1..Len(q) /\ t[i] = q[i + 1]
    BY <1>1
  <2>2. ASSUME NEW j \in 1..Len(q), j > i + 1 PROVE q[j].agent # q[i + 1].agent
    <3>1. j - 1 \in 1..Len(t) /\ j - 1 > i /\ (j - 1) + 1 = j
      BY <1>1, <2>2
    <3>2. t[j - 1] = q[j]
      BY <1>1, <3>1
    <3> QED BY <2>1, <3>1, <3>2
  <2> QED BY <2>1, <2>2 DEF LastCounts
<1>3. Unnamed(t, T, a)
  <2> SUFFICES ASSUME NEW b \in Agents, \A i \in 1..Len(t) : t[i].agent # b
               PROVE  b \in T <=> b = a
    BY DEF Unnamed
  <2>1. ASSUME NEW j \in 1..Len(q), j > 1 PROVE q[j].agent # b
    <3>1. j - 1 \in 1..Len(t) /\ (j - 1) + 1 = j
      BY <1>1, <2>1
    <3>2. t[j - 1] = q[j]
      BY <1>1, <3>1
    <3> QED BY <3>1, <3>2
  <2>2. CASE c.agent = b
    <3>1. 1 \in 1..Len(q) /\ q[1].agent = b
      BY <1>1, <2>2
    <3>2. c.op = "subscribe" <=> b = a
      BY <1>1, <2>1, <3>1 DEF LastCounts
    <3> QED BY <2>2, <3>2
  <2>3. CASE c.agent # b
    <3>1. \A i \in 1..Len(q) : q[i].agent # b
      BY <1>1, <2>1, <2>3
    <3> QED BY <2>3, <3>1 DEF Unnamed
  <2> QED BY <2>2, <2>3
<1> QED BY <1>1, <1>2, <1>3 DEF c, t

LEMMA MoveCounts ==
    ASSUME NEW q \in Seq(Commands), NEW a \in Agents, NEW b \in Agents, a # b, LastCounts(q, a)
    PROVE  LET p == q \o <<[op |-> "unsubscribe", agent |-> a], [op |-> "subscribe", agent |-> b]>>
           IN  /\ p \in Seq(Commands) /\ LastCounts(p, b)
               /\ \A S : Unnamed(q, S, a) => Unnamed(p, S, b)
<1> DEFINE c == [op |-> "unsubscribe", agent |-> a]
           d == [op |-> "subscribe", agent |-> b]
           p == q \o <<c, d>>
<1>1. c \in Commands /\ c.op = "unsubscribe" /\ c.agent = a /\ d \in Commands /\ d.op = "subscribe" /\ d.agent = b
  BY DEF Commands
<1>2. /\ p \in Seq(Commands) /\ Len(q) \in Nat /\ Len(p) = Len(q) + 2
      /\ p[Len(q) + 1] = c /\ p[Len(q) + 2] = d
      /\ \A i \in 1..Len(q) : p[i] = q[i]
  <2> HIDE DEF c, d
  <2>1. <<c, d>> \in Seq(Commands) /\ Len(<<c, d>>) = 2 /\ <<c, d>>[1] = c /\ <<c, d>>[2] = d
    BY <1>1
  <2>2. p \in Seq(Commands) /\ Len(q) \in Nat /\ Len(p) = Len(q) + 2
    BY <2>1
  <2>3. \A i \in 1..Len(p) : p[i] = IF i <= Len(q) THEN q[i] ELSE <<c, d>>[i - Len(q)]
    BY <2>1
  <2>4. /\ Len(q) + 1 \in 1..Len(p) /\ ~(Len(q) + 1 <= Len(q)) /\ (Len(q) + 1) - Len(q) = 1
        /\ Len(q) + 2 \in 1..Len(p) /\ ~(Len(q) + 2 <= Len(q)) /\ (Len(q) + 2) - Len(q) = 2
        /\ \A i \in 1..Len(q) : i \in 1..Len(p) /\ i <= Len(q)
    BY <2>2
  <2> HIDE DEF p
  <2> QED BY <2>1, <2>2, <2>3, <2>4
<1> HIDE DEF p, c, d
<1>3. /\ Len(q) + 1 \in 1..Len(p) /\ p[Len(q) + 1].agent = a
      /\ Len(q) + 2 \in 1..Len(p) /\ p[Len(q) + 2].agent = b
  BY <1>1, <1>2
<1>4. LastCounts(p, b)
  <2> SUFFICES ASSUME NEW i \in 1..Len(p), \A j \in 1..Len(p) : j > i => p[j].agent # p[i].agent
               PROVE  p[i].op = "subscribe" <=> p[i].agent = b
    BY DEF LastCounts
  <2>1. CASE i = Len(q) + 2
    BY <1>1, <1>2, <2>1
  <2>2. CASE i = Len(q) + 1
    BY <1>1, <1>2, <2>2
  <2>3. CASE i \in 1..Len(q)
    <3>1. p[i] = q[i] /\ Len(q) + 1 > i /\ Len(q) + 2 > i
      BY <1>2, <2>3
    <3>2. q[i].agent # a /\ q[i].agent # b
      BY <1>3, <3>1
    <3>3. ASSUME NEW j \in 1..Len(q), j > i PROVE q[j].agent # q[i].agent
      <4>1. j \in 1..Len(p) /\ p[j] = q[j]
        BY <1>2
      <4> QED BY <3>1, <3>3, <4>1
    <3> QED BY <2>3, <3>1, <3>2, <3>3 DEF LastCounts
  <2> QED BY <1>2, <2>1, <2>2, <2>3
<1>5. ASSUME NEW S, Unnamed(q, S, a) PROVE Unnamed(p, S, b)
  <2> SUFFICES ASSUME NEW e \in Agents, \A i \in 1..Len(p) : p[i].agent # e
               PROVE  e \in S <=> e = b
    BY DEF Unnamed
  <2>1. e # a /\ e # b
    BY <1>3
  <2>2. \A i \in 1..Len(q) : q[i].agent # e
    BY <1>2
  <2> QED BY <1>5, <2>1, <2>2 DEF Unnamed
<1> QED BY <1>2, <1>4, <1>5 DEF p, c, d

\* Every step of the page and of its socket keeps the last command the one that counts.
LEMMA SocketStep == ASSUME SocketOK, [Live!Next]_(Live!vars) PROVE SocketOK'
<1> DEFINE Looks == "viewed" \in DOMAIN tab' /\ tab'.viewed = tab.viewed
           Same == UNCHANGED <<sock, commands, subs>> /\ Looks
<1>1. Same => SocketOK'
  BY DEF SocketOK, LastCounts, Unnamed, Commands
<1>2. ASSUME \/ \E a \in Agents : \/ \E kind \in Kinds : Live!Writes(a, kind)
                                \/ \E k \in Asks : Live!Asked(k, a)
             \/ \E k \in Asks : Live!TimesOut(k) \/ Live!Answers(k)
             \/ \E n \in Live!Notices : Live!Relays(n)
             \/ Live!RelayDrops \/ Live!RelayListens \/ UNCHANGED Live!vars
      PROVE  UNCHANGED <<sock, commands, subs, tab>>
  BY <1>2 DEF Live!Writes, Live!Asked, Live!TimesOut, Live!Answers, Live!Relays, Live!RelayDrops,
              Live!RelayListens, Live!vars
<1>3. ASSUME NEW i \in DOMAIN reqs, Live!Serves(i) \/ Live!Arrives(i) PROVE Same
  <2>1. CASE Live!Serves(i)
    BY <2>1 DEF Live!Serves, SocketOK
  <2>2. CASE Live!Arrives(i)
    <3>1. UNCHANGED <<sock, commands, subs>> /\ tab' = Live!Shown(tab, reqs[i])
      BY <2>2 DEF Live!Arrives
    <3>2. Looks
      BY <3>1 DEF Live!Shown, SocketOK
    <3> QED BY <3>1, <3>2
  <2> QED BY <1>3, <2>1, <2>2
<1>4. ASSUME Live!Types \/ Live!Saves PROVE Same
  BY <1>4 DEF Live!Types, Live!Saves, SocketOK
<1>5. CASE Live!Receives
  <2>1. UNCHANGED <<sock, commands, subs>> /\ Live!HandleEvent(Head(down))
    BY <1>5 DEF Live!Receives
  <2>2. UNCHANGED tab \/ \E m : tab' = [tab EXCEPT !.msgs = m]
    BY <2>1 DEF Live!HandleEvent, Live!HandleMessage
  <2>3. Looks
    BY <2>2 DEF SocketOK
  <2> QED BY <1>1, <2>1, <2>3
<1>6. CASE Live!Opens
  <2>1. /\ sock = "connecting" /\ sock' = "open" /\ subs' = subs
        /\ commands' = <<[op |-> "subscribe", agent |-> tab.viewed]>> \o commands
    BY <1>6 DEF Live!Opens
  <2>2. \E g, f : tab' = [tab EXCEPT !.gen = g, !.floor = f]
    BY <1>6 DEF Live!Opens
  <2>3. Looks
    BY <2>2 DEF SocketOK
  <2>4. /\ commands' \in Seq(Commands) /\ LastCounts(commands', tab.viewed)
        /\ Unnamed(commands', {}, tab.viewed) /\ subs = {}
    BY <2>1, PrependCounts DEF SocketOK
  <2> QED BY <2>1, <2>3, <2>4 DEF SocketOK
<1>7. CASE Live!Closes \/ Live!Reconnects
  <2>1. CASE Live!Closes
    <3>1. sock' = "closed" /\ commands' = <<>> /\ subs' = {} /\ tab' = tab
      BY <2>1 DEF Live!Closes
    <3>2. <<>> \in Seq(Commands) /\ LastCounts(<<>>, tab.viewed)
      BY DEF LastCounts
    <3> QED BY <3>1, <3>2 DEF SocketOK
  <2>2. CASE Live!Reconnects
    <3>1. sock = "closed" /\ sock' = "connecting" /\ UNCHANGED <<commands, subs, tab>>
      BY <2>2 DEF Live!Reconnects
    <3> QED BY <3>1 DEF SocketOK
  <2> QED BY <1>7, <2>1, <2>2
<1>8. CASE Live!Subscribes
  <2>1. /\ sock = "open" /\ commands # <<>> /\ UNCHANGED <<sock, tab>> /\ commands' = Tail(commands)
        /\ subs' = IF Head(commands).op = "subscribe" THEN subs \cup {Head(commands).agent}
                    ELSE subs \ {Head(commands).agent}
    BY <1>8 DEF Live!Subscribes
  <2>2. /\ commands' \in Seq(Commands) /\ Head(commands) \in Commands
        /\ LastCounts(commands', tab.viewed) /\ Unnamed(commands', subs', tab.viewed)
    BY <2>1, HeadCounts DEF SocketOK
  <2>3. subs' \subseteq Agents
    BY <2>1, <2>2 DEF SocketOK, Commands
  <2> QED BY <2>1, <2>2, <2>3 DEF SocketOK
<1>9. ASSUME NEW a \in Agents, Live!Navigates(a) PROVE SocketOK'
  <2>1. /\ a # tab.viewed /\ UNCHANGED <<sock, subs>>
        /\ commands' = IF sock = "closed" THEN commands
                       ELSE commands \o <<[op |-> "unsubscribe", agent |-> tab.viewed],
                                          [op |-> "subscribe", agent |-> a]>>
        /\ tab' = [tab EXCEPT !.viewed = a, !.sees = tab.dirty]
    BY <1>9 DEF Live!Navigates
  <2>2. "viewed" \in DOMAIN tab' /\ tab'.viewed = a
    BY <2>1 DEF SocketOK
  <2>3. CASE sock = "closed"
    <3>1. commands' = <<>> /\ LastCounts(<<>>, a) /\ <<>> \in Seq(Commands)
      BY <2>1, <2>3 DEF SocketOK, LastCounts
    <3> QED BY <2>1, <2>2, <2>3, <3>1 DEF SocketOK
  <2>4. CASE sock # "closed"
    <3>1. /\ commands' \in Seq(Commands) /\ LastCounts(commands', a)
          /\ Unnamed(commands, subs, tab.viewed) => Unnamed(commands', subs, a)
      BY <2>1, <2>4, MoveCounts DEF SocketOK
    <3> QED BY <2>1, <2>2, <2>4, <3>1 DEF SocketOK
  <2> QED BY <2>3, <2>4
<1>10. UNCHANGED <<sock, commands, subs, tab>> => Same
  BY DEF SocketOK
<1> HIDE DEF Same
<1> QED BY <1>1, <1>2, <1>3, <1>4, <1>5, <1>6, <1>7, <1>8, <1>9, <1>10 DEF Live!Next

\* Once its commands are through, an open socket gets the messages of the agent its page views
\* and of no other, for any number of links followed, closings and commands on their way
\* (ws.ts: subsRef, safeSend).
THEOREM SubscriptionHolds == ASSUME Home \in Agents PROVE Live!Spec => []Live!SubscribedToViewed
<1>1. Live!Init => SocketOK
  <2> SUFFICES ASSUME Live!Init PROVE SocketOK
    OBVIOUS
  <2> DEFINE c == [op |-> "subscribe", agent |-> Home]
  <2>1. sock = "connecting" /\ subs = {} /\ commands = <<c>> /\ "viewed" \in DOMAIN tab /\ tab.viewed = Home
    BY DEF Live!Init
  <2>2. <<c>> \in Seq(Commands) /\ Len(<<c>>) = 1 /\ <<c>>[1] = c /\ c.op = "subscribe" /\ c.agent = Home
    BY DEF Commands
  <2> HIDE DEF c
  <2>3. LastCounts(<<c>>, Home)
    BY <2>2 DEF LastCounts
  <2> QED BY <2>1, <2>2, <2>3 DEF SocketOK
<1>2. SocketOK /\ [Live!Next]_(Live!vars) => SocketOK'
  BY SocketStep
<1>3. SocketOK => Live!SubscribedToViewed
  <2> SUFFICES ASSUME SocketOK, sock = "open", commands = <<>> PROVE subs = {tab.viewed}
    BY DEF Live!SubscribedToViewed
  <2>1. Len(commands) = 0
    OBVIOUS
  <2>2. \A b \in Agents : b \in subs <=> b = tab.viewed
    BY <2>1 DEF SocketOK, Unnamed
  <2> QED BY <2>2 DEF SocketOK
<1> QED BY <1>1, <1>2, <1>3, PTL DEF Live!Spec
=============================================================================
