---------------------------- MODULE InProcessProofs ----------------------------
(***************************************************************************)
(* InProcess: no item is the prompt of two turns, and no draining mark     *)
(* outlives the turn that clears it.                                       *)
(*                                                                         *)
(* TakenOnce rests on where an item can be. A queue holds only what was    *)
(* sent to its agent (QueueOK), so emptying it takes the item from every   *)
(* queue; what was not sent, waits for an interrupt or is still a task has *)
(* not been taken (MessageOK, TaskOK). DrainingTracked rests on the runners*)
(* (TurnOK, RunnerOK): a slot that a new runner gets had none.             *)
(*                                                                         *)
(* RunMoves, QueueMoves and TasksMove say what any step may do to the      *)
(* runners, to the queues and to the tasks; the rest follows from them.    *)
(*                                                                         *)
(* The last parts are about HostProcesses, the processes on its machine,   *)
(* and SessionFile, the sessions that fresh starts leave.                  *)
(***************************************************************************)
EXTENDS InProcess, FiniteSetTheorems, WellFoundedInduction, TLAPS

CONSTANTS Pids, MaxCrashes, Hooks, Users
VARIABLES proc, compacted, boss, crashes, wronged
Host == INSTANCE HostProcesses

CONSTANTS Keep, LineKinds, MaxLines, MaxTrims, MaxFresh, Turns, Quiet
VARIABLES file, backup, trim, lines, trims, fresh, left
Sess == INSTANCE SessionFile WITH Kinds <- LineKinds

\* A runner that is not thrown away has an agent and a kind of turn.
TurnOK(r) == turn[r].pc # "free" => turn[r].agent \in Agents /\ turn[r].kind # "none"

\* The runner in the map is alive, and of this agent.
RunnerOK(a) == runners[a] # 0 => turn[runners[a]].agent = a /\ turn[runners[a]].pc # "free"

\* A task that may still notify is of an agent, and has notified nobody.
TaskOK(t) ==
    /\ task[t].pc \in {"tracked", "reading"} => task[t].agent \in Agents
    /\ task[t].pc # "gone" => taken[t] = 0

In(q) == {q[k] : k \in DOMAIN q}

\* What is in a queue was sent to its agent, and no turn has had it.
QueueOK(a) ==
    \A i \in In(inputQueues[a]) :
        /\ taken[i] = 0
        /\ i \in Messages => where[i] = a /\ i \notin urgent
        /\ i \in Tasks => task[i].agent = a /\ task[i].pc = "gone"

\* A message that was not sent yet, or waits for its interrupt, has not been taken.
MessageOK(m) ==
    /\ where[m] = "none" => taken[m] = 0
    /\ m \in urgent => where[m] \in Agents /\ taken[m] = 0

-----------------------------------------------------------------------------
(* The parts of the type invariant.                                        *)

RowRec == [state : States, session : BOOLEAN]
TurnRec == [pc : {"free", "read", "budget", "announce", "query", "done"}, agent : Agents \cup {"none"},
            kind : {"none", "start", "input", "note"}, run : BOOLEAN, snap : States \cup {"none"}]
DrainRec == [read : Nat, ready : Nat]
CtlRec == [op : {"none", "pause", "kill"}, pc : {"none", "read", "finish"}, r : Slots \cup {0}]
TaskRec == [pc : {"none", "tracked", "reading", "gone"}, agent : Agents \cup {"none"},
            snap : States \cup {"none"}]

RowsT == row \in [Agents -> RowRec]
QueuesT == inputQueues \in [Agents -> Seq(Items)]
ItemsT == urgent \subseteq Messages /\ where \in [Messages -> Agents \cup {"none"}]
TakenT == taken \in [Items -> Nat] /\ \A i \in Items : taken[i] <= 1
RunT == /\ draining \subseteq Agents /\ runners \in [Agents -> Slots \cup {0}]
        /\ turn \in [Slots -> TurnRec]
DrainT == drain \in [Agents -> DrainRec]
CtlT == ctl \in [Agents -> CtlRec]
TaskT == task \in [Tasks -> TaskRec]
CountsT == ops \in 0..MaxOps /\ faults \in 0..MaxFaults

Typed == RowsT /\ QueuesT /\ ItemsT /\ TakenT /\ RunT /\ DrainT /\ CtlT /\ TaskT /\ CountsT

IInv ==
    /\ Typed
    /\ \A r \in Slots : TurnOK(r)
    /\ \A a \in Agents : RunnerOK(a)
    /\ \A t \in Tasks : TaskOK(t)
    /\ \A a \in Agents : QueueOK(a)
    /\ \A m \in Messages : MessageOK(m)
    /\ DrainingTracked

-----------------------------------------------------------------------------
(* The least of a set of slots.                                            *)

LEMMA LeastOf ==
    ASSUME NEW S \in SUBSET Nat, S # {}
    PROVE  \E x \in S : \A y \in S : x <= y
<1> DEFINE R == {ss \in Nat \X Nat : ss[1] < ss[2]}
<1>1. R = OpToRel(<, Nat)
  BY DEF OpToRel
<1>2. IsWellFoundedOn(R, Nat)
  BY <1>1, NatLessThanWellFounded
<1>3. \E x \in S : \A y \in S : ~(<<y, x>> \in R)
  <2> HIDE DEF R
  <2> QED BY <1>2, WFMin
<1>4. PICK x \in S : \A y \in S : ~(<<y, x>> \in R)
  BY <1>3
<1>5. ASSUME NEW y \in S PROVE x <= y
  <2>1. ~(<<y, x>> \in R) /\ x \in Nat /\ y \in Nat
    BY <1>4
  <2>2. ~(y < x)
    BY <2>1
  <2> HIDE DEF R
  <2> QED BY <2>1, <2>2
<1> QED BY <1>5

LEMMA MinIsIn ==
    ASSUME NEW S \in SUBSET Nat, S # {}
    PROVE  Min(S) \in S
BY LeastOf DEF Min

Kinds == {"start", "input", "note"}

\* A runner is started on a slot that was free.
Begins(a, kind) ==
    \E r \in Slots : /\ turn[r].pc = "free" /\ r # 0
                     /\ turn' = [turn EXCEPT ![r] = NewTurn(a, kind)]
                     /\ runners' = [runners EXCEPT ![a] = r]

LEMMA NewRunnerBegins ==
    ASSUME NEW a, NEW kind, NEW items, NewRunner(a, kind, items)
    PROVE  /\ Begins(a, kind)
           /\ taken' = [i \in Items |-> IF i \in items THEN taken[i] + 1 ELSE taken[i]]
<1> DEFINE r == Min(FreeSlots)
<1>1. FreeSlots # {} /\ FreeSlots \in SUBSET Nat
  BY SlotsNat DEF NewRunner, FreeSlots
<1>2. r \in FreeSlots
  BY <1>1, MinIsIn
<1>3. /\ turn' = [turn EXCEPT ![r] = NewTurn(a, kind)]
      /\ runners' = [runners EXCEPT ![a] = r]
      /\ taken' = [i \in Items |-> IF i \in items THEN taken[i] + 1 ELSE taken[i]]
  BY DEF NewRunner
<1>4. r \in Slots /\ turn[r].pc = "free" /\ r # 0
  BY <1>2, SlotsNat DEF FreeSlots
<1> HIDE DEF r
<1> QED BY <1>3, <1>4 DEF Begins

-----------------------------------------------------------------------------
(* Runners, their turns and the draining mark.                             *)

\* A turn goes on: its agent and its kind stay, and it is neither created nor thrown away.
GoesOn(r, rec) ==
    /\ turn' = [turn EXCEPT ![r] = rec] /\ rec \in TurnRec
    /\ rec.agent = turn[r].agent /\ rec.kind = turn[r].kind
    /\ rec.pc = turn[r].pc \/ (turn[r].pc # "free" /\ rec.pc # "free")

RunMoves ==
    \/ UNCHANGED <<draining, runners, turn>>
    \/ \E a \in Agents : Begins(a, "start") /\ UNCHANGED draining
    \/ \E a \in Agents, kind \in {"input", "note"} : Begins(a, kind) /\ draining' = draining \cup {a}
    \/ \E r \in Slots, rec \in TurnRec : GoesOn(r, rec) /\ UNCHANGED <<draining, runners>>
    \/ \E a \in Agents : runners' = [runners EXCEPT ![a] = 0] /\ UNCHANGED <<draining, turn>>
    \/ \E r \in Slots : /\ turn[r].pc = "done" /\ turn' = [turn EXCEPT ![r] = Free]
                        /\ ForgetRunner(turn[r].agent, r)
                        /\ draining' = ClearDraining(turn[r].agent, turn[r].kind)

\* What any two fields of a turn may be set to.
LEMMA TurnFields ==
    ASSUME RunT, NEW r \in Slots,
           NEW pc \in {"read", "budget", "announce", "query", "done"},
           NEW run \in BOOLEAN, NEW snap \in States \cup {"none"}, turn[r].pc # "free"
    PROVE  /\ turn' = [turn EXCEPT ![r].pc = pc] => \E rec \in TurnRec : GoesOn(r, rec)
           /\ turn' = [turn EXCEPT ![r].pc = pc, ![r].run = run] => \E rec \in TurnRec : GoesOn(r, rec)
           /\ turn' = [turn EXCEPT ![r].pc = pc, ![r].snap = snap] => \E rec \in TurnRec : GoesOn(r, rec)
<1> DEFINE r1 == [turn[r] EXCEPT !.pc = pc]
           r2 == [turn[r] EXCEPT !.pc = pc, !.run = run]
           r3 == [turn[r] EXCEPT !.pc = pc, !.snap = snap]
<1>0. turn[r] \in TurnRec
  BY DEF RunT
<1>1. r1 \in TurnRec /\ r1.agent = turn[r].agent /\ r1.kind = turn[r].kind /\ r1.pc # "free"
  BY <1>0 DEF TurnRec
<1>2. r2 \in TurnRec /\ r2.agent = turn[r].agent /\ r2.kind = turn[r].kind /\ r2.pc # "free"
  BY <1>0 DEF TurnRec
<1>3. r3 \in TurnRec /\ r3.agent = turn[r].agent /\ r3.kind = turn[r].kind /\ r3.pc # "free"
  BY <1>0 DEF TurnRec
<1>4. /\ turn' = [turn EXCEPT ![r].pc = pc] => turn' = [turn EXCEPT ![r] = r1]
      /\ turn' = [turn EXCEPT ![r].pc = pc, ![r].run = run] => turn' = [turn EXCEPT ![r] = r2]
      /\ turn' = [turn EXCEPT ![r].pc = pc, ![r].snap = snap] => turn' = [turn EXCEPT ![r] = r3]
  BY <1>0 DEF RunT
<1> HIDE DEF r1, r2, r3
<1> QED BY <1>1, <1>2, <1>3, <1>4 DEF GoesOn

LEMMA StopGoesOn ==
    ASSUME RunT, NEW r \in Slots, Stop(r)
    PROVE  \E rec \in TurnRec : GoesOn(r, rec)
<1> DEFINE rec == [turn[r] EXCEPT !.run = FALSE]
<1>1. rec \in TurnRec /\ rec.agent = turn[r].agent /\ rec.kind = turn[r].kind /\ rec.pc = turn[r].pc
  BY DEF RunT, TurnRec
<1>2. turn' = [turn EXCEPT ![r] = rec]
  BY DEF Stop, RunT
<1> HIDE DEF rec
<1> QED BY <1>1, <1>2 DEF GoesOn

LEMMA RunSteps ==
    ASSUME Typed, \A r \in Slots : TurnOK(r), \A t \in Tasks : TaskOK(t), [Next]_vars
    PROVE  RunMoves
<1> USE DEF RunMoves
<1>0. RunT
  BY DEF Typed
<1>1. ASSUME NEW a \in Agents, StartAgent(a) PROVE RunMoves
  BY <1>1, NewRunnerBegins DEF StartAgent
<1>2. ASSUME NEW a \in Agents, TakeQueue(a) PROVE RunMoves
  <2>1. CASE UNCHANGED <<draining, runners, turn>>
    BY <2>1
  <2>2. CASE /\ NewRunner(a, "input", {inputQueues[a][i] : i \in DOMAIN inputQueues[a]})
             /\ draining' = draining \cup {a}
    BY <2>2, NewRunnerBegins
  <2> QED BY <1>2, <2>1, <2>2 DEF TakeQueue
<1>3. ASSUME NEW a \in Agents, DrainReads(a) PROVE RunMoves
  <2>1. TakeQueue(a) \/ UNCHANGED <<draining, runners, turn>>
    BY <1>3 DEF DrainReads
  <2> QED BY <1>2, <2>1
<1>4. ASSUME NEW a \in Agents, DrainReady(a) PROVE RunMoves
  BY <1>2, <1>4 DEF DrainReady
<1>5. ASSUME NEW a \in Agents, PauseActs(a) \/ KillActs(a) PROVE RunMoves
  <2>1. (\E r \in Slots : Stop(r) /\ UNCHANGED <<draining, runners>>) \/ UNCHANGED <<draining, runners, turn>>
    BY <1>5 DEF PauseActs, KillActs, Typed, CtlT, CtlRec
  <2> QED BY <1>0, <2>1, StopGoesOn
<1>6. ASSUME NEW a \in Agents, PauseWrites(a) \/ ResumeAgent(a) PROVE RunMoves
  BY <1>6 DEF PauseWrites, ResumeAgent
<1>7. ASSUME NEW a \in Agents, NEW op \in {"pause", "kill"}, Control(a, op) PROVE RunMoves
  BY <1>7 DEF Control
<1>8. ASSUME NEW a \in Agents, NEW m \in Messages, SendInput(a, m) \/ SendUrgent(a, m)
      PROVE  RunMoves
  BY <1>8 DEF SendInput, SendUrgent
<1>81. ASSUME NEW m \in Messages, UrgentQueues(m) PROVE RunMoves
  BY <1>81 DEF UrgentQueues
<1>9. ASSUME NEW a \in Agents, KillForgets(a) PROVE RunMoves
  BY <1>9 DEF KillForgets
<1>10. ASSUME NEW r \in Slots, TurnReads(r) PROVE RunMoves
  <2>1. turn[r].agent \in Agents /\ turn[r].pc = "read"
    BY <1>10 DEF TurnReads, TurnOK
  <2>2. row[turn[r].agent].state \in States \cup {"none"}
    BY <2>1 DEF Typed, RowsT, RowRec
  <2>3. /\ turn' = [turn EXCEPT ![r].pc = "budget", ![r].snap = row[turn[r].agent].state]
        /\ UNCHANGED <<draining, runners>>
    BY <1>10 DEF TurnReads
  <2> QED BY <1>0, <2>1, <2>2, <2>3, TurnFields
<1>11. ASSUME NEW r \in Slots, NEW pc \in {"query", "done"}, SetTurn(r, pc), turn[r].pc # "free",
              UNCHANGED <<draining, runners>>
       PROVE  RunMoves
  BY <1>0, <1>11, TurnFields DEF SetTurn
<1>12. ASSUME NEW r \in Slots, BudgetDenied(r) \/ TurnOpens(r) \/ TurnResult(r) \/ TurnFails(r) \/ TurnStops(r)
       PROVE  RunMoves
  BY <1>11, <1>12 DEF BudgetDenied, TurnOpens, TurnResult, TurnFails, TurnStops
<1>13. ASSUME NEW r \in Slots, TurnBegins(r) PROVE RunMoves
  <2>1. PICK pc \in {"announce", "done"} : turn' = [turn EXCEPT ![r].pc = pc, ![r].run = TRUE]
    BY <1>13 DEF TurnBegins
  <2>2. turn[r].pc # "free" /\ UNCHANGED <<draining, runners>>
    BY <1>13 DEF TurnBegins
  <2> QED BY <1>0, <2>1, <2>2, TurnFields
<1>14. ASSUME NEW r \in Slots, SessionInit(r) PROVE RunMoves
  BY <1>14 DEF SessionInit
<1>15. ASSUME NEW r \in Slots, NEW t \in Tasks, Track(r, t) PROVE RunMoves
  BY <1>15 DEF Track
<1>16. ASSUME NEW r \in Slots, TurnEnds(r) PROVE RunMoves
  BY <1>16 DEF TurnEnds
<1>17. ASSUME NEW t \in Tasks, TaskCompletes(t) PROVE RunMoves
  BY <1>17 DEF TaskCompletes
<1>18. ASSUME NEW t \in Tasks, Notify(t) PROVE RunMoves
  <2>1. task[t].agent \in Agents
    BY <1>18 DEF Notify, TaskOK
  <2>2. CASE UNCHANGED <<draining, runners, turn>>
    BY <2>2
  <2>3. CASE NewRunner(task[t].agent, "note", {t}) /\ draining' = draining \cup {task[t].agent}
    BY <2>1, <2>3, NewRunnerBegins
  <2> QED BY <1>18, <2>2, <2>3 DEF Notify
<1>19. CASE UNCHANGED vars
  BY <1>19 DEF vars
<1> QED
  BY <1>1, <1>3, <1>4, <1>5, <1>6, <1>7, <1>8, <1>81, <1>9, <1>10, <1>12, <1>13, <1>14, <1>15, <1>16, <1>17,
     <1>18, <1>19
  DEF Next, Turn, Flow, Timer

RunInv ==
    /\ RunT
    /\ \A r \in Slots : TurnOK(r)
    /\ \A a \in Agents : RunnerOK(a)
    /\ DrainingTracked

LEMMA NewTurnTyped ==
    ASSUME NEW a \in Agents, NEW kind \in Kinds
    PROVE  /\ NewTurn(a, kind) \in TurnRec
           /\ NewTurn(a, kind).pc = "read" /\ NewTurn(a, kind).agent = a /\ NewTurn(a, kind).kind = kind
  BY DEF NewTurn, TurnRec, Kinds

LEMMA FreeTyped == Free \in TurnRec /\ Free.pc = "free"
  BY DEF Free, TurnRec

\* A turn that begins: whatever else is drained keeps its turn.
LEMMA BeginsInv ==
    ASSUME RunInv, NEW a \in Agents, NEW kind \in Kinds, Begins(a, kind),
           draining' = draining \/ (kind # "start" /\ draining' = draining \cup {a})
    PROVE  RunInv'
<1>1. PICK r \in Slots : /\ turn[r].pc = "free" /\ r # 0
                         /\ turn' = [turn EXCEPT ![r] = NewTurn(a, kind)]
                         /\ runners' = [runners EXCEPT ![a] = r]
  BY DEF Begins
<1> DEFINE new == NewTurn(a, kind)
<1>2. new \in TurnRec /\ new.pc = "read" /\ new.agent = a /\ new.kind = kind
  BY NewTurnTyped
<1> HIDE DEF new
<1>3. turn' = [turn EXCEPT ![r] = new]
  BY <1>1 DEF new
<1>4. RunT'
  BY <1>1, <1>2, <1>3 DEF RunInv, RunT
<1>5. turn'[r] = new /\ \A x \in Slots : x # r => turn'[x] = turn[x]
  BY <1>3 DEF RunInv, RunT
<1>6. runners'[a] = r /\ \A b \in Agents : b # a => runners'[b] = runners[b]
  BY <1>1 DEF RunInv, RunT
<1>7. ASSUME NEW x \in Slots PROVE TurnOK(x)'
  BY <1>2, <1>5 DEF RunInv, TurnOK, Kinds
<1>8. ASSUME NEW b \in Agents PROVE RunnerOK(b)'
  <2>1. CASE b = a
    BY <1>2, <1>5, <1>6, <2>1 DEF RunnerOK
  <2>2. CASE b # a
    <3>1. runners[b] \in Slots \cup {0} /\ runners'[b] = runners[b]
      BY <1>6, <2>2 DEF RunInv, RunT
    <3>2. runners[b] # 0 => turn[runners[b]].agent = b /\ turn[runners[b]].pc # "free"
      BY DEF RunInv, RunnerOK
    <3>3. runners[b] # 0 => turn'[runners[b]] = turn[runners[b]]
      BY <1>1, <1>5, <3>1, <3>2
    <3> QED BY <3>1, <3>2, <3>3 DEF RunnerOK
  <2> QED BY <2>1, <2>2
<1>9. ASSUME NEW b \in draining'
      PROVE  \E x \in Slots : turn'[x].agent = b /\ turn'[x].kind \in {"input", "note"} /\ turn'[x].pc # "free"
  <2>1. CASE b \in draining
    <3>1. PICK x \in Slots : turn[x].agent = b /\ turn[x].kind \in {"input", "note"} /\ turn[x].pc # "free"
      BY <2>1 DEF RunInv, DrainingTracked
    <3>2. turn'[x] = turn[x]
      BY <1>1, <1>5, <3>1
    <3> QED BY <3>1, <3>2
  <2>2. CASE b \notin draining
    <3>1. b = a /\ kind # "start"
      BY <1>9, <2>2
    <3> QED BY <1>2, <1>5, <3>1 DEF Kinds
  <2> QED BY <2>1, <2>2
<1> QED BY <1>4, <1>7, <1>8, <1>9 DEF RunInv, DrainingTracked

LEMMA GoesOnInv ==
    ASSUME RunInv, NEW r \in Slots, NEW rec \in TurnRec, GoesOn(r, rec), UNCHANGED <<draining, runners>>
    PROVE  RunInv'
<1>1. turn'[r] = rec /\ \A x \in Slots : x # r => turn'[x] = turn[x]
  BY DEF RunInv, RunT, GoesOn
<1>2. RunT'
  BY DEF RunInv, RunT, GoesOn
<1>3. \A x \in Slots : /\ turn'[x].agent = turn[x].agent /\ turn'[x].kind = turn[x].kind
                       /\ (turn'[x].pc = "free") <=> (turn[x].pc = "free")
  BY <1>1 DEF GoesOn
<1>4. ASSUME NEW x \in Slots PROVE TurnOK(x)'
  BY <1>3 DEF RunInv, TurnOK
<1>5. ASSUME NEW b \in Agents PROVE RunnerOK(b)'
  BY <1>3 DEF RunInv, RunT, RunnerOK
<1>6. DrainingTracked'
  BY <1>3 DEF RunInv, DrainingTracked
<1> QED BY <1>2, <1>4, <1>5, <1>6 DEF RunInv

LEMMA EndsInv ==
    ASSUME RunInv, NEW r \in Slots, turn[r].pc = "done", turn' = [turn EXCEPT ![r] = Free],
           ForgetRunner(turn[r].agent, r), draining' = ClearDraining(turn[r].agent, turn[r].kind)
    PROVE  RunInv'
<1> DEFINE a == turn[r].agent
<1>1. a \in Agents
  BY DEF RunInv, TurnOK
<1>2. RunT'
  BY FreeTyped DEF RunInv, RunT, ForgetRunner, ClearDraining
<1>3. turn'[r] = Free /\ \A x \in Slots : x # r => turn'[x] = turn[x]
  BY DEF RunInv, RunT
<1>4. ASSUME NEW x \in Slots PROVE TurnOK(x)'
  BY <1>3, FreeTyped DEF RunInv, TurnOK
<1>5. ASSUME NEW b \in Agents PROVE RunnerOK(b)'
  <2>1. runners'[b] = runners[b] \/ runners'[b] = 0
    BY DEF RunInv, RunT, ForgetRunner
  <2>2. CASE runners'[b] = 0
    BY <2>2 DEF RunnerOK
  <2>3. CASE runners'[b] = runners[b] /\ runners[b] # 0
    <3>1. turn[runners[b]].agent = b /\ turn[runners[b]].pc # "free" /\ runners[b] \in Slots
      BY <2>3 DEF RunInv, RunT, RunnerOK
    <3>2. runners[b] # r
      <4>1. SUFFICES ASSUME runners[b] = r PROVE FALSE
        OBVIOUS
      <4>2. b = a
        BY <3>1, <4>1
      <4>3. runners'[b] = 0
        BY <1>1, <4>1, <4>2 DEF ForgetRunner, RunInv, RunT
      <4> QED BY <2>3, <4>3
    <3> QED BY <1>3, <2>3, <3>1, <3>2 DEF RunnerOK
  <2> QED BY <2>1, <2>2, <2>3
<1>6. ASSUME NEW b \in draining'
      PROVE  \E x \in Slots : turn'[x].agent = b /\ turn'[x].kind \in {"input", "note"} /\ turn'[x].pc # "free"
  <2>1. b \in draining /\ (turn[r].kind = "start" \/ b # a)
    BY <1>6 DEF ClearDraining
  <2>2. PICK x \in Slots : turn[x].agent = b /\ turn[x].kind \in {"input", "note"} /\ turn[x].pc # "free"
    BY <2>1 DEF RunInv, DrainingTracked
  <2>3. x # r
    BY <2>1, <2>2
  <2> QED BY <1>3, <2>2, <2>3
<1> QED BY <1>2, <1>4, <1>5, <1>6 DEF RunInv, DrainingTracked

LEMMA RunKept ==
    ASSUME RunInv, RunMoves
    PROVE  RunInv'
<1>1. CASE UNCHANGED <<draining, runners, turn>>
  BY <1>1 DEF RunInv, RunT, TurnOK, RunnerOK, DrainingTracked
<1>2. ASSUME NEW a \in Agents, Begins(a, "start"), UNCHANGED draining PROVE RunInv'
  BY <1>2, BeginsInv DEF Kinds
<1>3. ASSUME NEW a \in Agents, NEW kind \in {"input", "note"}, Begins(a, kind), draining' = draining \cup {a}
      PROVE  RunInv'
  BY <1>3, BeginsInv DEF Kinds
<1>4. ASSUME NEW a \in Agents, runners' = [runners EXCEPT ![a] = 0], UNCHANGED <<draining, turn>>
      PROVE  RunInv'
  <2>1. RunT'
    BY <1>4 DEF RunInv, RunT
  <2>2. ASSUME NEW b \in Agents PROVE RunnerOK(b)'
    BY <1>4 DEF RunInv, RunT, RunnerOK
  <2>3. (\A r \in Slots : TurnOK(r)') /\ DrainingTracked'
    BY <1>4 DEF RunInv, TurnOK, DrainingTracked
  <2> QED BY <2>1, <2>2, <2>3 DEF RunInv
<1> QED BY <1>1, <1>2, <1>3, <1>4, GoesOnInv, EndsInv DEF RunMoves

-----------------------------------------------------------------------------
(* Queues, messages and tasks.                                             *)

LEMMA Entries ==
    ASSUME NEW q \in Seq(Items), NEW i \in Items
    PROVE  /\ In(q) \subseteq Items
           /\ Append(q, i) \in Seq(Items) /\ In(Append(q, i)) \subseteq In(q) \cup {i}
           /\ <<i>> \o q \in Seq(Items) /\ In(<<i>> \o q) \subseteq In(q) \cup {i}
<1>1. In(q) \subseteq Items
  BY DEF In
<1>2. Append(q, i) \in Seq(Items) /\ In(Append(q, i)) \subseteq In(q) \cup {i}
  <2>1. ASSUME NEW k \in DOMAIN Append(q, i) PROVE Append(q, i)[k] \in In(q) \cup {i}
    <3>1. k \in 1..(Len(q) + 1)
      OBVIOUS
    <3>2. CASE k \in 1..Len(q)
      <4>1. Append(q, i)[k] = q[k] /\ k \in DOMAIN q
        BY <3>2
      <4> QED BY <4>1 DEF In
    <3>3. CASE k = Len(q) + 1
      BY <3>3
    <3> QED BY <3>1, <3>2, <3>3
  <2> QED BY <2>1 DEF In
<1>3. <<i>> \o q \in Seq(Items) /\ In(<<i>> \o q) \subseteq In(q) \cup {i}
  <2>1. ASSUME NEW k \in DOMAIN (<<i>> \o q) PROVE (<<i>> \o q)[k] \in In(q) \cup {i}
    <3>1. k \in 1..(Len(q) + 1)
      OBVIOUS
    <3>2. CASE k = 1
      BY <3>2
    <3>3. CASE k \in 2..(Len(q) + 1)
      <4>1. (<<i>> \o q)[k] = q[k - 1] /\ k - 1 \in DOMAIN q
        BY <3>3
      <4> QED BY <4>1 DEF In
    <3> QED BY <3>1, <3>2, <3>3
  <2> QED BY <2>1 DEF In
<1> QED BY <1>1, <1>2, <1>3

\* A task is of an agent as soon as it is tracked.
TaskMoves(t) ==
    \/ task'[t] = task[t]
    \/ /\ task'[t] \in TaskRec
       /\ task'[t].pc = "tracked" => task'[t].agent \in Agents
       /\ task'[t].pc = "reading" => task[t].pc = "tracked" /\ task'[t].agent = task[t].agent

Once(items) == taken' = [i \in Items |-> IF i \in items THEN taken[i] + 1 ELSE taken[i]]

Kept == /\ UNCHANGED <<inputQueues, taken, urgent, where>>
        /\ \A t \in Tasks : task[t].pc = "gone" => task'[t] = task[t]
Sent(a, m) ==
    /\ where[m] = "none" /\ where' = [where EXCEPT ![m] = a]
    /\ inputQueues' = [inputQueues EXCEPT ![a] = Append(@, m)]
    /\ UNCHANGED <<urgent, taken, task>>
Interrupts(a, m) ==
    /\ where[m] = "none" /\ where' = [where EXCEPT ![m] = a]
    /\ urgent' \in {urgent, urgent \cup {m}}
    /\ UNCHANGED <<inputQueues, taken, task>>
InFront(m) ==
    /\ m \in urgent /\ urgent' = urgent \ {m}
    /\ inputQueues' = [inputQueues EXCEPT ![where[m]] = <<m>> \o @]
    /\ UNCHANGED <<where, taken, task>>
Takes(a) ==
    /\ Once(In(inputQueues[a])) /\ inputQueues' = [inputQueues EXCEPT ![a] = <<>>]
    /\ UNCHANGED <<urgent, where, task>>
Notifies(t) ==
    /\ task[t].pc = "reading" /\ task'[t].pc = "gone" /\ task'[t].agent = task[t].agent
    /\ \A u \in Tasks : u # t => task'[u] = task[u]
    /\ UNCHANGED <<urgent, where>>
    /\ \/ inputQueues' = [inputQueues EXCEPT ![task[t].agent] = Append(@, t)] /\ taken' = taken
       \/ inputQueues' = inputQueues /\ Once({t})

QueueMoves ==
    \/ Kept
    \/ \E a \in Agents, m \in Messages : Sent(a, m) \/ Interrupts(a, m)
    \/ \E m \in Messages : InFront(m)
    \/ \E a \in Agents : Takes(a)
    \/ \E t \in Tasks : Notifies(t)

LEMMA QueueSteps ==
    ASSUME Typed, [Next]_vars
    PROVE  QueueMoves
<1> USE DEF QueueMoves
<1>1. ASSUME NEW a \in Agents, StartAgent(a) PROVE Kept
  <2>1. taken' = taken
    <3>1. taken' = [i \in Items |-> IF i \in {} THEN taken[i] + 1 ELSE taken[i]]
      BY <1>1, NewRunnerBegins DEF StartAgent
    <3> QED BY <3>1 DEF Typed, TakenT
  <2> QED BY <1>1, <2>1 DEF StartAgent, Kept
<1>2. ASSUME NEW a \in Agents, TakeQueue(a), UNCHANGED <<task, urgent, where>> PROVE Kept \/ Takes(a)
  <2>1. CASE NewRunner(a, "input", In(inputQueues[a])) /\ inputQueues' = [inputQueues EXCEPT ![a] = <<>>]
    BY <1>2, <2>1, NewRunnerBegins DEF Takes, Once
  <2>2. CASE UNCHANGED <<inputQueues, taken>>
    BY <1>2, <2>2 DEF Kept
  <2> QED BY <1>2, <2>1, <2>2 DEF TakeQueue, Remaining, In
<1>3. ASSUME NEW a \in Agents, DrainReads(a) PROVE QueueMoves
  <2>1. UNCHANGED <<task, urgent, where>> /\ (TakeQueue(a) \/ UNCHANGED <<inputQueues, taken>>)
    BY <1>3 DEF DrainReads
  <2> QED BY <1>2, <2>1 DEF Kept
<1>4. ASSUME NEW a \in Agents, DrainReady(a) PROVE QueueMoves
  BY <1>2, <1>4 DEF DrainReady
<1>5. ASSUME NEW a \in Agents, PauseActs(a) \/ PauseWrites(a) \/ KillForgets(a) \/ ResumeAgent(a) PROVE Kept
  BY <1>5 DEF PauseActs, PauseWrites, KillForgets, ResumeAgent, Kept
<1>6. ASSUME NEW a \in Agents, KillActs(a) PROVE Kept
  BY <1>6 DEF KillActs, Kept
<1>7. ASSUME NEW a \in Agents, NEW op \in {"pause", "kill"}, Control(a, op) PROVE Kept
  BY <1>7 DEF Control, Kept
<1>8. ASSUME NEW a \in Agents, NEW m \in Messages, SendInput(a, m) PROVE Sent(a, m)
  BY <1>8 DEF SendInput, Sent
<1>9. ASSUME NEW a \in Agents, NEW m \in Messages, SendUrgent(a, m) PROVE Interrupts(a, m)
  BY <1>9 DEF SendUrgent, Interrupts
<1>10. ASSUME NEW m \in Messages, UrgentQueues(m) PROVE InFront(m)
  BY <1>10 DEF UrgentQueues, InFront
<1>11. ASSUME NEW r \in Slots, Turn(r) \/ BudgetDenied(r) \/ TurnFails(r) PROVE Kept
  BY <1>11 DEF Turn, TurnReads, TurnBegins, TurnOpens, SessionInit, TurnResult, TurnStops, TurnEnds,
               BudgetDenied, TurnFails, Kept
<1>12. ASSUME NEW r \in Slots, NEW t \in Tasks, Track(r, t) PROVE Kept
  BY <1>12 DEF Track, Kept, Typed, TaskT
<1>13. ASSUME NEW t \in Tasks, TaskCompletes(t) PROVE Kept
  BY <1>13 DEF TaskCompletes, Kept, Typed, TaskT
<1>14. ASSUME NEW t \in Tasks, Notify(t) PROVE QueueMoves
  <2>1. /\ task[t].pc = "reading" /\ task' = [task EXCEPT ![t].pc = "gone", ![t].snap = "none"]
        /\ UNCHANGED <<urgent, where>>
    BY <1>14 DEF Notify
  <2>2. /\ task'[t].pc = "gone" /\ task'[t].agent = task[t].agent
        /\ \A u \in Tasks : u # t => task'[u] = task[u]
    BY <2>1 DEF Typed, TaskT, TaskRec
  <2>3. CASE inputQueues' = [inputQueues EXCEPT ![task[t].agent] = Append(@, t)] /\ UNCHANGED taken
    BY <2>1, <2>2, <2>3 DEF Notifies
  <2>4. CASE NewRunner(task[t].agent, "note", {t}) /\ UNCHANGED inputQueues
    <3>1. Once({t})
      BY <2>4, NewRunnerBegins DEF Once
    <3> QED BY <2>1, <2>2, <2>4, <3>1 DEF Notifies
  <2>5. CASE UNCHANGED <<inputQueues, taken>>
    BY <2>1, <2>2, <2>5 DEF Kept
  <2> QED BY <1>14, <2>3, <2>4, <2>5 DEF Notify
<1>15. CASE UNCHANGED vars
  BY <1>15 DEF vars, Kept
<1> QED
  BY <1>1, <1>3, <1>4, <1>5, <1>6, <1>7, <1>8, <1>9, <1>10, <1>11, <1>12, <1>13, <1>14, <1>15
  DEF Next, Flow, Timer

QueueInv ==
    /\ QueuesT /\ ItemsT /\ TakenT
    /\ \A t \in Tasks : TaskOK(t)
    /\ \A a \in Agents : QueueOK(a)
    /\ \A m \in Messages : MessageOK(m)

LEMMA OnceTyped ==
    ASSUME TakenT, NEW items, Once(items), \A i \in items \cap Items : taken[i] = 0
    PROVE  /\ TakenT'
           /\ \A i \in Items : taken'[i] = IF i \in items THEN 1 ELSE taken[i]
<1>1. \A i \in Items : taken[i] \in Nat /\ taken[i] <= 1
  BY DEF TakenT
<1>2. \A i \in Items : taken'[i] = IF i \in items THEN taken[i] + 1 ELSE taken[i]
  BY DEF Once
<1>3. \A i \in Items : taken'[i] = IF i \in items THEN 1 ELSE taken[i]
  BY <1>1, <1>2
<1>4. taken' \in [Items -> Nat]
  BY <1>1 DEF Once
<1> QED BY <1>1, <1>3, <1>4 DEF TakenT

LEMMA InItems ==
    ASSUME QueuesT, NEW a \in Agents
    PROVE  inputQueues[a] \in Seq(Items) /\ In(inputQueues[a]) \subseteq Items
  BY DEF QueuesT, In

\* The agents of the tasks that may still notify are a matter of task alone.
LEMMA KeptInv ==
    ASSUME QueueInv, Kept, \A t \in Tasks : TaskMoves(t)
    PROVE  QueueInv'
<1>1. QueuesT' /\ ItemsT' /\ TakenT'
  BY DEF QueueInv, Kept, QueuesT, ItemsT, TakenT
<1>2. ASSUME NEW t \in Tasks PROVE TaskOK(t)'
  BY DEF QueueInv, Kept, TaskOK, TaskMoves
<1>3. ASSUME NEW a \in Agents PROVE QueueOK(a)'
  BY DEF QueueInv, Kept, QueueOK
<1>4. ASSUME NEW m \in Messages PROVE MessageOK(m)'
  BY DEF QueueInv, Kept, MessageOK
<1> QED BY <1>1, <1>2, <1>3, <1>4 DEF QueueInv

LEMMA SentInv ==
    ASSUME QueueInv, NEW a \in Agents, NEW m \in Messages, Sent(a, m)
    PROVE  QueueInv'
<1> DEFINE q == inputQueues[a]
<1>0. q \in Seq(Items) /\ m \in Items
  BY DEF QueueInv, QueuesT, Items
<1>1. Append(q, m) \in Seq(Items) /\ In(Append(q, m)) \subseteq In(q) \cup {m} /\ In(q) \subseteq Items
  BY <1>0, Entries
<1>2. inputQueues'[a] = Append(q, m) /\ \A b \in Agents : b # a => inputQueues'[b] = inputQueues[b]
  BY DEF QueueInv, QueuesT, Sent
<1>3. where'[m] = a /\ \A n \in Messages : n # m => where'[n] = where[n]
  BY DEF QueueInv, ItemsT, Sent
<1>4. taken[m] = 0 /\ m \notin urgent
  BY NoneApart DEF QueueInv, MessageOK, Sent
<1>5. \A b \in Agents : m \notin In(inputQueues[b])
  BY NoneApart DEF QueueInv, QueueOK, Sent
<1> HIDE DEF q
<1>6. QueuesT' /\ ItemsT' /\ TakenT'
  BY <1>1 DEF q, QueueInv, QueuesT, ItemsT, TakenT, Sent
<1>7. ASSUME NEW t \in Tasks PROVE TaskOK(t)'
  BY DEF QueueInv, TaskOK, Sent
<1>8. ASSUME NEW n \in Messages PROVE MessageOK(n)'
  BY <1>3, <1>4 DEF QueueInv, MessageOK, Sent
<1>9. ASSUME NEW b \in Agents, NEW i \in In(inputQueues'[b])
      PROVE  /\ taken[i] = 0
             /\ i \in Messages => where'[i] = b /\ i \notin urgent
             /\ i \in Tasks => task[i].agent = b /\ task[i].pc = "gone"
  <2>1. CASE i = m
    <3>1. b = a
      BY <1>2, <1>5, <1>9, <2>1
    <3> QED BY <1>3, <1>4, <2>1, <3>1, ItemsApart
  <2>2. CASE i # m
    <3>1. i \in In(inputQueues[b])
      BY <1>1, <1>2, <1>9, <2>2 DEF q
    <3> QED BY <1>3, <2>2, <3>1 DEF QueueInv, QueueOK
  <2> QED BY <2>1, <2>2
<1>10. ASSUME NEW b \in Agents PROVE QueueOK(b)'
  BY <1>9 DEF QueueOK, Sent
<1> QED BY <1>6, <1>7, <1>8, <1>10 DEF QueueInv

LEMMA InterruptsInv ==
    ASSUME QueueInv, NEW a \in Agents, NEW m \in Messages, Interrupts(a, m)
    PROVE  QueueInv'
<1>3. where'[m] = a /\ \A n \in Messages : n # m => where'[n] = where[n]
  BY DEF QueueInv, ItemsT, Interrupts
<1>4. taken[m] = 0 /\ m \notin urgent
  BY NoneApart DEF QueueInv, MessageOK, Interrupts
<1>5. \A b \in Agents : m \notin In(inputQueues[b])
  BY NoneApart DEF QueueInv, QueueOK, Interrupts
<1>6. QueuesT' /\ ItemsT' /\ TakenT'
  BY DEF QueueInv, QueuesT, ItemsT, TakenT, Interrupts
<1>7. ASSUME NEW t \in Tasks PROVE TaskOK(t)'
  BY DEF QueueInv, TaskOK, Interrupts
<1>8. ASSUME NEW n \in Messages PROVE MessageOK(n)'
  BY <1>3, <1>4, NoneApart DEF QueueInv, MessageOK, Interrupts
<1>9. ASSUME NEW b \in Agents PROVE QueueOK(b)'
  BY <1>3, <1>5 DEF QueueInv, QueueOK, Interrupts
<1> QED BY <1>6, <1>7, <1>8, <1>9 DEF QueueInv

LEMMA InFrontInv ==
    ASSUME QueueInv, NEW m \in Messages, InFront(m)
    PROVE  QueueInv'
<1> DEFINE a == where[m]
           q == inputQueues[a]
<1>0. a \in Agents /\ taken[m] = 0
  BY DEF QueueInv, MessageOK, InFront
<1>1. q \in Seq(Items) /\ m \in Items
  BY <1>0 DEF QueueInv, QueuesT, Items
<1>2. <<m>> \o q \in Seq(Items) /\ In(<<m>> \o q) \subseteq In(q) \cup {m}
  BY <1>1, Entries
<1>3. inputQueues'[a] = <<m>> \o q /\ \A b \in Agents : b # a => inputQueues'[b] = inputQueues[b]
  BY <1>0 DEF QueueInv, QueuesT, InFront
<1>5. \A b \in Agents : m \notin In(inputQueues[b])
  BY DEF QueueInv, QueueOK, InFront
<1> HIDE DEF q
<1>6. QueuesT' /\ ItemsT' /\ TakenT'
  BY <1>2 DEF q, QueueInv, QueuesT, ItemsT, TakenT, InFront
<1>7. ASSUME NEW t \in Tasks PROVE TaskOK(t)'
  BY DEF QueueInv, TaskOK, InFront
<1>8. ASSUME NEW n \in Messages PROVE MessageOK(n)'
  BY DEF QueueInv, MessageOK, InFront
<1>9. ASSUME NEW b \in Agents, NEW i \in In(inputQueues'[b])
      PROVE  /\ taken[i] = 0
             /\ i \in Messages => where[i] = b /\ i \notin urgent'
             /\ i \in Tasks => task[i].agent = b /\ task[i].pc = "gone"
  <2>1. CASE i = m
    <3>1. b = a
      BY <1>3, <1>5, <1>9, <2>1
    <3>2. m \notin urgent' /\ m \notin Tasks
      BY ItemsApart DEF InFront
    <3> QED BY <1>0, <2>1, <3>1, <3>2
  <2>2. CASE i # m
    <3>1. i \in In(inputQueues[b])
      BY <1>2, <1>3, <1>9, <2>2 DEF q
    <3> QED BY <3>1 DEF QueueInv, QueueOK, InFront
  <2> QED BY <2>1, <2>2
<1>10. ASSUME NEW b \in Agents PROVE QueueOK(b)'
  BY <1>9 DEF QueueOK, InFront
<1> QED BY <1>6, <1>7, <1>8, <1>10 DEF QueueInv

LEMMA TakesInv ==
    ASSUME QueueInv, NEW a \in Agents, Takes(a)
    PROVE  QueueInv'
<1> DEFINE items == In(inputQueues[a])
<1>1. items \subseteq Items /\ \A i \in items : taken[i] = 0
  BY InItems DEF QueueInv, QueueOK
<1>2. Once(items)
  BY DEF Takes
<1>3. \A i \in items : /\ i \in Messages => where[i] = a /\ i \notin urgent
                       /\ i \in Tasks => task[i].agent = a /\ task[i].pc = "gone"
  BY DEF QueueInv, QueueOK
<1> HIDE DEF items
<1>4. TakenT' /\ \A i \in Items : taken'[i] = IF i \in items THEN 1 ELSE taken[i]
  BY <1>1, <1>2, OnceTyped DEF QueueInv
<1>5. inputQueues'[a] = <<>> /\ \A b \in Agents : b # a => inputQueues'[b] = inputQueues[b]
  BY DEF QueueInv, QueuesT, Takes
<1>6. QueuesT' /\ ItemsT'
  BY DEF QueueInv, QueuesT, ItemsT, Takes
<1>7. ASSUME NEW t \in Tasks PROVE TaskOK(t)'
  <2>1. t \in Items
    BY DEF Items
  <2> QED BY <1>3, <1>4, <2>1 DEF QueueInv, TaskOK, Takes
<1>8. ASSUME NEW n \in Messages PROVE MessageOK(n)'
  <2>1. n \in Items
    BY DEF Items
  <2> QED BY <1>3, <1>4, <2>1, NoneApart DEF QueueInv, MessageOK, Takes
<1>9. ASSUME NEW b \in Agents PROVE QueueOK(b)'
  <2>1. CASE b = a
    <3>1. In(inputQueues'[b]) = {}
      BY <1>5, <2>1 DEF In
    <3> QED BY <3>1 DEF QueueOK
  <2>2. CASE b # a
    <3>1. inputQueues'[b] = inputQueues[b] /\ In(inputQueues[b]) \subseteq Items
      BY <1>5, <2>2, InItems DEF QueueInv
    <3>2. ASSUME NEW i \in In(inputQueues[b]) PROVE i \notin items
      <4>1. i \in Messages \/ i \in Tasks
        BY <3>1, <3>2 DEF Items
      <4>2. i \in Messages => where[i] = b
        BY <3>2 DEF QueueInv, QueueOK
      <4>3. i \in Tasks => task[i].agent = b
        BY <3>2 DEF QueueInv, QueueOK
      <4> QED BY <1>3, <2>2, <4>1, <4>2, <4>3
    <3> QED BY <1>4, <3>1, <3>2 DEF QueueInv, QueueOK, Takes
  <2> QED BY <2>1, <2>2
<1> QED BY <1>4, <1>6, <1>7, <1>8, <1>9 DEF QueueInv

LEMMA NotifiesInv ==
    ASSUME QueueInv, NEW t \in Tasks, Notifies(t)
    PROVE  QueueInv'
<1> DEFINE a == task[t].agent
           q == inputQueues[a]
<1>0. a \in Agents /\ taken[t] = 0 /\ t \in Items /\ t \notin Messages
  BY ItemsApart DEF QueueInv, TaskOK, Notifies, Items
<1>1. \A b \in Agents : t \notin In(inputQueues[b])
  BY DEF QueueInv, QueueOK, Notifies
<1>2. \A u \in Tasks : u # t => task'[u] = task[u]
  BY DEF Notifies
<1>3. task'[t].pc = "gone" /\ task'[t].agent = a /\ UNCHANGED <<urgent, where>>
  BY DEF Notifies
<1>4. ItemsT'
  BY <1>3 DEF QueueInv, ItemsT
<1>5. CASE inputQueues' = [inputQueues EXCEPT ![a] = Append(@, t)] /\ taken' = taken
  <2>0. q \in Seq(Items)
    BY <1>0 DEF QueueInv, QueuesT
  <2>1. Append(q, t) \in Seq(Items) /\ In(Append(q, t)) \subseteq In(q) \cup {t}
    BY <1>0, <2>0, Entries
  <2>2. inputQueues'[a] = Append(q, t) /\ \A b \in Agents : b # a => inputQueues'[b] = inputQueues[b]
    BY <1>0, <1>5 DEF QueueInv, QueuesT
  <2>3. QueuesT'
    BY <1>5, <2>1 DEF QueueInv, QueuesT
  <2>4. TakenT'
    BY <1>5 DEF QueueInv, TakenT
  <2>5. ASSUME NEW u \in Tasks PROVE TaskOK(u)'
    BY <1>0, <1>2, <1>3, <1>5 DEF QueueInv, TaskOK
  <2>6. ASSUME NEW n \in Messages PROVE MessageOK(n)'
    BY <1>3, <1>5 DEF QueueInv, MessageOK
  <2>7. ASSUME NEW b \in Agents, NEW i \in In(inputQueues'[b])
        PROVE  /\ taken[i] = 0
               /\ i \in Messages => where[i] = b /\ i \notin urgent
               /\ i \in Tasks => task'[i].agent = b /\ task'[i].pc = "gone"
    <3>1. CASE i = t
      <4>1. b = a
        BY <1>1, <2>2, <2>7, <3>1
      <4> QED BY <1>0, <1>3, <3>1, <4>1
    <3>2. CASE i # t
      <4>1. i \in In(inputQueues[b])
        BY <2>1, <2>2, <2>7, <3>2
      <4> QED BY <1>2, <3>2, <4>1 DEF QueueInv, QueueOK
    <3> QED BY <3>1, <3>2
  <2>8. ASSUME NEW b \in Agents PROVE QueueOK(b)'
    BY <1>3, <1>5, <2>7 DEF QueueOK
  <2> QED BY <1>4, <2>3, <2>4, <2>5, <2>6, <2>8 DEF QueueInv
<1>6. CASE inputQueues' = inputQueues /\ Once({t})
  <2>1. TakenT' /\ \A i \in Items : taken'[i] = IF i \in {t} THEN 1 ELSE taken[i]
    BY <1>0, <1>6, OnceTyped DEF QueueInv
  <2>2. QueuesT'
    BY <1>6 DEF QueueInv, QueuesT
  <2>3. ASSUME NEW u \in Tasks PROVE TaskOK(u)'
    <3>1. u \in Items
      BY DEF Items
    <3> QED BY <1>2, <1>3, <2>1, <3>1 DEF QueueInv, TaskOK
  <2>4. ASSUME NEW n \in Messages PROVE MessageOK(n)'
    <3>1. n \in Items /\ n # t
      BY <1>0 DEF Items
    <3> QED BY <1>3, <2>1, <3>1 DEF QueueInv, MessageOK
  <2>5. ASSUME NEW b \in Agents, NEW i \in In(inputQueues[b])
        PROVE  /\ taken'[i] = 0
               /\ i \in Messages => where[i] = b /\ i \notin urgent
               /\ i \in Tasks => task'[i].agent = b /\ task'[i].pc = "gone"
    <3>1. i \in Items /\ i # t
      BY <1>1, <2>5, InItems DEF QueueInv
    <3> QED BY <1>2, <2>1, <2>5, <3>1 DEF QueueInv, QueueOK
  <2>6. ASSUME NEW b \in Agents PROVE QueueOK(b)'
    BY <1>3, <1>6, <2>5 DEF QueueOK
  <2> QED BY <1>4, <2>1, <2>2, <2>3, <2>4, <2>6 DEF QueueInv
<1> QED BY <1>5, <1>6 DEF Notifies

LEMMA QueueKept ==
    ASSUME QueueInv, QueueMoves, \A t \in Tasks : TaskMoves(t)
    PROVE  QueueInv'
  BY KeptInv, SentInv, InterruptsInv, InFrontInv, TakesInv, NotifiesInv DEF QueueMoves

\* A kill drops the tasks it finds tracked; any other step changes one task at most.
TasksMove ==
    \/ task' = task
    \/ \E u \in Tasks, rec \in TaskRec :
          /\ task' = [task EXCEPT ![u] = rec]
          /\ rec.pc = "tracked" => rec.agent \in Agents
          /\ rec.pc = "reading" => task[u].pc = "tracked" /\ rec.agent = task[u].agent
    \/ \E a \in Agents :
          task' = [u \in Tasks |-> IF task[u].pc = "tracked" /\ task[u].agent = a
                                   THEN [task[u] EXCEPT !.pc = "gone"] ELSE task[u]]

LEMMA TaskSteps ==
    ASSUME Typed, \A r \in Slots : TurnOK(r), \A u \in Tasks : TaskOK(u), [Next]_vars
    PROVE  TasksMove
<1> USE DEF TasksMove
<1>0. task \in [Tasks -> TaskRec] /\ \A u \in Tasks : task[u] \in TaskRec
  BY DEF Typed, TaskT
<1>1. ASSUME NEW a \in Agents, StartAgent(a) \/ DrainReads(a) \/ DrainReady(a) \/ PauseActs(a)
                               \/ PauseWrites(a) \/ KillForgets(a) \/ ResumeAgent(a)
      PROVE  task' = task
  BY <1>1 DEF StartAgent, DrainReads, DrainReady, PauseActs, PauseWrites, KillForgets, ResumeAgent
<1>2. ASSUME NEW a \in Agents, KillActs(a) PROVE TasksMove
  BY <1>2 DEF KillActs
<1>3. ASSUME NEW a \in Agents, NEW m \in Messages, SendInput(a, m) \/ SendUrgent(a, m) PROVE task' = task
  BY <1>3 DEF SendInput, SendUrgent
<1>4. ASSUME NEW m \in Messages, UrgentQueues(m) PROVE task' = task
  BY <1>4 DEF UrgentQueues
<1>5. ASSUME NEW a \in Agents, NEW op \in {"pause", "kill"}, Control(a, op) PROVE task' = task
  BY <1>5 DEF Control
<1>6. ASSUME NEW r \in Slots, Turn(r) \/ BudgetDenied(r) \/ TurnFails(r) PROVE task' = task
  BY <1>6 DEF Turn, TurnReads, TurnBegins, TurnOpens, SessionInit, TurnResult, TurnStops, TurnEnds,
              BudgetDenied, TurnFails
<1>7. ASSUME NEW r \in Slots, NEW u \in Tasks, Track(r, u) PROVE TasksMove
  <2> DEFINE rec == [task[u] EXCEPT !.pc = "tracked", !.agent = turn[r].agent]
  <2>1. turn[r].agent \in Agents
    BY <1>7 DEF Track, TurnOK
  <2>2. rec \in TaskRec /\ rec.pc = "tracked" /\ rec.agent \in Agents
    BY <1>0, <2>1 DEF TaskRec
  <2>3. task' = [task EXCEPT ![u] = rec]
    BY <1>0, <1>7 DEF Track
  <2> HIDE DEF rec
  <2> QED BY <1>0, <2>2, <2>3
<1>8. ASSUME NEW u \in Tasks, TaskCompletes(u) PROVE TasksMove
  <2> DEFINE snap == row[task[u].agent].state
             rec == [task[u] EXCEPT !.pc = "reading", !.snap = snap]
  <2>1. task[u].pc = "tracked" /\ snap \in States
    BY <1>8 DEF TaskCompletes, TaskOK, Typed, RowsT, RowRec
  <2>2. task' = [task EXCEPT ![u] = rec]
    BY <1>0, <1>8 DEF TaskCompletes
  <2> HIDE DEF snap
  <2>3. rec \in TaskRec /\ rec.pc = "reading" /\ rec.agent = task[u].agent
    BY <1>0, <2>1 DEF TaskRec
  <2> HIDE DEF rec
  <2> QED BY <1>0, <2>1, <2>2, <2>3
<1>9. ASSUME NEW u \in Tasks, Notify(u) PROVE TasksMove
  <2> DEFINE rec == [task[u] EXCEPT !.pc = "gone", !.snap = "none"]
  <2>1. rec \in TaskRec /\ rec.pc = "gone"
    BY <1>0 DEF TaskRec
  <2>2. task' = [task EXCEPT ![u] = rec]
    BY <1>0, <1>9 DEF Notify
  <2> HIDE DEF rec
  <2> QED BY <1>0, <2>1, <2>2
<1>10. CASE UNCHANGED vars
  BY <1>10 DEF vars
<1> QED
  BY <1>1, <1>2, <1>3, <1>4, <1>5, <1>6, <1>7, <1>8, <1>9, <1>10 DEF Next, Flow, Timer

LEMMA TasksMoved ==
    ASSUME TaskT, TasksMove
    PROVE  TaskT' /\ \A t \in Tasks : TaskMoves(t)
<1> USE DEF TaskT, TaskMoves
<1>1. CASE task' = task
  BY <1>1
<1>2. ASSUME NEW u \in Tasks, NEW rec \in TaskRec, task' = [task EXCEPT ![u] = rec],
             rec.pc = "tracked" => rec.agent \in Agents,
             rec.pc = "reading" => task[u].pc = "tracked" /\ rec.agent = task[u].agent
      PROVE  TaskT' /\ \A t \in Tasks : TaskMoves(t)
  BY <1>2
<1>3. ASSUME NEW a \in Agents,
             task' = [u \in Tasks |-> IF task[u].pc = "tracked" /\ task[u].agent = a
                                      THEN [task[u] EXCEPT !.pc = "gone"] ELSE task[u]]
      PROVE  TaskT' /\ \A t \in Tasks : TaskMoves(t)
  <2>1. ASSUME NEW t \in Tasks PROVE task'[t] \in TaskRec /\ TaskMoves(t)
    <3> DEFINE rec == [task[t] EXCEPT !.pc = "gone"]
    <3>1. rec \in TaskRec /\ rec.pc = "gone"
      BY DEF TaskRec
    <3>2. task'[t] = task[t] \/ task'[t] = rec
      BY <1>3
    <3> HIDE DEF rec
    <3> QED BY <3>1, <3>2
  <2>2. task' \in [Tasks -> TaskRec]
    BY <1>3, <2>1
  <2> QED BY <2>1, <2>2
<1> QED BY <1>1, <1>2, <1>3 DEF TasksMove

-----------------------------------------------------------------------------
(* Rows, drains, controls and counts keep their types.                     *)

LEMMA RowsStep ==
    ASSUME Typed, \A r \in Slots : TurnOK(r), [Next]_vars
    PROVE  RowsT'
<1> DEFINE Writes == \E a \in Agents, st \in States : Write(a, st)
<1>0. row \in [Agents -> RowRec]
  BY DEF Typed, RowsT
<1>1. ASSUME NEW a \in Agents, NEW st \in States, Write(a, st) PROVE RowsT'
  <2> DEFINE rec == [row[a] EXCEPT !.state = st]
  <2>1. rec \in RowRec
    BY <1>0 DEF RowRec
  <2>2. row' = [row EXCEPT ![a] = rec]
    BY <1>0, <1>1 DEF Write
  <2> HIDE DEF rec
  <2> QED BY <1>0, <2>1, <2>2 DEF RowsT
<1>2. ASSUME NEW a \in Agents, DrainReads(a) \/ PauseActs(a) \/ PauseWrites(a) \/ KillActs(a) \/ ResumeAgent(a)
      PROVE  row' = row \/ Writes
  <2>1. row' = row \/ Write(a, "waiting_input") \/ Write(a, "paused") \/ Write(a, "aborted")
    BY <1>2 DEF DrainReads, PauseActs, PauseWrites, KillActs, ResumeAgent
  <2>2. {"waiting_input", "paused", "aborted"} \subseteq States
    BY DEF States
  <2> QED BY <2>1, <2>2
<1>3. ASSUME NEW a \in Agents, StartAgent(a) \/ DrainReady(a) \/ KillForgets(a) PROVE row' = row
  BY <1>3 DEF StartAgent, DrainReady, KillForgets
<1>4. ASSUME NEW a \in Agents, NEW m \in Messages, SendInput(a, m) \/ SendUrgent(a, m) PROVE row' = row
  BY <1>4 DEF SendInput, SendUrgent
<1>5. ASSUME NEW m \in Messages, UrgentQueues(m) PROVE row' = row
  BY <1>5 DEF UrgentQueues
<1>6. ASSUME NEW a \in Agents, NEW op \in {"pause", "kill"}, Control(a, op) PROVE row' = row
  BY <1>6 DEF Control
<1>7. ASSUME NEW r \in Slots, TurnBegins(r) \/ TurnResult(r) \/ TurnFails(r) PROVE row' = row \/ Writes
  <2>1. row' = row \/ Write(turn[r].agent, "running") \/ Write(turn[r].agent, "waiting_input")
                   \/ Write(turn[r].agent, "failed")
    BY <1>7 DEF TurnBegins, TurnResult, TurnFails
  <2>2. turn[r].agent \in Agents
    BY <1>7 DEF TurnBegins, TurnResult, TurnFails, TurnOK
  <2>3. {"waiting_input", "running", "failed"} \subseteq States
    BY DEF States
  <2> QED BY <2>1, <2>2, <2>3
<1>8. ASSUME NEW r \in Slots, SessionInit(r) PROVE RowsT'
  <2>1. [state |-> "running", session |-> TRUE] \in RowRec
    BY DEF RowRec, States
  <2>2. row' = [row EXCEPT ![turn[r].agent] = [state |-> "running", session |-> TRUE]]
    BY <1>8 DEF SessionInit
  <2> QED BY <1>0, <2>1, <2>2 DEF RowsT
<1>9. ASSUME NEW r \in Slots, TurnReads(r) \/ TurnOpens(r) \/ TurnStops(r) \/ TurnEnds(r) \/ BudgetDenied(r)
      PROVE  row' = row
  BY <1>9 DEF TurnReads, TurnOpens, TurnStops, TurnEnds, BudgetDenied
<1>10. ASSUME NEW r \in Slots, NEW t \in Tasks, Track(r, t) PROVE row' = row
  BY <1>10 DEF Track
<1>11. ASSUME NEW t \in Tasks, Timer(t) PROVE row' = row
  BY <1>11 DEF Timer, TaskCompletes, Notify
<1>12. CASE row' = row
  BY <1>0, <1>12 DEF RowsT
<1>13. CASE UNCHANGED vars
  BY <1>12, <1>13 DEF vars
<1> QED
  BY <1>1, <1>2, <1>3, <1>4, <1>5, <1>6, <1>7, <1>8, <1>9, <1>10, <1>11, <1>12, <1>13 DEF Next, Flow, Turn

LEMMA DrainStep ==
    ASSUME Typed, \A r \in Slots : TurnOK(r), [Next]_vars
    PROVE  DrainT'
<1> DEFINE Sets == \E a \in Agents, d \in DrainRec : drain' = [drain EXCEPT ![a] = d]
<1>0. drain \in [Agents -> DrainRec]
  BY DEF Typed, DrainT
<1>1. CASE Sets
  BY <1>0, <1>1 DEF DrainT
<1>2. CASE drain' = drain
  BY <1>0, <1>2 DEF DrainT
<1>3. ASSUME NEW a \in Agents, NEW n \in Nat
      PROVE  /\ drain' = [drain EXCEPT ![a].read = n] => Sets
             /\ drain' = [drain EXCEPT ![a].ready = n] => Sets
  <2> DEFINE d1 == [drain[a] EXCEPT !.read = n]
             d2 == [drain[a] EXCEPT !.ready = n]
  <2>1. d1 \in DrainRec /\ d2 \in DrainRec
    BY <1>0 DEF DrainRec
  <2>2. /\ drain' = [drain EXCEPT ![a].read = n] => drain' = [drain EXCEPT ![a] = d1]
        /\ drain' = [drain EXCEPT ![a].ready = n] => drain' = [drain EXCEPT ![a] = d2]
    BY <1>0
  <2> HIDE DEF d1, d2
  <2> QED BY <2>1, <2>2
<1> HIDE DEF Sets
<1>4. \A a \in Agents : drain[a].read \in Nat /\ drain[a].ready \in Nat
  BY <1>0 DEF DrainRec
<1>5. ASSUME NEW a \in Agents, NEW queue, NEW busy, EnterDrain(a, queue, busy) PROVE drain' = drain \/ Sets
  <2>1. drain' = drain \/ drain' = [drain EXCEPT ![a].read = drain[a].read + 1]
    BY <1>5 DEF EnterDrain
  <2>2. drain[a].read + 1 \in Nat
    BY <1>4
  <2> QED BY <1>3, <2>1, <2>2
<1>6. ASSUME NEW a \in Agents, DrainReads(a) PROVE drain' = drain \/ Sets
  <2>1. \/ drain' = [drain EXCEPT ![a].read = drain[a].read - 1]
        \/ drain' = [drain EXCEPT ![a] = [read |-> drain[a].read - 1, ready |-> drain[a].ready + 1]]
    BY <1>6 DEF DrainReads
  <2>2. drain[a].read - 1 \in Nat /\ drain[a].ready + 1 \in Nat
    BY <1>4, <1>6 DEF DrainReads
  <2>3. [read |-> drain[a].read - 1, ready |-> drain[a].ready + 1] \in DrainRec
    BY <2>2 DEF DrainRec
  <2> QED BY <1>3, <2>1, <2>2, <2>3 DEF Sets
<1>7. ASSUME NEW a \in Agents, DrainReady(a) PROVE drain' = drain \/ Sets
  <2>1. drain' = [drain EXCEPT ![a].ready = drain[a].ready - 1] /\ drain[a].ready - 1 \in Nat
    BY <1>4, <1>7 DEF DrainReady
  <2> QED BY <1>3, <2>1
<1>8. ASSUME NEW a \in Agents, PauseActs(a) \/ PauseWrites(a) \/ KillActs(a) \/ KillForgets(a) \/ StartAgent(a)
      PROVE  drain' = drain
  BY <1>8 DEF PauseActs, PauseWrites, KillActs, KillForgets, StartAgent
<1>9. ASSUME NEW a \in Agents, ResumeAgent(a) PROVE drain' = drain \/ Sets
  BY <1>5, <1>9 DEF ResumeAgent
<1>10. ASSUME NEW a \in Agents, NEW m \in Messages, SendInput(a, m) \/ SendUrgent(a, m)
       PROVE  drain' = drain \/ Sets
  BY <1>5, <1>10 DEF SendInput, SendUrgent
<1>11. ASSUME NEW m \in Messages, UrgentQueues(m) PROVE drain' = drain
  BY <1>11 DEF UrgentQueues
<1>12. ASSUME NEW a \in Agents, NEW op \in {"pause", "kill"}, Control(a, op) PROVE drain' = drain
  BY <1>12 DEF Control
<1>13. ASSUME NEW r \in Slots, TurnReads(r) \/ TurnBegins(r) \/ TurnOpens(r) \/ SessionInit(r) \/ TurnResult(r)
                               \/ TurnStops(r) \/ BudgetDenied(r) \/ TurnFails(r)
       PROVE  drain' = drain
  BY <1>13 DEF TurnReads, TurnBegins, TurnOpens, SessionInit, TurnResult, TurnStops, BudgetDenied, TurnFails
<1>14. ASSUME NEW r \in Slots, TurnEnds(r) PROVE drain' = drain \/ Sets
  <2>1. turn[r].agent \in Agents
    BY <1>14 DEF TurnEnds, TurnOK
  <2>2. \/ drain' = drain
        \/ EnterDrain(turn[r].agent, inputQueues[turn[r].agent], draining')
    BY <1>14 DEF TurnEnds, DrainNext
  <2> QED BY <1>5, <2>1, <2>2
<1>15. ASSUME NEW r \in Slots, NEW t \in Tasks, Track(r, t) PROVE drain' = drain
  BY <1>15 DEF Track
<1>16. ASSUME NEW t \in Tasks, Timer(t) PROVE drain' = drain
  BY <1>16 DEF Timer, TaskCompletes, Notify
<1>17. CASE UNCHANGED vars
  BY <1>2, <1>17 DEF vars
<1> QED
  BY <1>1, <1>2, <1>6, <1>7, <1>8, <1>9, <1>10, <1>11, <1>12, <1>13, <1>14, <1>15, <1>16, <1>17
  DEF Next, Flow, Turn

LEMMA CtlStep ==
    ASSUME Typed, [Next]_vars
    PROVE  CtlT'
<1> DEFINE Sets == \E a \in Agents, c \in CtlRec : ctl' = [ctl EXCEPT ![a] = c]
<1>0. ctl \in [Agents -> CtlRec] /\ runners \in [Agents -> Slots \cup {0}]
  BY DEF Typed, CtlT, RunT
<1>1. CASE Sets
  BY <1>0, <1>1 DEF CtlT
<1>2. CASE ctl' = ctl
  BY <1>0, <1>2 DEF CtlT
<1>3. NoCtl \in CtlRec
  BY DEF NoCtl, CtlRec
<1>4. ASSUME NEW a \in Agents, ctl' = [ctl EXCEPT ![a].pc = "finish"] PROVE Sets
  <2> DEFINE c == [ctl[a] EXCEPT !.pc = "finish"]
  <2>1. c \in CtlRec
    BY <1>0 DEF CtlRec
  <2>2. ctl' = [ctl EXCEPT ![a] = c]
    BY <1>0, <1>4
  <2> HIDE DEF c
  <2> QED BY <2>1, <2>2
<1>5. ASSUME NEW a \in Agents, PauseActs(a) \/ PauseWrites(a) \/ KillActs(a) \/ KillForgets(a)
      PROVE  Sets
  <2>1. ctl' = [ctl EXCEPT ![a] = NoCtl] \/ ctl' = [ctl EXCEPT ![a].pc = "finish"]
    BY <1>5 DEF PauseActs, PauseWrites, KillActs, KillForgets
  <2> QED BY <1>3, <1>4, <2>1
<1>6. ASSUME NEW a \in Agents, NEW op \in {"pause", "kill"}, Control(a, op) PROVE Sets
  <2>1. [op |-> op, pc |-> "read", r |-> runners[a]] \in CtlRec
    BY <1>0 DEF CtlRec
  <2> QED BY <1>6, <2>1 DEF Control
<1>7. ASSUME NEW a \in Agents, DrainReads(a) \/ DrainReady(a) \/ StartAgent(a) \/ ResumeAgent(a)
      PROVE  ctl' = ctl
  BY <1>7 DEF DrainReads, DrainReady, StartAgent, ResumeAgent
<1>8. ASSUME NEW a \in Agents, NEW m \in Messages, SendInput(a, m) \/ SendUrgent(a, m) PROVE ctl' = ctl
  BY <1>8 DEF SendInput, SendUrgent
<1>9. ASSUME NEW m \in Messages, UrgentQueues(m) PROVE ctl' = ctl
  BY <1>9 DEF UrgentQueues
<1>10. ASSUME NEW r \in Slots, Turn(r) \/ BudgetDenied(r) \/ TurnFails(r) PROVE ctl' = ctl
  BY <1>10 DEF Turn, TurnReads, TurnBegins, TurnOpens, SessionInit, TurnResult, TurnStops, TurnEnds,
               BudgetDenied, TurnFails
<1>11. ASSUME NEW r \in Slots, NEW t \in Tasks, Track(r, t) PROVE ctl' = ctl
  BY <1>11 DEF Track
<1>12. ASSUME NEW t \in Tasks, Timer(t) PROVE ctl' = ctl
  BY <1>12 DEF Timer, TaskCompletes, Notify
<1>13. CASE UNCHANGED vars
  BY <1>2, <1>13 DEF vars
<1> HIDE DEF Sets
<1> QED
  BY <1>1, <1>2, <1>5, <1>6, <1>7, <1>8, <1>9, <1>10, <1>11, <1>12, <1>13 DEF Next, Flow

LEMMA CountsStep ==
    ASSUME Typed, [Next]_vars
    PROVE  CountsT'
<1> DEFINE Same == ops' = ops /\ faults' = faults
           Operates == UserOp /\ faults' = faults
           Faulty == Fault /\ ops' = ops
<1>0. ops \in 0..MaxOps /\ faults \in 0..MaxFaults /\ MaxOps \in Nat /\ MaxFaults \in Nat
  BY CapNat DEF Typed, CountsT
<1>1. ASSUME NEW a \in Agents, Flow(a) \/ StartAgent(a) PROVE Same
  BY <1>1 DEF Flow, DrainReads, DrainReady, PauseActs, PauseWrites, KillActs, KillForgets, StartAgent
<1>2. ASSUME NEW a \in Agents, ResumeAgent(a) PROVE Operates
  BY <1>2 DEF ResumeAgent
<1>3. ASSUME NEW a \in Agents, NEW op \in {"pause", "kill"}, Control(a, op) PROVE Operates
  BY <1>3 DEF Control
<1>4. ASSUME NEW a \in Agents, NEW m \in Messages, SendInput(a, m) \/ SendUrgent(a, m) PROVE Same
  BY <1>4 DEF SendInput, SendUrgent
<1>5. ASSUME NEW m \in Messages, UrgentQueues(m) PROVE Same
  BY <1>5 DEF UrgentQueues
<1>6. ASSUME NEW r \in Slots, Turn(r) PROVE Same
  BY <1>6 DEF Turn, TurnReads, TurnBegins, TurnOpens, SessionInit, TurnResult, TurnStops, TurnEnds
<1>7. ASSUME NEW r \in Slots, BudgetDenied(r) \/ TurnFails(r) PROVE Faulty
  BY <1>7 DEF BudgetDenied, TurnFails
<1>8. ASSUME NEW r \in Slots, NEW t \in Tasks, Track(r, t) PROVE Same
  BY <1>8 DEF Track
<1>9. ASSUME NEW t \in Tasks, Timer(t) PROVE Same
  BY <1>9 DEF Timer, TaskCompletes, Notify
<1>10. ASSUME UNCHANGED vars PROVE Same
  BY <1>10 DEF vars
<1>11. CASE Same
  BY <1>0, <1>11 DEF CountsT
<1>12. CASE Operates
  BY <1>0, <1>12 DEF CountsT, UserOp
<1>13. CASE Faulty
  BY <1>0, <1>13 DEF CountsT, Fault
<1> HIDE DEF Same, Operates, Faulty
<1> QED
  BY <1>1, <1>2, <1>3, <1>4, <1>5, <1>6, <1>7, <1>8, <1>9, <1>10, <1>11, <1>12, <1>13 DEF Next

-----------------------------------------------------------------------------
(* The invariant and the theorems.                                         *)

LEMMA InvInit == Init => IInv
<1> SUFFICES ASSUME Init PROVE IInv
  OBVIOUS
<1>1. RowsT
  BY DEF Init, RowsT, RowRec, States
<1>2. QueuesT /\ ItemsT /\ TakenT
  BY DEF Init, QueuesT, ItemsT, TakenT
<1>3. RunT
  BY FreeTyped DEF Init, RunT
<1>4. DrainT
  BY DEF Init, DrainT, DrainRec
<1>5. CtlT
  BY DEF Init, CtlT, CtlRec, NoCtl
<1>6. TaskT
  BY DEF Init, TaskT, TaskRec
<1>7. CountsT
  BY CapNat DEF Init, CountsT
<1>8. \A r \in Slots : TurnOK(r)
  BY FreeTyped DEF Init, TurnOK
<1>9. \A a \in Agents : RunnerOK(a)
  BY DEF Init, RunnerOK
<1>10. \A t \in Tasks : TaskOK(t)
  BY DEF Init, TaskOK, Items
<1>11. \A a \in Agents : QueueOK(a)
  BY DEF Init, QueueOK, In
<1>12. \A m \in Messages : MessageOK(m)
  BY DEF Init, MessageOK, Items
<1>13. DrainingTracked
  BY DEF Init, DrainingTracked
<1> QED
  BY <1>1, <1>2, <1>3, <1>4, <1>5, <1>6, <1>7, <1>8, <1>9, <1>10, <1>11, <1>12, <1>13 DEF IInv, Typed

LEMMA InvStep == IInv /\ [Next]_vars => IInv'
<1> SUFFICES ASSUME IInv, [Next]_vars PROVE IInv'
  OBVIOUS
<1>1. Typed /\ (\A r \in Slots : TurnOK(r)) /\ (\A t \in Tasks : TaskOK(t))
  BY DEF IInv
<1>2. RunInv /\ QueueInv
  BY DEF IInv, Typed, RunInv, QueueInv
<1>3. TaskT' /\ \A t \in Tasks : TaskMoves(t)
  BY <1>1, TaskSteps, TasksMoved DEF Typed
<1>4. RunInv'
  BY <1>1, <1>2, RunSteps, RunKept
<1>5. QueueInv'
  BY <1>1, <1>2, <1>3, QueueSteps, QueueKept
<1>6. RowsT' /\ DrainT' /\ CtlT' /\ CountsT'
  BY <1>1, RowsStep, DrainStep, CtlStep, CountsStep
<1> QED BY <1>3, <1>4, <1>5, <1>6 DEF IInv, Typed, RunInv, QueueInv

LEMMA InvHolds == Spec => []IInv
  BY InvInit, InvStep, PTL DEF Spec

\* Every variable keeps its type, a turn that runs has a kind, and the runner of the map is
\* the agent's, for any number of agents, messages, tasks and slots.
THEOREM TypeCorrect == Spec => []TypeOK
<1>1. IInv => TypeOK
  BY DEF IInv, Typed, RowsT, QueuesT, ItemsT, TakenT, RunT, DrainT, CtlT, TaskT, CountsT, RowRec, TurnRec,
         DrainRec, CtlRec, TaskRec, TurnOK, RunnerOK, TypeOK
<1> QED BY <1>1, InvHolds, PTL

\* However drains, turns, interrupts and notifications interleave, what is sent to an agent is
\* the prompt of at most one turn, and is out of the queue by then (manager.ts:330).
THEOREM NothingTakenTwice == Spec => []TakenOnce
<1>1. ASSUME IInv PROVE TakenOnce
  <2>1. ASSUME NEW i \in Items PROVE taken[i] <= 1
    BY <1>1 DEF IInv, Typed, TakenT
  <2>2. ASSUME NEW i \in Items, Queued(i) PROVE taken[i] = 0
    <3>1. PICK a \in Agents : i \in In(inputQueues[a])
      BY <2>2 DEF Queued, In
    <3> QED BY <1>1, <3>1 DEF IInv, QueueOK
  <2> QED BY <2>1, <2>2 DEF TakenOnce
<1> QED BY <1>1, InvHolds, PTL

\* The mark that makes later messages wait is there only while a turn runs whose end clears
\* it, for any number of agents and runners (manager.ts:384).
THEOREM MarkIsCleared == Spec => []DrainingTracked
<1>1. IInv => DrainingTracked
  BY DEF IInv
<1> QED BY <1>1, InvHolds, PTL

-----------------------------------------------------------------------------
(***************************************************************************)
(* HostProcesses: the claude processes on the boss's machine, for any      *)
(* number of agents and processes. A sweep leaves the boss's children      *)
(* alone whatever else happens. That no turn's process is left without a   *)
(* runner after a restart, and that the row of a turn says so, hold of     *)
(* agents that nobody pauses, kills or compacts meanwhile (MaxOps = 0):    *)
(* a process of a turn is the runner's own while the boss is up (Owned),   *)
(* so whoever is orphaned by the restart is of an agent whose row is       *)
(* active, and restoreAgents sweeps (Orphaned). A second restart between   *)
(* the two steps of restoreAgents finds no active row.                     *)
(***************************************************************************)

ProcRec == [kind : {Host!None, "turn", "call", "compact", "user"}, agent : Agents \cup {Host!None},
            alive : BOOLEAN, child : BOOLEAN]
HostTurnRec == [pc : {"idle", "opening", "running", "pausing"}, pid : Pids \cup {Host!NoOne},
                before : SUBSET Pids, tracked : SUBSET Pids, scans : SUBSET SUBSET Pids]
HostStates == Host!Active \cup {"pending", "paused", "failed", "aborted"}

ProcT == proc \in [Pids -> ProcRec]
HostTurnT == turn \in [Agents -> HostTurnRec]
HostRowT == row \in [Agents -> HostStates] /\ boss \in {"up", "down", "boot", "sweep"}

LEMMA HostLive == Host!Live \subseteq Pids
  BY DEF Host!Live

\* Processes start, die, or are the boss's no more.
LEMMA ProcStep ==
    ASSUME ProcT, [Host!Next]_(Host!vars)
    PROVE  ProcT'
<1> USE DEF ProcT
<1>1. ASSUME NEW dead, Host!After(dead) PROVE ProcT'
  BY <1>1 DEF Host!After, ProcRec
<1>2. ASSUME NEW p \in Pids, NEW kind \in {"turn", "call", "compact", "user"}, NEW a \in Agents \cup {Host!None},
             NEW child \in BOOLEAN, Host!Spawn(p, kind, a, child)
      PROVE  ProcT'
  <2>1. [kind |-> kind, agent |-> a, alive |-> TRUE, child |-> child] \in ProcRec
    BY DEF ProcRec
  <2> QED BY <1>2, <2>1 DEF Host!Spawn
<1>3. ASSUME NEW a \in Agents, NEW p \in Pids, Host!TurnSpawns(a, p) \/ Host!Compact(a, p) PROVE ProcT'
  BY <1>2, <1>3 DEF Host!TurnSpawns, Host!Compact
<1>4. ASSUME NEW p \in Pids, Host!CallStarts(p) \/ Host!UserRuns(p) PROVE ProcT'
  BY <1>2, <1>4 DEF Host!CallStarts, Host!UserRuns
<1>5. ASSUME NEW p \in Pids, Host!CallEnds(p) \/ Host!OrphanEnds(p) PROVE ProcT'
  BY <1>1, <1>5 DEF Host!CallEnds, Host!OrphanEnds
<1>6. ASSUME NEW a \in Agents,
             \/ \E s \in {"waiting_input", "failed"} : Host!TurnEnds(a, s)
             \/ Host!PausedEnds(a) \/ Host!KillAgent(a)
             \/ \E code \in {0, 1} : Host!CompactCloses(a, code)
      PROVE  ProcT'
  BY <1>1, <1>6 DEF Host!TurnEnds, Host!PausedEnds, Host!KillAgent, Host!Stops, Host!CompactCloses
<1>7. CASE Host!KillAll \/ Host!KillAllSweeps \/ Host!BootSweeps
  BY <1>1, <1>7 DEF Host!KillAll, Host!KillAllSweeps, Host!BootSweeps, Host!KillOrphanedProcesses
<1>8. CASE Host!Crash
  <2>1. PICK dead \in SUBSET {p \in Host!Live : proc[p].child} :
          proc' = [p \in Pids |-> [proc[p] EXCEPT !.alive = @ /\ p \notin dead, !.child = FALSE]]
    BY <1>8 DEF Host!Crash
  <2>2. ASSUME NEW p \in Pids PROVE [proc[p] EXCEPT !.alive = @ /\ p \notin dead, !.child = FALSE] \in ProcRec
    BY DEF ProcRec
  <2> QED BY <2>1, <2>2
<1>9. ASSUME NEW a \in Agents,
             \/ Host!TurnBegins(a) \/ Host!SubagentStarts(a) \/ Host!Pauses(a)
             \/ \E listed \in turn[a].scans : Host!Scan(a, listed)
      PROVE  UNCHANGED proc
  BY <1>9 DEF Host!TurnBegins, Host!SubagentStarts, Host!Pauses, Host!Scan
<1>10. ASSUME Host!RestoreAgents \/ UNCHANGED Host!vars PROVE UNCHANGED proc
  BY <1>10 DEF Host!RestoreAgents, Host!vars
<1> QED BY <1>3, <1>4, <1>5, <1>6, <1>7, <1>8, <1>9, <1>10 DEF Host!Next

\* A sweep, of kill-all or of a restart, leaves every child of the boss alive: its own calls,
\* compactions and turns (manager.ts:562-573).
THEOREM ChildrenAreSpared == Host!Spec => Host!SweepSparesChildren
<1>1. Host!Init => ProcT
  BY DEF Host!Init, ProcT, ProcRec, Host!Unborn
<1>2. ProcT /\ [Host!Next]_(Host!vars) => ProcT'
  BY ProcStep
<1>3. ProcT /\ [Host!Next]_(Host!vars) =>
        [boss # "up" /\ boss # "down" /\ boss' = "up" =>
           \A p \in Host!Live : proc[p].child => p \in Host!Live']_(Host!vars)
  <2> SUFFICES ASSUME ProcT, Host!Next, boss # "up", boss # "down", boss' = "up",
                      NEW p \in Host!Live, proc[p].child
               PROVE  p \in Host!Live'
    OBVIOUS
  <2>1. ASSUME Host!KillOrphanedProcesses PROVE p \in Host!Live'
    <3>1. p \notin Host!Swept
      BY DEF Host!Swept
    <3> QED BY <2>1, <3>1 DEF Host!KillOrphanedProcesses, Host!After, Host!Live, ProcT, ProcRec
  <2>2. ASSUME NEW a \in Agents,
               \/ Host!TurnBegins(a) \/ Host!SubagentStarts(a)
               \/ \E listed \in turn[a].scans : Host!Scan(a, listed)
               \/ \E q \in Pids : Host!TurnSpawns(a, q) \/ Host!Compact(a, q)
               \/ \E s \in {"waiting_input", "failed"} : Host!TurnEnds(a, s)
               \/ Host!Pauses(a) \/ Host!PausedEnds(a) \/ Host!KillAgent(a)
               \/ \E code \in {0, 1} : Host!CompactCloses(a, code)
        PROVE  UNCHANGED boss
    BY <2>2 DEF Host!TurnBegins, Host!SubagentStarts, Host!Scan, Host!TurnSpawns, Host!Compact, Host!TurnEnds,
                Host!Pauses, Host!PausedEnds, Host!KillAgent, Host!CompactCloses
  <2>3. ASSUME NEW q \in Pids,
               Host!CallStarts(q) \/ Host!CallEnds(q) \/ Host!UserRuns(q) \/ Host!OrphanEnds(q)
        PROVE  UNCHANGED boss
    BY <2>3 DEF Host!CallStarts, Host!CallEnds, Host!UserRuns, Host!OrphanEnds
  <2>4. CASE Host!KillAll \/ Host!Crash \/ Host!RestoreAgents
    BY <2>4 DEF Host!KillAll, Host!Crash, Host!RestoreAgents
  <2>5. CASE Host!KillAllSweeps \/ Host!BootSweeps
    BY <2>1, <2>5 DEF Host!KillAllSweeps, Host!BootSweeps
  <2> QED BY <2>2, <2>3, <2>4, <2>5 DEF Host!Next
<1> QED BY <1>1, <1>2, <1>3, PTL DEF Host!Spec, Host!SweepSparesChildren

-----------------------------------------------------------------------------
\* While the boss is not up no turn has a runner; a turn that has one, is in its row.
HostTurnOK ==
    \A a \in Agents : /\ turn[a].pc # "idle" => boss = "up" /\ row[a] = "running"
                      /\ turn[a].pc # "pausing"

\* The live process of a turn: the runner's own.
Owned == \A p \in Host!Live : proc[p].kind = "turn" /\ proc[p].child =>
             /\ proc[p].agent \in Agents /\ turn[proc[p].agent].pc = "running"
             /\ turn[proc[p].agent].pid = p

\* One that is nobody's child is found by the restart.
Orphaned ==
    /\ boss = "up" => \A p \in Host!Live : proc[p].kind = "turn" => proc[p].child
    /\ boss = "down" => \A p \in Host!Live : proc[p].kind = "turn" => \E a \in Agents : row[a] \in Host!Active
    /\ boss # "up" => crashes > 0

\* No pause, kill or compaction has happened.
Untouched == ops = 0 /\ boss # "sweep" /\ crashes \in Nat /\ \A a \in Agents : compacted[a] = Host!NoOne

HostInv == ProcT /\ HostTurnT /\ HostRowT /\ Untouched /\ HostTurnOK /\ Owned /\ Orphaned

LEMMA HostTypesStep ==
    ASSUME HostTurnT, HostRowT, [Host!Next]_(Host!vars)
    PROVE  HostTurnT' /\ HostRowT'
<1> DEFINE P == HostTurnT' /\ HostRowT'
<1> USE DEF HostTurnT, HostRowT
<1>1. Host!Live \subseteq Pids /\ Host!Live \in SUBSET Pids
  BY DEF Host!Live
<1>2. {"running", "paused", "aborted", "failed", "waiting_input"} \subseteq HostStates
  BY DEF HostStates, Host!Active
<1>0. ASSUME NEW a \in Agents, NEW r \in HostTurnRec, turn' = [turn EXCEPT ![a] = r],
             row' \in [Agents -> HostStates], UNCHANGED boss
      PROVE  P
  BY <1>0
<1>3. ASSUME NEW a \in Agents, Host!TurnBegins(a) PROVE P
  <2> DEFINE r == [turn[a] EXCEPT !.pc = "opening", !.before = Host!Live]
  <2>1. r \in HostTurnRec
    <3>1. turn[a] \in HostTurnRec /\ Host!Live \in SUBSET Pids
      BY <1>1
    <3> QED BY ONLY <3>1 DEF HostTurnRec
  <2>2. turn' = [turn EXCEPT ![a] = r] /\ row' \in [Agents -> HostStates] /\ UNCHANGED boss
    BY <1>2, <1>3 DEF Host!TurnBegins
  <2> HIDE DEF r
  <2> QED BY <1>0, <2>1, <2>2
<1>4. ASSUME NEW a \in Agents, NEW p \in Pids, Host!TurnSpawns(a, p) PROVE P
  <2> DEFINE r == [turn[a] EXCEPT !.pc = "running", !.pid = p, !.scans = turn[a].scans \cup {turn[a].before}]
  <2>1. r \in HostTurnRec
    <3>1. turn[a] \in HostTurnRec
      OBVIOUS
    <3>2. turn[a].scans \cup {turn[a].before} \in SUBSET SUBSET Pids
      BY <3>1 DEF HostTurnRec
    <3>3. p \in Pids \cup {Host!NoOne}
      OBVIOUS
    <3> HIDE DEF HostTurnT, HostRowT
    <3> QED BY <3>1, <3>2, <3>3 DEF HostTurnRec
  <2>2. turn' = [turn EXCEPT ![a] = r] /\ row' \in [Agents -> HostStates] /\ UNCHANGED boss
    BY <1>4 DEF Host!TurnSpawns
  <2> HIDE DEF r
  <2> QED BY <1>0, <2>1, <2>2
<1>5. ASSUME NEW a \in Agents, NEW listed \in turn[a].scans, Host!Scan(a, listed) PROVE P
  <2> DEFINE r == [turn[a] EXCEPT !.scans = turn[a].scans \ {listed},
                                  !.tracked = turn[a].tracked \cup (Host!Live \ listed)]
  <2>1. r \in HostTurnRec
    <3>1. turn[a] \in HostTurnRec
      OBVIOUS
    <3>2. turn[a].scans \ {listed} \in SUBSET SUBSET Pids /\ turn[a].tracked \cup (Host!Live \ listed) \in SUBSET Pids
      BY <1>1, <3>1 DEF HostTurnRec
    <3> HIDE DEF HostTurnT, HostRowT
    <3> QED BY <3>1, <3>2 DEF HostTurnRec
  <2>2. turn' = [turn EXCEPT ![a] = r] /\ row' \in [Agents -> HostStates] /\ UNCHANGED boss
    BY <1>5 DEF Host!Scan
  <2> HIDE DEF r
  <2> QED BY <1>0, <2>1, <2>2
<1>6. ASSUME NEW a \in Agents, Host!SubagentStarts(a) PROVE P
  BY <1>6 DEF Host!SubagentStarts, HostTurnRec
<1>7. ASSUME NEW a \in Agents, Host!Stops(a) PROVE HostTurnT'
  BY <1>7 DEF Host!Stops, Host!Idle, HostTurnRec
<1>8. ASSUME NEW a \in Agents, NEW s \in {"waiting_input", "failed"}, Host!TurnEnds(a, s) PROVE P
  BY <1>2, <1>7, <1>8 DEF Host!TurnEnds
<1>9. ASSUME NEW a \in Agents, Host!Pauses(a) PROVE P
  BY <1>2, <1>9 DEF Host!Pauses, HostTurnRec
<1>10. ASSUME NEW a \in Agents, Host!PausedEnds(a) \/ Host!KillAgent(a) PROVE P
  BY <1>2, <1>7, <1>10 DEF Host!PausedEnds, Host!KillAgent
<1>11. ASSUME NEW a \in Agents, NEW code \in {0, 1}, Host!CompactCloses(a, code) PROVE P
  BY <1>2, <1>11 DEF Host!CompactCloses
<1>12. ASSUME NEW a \in Agents, NEW p \in Pids, Host!Compact(a, p) PROVE P
  BY <1>12 DEF Host!Compact
<1>13. ASSUME NEW p \in Pids, Host!CallStarts(p) \/ Host!CallEnds(p) \/ Host!UserRuns(p) \/ Host!OrphanEnds(p) PROVE P
  BY <1>13 DEF Host!CallStarts, Host!CallEnds, Host!UserRuns, Host!OrphanEnds
<1>14. CASE Host!KillAll
  <2> DEFINE hit == {a \in Agents : row[a] \in Host!Active}
  <2>1. /\ row' = [a \in Agents |-> IF a \in hit THEN "aborted" ELSE row[a]]
        /\ turn' = [a \in Agents |-> IF a \in hit THEN [Host!Idle EXCEPT !.scans = turn[a].scans] ELSE turn[a]]
        /\ boss' = "sweep"
    BY <1>14 DEF Host!KillAll
  <2>2. \A a \in Agents : [Host!Idle EXCEPT !.scans = turn[a].scans] \in HostTurnRec
    BY DEF Host!Idle, HostTurnRec
  <2> HIDE DEF hit
  <2> QED BY <1>2, <2>1, <2>2
<1>15. CASE Host!KillAllSweeps \/ Host!BootSweeps
  BY <1>15 DEF Host!KillAllSweeps, Host!BootSweeps
<1>16. CASE Host!Crash
  <2>1. Host!Idle \in HostTurnRec
    BY DEF Host!Idle, HostTurnRec
  <2> QED BY <1>16, <2>1 DEF Host!Crash
<1>17. CASE Host!RestoreAgents
  BY <1>2, <1>17 DEF Host!RestoreAgents
<1>18. CASE UNCHANGED Host!vars
  BY <1>18 DEF Host!vars
<1> QED BY <1>3, <1>4, <1>5, <1>6, <1>8, <1>9, <1>10, <1>11, <1>12, <1>13, <1>14, <1>15, <1>16, <1>17, <1>18
        DEF Host!Next

\* The agents are left to themselves: no pause, kill, kill-all or compaction.
LEMMA UntouchedStep ==
    ASSUME MaxOps = 0, Untouched, HostTurnOK, [Host!Next]_(Host!vars)
    PROVE  /\ Untouched' /\ ~Host!KillAll /\ ~Host!KillAllSweeps
           /\ \A a \in Agents : /\ ~Host!Pauses(a) /\ ~Host!PausedEnds(a) /\ ~Host!KillAgent(a)
                                /\ \A p \in Pids : ~Host!Compact(a, p)
                                /\ \A code \in {0, 1} : ~Host!CompactCloses(a, code)
<1>1. ~Host!Op
  BY DEF Host!Op, Untouched
<1>2. /\ ~Host!KillAll /\ ~Host!KillAllSweeps
      /\ \A a \in Agents : /\ ~Host!Pauses(a) /\ ~Host!PausedEnds(a) /\ ~Host!KillAgent(a)
                           /\ \A p \in Pids : ~Host!Compact(a, p)
                           /\ \A code \in {0, 1} : ~Host!CompactCloses(a, code)
  BY <1>1 DEF Host!KillAll, Host!KillAllSweeps, Host!Pauses, Host!PausedEnds, Host!KillAgent, Host!Compact,
              Host!CompactCloses, Untouched, HostTurnOK
<1> USE DEF Untouched
<1>3. ASSUME NEW a \in Agents,
             \/ Host!TurnBegins(a) \/ Host!SubagentStarts(a)
             \/ \E listed \in turn[a].scans : Host!Scan(a, listed)
             \/ \E q \in Pids : Host!TurnSpawns(a, q)
             \/ \E s \in {"waiting_input", "failed"} : Host!TurnEnds(a, s)
      PROVE  Untouched'
  BY <1>3 DEF Host!TurnBegins, Host!SubagentStarts, Host!Scan, Host!TurnSpawns, Host!TurnEnds
<1>4. ASSUME NEW q \in Pids, Host!CallStarts(q) \/ Host!CallEnds(q) \/ Host!UserRuns(q) \/ Host!OrphanEnds(q)
      PROVE  Untouched'
  BY <1>4 DEF Host!CallStarts, Host!CallEnds, Host!UserRuns, Host!OrphanEnds
<1>5. ASSUME Host!Crash \/ Host!RestoreAgents \/ Host!BootSweeps PROVE Untouched'
  <2>1. UNCHANGED ops /\ boss' # "sweep" /\ crashes' \in {crashes, crashes + 1}
    <3>1. Host!Crash => UNCHANGED ops /\ boss' = "down" /\ crashes' = crashes + 1
      BY DEF Host!Crash
    <3>2. Host!RestoreAgents => UNCHANGED <<ops, crashes>> /\ boss' \in {"boot", "up"}
      BY DEF Host!RestoreAgents
    <3>3. Host!BootSweeps => UNCHANGED <<ops, crashes>> /\ boss' = "up"
      BY DEF Host!BootSweeps
    <3> QED BY <1>5, <3>1, <3>2, <3>3
  <2>2. crashes' \in Nat
    BY <2>1
  <2>3. \A a \in Agents : compacted'[a] = Host!NoOne
    BY <1>5 DEF Host!Crash, Host!RestoreAgents, Host!BootSweeps
  <2> QED BY <2>1, <2>2, <2>3
<1>6. ASSUME UNCHANGED Host!vars PROVE Untouched'
  BY <1>6 DEF Host!vars
<1> QED BY <1>2, <1>3, <1>4, <1>5, <1>6 DEF Host!Next

LEMMA HostTurnOKStep ==
    ASSUME MaxOps = 0, HostTurnT, HostRowT, Untouched, HostTurnOK, [Host!Next]_(Host!vars)
    PROVE  HostTurnOK'
<1> USE DEF HostTurnOK, HostTurnT, HostRowT, HostTurnRec
<1>1. Host!Up => boss = "up"
  BY DEF Host!Up, Untouched
<1>2. ASSUME NEW a \in Agents, Host!TurnBegins(a) PROVE HostTurnOK'
  BY <1>1, <1>2 DEF Host!TurnBegins
<1>3. ASSUME NEW a \in Agents,
             \/ Host!SubagentStarts(a) \/ \E listed \in turn[a].scans : Host!Scan(a, listed)
             \/ \E q \in Pids : Host!TurnSpawns(a, q)
      PROVE  HostTurnOK'
  <2>1. /\ UNCHANGED <<row, boss>>
        /\ \A b \in Agents : turn'[b].pc = turn[b].pc \/ (turn[b].pc = "opening" /\ turn'[b].pc = "running")
    <3>1. ASSUME Host!SubagentStarts(a)
          PROVE  UNCHANGED <<row, boss>> /\ \A b \in Agents : turn'[b].pc = turn[b].pc
      BY <3>1 DEF Host!SubagentStarts
    <3>2. ASSUME NEW listed, Host!Scan(a, listed)
          PROVE  UNCHANGED <<row, boss>> /\ \A b \in Agents : turn'[b].pc = turn[b].pc
      BY <3>2 DEF Host!Scan
    <3>3. ASSUME NEW q \in Pids, Host!TurnSpawns(a, q)
          PROVE  /\ UNCHANGED <<row, boss>> /\ turn[a].pc = "opening" /\ turn'[a].pc = "running"
                 /\ \A b \in Agents : b # a => turn'[b] = turn[b]
      BY <3>3 DEF Host!TurnSpawns
    <3> QED BY <1>3, <3>1, <3>2, <3>3
  <2> QED BY <2>1
<1>4. ASSUME NEW a \in Agents, NEW s \in {"waiting_input", "failed"}, Host!TurnEnds(a, s) PROVE HostTurnOK'
  BY <1>4 DEF Host!TurnEnds, Host!Stops, Host!Idle
<1>5. ASSUME NEW q \in Pids, Host!CallStarts(q) \/ Host!CallEnds(q) \/ Host!UserRuns(q) \/ Host!OrphanEnds(q)
      PROVE  UNCHANGED <<row, turn, boss>>
  BY <1>5 DEF Host!CallStarts, Host!CallEnds, Host!UserRuns, Host!OrphanEnds
<1>6. CASE Host!Crash
  BY <1>6 DEF Host!Crash, Host!Idle
<1>7. CASE Host!RestoreAgents \/ Host!BootSweeps
  BY <1>7 DEF Host!RestoreAgents, Host!BootSweeps
<1>8. CASE UNCHANGED Host!vars
  BY <1>8 DEF Host!vars
<1>9. ASSUME UNCHANGED <<row, turn, boss>> PROVE HostTurnOK'
  BY <1>9
<1> QED BY <1>2, <1>3, <1>4, <1>5, <1>6, <1>7, <1>8, <1>9, UntouchedStep DEF Host!Next

\* What a step may do to the processes of turns: a runner starts one, and others end.
LEMMA OwnedStep ==
    ASSUME MaxOps = 0, MaxCrashes \in 0..1, HostInv, [Host!Next]_(Host!vars)
    PROVE  Owned' /\ Orphaned'
<1> DEFINE P == Owned' /\ Orphaned'
<1>1. proc \in [Pids -> ProcRec] /\ turn \in [Agents -> HostTurnRec] /\ row \in [Agents -> HostStates] /\ HostTurnOK
      /\ boss \in {"up", "down", "boot"} /\ crashes \in Nat
  BY DEF HostInv, ProcT, HostTurnT, HostRowT, Untouched
<1>2. Owned /\ Orphaned
  BY DEF HostInv
<1>3. Host!Up => boss = "up"
  BY <1>1 DEF Host!Up
<1> USE DEF Owned, Orphaned, Host!Live, ProcRec, HostTurnRec
<1>4. ASSUME UNCHANGED <<proc, boss, crashes, row>>,
             \A a \in Agents : turn[a].pc = "running" => turn'[a].pc = "running" /\ turn'[a].pid = turn[a].pid
      PROVE  P
  BY <1>2, <1>4
<1>5. ASSUME NEW a \in Agents, Host!TurnBegins(a) PROVE P
  <2>1. /\ UNCHANGED <<proc, boss, crashes>> /\ boss = "up"
        /\ \A b \in Agents : turn[b].pc = "running" => turn'[b].pc = "running" /\ turn'[b].pid = turn[b].pid
    BY <1>1, <1>3, <1>5 DEF Host!TurnBegins
  <2> QED BY <1>2, <2>1
<1>6. ASSUME NEW a \in Agents, Host!SubagentStarts(a) \/ \E listed \in turn[a].scans : Host!Scan(a, listed) PROVE P
  <2>1. /\ UNCHANGED <<proc, boss, crashes, row>>
        /\ \A b \in Agents : turn[b].pc = "running" => turn'[b].pc = "running" /\ turn'[b].pid = turn[b].pid
    <3>1. ASSUME Host!SubagentStarts(a)
          PROVE  /\ UNCHANGED <<proc, boss, crashes, row>>
                 /\ \A b \in Agents : turn'[b].pc = turn[b].pc /\ turn'[b].pid = turn[b].pid
      BY <1>1, <3>1 DEF Host!SubagentStarts
    <3>2. ASSUME NEW listed, Host!Scan(a, listed)
          PROVE  /\ UNCHANGED <<proc, boss, crashes, row>>
                 /\ \A b \in Agents : turn'[b].pc = turn[b].pc /\ turn'[b].pid = turn[b].pid
      BY <1>1, <3>2 DEF Host!Scan
    <3> QED BY <1>6, <3>1, <3>2
  <2> QED BY <1>4, <2>1
<1>7. ASSUME NEW a \in Agents, NEW p \in Pids, Host!TurnSpawns(a, p) PROVE P
  <2>1. /\ UNCHANGED <<boss, crashes, row>> /\ boss = "up" /\ turn[a].pc = "opening"
        /\ turn'[a].pc = "running" /\ turn'[a].pid = p /\ \A b \in Agents : b # a => turn'[b] = turn[b]
    BY <1>1, <1>3, <1>7 DEF Host!TurnSpawns
  <2>2. /\ proc'[p] = [kind |-> "turn", agent |-> a, alive |-> TRUE, child |-> TRUE]
        /\ \A q \in Pids : q # p => proc'[q] = proc[q]
    BY <1>1, <1>7 DEF Host!TurnSpawns, Host!Spawn
  <2> QED BY <1>2, <2>1, <2>2
<1>8. ASSUME NEW dead, Host!After(dead)
      PROVE  \A p \in Pids : /\ proc'[p].kind = proc[p].kind /\ proc'[p].agent = proc[p].agent
                             /\ proc'[p].child = proc[p].child
                             /\ proc'[p].alive <=> proc[p].alive /\ p \notin dead
  <2>1. ASSUME NEW p \in Pids
        PROVE  /\ proc'[p].kind = proc[p].kind /\ proc'[p].agent = proc[p].agent
               /\ proc'[p].child = proc[p].child
               /\ proc'[p].alive = (proc[p].alive /\ p \notin dead)
    <3>1. proc'[p] = [proc[p] EXCEPT !.alive = proc[p].alive /\ p \notin dead] /\ proc[p] \in ProcRec
      BY <1>1, <1>8 DEF Host!After
    <3> QED BY <3>1
  <2> QED BY <2>1
<1>9. ASSUME NEW a \in Agents, NEW s \in {"waiting_input", "failed"}, Host!TurnEnds(a, s) PROVE P
  <2>1. /\ UNCHANGED <<boss, crashes>> /\ boss = "up"
        /\ \A b \in Agents : b # a => turn'[b] = turn[b]
    BY <1>1, <1>3, <1>9 DEF Host!TurnEnds, Host!Stops
  <2>2. \A p \in Pids : /\ proc'[p].kind = proc[p].kind /\ proc'[p].agent = proc[p].agent
                        /\ proc'[p].child = proc[p].child
                        /\ proc'[p].alive <=> proc[p].alive /\ p \notin Host!Reaped(a)
    BY <1>8, <1>9 DEF Host!TurnEnds, Host!Stops
  <2>3. ASSUME NEW p \in Pids, proc'[p].alive, proc'[p].kind = "turn"
        PROVE  proc'[p].child /\ proc[p].alive /\ proc[p].agent # a
    <3>1. proc[p].alive /\ proc[p].kind = "turn" /\ p \notin Host!Reaped(a)
      BY <2>2, <2>3
    <3>2. proc[p].child
      BY <1>2, <2>1, <3>1
    <3>3. turn[a].pid # p
      BY <3>1 DEF Host!Reaped
    <3> QED BY <1>2, <2>2, <3>1, <3>2, <3>3
  <2>4. Owned'
    BY <1>2, <2>1, <2>2, <2>3
  <2> QED BY <1>1, <2>1, <2>3, <2>4
<1>10. ASSUME NEW p \in Pids, Host!CallStarts(p) \/ Host!UserRuns(p) PROVE P
  <2>1. /\ UNCHANGED <<row, turn, boss, crashes>> /\ proc'[p].kind # "turn"
        /\ \A q \in Pids : q # p => proc'[q] = proc[q]
    BY <1>1, <1>10 DEF Host!CallStarts, Host!UserRuns, Host!Spawn
  <2> QED BY <1>2, <2>1
<1>11. ASSUME NEW dead, Host!After(dead), UNCHANGED <<row, turn, boss, crashes>> PROVE P
  <2>1. \A p \in Pids : /\ proc'[p].kind = proc[p].kind /\ proc'[p].agent = proc[p].agent
                        /\ proc'[p].child = proc[p].child /\ (proc'[p].alive => proc[p].alive)
    BY <1>8, <1>11
  <2> QED BY <1>2, <1>11, <2>1
<1>12. ASSUME NEW p \in Pids, Host!CallEnds(p) \/ Host!OrphanEnds(p) PROVE P
  BY <1>11, <1>12 DEF Host!CallEnds, Host!OrphanEnds
<1>13. CASE Host!Crash
  <2>1. PICK dead \in SUBSET {p \in Host!Live : proc[p].child} :
          proc' = [p \in Pids |-> [proc[p] EXCEPT !.alive = @ /\ p \notin dead, !.child = FALSE]]
    BY <1>13 DEF Host!Crash
  <2>2. \A p \in Pids : /\ proc'[p].kind = proc[p].kind /\ ~proc'[p].child /\ (proc'[p].alive => proc[p].alive)
    <3>1. ASSUME NEW p \in Pids
          PROVE  /\ proc'[p].kind = proc[p].kind /\ proc'[p].child = FALSE
                 /\ proc'[p].alive = (proc[p].alive /\ p \notin dead)
      <4>1. proc'[p] = [proc[p] EXCEPT !.alive = proc[p].alive /\ p \notin dead, !.child = FALSE] /\ proc[p] \in ProcRec
        BY <1>1, <2>1
      <4> QED BY <4>1
    <3> QED BY <3>1
  <2>3. /\ boss # "down" /\ crashes < MaxCrashes /\ crashes' = crashes + 1 /\ boss' = "down" /\ UNCHANGED row
    BY <1>13 DEF Host!Crash
  <2>4. boss = "up" /\ crashes' > 0
    BY <1>1, <1>2, <2>3
  <2>5. ASSUME NEW p \in Pids, proc'[p].alive, proc'[p].kind = "turn" PROVE \E a \in Agents : row[a] \in Host!Active
    <3>1. proc[p].agent \in Agents /\ turn[proc[p].agent].pc = "running"
      BY <1>2, <2>2, <2>4, <2>5
    <3>2. row[proc[p].agent] = "running"
      BY <1>1, <3>1 DEF HostTurnOK
    <3> QED BY <3>1, <3>2 DEF Host!Active
  <2> QED BY <2>2, <2>3, <2>4, <2>5
<1>14. CASE Host!RestoreAgents
  <2>1. /\ UNCHANGED <<proc, turn, crashes>> /\ boss = "down"
        /\ boss' = IF \E a \in Agents : row[a] \in Host!Active THEN "boot" ELSE "up"
    BY <1>14 DEF Host!RestoreAgents
  <2> QED BY <1>2, <2>1
<1>15. CASE Host!BootSweeps
  <2>1. boss = "boot" /\ boss' = "up" /\ Host!After(Host!Swept) /\ UNCHANGED <<row, turn, crashes>>
    BY <1>15 DEF Host!BootSweeps, Host!KillOrphanedProcesses
  <2>2. Host!RunnersIdle
    BY <1>1, <2>1 DEF Host!RunnersIdle, HostTurnOK
  <2>3. Host!Swept = {p \in Host!Live : ~proc[p].child}
    BY <2>2 DEF Host!Swept
  <2>4. \A p \in Pids : /\ proc'[p].kind = proc[p].kind /\ proc'[p].agent = proc[p].agent
                        /\ proc'[p].child = proc[p].child
                        /\ proc'[p].alive <=> proc[p].alive /\ p \notin Host!Swept
    BY <1>8, <2>1
  <2> QED BY <1>1, <1>2, <2>1, <2>3, <2>4
<1>16. CASE UNCHANGED Host!vars
  BY <1>2, <1>16 DEF Host!vars
<1>17. Untouched /\ HostTurnOK
  BY DEF HostInv
<1> HIDE DEF P
<1> QED BY <1>5, <1>6, <1>7, <1>9, <1>10, <1>12, <1>13, <1>14, <1>15, <1>16, <1>17, UntouchedStep DEF Host!Next, P

\* Of agents that nobody pauses, kills or compacts, and through one restart: once the boss is up
\* no turn's process is left without a runner, and the row of a turn whose process runs says so.
THEOREM RestartLeavesNoOrphan ==
    ASSUME MaxOps = 0, MaxCrashes \in 0..1
    PROVE  Host!Spec => [](Host!NoOrphanAfterBoot /\ Host!RowFollowsTurn)
<1>1. Host!Init => HostInv
  <2> SUFFICES ASSUME Host!Init PROVE HostInv
    OBVIOUS
  <2> USE DEF Host!Init
  <2>1. ProcT /\ HostTurnT /\ HostRowT
    BY DEF ProcT, ProcRec, Host!Unborn, HostTurnT, HostTurnRec, Host!Idle, HostRowT, HostStates
  <2>2. Host!Live = {}
    BY DEF Host!Live, Host!Unborn
  <2>3. Untouched /\ HostTurnOK
    BY DEF Untouched, HostTurnOK, Host!Idle
  <2> QED BY <2>1, <2>2, <2>3 DEF HostInv, Owned, Orphaned
<1>2. HostInv /\ [Host!Next]_(Host!vars) => HostInv'
  BY ProcStep, HostTypesStep, UntouchedStep, HostTurnOKStep, OwnedStep DEF HostInv
<1>3. HostInv => Host!NoOrphanAfterBoot /\ Host!RowFollowsTurn
  BY DEF HostInv, Orphaned, HostTurnOK, Host!NoOrphanAfterBoot, Host!RowFollowsTurn
<1> QED BY <1>1, <1>2, <1>3, PTL DEF Host!Spec

-----------------------------------------------------------------------------
(* The session of an agent, between whose turns it is trimmed and left.    *)

\* Sessions that a fresh start has left are sessions, one for each fresh start.
LeftOK == /\ left \subseteq Sess!Sessions /\ IsFiniteSet(left)
          /\ fresh \in 0..MaxFresh /\ Cardinality(left) <= fresh

SessionRow == [state : {"pending", "running", "waiting_input", "paused"},
               session : Sess!Sessions \cup {Sess!NoSession}]

\* Nobody has one of them: not the row, not a turn.
LeftAlone ==
    /\ row \in SessionRow
    /\ row.session \notin left
    /\ turn \in [Turns -> Sess!Sessions \cup {Sess!NoSession}]
    /\ \A t \in Turns : turn[t] \notin left

\* There is a session to open, and the one a turn opens was never left.
LEMMA FreshSession ==
    ASSUME MaxFresh \in Nat, LeftOK
    PROVE  LET s == CHOOSE n \in Sess!Sessions : n \notin left /\ \A m \in Sess!Sessions \ left : n <= m
           IN  s \in Sess!Sessions /\ s \notin left
<1> DEFINE Unused == Sess!Sessions \ left
<1>1. Sess!Sessions = 1..(MaxFresh + 1)
  BY DEF Sess!Sessions
<1>2. IsFiniteSet(Sess!Sessions) /\ Cardinality(Sess!Sessions) = MaxFresh + 1
  <2>1. IsFiniteSet(1..(MaxFresh + 1)) /\ Cardinality(1..(MaxFresh + 1)) = MaxFresh + 1
    BY FS_Interval
  <2> QED BY <1>1, <2>1
<1>3. Unused # {}
  <2> SUFFICES ASSUME Sess!Sessions \subseteq left PROVE FALSE
    OBVIOUS
  <2>1. left = Sess!Sessions
    BY DEF LeftOK
  <2>2. Cardinality(left) = MaxFresh + 1
    BY <1>2, <2>1
  <2>3. Cardinality(left) <= MaxFresh
    <3>1. Cardinality(left) <= fresh /\ fresh \in 0..MaxFresh /\ Cardinality(left) \in Nat
      BY FS_CardinalityType DEF LeftOK
    <3> QED BY <3>1
  <2> QED BY <2>2, <2>3
<1>4. Unused \in SUBSET Nat
  BY <1>1
<1>5. \E n \in Unused : \A m \in Unused : n <= m
  BY <1>3, <1>4, LeastOf
<1> QED BY <1>5

\* No step writes a session that was left into the row or a turn: a fresh start comes between
\* turns, and a turn opens one that is not.
LEMMA LeftStep ==
    ASSUME MaxFresh \in Nat, Quiet, LeftOK, LeftAlone, [Sess!Next]_(Sess!vars)
    PROVE  LeftOK' /\ LeftAlone'
<1> USE DEF LeftAlone, SessionRow
<1>0. Sess!Sessions' = Sess!Sessions /\ Sess!NoSession' = Sess!NoSession /\ SessionRow' = SessionRow
  BY DEF Sess!Sessions, Sess!NoSession
<1>1. Sess!NoSession = 0 /\ Sess!Sessions \subseteq Nat \ {0} /\ 0 \notin left
  BY DEF Sess!NoSession, Sess!Sessions, LeftOK
<1>2. ASSUME NEW t \in Turns, Sess!TurnStarts(t) PROVE LeftOK' /\ LeftAlone'
  <2> DEFINE s == IF row.session # Sess!NoSession THEN row.session
                  ELSE CHOOSE n \in Sess!Sessions : n \notin left /\ \A m \in Sess!Sessions \ left : n <= m
  <2>1. s \in Sess!Sessions /\ s \notin left
    BY FreshSession
  <2>2. /\ turn' = [turn EXCEPT ![t] = s] /\ row' = [state |-> "running", session |-> s]
        /\ UNCHANGED <<fresh, left>>
    BY <1>2 DEF Sess!TurnStarts
  <2> HIDE DEF s
  <2>3. LeftAlone'
    BY <1>0, <2>1, <2>2
  <2> QED BY <2>2, <2>3 DEF LeftOK
<1>3. ASSUME NEW t \in Turns, Sess!TurnEnds(t) PROVE LeftOK' /\ LeftAlone'
  <2>1. /\ row' = [state |-> "waiting_input", session |-> turn[t]] /\ turn[t] \in Sess!Sessions /\ turn' = [turn EXCEPT ![t] = Sess!NoSession]
        /\ UNCHANGED <<fresh, left>>
    BY <1>3 DEF Sess!TurnEnds, Sess!Running
  <2>2. LeftAlone'
    BY <1>0, <1>1, <2>1
  <2> QED BY <2>1, <2>2 DEF LeftOK
<1>4. CASE Sess!FreshStart
  <2>1. /\ \A t \in Turns : turn[t] = Sess!NoSession
        /\ row.session \in Sess!Sessions /\ row' = [state |-> "pending", session |-> Sess!NoSession]
        /\ left' = left \cup {row.session} /\ fresh' = fresh + 1 /\ fresh < MaxFresh /\ turn' = turn
    BY <1>4 DEF Sess!FreshStart, Sess!Calm, Sess!Running
  <2>2. /\ IsFiniteSet(left') /\ Cardinality(left) \in Nat
        /\ Cardinality(left') \in {Cardinality(left), Cardinality(left) + 1}
    <3>1. IsFiniteSet(left) /\ Cardinality(left) \in Nat
      BY FS_CardinalityType DEF LeftOK
    <3>2. /\ IsFiniteSet(left \cup {row.session})
          /\ Cardinality(left \cup {row.session}) \in {Cardinality(left), Cardinality(left) + 1}
      BY <3>1, FS_AddElement
    <3> QED BY <2>1, <3>1, <3>2
  <2>3. LeftOK'
    <3>1. fresh' \in 0..MaxFresh /\ Cardinality(left') <= fresh'
      BY <2>1, <2>2 DEF LeftOK
    <3>2. left' \subseteq Sess!Sessions
      BY <2>1 DEF LeftOK
    <3>3. Sess!Sessions' = Sess!Sessions
      BY DEF Sess!Sessions
    <3> QED BY <2>2, <3>1, <3>2, <3>3 DEF LeftOK
  <2>4. LeftAlone'
    BY <1>0, <1>1, <2>1
  <2> QED BY <2>3, <2>4
<1>5. ASSUME \/ \E t \in Turns, kind \in LineKinds : Sess!Appends(t, kind)
             \/ Sess!Trims \/ Sess!TrimBacksUp \/ Sess!TrimWrites \/ UNCHANGED Sess!vars
      PROVE  LeftOK' /\ LeftAlone'
  <2>1. UNCHANGED <<turn, fresh, left>> /\ row' \in {row, [row EXCEPT !.state = "paused"]}
    BY <1>5 DEF Sess!Appends, Sess!Trims, Sess!TrimBacksUp, Sess!TrimWrites, Sess!vars
  <2>2. row' \in SessionRow /\ row'.session = row.session
    BY <2>1
  <2> QED BY <1>0, <2>1, <2>2 DEF LeftOK
<1> QED BY <1>2, <1>3, <1>4, <1>5 DEF Sess!Next

\* Fresh starts that come between turns stay fresh: the agent never returns to a session that
\* one of them has left, for any number of turns, trims and fresh starts (router.ts:927).
THEOREM FreshStartHolds ==
    ASSUME MaxFresh \in Nat, Quiet PROVE Sess!Spec => []Sess!FreshStays
<1>1. Sess!Init => LeftOK /\ LeftAlone
  <2> SUFFICES ASSUME Sess!Init PROVE LeftOK /\ LeftAlone
    OBVIOUS
  <2>1. left = {} /\ fresh = 0 /\ row = [state |-> "pending", session |-> Sess!NoSession]
        /\ turn = [t \in Turns |-> Sess!NoSession]
    BY DEF Sess!Init
  <2>2. IsFiniteSet({}) /\ Cardinality({}) = 0
    BY FS_EmptySet
  <2> QED BY <2>1, <2>2 DEF LeftOK, LeftAlone, SessionRow
<1>2. LeftOK /\ LeftAlone /\ [Sess!Next]_(Sess!vars) => LeftOK' /\ LeftAlone'
  BY LeftStep
<1>3. LeftAlone => Sess!FreshStays
  BY DEF LeftAlone, Sess!FreshStays
<1> QED BY <1>1, <1>2, <1>3, PTL DEF Sess!Spec
================================================================================
