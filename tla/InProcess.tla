------------------------------ MODULE InProcess ------------------------------
(***************************************************************************)
(* AGENT_EXECUTION=inprocess: the agents run as children of the boss.  The *)
(* manager keeps a runner per agent, a queue of messages per agent and the *)
(* agents it drains; a runner runs one turn of the SDK and is thrown away. *)
(* One step is what the event loop runs between two awaits; a statement    *)
(* takes effect when it is issued.                                         *)
(*   drain   a call of drainQueue that awaits the row of its agent         *)
(*   turn    a runner, from its creation to the finally of its caller      *)
(*   ctl     a pause or a kill by a user                                   *)
(***************************************************************************)
EXTENDS Naturals, Sequences, FiniteSets, FiniteSetsExt

CONSTANTS
    Agents,
    Messages,       \* what users send
    Tasks,          \* background commands the agents leave behind
    Slots,          \* bound: runners alive at the same time
    Cap,            \* MAX_CONCURRENT_AGENTS
    MaxOps,         \* bound: pauses, kills and resumes
    MaxFaults       \* bound: turns that fail or are denied their budget

ASSUME SlotsNat == Slots \subseteq Nat \ {0}
ASSUME CapNat == {Cap, MaxOps, MaxFaults} \subseteq Nat
ASSUME ItemsApart == Messages \cap Tasks = {}
ASSUME NoneApart == "none" \notin Agents

VARIABLES
    row,        \* agents: state, and whether there is a session
    inputQueues, draining, runners,
    turn,       \* the runners themselves
    drain,      \* per agent: calls of drainQueue awaiting the row, and awaiting its update
    ctl,
    urgent,     \* urgent messages whose turn is interrupted, not queued yet
    task,       \* the task monitor
    taken,      \* history: how many turns were created with each item
    where,      \* history: what each message was sent to
    ops, faults

vars == <<row, inputQueues, draining, runners, turn, drain, ctl, urgent, task, taken, where, ops, faults>>

Items == Messages \cup Tasks
States == {"pending", "running", "waiting_input", "failed", "paused", "aborted"}
Free == [pc |-> "free", agent |-> "none", kind |-> "none", run |-> FALSE, snap |-> "none"]
NoCtl == [op |-> "none", pc |-> "none", r |-> 0]

TypeOK ==
    /\ row \in [Agents -> [state : States, session : BOOLEAN]]
    /\ inputQueues \in [Agents -> Seq(Items)]
    /\ draining \subseteq Agents
    /\ runners \in [Agents -> Slots \cup {0}]
    /\ turn \in [Slots -> [pc : {"free", "read", "budget", "announce", "query", "done"},
                           agent : Agents \cup {"none"}, kind : {"none", "start", "input", "note"},
                           run : BOOLEAN, snap : States \cup {"none"}]]
    /\ \A r \in Slots : turn[r].pc \in {"announce", "query"} => turn[r].kind # "none"
    /\ \A a \in Agents : runners[a] # 0 =>
          \/ turn[runners[a]].agent = a
          \/ ctl[a].op = "kill"
    /\ drain \in [Agents -> [read : Nat, ready : Nat]]
    /\ ctl \in [Agents -> [op : {"none", "pause", "kill"}, pc : {"none", "read", "finish"},
                           r : Slots \cup {0}]]
    /\ urgent \subseteq Messages
    /\ task \in [Tasks -> [pc : {"none", "tracked", "reading", "gone"}, agent : Agents \cup {"none"},
                           snap : States \cup {"none"}]]
    /\ taken \in [Items -> Nat]
    /\ where \in [Messages -> Agents \cup {"none"}]
    /\ ops \in 0..MaxOps /\ faults \in 0..MaxFaults

Init ==
    /\ row = [a \in Agents |-> [state |-> "pending", session |-> FALSE]]
    /\ inputQueues = [a \in Agents |-> <<>>]
    /\ draining = {} /\ runners = [a \in Agents |-> 0]
    /\ turn = [r \in Slots |-> Free]
    /\ drain = [a \in Agents |-> [read |-> 0, ready |-> 0]]
    /\ ctl = [a \in Agents |-> NoCtl]
    /\ urgent = {}
    /\ task = [t \in Tasks |-> [pc |-> "none", agent |-> "none", snap |-> "none"]]
    /\ taken = [i \in Items |-> 0] /\ where = [m \in Messages |-> "none"]
    /\ ops = 0 /\ faults = 0

(***************************************************************************)
(* Helpers.                                                                *)
(***************************************************************************)
ValidTransitions(from) ==
    CASE from = "pending" -> {"running"}
      [] from = "running" -> {"waiting_input", "failed", "paused", "aborted"}
      [] from = "waiting_input" -> {"running", "paused", "aborted"}
      [] from \in {"failed", "paused"} -> {"running", "waiting_input", "aborted"}
      [] from = "aborted" -> {}
CanTransition(from, to) == from = to \/ to \in ValidTransitions(from)

Running(a) == runners[a] # 0 /\ turn[runners[a]].run
GetActiveCount == Cardinality({a \in Agents : Running(a)})
FreeSlots == {r \in Slots : turn[r].pc = "free" /\ \A a \in Agents : ctl[a].r # r}

Write(a, state) == row' = [row EXCEPT ![a].state = state]
Fault == faults < MaxFaults /\ faults' = faults + 1
UserOp == ops < MaxOps /\ ops' = ops + 1

NewTurn(a, kind) == [pc |-> "read", agent |-> a, kind |-> kind, run |-> FALSE, snap |-> "none"]

\* runners.set and the start of the runner.
NewRunner(a, kind, items) ==
    LET r == Min(FreeSlots) IN
    /\ FreeSlots # {}
    /\ turn' = [turn EXCEPT ![r] = NewTurn(a, kind)]
    /\ runners' = [runners EXCEPT ![a] = r]
    /\ taken' = [i \in Items |-> IF i \in items THEN taken[i] + 1 ELSE taken[i]]

\* drainQueue up to its first await; "Already draining" returns at once.
EnterDrain(a, queue, busy) ==
    drain' = IF a \in busy \/ queue = <<>> THEN drain ELSE [drain EXCEPT ![a].read = @ + 1]

(***************************************************************************)
(* Users.                                                                  *)
(***************************************************************************)
\* startAgent; only the first start is considered.
StartAgent(a) ==
    /\ row[a].state = "pending" /\ runners[a] = 0 /\ \A r \in Slots : turn[r].agent # a
    /\ GetActiveCount < Cap
    /\ NewRunner(a, "start", {})
    /\ UNCHANGED <<row, inputQueues, draining, drain, ctl, urgent, task, where, ops, faults>>

SendInput(a, m) ==
    /\ where[m] = "none" /\ row[a].session
    /\ where' = [where EXCEPT ![m] = a]
    /\ inputQueues' = [inputQueues EXCEPT ![a] = Append(@, m)]
    /\ EnterDrain(a, inputQueues'[a], draining)
    /\ UNCHANGED <<row, draining, runners, turn, ctl, urgent, task, taken, ops, faults>>

\* A runner without a query answers false: its message is neither queued nor sent.
SendUrgent(a, m) ==
    /\ where[m] = "none" /\ Running(a)
    /\ where' = [where EXCEPT ![m] = a]
    /\ urgent' = IF turn[runners[a]].pc = "query" THEN urgent \cup {m} ELSE urgent
    /\ UNCHANGED <<row, inputQueues, draining, runners, turn, drain, ctl, task, taken, ops, faults>>

\* Front of the queue; no drain.
UrgentQueues(m) ==
    /\ m \in urgent
    /\ urgent' = urgent \ {m}
    /\ inputQueues' = [inputQueues EXCEPT ![where[m]] = <<m>> \o @]
    /\ UNCHANGED <<row, draining, runners, turn, drain, ctl, task, taken, where, ops, faults>>

ResumeAgent(a) ==
    /\ row[a].session /\ UserOp
    /\ Write(a, "waiting_input")
    /\ EnterDrain(a, inputQueues[a], draining)
    /\ UNCHANGED <<inputQueues, draining, runners, turn, ctl, urgent, task, taken, where, faults>>

\* pauseAgent and killAgent look the runner up before they await the row.
Control(a, op) ==
    /\ ctl[a] = NoCtl /\ row[a].state # "pending" /\ UserOp
    /\ ctl' = [ctl EXCEPT ![a] = [op |-> op, pc |-> "read", r |-> runners[a]]]
    /\ UNCHANGED <<row, inputQueues, draining, runners, turn, drain, urgent, task, taken, where, faults>>

Stop(r) == turn' = [turn EXCEPT ![r].run = FALSE]

PauseActs(a) ==
    /\ ctl[a].op = "pause" /\ ctl[a].pc = "read"
    /\ \/ /\ ctl[a].r = 0
          /\ Write(a, "paused")
          /\ ctl' = [ctl EXCEPT ![a] = NoCtl]
          /\ UNCHANGED turn
       \/ /\ ctl[a].r # 0 /\ "paused" \in ValidTransitions(row[a].state)
          /\ Stop(ctl[a].r)
          /\ ctl' = [ctl EXCEPT ![a].pc = "finish"]
          /\ UNCHANGED row
       \/ /\ ctl[a].r # 0 /\ "paused" \notin ValidTransitions(row[a].state)
          /\ ctl' = [ctl EXCEPT ![a] = NoCtl]
          /\ UNCHANGED <<row, turn>>
    /\ UNCHANGED <<inputQueues, draining, runners, drain, urgent, task, taken, where, ops, faults>>

\* After the interrupt has been awaited.
PauseWrites(a) ==
    /\ ctl[a].op = "pause" /\ ctl[a].pc = "finish"
    /\ Write(a, "paused")
    /\ ctl' = [ctl EXCEPT ![a] = NoCtl]
    /\ UNCHANGED <<inputQueues, draining, runners, turn, drain, urgent, task, taken, where, ops, faults>>

KillActs(a) ==
    /\ ctl[a].op = "kill" /\ ctl[a].pc = "read"
    /\ Write(a, "aborted")
    /\ IF ctl[a].r = 0
       THEN ctl' = [ctl EXCEPT ![a] = NoCtl] /\ UNCHANGED <<turn, task>>
       ELSE /\ Stop(ctl[a].r)
            /\ ctl' = [ctl EXCEPT ![a].pc = "finish"]
            /\ task' = [t \in Tasks |-> IF task[t].pc = "tracked" /\ task[t].agent = a
                                        THEN [task[t] EXCEPT !.pc = "gone"] ELSE task[t]]
    /\ UNCHANGED <<inputQueues, draining, runners, drain, urgent, taken, where, ops, faults>>

\* runners.delete, whatever runner is there by then
KillForgets(a) ==
    /\ ctl[a].op = "kill" /\ ctl[a].pc = "finish"
    /\ runners' = [runners EXCEPT ![a] = 0]
    /\ ctl' = [ctl EXCEPT ![a] = NoCtl]
    /\ UNCHANGED <<row, inputQueues, draining, turn, drain, urgent, task, taken, where, ops, faults>>

(***************************************************************************)
(* drainQueue after its awaits.                                            *)
(***************************************************************************)
ReadyStates == {"waiting_input", "failed", "paused"}

\* mutant: the messages are joined and stay in the queue
JoinedOnly(queue) == queue

\* All of them are taken: queue.splice(0, queue.length)
Remaining(queue) == <<>>

\* The guards that follow the awaits, and the start of the turn: the queue is what it is now, it
\* may be empty.
TakeQueue(a) ==
    IF Running(a) \/ GetActiveCount >= Cap
    THEN UNCHANGED <<inputQueues, draining, runners, turn, taken>>
    ELSE /\ NewRunner(a, "input", {inputQueues[a][i] : i \in DOMAIN inputQueues[a]})
         /\ inputQueues' = [inputQueues EXCEPT ![a] = Remaining(@)]
         /\ draining' = draining \cup {a}

DrainReads(a) ==
    /\ drain[a].read > 0 /\ row[a].session
    /\ CASE row[a].state = "waiting_input" ->
              drain' = [drain EXCEPT ![a].read = @ - 1] /\ TakeQueue(a) /\ UNCHANGED row
         [] row[a].state \in ReadyStates \ {"waiting_input"} ->
              /\ drain' = [drain EXCEPT ![a] = [read |-> @.read - 1, ready |-> @.ready + 1]]
              /\ Write(a, "waiting_input")
              /\ UNCHANGED <<inputQueues, draining, runners, turn, taken>>
         [] OTHER ->
              drain' = [drain EXCEPT ![a].read = @ - 1]
              /\ UNCHANGED <<row, inputQueues, draining, runners, turn, taken>>
    /\ UNCHANGED <<ctl, urgent, task, where, ops, faults>>

DrainReady(a) ==
    /\ drain[a].ready > 0
    /\ drain' = [drain EXCEPT ![a].ready = @ - 1]
    /\ TakeQueue(a)
    /\ UNCHANGED <<row, ctl, urgent, task, where, ops, faults>>

(***************************************************************************)
(* A turn.                                                                 *)
(***************************************************************************)
SetTurn(r, pc) == turn' = [turn EXCEPT ![r].pc = pc]

TurnReads(r) ==
    /\ turn[r].pc = "read"
    /\ turn' = [turn EXCEPT ![r].pc = "budget", ![r].snap = row[turn[r].agent].state]
    /\ UNCHANGED <<row, inputQueues, draining, runners, drain, ctl, urgent, task, taken, where, ops, faults>>

\* canAllocate; a denial ends the turn, and its prompt goes nowhere.
BudgetDenied(r) ==
    /\ turn[r].pc = "budget" /\ Fault
    /\ SetTurn(r, "done")
    /\ UNCHANGED <<row, inputQueues, draining, runners, drain, ctl, urgent, task, taken, where, ops>>

\* _running is set, then the transition is checked against the row of the first read.
TurnBegins(r) ==
    /\ turn[r].pc = "budget"
    /\ LET ok == CanTransition(turn[r].snap, "running") IN
       /\ turn' = [turn EXCEPT ![r].pc = IF ok THEN "announce" ELSE "done", ![r].run = TRUE]
       /\ IF ok THEN Write(turn[r].agent, "running") ELSE UNCHANGED row
    /\ UNCHANGED <<inputQueues, draining, runners, drain, ctl, urgent, task, taken, where, ops, faults>>

\* createPermissionHandler has been awaited: the query is made, stopped or not.
TurnOpens(r) ==
    /\ turn[r].pc = "announce"
    /\ SetTurn(r, "query")
    /\ UNCHANGED <<row, inputQueues, draining, runners, drain, ctl, urgent, task, taken, where, ops, faults>>

SessionInit(r) ==
    LET a == turn[r].agent IN
    /\ turn[r].pc = "query" /\ turn[r].run /\ ~row[a].session
    /\ row' = [row EXCEPT ![a] = [state |-> "running", session |-> TRUE]]
    /\ UNCHANGED <<inputQueues, draining, runners, turn, drain, ctl, urgent, task, taken, where, ops, faults>>

\* A backgrounded command is seen in a message of the turn.
Track(r, t) ==
    /\ turn[r].pc = "query" /\ turn[r].run /\ row[turn[r].agent].session /\ task[t].pc = "none"
    /\ task' = [task EXCEPT ![t].pc = "tracked", ![t].agent = turn[r].agent]
    /\ UNCHANGED <<row, inputQueues, draining, runners, turn, drain, ctl, urgent, taken, where, ops, faults>>

\* The result message: waiting_input, also at the limit of turns or of budget.
TurnResult(r) ==
    /\ turn[r].pc = "query" /\ turn[r].run /\ row[turn[r].agent].session
    /\ SetTurn(r, "done")
    /\ Write(turn[r].agent, "waiting_input")
    /\ UNCHANGED <<inputQueues, draining, runners, drain, ctl, urgent, task, taken, where, ops, faults>>

\* An error result; a silent exit, which looks at the row; or a throw.
TurnFails(r) ==
    /\ turn[r].pc = "query" /\ Fault
    /\ SetTurn(r, "done")
    /\ IF row[turn[r].agent].state \in {"waiting_input", "paused", "aborted"}
       THEN UNCHANGED row ELSE Write(turn[r].agent, "failed")
    /\ UNCHANGED <<inputQueues, draining, runners, drain, ctl, urgent, task, taken, where, ops>>

\* if (!this._running) break, or the abort.
TurnStops(r) ==
    /\ turn[r].pc = "query" /\ ~turn[r].run
    /\ SetTurn(r, "done")
    /\ UNCHANGED <<row, inputQueues, draining, runners, drain, ctl, urgent, task, taken, where, ops, faults>>

\* mutant: the flag stays after a notification
ClearAfterInput(a, kind) == IF kind = "input" THEN draining \ {a} ELSE draining

\* The first turn was never in it.
ClearDraining(a, kind) == IF kind = "start" THEN draining ELSE draining \ {a}

\* mutant: a turn does not look at what was queued meanwhile
DrainOnlyNotes(a, kind, busy) ==
    IF kind # "note" THEN UNCHANGED drain ELSE EnterDrain(a, inputQueues[a], busy)

\* "Drain next message if any"; the first turn of an agent does not.
DrainNext(a, kind, busy) ==
    IF kind = "start" THEN UNCHANGED drain ELSE EnterDrain(a, inputQueues[a], busy)

\* mutant: the runner of the first turn stays in the map
ForgetLater(a, r) ==
    runners' = IF runners[a] = r /\ turn[r].kind # "start" THEN [runners EXCEPT ![a] = 0] ELSE runners

\* "Clean up runner reference when done", unless another runner has taken its place.
ForgetRunner(a, r) == runners' = IF runners[a] = r THEN [runners EXCEPT ![a] = 0] ELSE runners

\* The finally of runTurn, then the one of its caller.
TurnEnds(r) ==
    LET a == turn[r].agent IN
    /\ turn[r].pc = "done"
    /\ turn' = [turn EXCEPT ![r] = Free]
    /\ ForgetRunner(a, r)
    /\ draining' = ClearDraining(a, turn[r].kind)
    /\ DrainNext(a, turn[r].kind, draining')
    /\ UNCHANGED <<row, inputQueues, ctl, urgent, task, taken, where, ops, faults>>

(***************************************************************************)
(* The task monitor and resumeWithNotification.                            *)
(***************************************************************************)
\* poll(): the output file has not changed for a while.
TaskCompletes(t) ==
    /\ task[t].pc = "tracked"
    /\ task' = [task EXCEPT ![t].pc = "reading", ![t].snap = row[task[t].agent].state]
    /\ UNCHANGED <<row, inputQueues, draining, runners, turn, drain, ctl, urgent, taken, where, ops, faults>>

Notify(t) ==
    LET a == task[t].agent IN
    /\ task[t].pc = "reading"
    /\ task' = [task EXCEPT ![t].pc = "gone", ![t].snap = "none"]
    /\ CASE task[t].snap = "waiting_input" /\ a \in draining ->
              /\ inputQueues' = [inputQueues EXCEPT ![a] = Append(@, t)]
              /\ UNCHANGED <<draining, runners, turn, taken>>
         [] task[t].snap = "waiting_input" /\ a \notin draining /\ ~Running(a) /\ GetActiveCount < Cap ->
              /\ NewRunner(a, "note", {t})
              /\ draining' = draining \cup {a}
              /\ UNCHANGED inputQueues
         [] OTHER -> UNCHANGED <<inputQueues, draining, runners, turn, taken>>
    /\ UNCHANGED <<row, drain, ctl, urgent, where, ops, faults>>

Turn(r) ==
    \/ TurnReads(r) \/ TurnBegins(r) \/ TurnOpens(r) \/ SessionInit(r) \/ TurnResult(r)
    \/ TurnStops(r) \/ TurnEnds(r)
Flow(a) ==
    DrainReads(a) \/ DrainReady(a) \/ PauseActs(a) \/ PauseWrites(a) \/ KillActs(a) \/ KillForgets(a)
Timer(t) == TaskCompletes(t) \/ Notify(t)

Next ==
    \/ \E r \in Slots : Turn(r) \/ BudgetDenied(r) \/ TurnFails(r) \/ \E t \in Tasks : Track(r, t)
    \/ \E a \in Agents :
          \/ Flow(a) \/ StartAgent(a) \/ ResumeAgent(a)
          \/ \E op \in {"pause", "kill"} : Control(a, op)
          \/ \E m \in Messages : SendInput(a, m) \/ SendUrgent(a, m)
    \/ \E m \in Messages : UrgentQueues(m)
    \/ \E t \in Tasks : Timer(t)

\* The event loop runs what is ready, and a turn of the model ends.
Fairness ==
    /\ WF_vars(\E r \in Slots : Turn(r))
    /\ WF_vars(\E a \in Agents : Flow(a))

Spec == Init /\ [][Next]_vars /\ Fairness

(***************************************************************************)
(* Properties.                                                             *)
(***************************************************************************)
Queued(i) == \E a \in Agents : \E k \in DOMAIN inputQueues[a] : inputQueues[a][k] = i

\* However the drains, the turns and the notifications interleave, a message or a notification
\* is the prompt of at most one turn, and is not queued any more once it is.
TakenOnce == \A i \in Items : taken[i] <= 1 /\ (Queued(i) => taken[i] = 0)

\* An agent is marked as draining only while a turn runs whose finally will clear the mark:
\* otherwise every later message waits for ever.
DrainingTracked ==
    \A a \in draining : \E r \in Slots :
        turn[r].agent = a /\ turn[r].kind \in {"input", "note"} /\ turn[r].pc # "free"

\* "Already draining - the current turn's finally will call us again": a message queued behind a
\* turn leaves the queue, unless its agent was paused or killed.
QueuedIsDrained ==
    \A a \in Agents :
        (a \in draining /\ inputQueues[a] # <<>>) ~>
            (inputQueues[a] = <<>> \/ row[a].state \in {"paused", "aborted"})

\* "Process queued messages one at a time"
OneTurnAtATime ==
    \A a \in Agents : Cardinality({r \in Slots : turn[r].agent = a /\ turn[r].kind = "input"
                                                 /\ turn[r].pc = "query"}) <= 1
=============================================================================
