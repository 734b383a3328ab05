------------------------------ MODULE WorkerTurn ------------------------------
(***************************************************************************)
(* The life of one agent's worker pod, from its boot to its last write:    *)
(* clone, restored session, the turn loop with the steering commands that  *)
(* interrupt it, the saved session, the push or the wip branch.            *)
(*   listener   the LISTEN connection; each notification and each          *)
(*              reconnection starts a drain of the pending commands, and   *)
(*              two drains may overlap                                     *)
(*   worker     one step between two awaits of main()                      *)
(***************************************************************************)
EXTENDS Naturals, FiniteSets

CONSTANTS
    Kinds,        \* "task", "review", "deploy" or "scripted" agents to consider
    Steers,       \* steer commands: 1..n
    Drains,       \* bound: drains that run at the same time
    MaxPods,      \* bound: pods of the agent
    MaxFaults     \* bound: calls, connections and pods that fail

ASSUME KindsKnown == Kinds \subseteq {"task", "review", "deploy", "scripted"}
ASSUME SteersNat == Steers \subseteq Nat \ {0} /\ IsFiniteSet(Steers)
ASSUME BoundsNat == {MaxPods, MaxFaults} \subseteq Nat

VARIABLES
    kind,
    row,        \* agents: state and sdk_session_id (0: none)
    cmd,        \* agent_commands.status of each steer
    shard,      \* the transcripts in the user's volume
    w,          \* the worker, its local variables and its /work
    listener, drain,
    notes,      \* notifications on their way to the listener
    exit,       \* history: how the last worker to exit by itself left things
    given,      \* history: the steers whose message was handed to the worker
    pods, faults

vars == <<kind, row, cmd, shard, w, listener, drain, notes, exit, given, pods, faults>>

Sessions == 0..MaxPods
NoPod == [pc |-> "none", session |-> 0, local |-> {}, steer |-> 0, cut |-> FALSE,
          output |-> FALSE, err |-> FALSE, tree |-> {}, told |-> FALSE]
NoDrain == [left |-> {}, cur |-> 0]
NoExit == [state |-> "none", unsaved |-> FALSE]

TypeOK ==
    /\ kind \in Kinds
    /\ row \in [state : {"queued", "running", "completed", "failed", "paused"}, session : Sessions]
    /\ cmd \in [Steers -> {"none", "pending", "done"}]
    /\ shard \subseteq Sessions \ {0}
    /\ w \in [pc : {"none", "boot", "clone", "restore", "turn", "query", "save", "push", "pr", "wip",
                    "final"},
              session : Sessions, local : SUBSET Sessions, steer : Steers \cup {0}, cut : BOOLEAN,
              output : BOOLEAN, err : BOOLEAN, tree : SUBSET {"dirty", "ahead"}, told : BOOLEAN]
    /\ w.pc = "query" \/ ~w.cut
    /\ listener \in {"off", "down", "on"}
    /\ notes \in 0..Cardinality(Steers)
    /\ drain \in [Drains -> [left : SUBSET Steers, cur : Steers \cup {0}]]
    /\ exit \in [state : {"none", "completed", "failed"}, unsaved : BOOLEAN]
    /\ given \subseteq Steers
    /\ pods \in 0..MaxPods /\ faults \in 0..MaxFaults

Init ==
    /\ kind \in Kinds
    /\ row = [state |-> "queued", session |-> 0]
    /\ cmd = [i \in Steers |-> "none"]
    /\ shard = {}
    /\ w = NoPod
    /\ listener = "off" /\ drain = [d \in Drains |-> NoDrain] /\ notes = 0
    /\ exit = NoExit /\ given = {}
    /\ pods = 0 /\ faults = 0

Fault == faults < MaxFaults /\ faults' = faults + 1
MayFail(failed) == IF failed THEN Fault ELSE UNCHANGED faults

ForgetPod ==
    /\ w' = NoPod /\ listener' = "off" /\ drain' = [d \in Drains |-> NoDrain]
    /\ notes' = 0

(***************************************************************************)
(* Boot.                                                                   *)
(***************************************************************************)
CreatePod ==
    /\ w.pc = "none" /\ pods < MaxPods
    /\ w' = [NoPod EXCEPT !.pc = "boot"]
    /\ pods' = pods + 1
    /\ UNCHANGED <<kind, row, cmd, shard, listener, drain, notes, exit, given, faults>>

\* The row is read once; pruneOrphanSessions drops what no row of the owner names.
Boots ==
    /\ w.pc = "boot"
    /\ w' = [w EXCEPT !.pc = "clone", !.session = row.session]
    /\ shard' = shard \cap {row.session}
    /\ row' = [row EXCEPT !.state = "running"]
    /\ UNCHANGED <<kind, cmd, listener, drain, notes, exit, given, pods, faults>>

\* The branch is continued from the remote: what an earlier pod did not push is not there.
Clones ==
    /\ w.pc = "clone"
    /\ w' = [w EXCEPT !.pc = "restore"]
    /\ UNCHANGED <<kind, row, cmd, shard, listener, drain, notes, exit, given, pods, faults>>

CloneFails ==
    /\ w.pc = "clone" /\ Fault
    /\ row' = [row EXCEPT !.state = "failed"]
    /\ exit' = [state |-> "failed", unsaved |-> FALSE]
    /\ ForgetPod
    /\ UNCHANGED <<kind, cmd, shard, given, pods>>

\* mutant: resume whatever the row names
TranscriptAssumed(session, local) == session

\* Without a transcript in the pod the session starts afresh.
FindSessionFile(session, local) == IF session \in local THEN session ELSE 0

RestoresSession ==
    /\ w.pc = "restore"
    /\ \E fails \in BOOLEAN :
          /\ MayFail(fails)
          /\ LET local == IF fails THEN {} ELSE shard \cap {w.session} IN
             w' = [w EXCEPT !.pc = "turn", !.local = local,
                            !.session = FindSessionFile(w.session, local)]
    /\ listener' = IF kind = "scripted" THEN "off" ELSE "down"
    /\ UNCHANGED <<kind, row, cmd, shard, drain, notes, exit, given, pods>>

(***************************************************************************)
(* Steering commands.                                                      *)
(***************************************************************************)
Pending == {i \in Steers : cmd[i] = "pending"}

DrainReads(d) == drain' = [drain EXCEPT ![d].left = Pending]
AtRest(d) == drain[d] = NoDrain

\* insertAgentCommand, by sendUrgent or the supervisor: a row, then a notification, which finds
\* a listener or nobody.
InsertCommand(i) ==
    /\ row.state = "running"
    /\ cmd[i] = "none" /\ \A j \in Steers : j < i => cmd[j] # "none"
    /\ cmd' = [cmd EXCEPT ![i] = "pending"]
    /\ notes' = IF listener = "on" THEN notes + 1 ELSE notes
    /\ UNCHANGED <<kind, row, shard, w, listener, drain, exit, given, pods, faults>>

\* mutant: only the notifications start a drain
ConnectsOnly(d) == UNCHANGED drain

\* The read of what came in while nobody listened.
CatchUp(d) == DrainReads(d)

Connects(d) ==
    /\ listener = "down" /\ AtRest(d)
    /\ listener' = "on"
    /\ CatchUp(d)
    /\ UNCHANGED <<kind, row, cmd, shard, w, notes, exit, given, pods, faults>>

Disconnects ==
    /\ listener = "on" /\ Fault
    /\ listener' = "down"
    /\ notes' = 0
    /\ UNCHANGED <<kind, row, cmd, shard, w, drain, exit, given, pods>>

Notified(d) ==
    /\ listener = "on" /\ AtRest(d) /\ notes > 0
    /\ notes' = notes - 1
    /\ DrainReads(d)
    /\ UNCHANGED <<kind, row, cmd, shard, w, listener, exit, given, pods, faults>>

\* In the order of their ids. The command is completed before its message is handed over; an
\* error is swallowed.
DrainCompletes(d) ==
    /\ drain[d].cur = 0
    /\ \E i \in drain[d].left, fails \in BOOLEAN :
          /\ \A j \in drain[d].left : i <= j
          /\ drain' = [drain EXCEPT ![d] = [left |-> drain[d].left \ {i}, cur |-> i]]
          /\ MayFail(fails)
          /\ cmd' = IF fails THEN cmd ELSE [cmd EXCEPT ![i] = "done"]
    /\ UNCHANGED <<kind, row, shard, w, listener, notes, exit, given, pods>>

\* mutant: a message between two queries interrupts the next one
InterruptsAlways(i) == w' = [w EXCEPT !.steer = i, !.cut = TRUE]

\* onSteer: one slot, the last one wins; interrupts the query there is.
Interrupts(i) == w' = [w EXCEPT !.steer = i, !.cut = (w.pc = "query")]

OnSteer(d) ==
    /\ drain[d].cur # 0
    /\ drain' = [drain EXCEPT ![d].cur = 0]
    /\ given' = given \cup {drain[d].cur}
    /\ Interrupts(drain[d].cur)
    /\ UNCHANGED <<kind, row, cmd, shard, listener, notes, exit, pods, faults>>

(***************************************************************************)
(* The turn loop.                                                          *)
(***************************************************************************)
\* runScripted: known edits, no session, no listener
RunScripted ==
    /\ w.pc = "turn" /\ kind = "scripted"
    /\ \E fails \in BOOLEAN :
          w' = [w EXCEPT !.pc = "save", !.tree = {"dirty"}, !.err = fails]
    /\ UNCHANGED <<kind, row, cmd, shard, listener, drain, notes, exit, given, pods, faults>>

StartsQuery ==
    /\ w.pc = "turn" /\ kind # "scripted"
    /\ w' = [w EXCEPT !.pc = "query"]
    /\ UNCHANGED <<kind, row, cmd, shard, listener, drain, notes, exit, given, pods, faults>>

\* The session id of the init message: the resumed one or a new one.
SessionInit ==
    LET id == IF w.session # 0 THEN w.session ELSE pods IN
    /\ w.pc = "query" /\ row.session # id
    /\ w' = [w EXCEPT !.session = id, !.local = @ \cup {id}]
    /\ row' = [state |-> "running", session |-> id]
    /\ UNCHANGED <<kind, cmd, shard, listener, drain, notes, exit, given, pods, faults>>

Works ==
    /\ w.pc = "query" /\ w.session # 0
    /\ \E change \in {"dirty", "ahead"} :
          w' = [w EXCEPT !.output = TRUE, !.tree = @ \cup {change}]
    /\ w' # w
    /\ UNCHANGED <<kind, row, cmd, shard, listener, drain, notes, exit, given, pods, faults>>

\* A result, an error result or a throw.  An error after output that looks like the way out of
\* the CLI does not count.  A steer that came meanwhile runs the loop again, whatever the end
\* was; otherwise the listener stops and the turn is over.
Counts(failed, trailing) == failed /\ ~(w.output /\ trailing)

QueryEnds(failed, trailing) ==
    /\ w.pc = "query"
    /\ IF w.steer # 0
       THEN /\ w' = [w EXCEPT !.pc = "turn", !.steer = 0, !.cut = FALSE, !.err = FALSE]
            /\ UNCHANGED <<listener, notes>>
       ELSE /\ w' = [w EXCEPT !.pc = "save", !.err = @ \/ Counts(failed, trailing)]
            /\ listener' = "off" /\ notes' = 0
    /\ UNCHANGED <<kind, row, cmd, shard, drain, exit, given, pods, faults>>

(***************************************************************************)
(* After the turn.                                                         *)
(***************************************************************************)
\* A review or a deploy agent has nothing to push.
Pushes == kind = "task" /\ ~w.err

\* mutant: after an error a dirty tree is left alone
KeepsWipOfCompleted == kind \in {"review", "deploy"} /\ ~w.err

KeepsWip == kind \in {"review", "deploy"}

SavesSession ==
    /\ w.pc = "save"
    /\ \E fails \in BOOLEAN :
          /\ MayFail(fails)
          /\ shard' = IF fails THEN shard ELSE shard \cup ({w.session} \cap w.local)
    /\ w' = [w EXCEPT !.pc = IF Pushes THEN "push" ELSE IF KeepsWip THEN "wip" ELSE "final"]
    /\ UNCHANGED <<kind, row, cmd, listener, drain, notes, exit, given, pods>>

\* Commit what is dirty, count what is ahead of the base, push it.  A failure is an event; the
\* pull request is tried all the same.
CommitsAndPushes ==
    /\ w.pc = "push"
    /\ \E fails \in BOOLEAN :
          /\ MayFail(fails)
          /\ w' = [w EXCEPT !.pc = IF w.tree # {} \/ fails THEN "pr" ELSE "final",
                            !.tree = IF fails THEN @ ELSE {},
                            !.told = fails]
    /\ UNCHANGED <<kind, row, cmd, shard, listener, drain, notes, exit, given, pods>>

EnsuresPullRequest ==
    /\ w.pc = "pr"
    /\ \E fails \in BOOLEAN : MayFail(fails)
    /\ w' = [w EXCEPT !.pc = "final"]
    /\ UNCHANGED <<kind, row, cmd, shard, listener, drain, notes, exit, given, pods>>

\* What is uncommitted goes to wip/<agent>.
PreservesWip ==
    /\ w.pc = "wip"
    /\ \E fails \in BOOLEAN :
          /\ MayFail(fails)
          /\ w' = [w EXCEPT !.pc = "final", !.told = fails, !.tree = IF fails THEN @ ELSE {}]
    /\ UNCHANGED <<kind, row, cmd, shard, listener, drain, notes, exit, given, pods>>

\* A deploy or a review agent's own commits are not kept, on purpose.
Unsaved ==
    /\ ~w.told
    /\ IF kind = "task" THEN w.tree # {} ELSE "dirty" \in w.tree

Exits ==
    LET end == IF w.err THEN "failed" ELSE "completed" IN
    /\ w.pc = "final"
    /\ row' = [state |-> end, session |-> IF w.session # 0 THEN w.session ELSE row.session]
    /\ exit' = [state |-> end, unsaved |-> Unsaved]
    /\ ForgetPod
    /\ UNCHANGED <<kind, cmd, shard, given, pods, faults>>

\* A pause, a kill, or a lost node: nothing is saved.
PodLost ==
    /\ w.pc # "none" /\ Fault
    /\ row' = [row EXCEPT !.state = "paused"]
    /\ ForgetPod
    /\ UNCHANGED <<kind, cmd, shard, exit, given, pods>>

Query == StartsQuery \/ SessionInit \/ (\E failed, trailing \in BOOLEAN : QueryEnds(failed, trailing))
Worker ==
    \/ Boots \/ Clones \/ RestoresSession \/ RunScripted \/ Query
    \/ SavesSession \/ CommitsAndPushes \/ EnsuresPullRequest \/ PreservesWip \/ Exits
Listener(d) == Connects(d) \/ Notified(d) \/ DrainCompletes(d) \/ OnSteer(d)

Next ==
    \/ CreatePod \/ CloneFails \/ Worker \/ Works \/ Disconnects \/ PodLost
    \/ \E i \in Steers : InsertCommand(i)
    \/ \E d \in Drains : Listener(d)

\* The event loop runs what is ready; a query ends when it is interrupted and need not before.
Fairness ==
    /\ WF_vars(Worker /\ (w.pc # "query" \/ w.cut))
    /\ \A d \in Drains : WF_vars(Listener(d))

Spec == Init /\ [][Next]_vars /\ Fairness

(***************************************************************************)
(* Properties.                                                             *)
(***************************************************************************)
\* A run that completes, and a review or a deploy agent however it ends, leaves no work behind
\* in its pod without an event that says so.
WorkAccounted ==
    exit.unsaved => kind = "scripted" \/ (kind = "task" /\ exit.state = "failed")

\* A query never resumes a session whose transcript is not in its pod.
ResumesWithTranscript == w.pc = "query" /\ w.session # 0 => w.session \in w.local

\* A query that a new steer was sent to does not run on for ever, although the notification found
\* the listener disconnected, or two drains overlap.
SteersInterrupt ==
    \A i \in Steers :
        (cmd[i] = "pending" /\ i \notin given /\ w.pc = "query" /\ w.steer = 0) ~> (w.pc # "query")

\* "on each turn end auto-commits, pushes"
TurnEndPushes == kind = "task" => ~exit.unsaved

=============================================================================
