---------------------------- MODULE HostProcesses ----------------------------
(***************************************************************************)
(* AGENT_EXECUTION=inprocess: the claude processes on the boss's machine.  *)
(* Agents' turns, the boss's own calls, compactions and what users run     *)
(* themselves look alike to ps; runners attribute processes by comparing   *)
(* listings and kill what they attributed, the manager sweeps what no      *)
(* runner tracks, and a restart turns children into orphans.               *)
(***************************************************************************)
EXTENDS Naturals, FiniteSets

CONSTANTS
    Agents,
    Pids,         \* bound: processes ever started
    MaxOps,       \* bound: pauses, kills, kill-alls and compactions
    MaxCrashes,   \* bound: restarts of the boss
    Hooks,        \* turns start subagents: BOOLEAN
    Users         \* people run claude on the machine: BOOLEAN

VARIABLES
    proc,         \* the processes: what each is for, whether it is the boss's child
    row,          \* agents.state
    turn,         \* the runners: listing before the start, tracked pids, pending scans
    compacted,    \* the compaction child of an agent: its pid
    boss,         \* "up", "down", or where kill-all or the boot has got to
    ops, crashes,
    wronged       \* history: processes that another agent's end or a sweep killed

vars == <<proc, row, turn, compacted, boss, ops, crashes, wronged>>

None == "none"
NoOne == 0
Live == {p \in Pids : proc[p].alive}
Fresh == {p \in Pids : proc[p].kind = None}
Unborn == [kind |-> None, agent |-> None, alive |-> FALSE, child |-> FALSE]
Idle == [pc |-> "idle", pid |-> NoOne, before |-> {}, tracked |-> {}, scans |-> {}]
Active == {"running", "waiting_input"}

TypeOK ==
    /\ proc \in [Pids -> [kind : {None, "turn", "call", "compact", "user"}, agent : Agents \cup {None},
                          alive : BOOLEAN, child : BOOLEAN]]
    /\ row \in [Agents -> Active \cup {"pending", "paused", "failed", "aborted"}]
    /\ turn \in [Agents -> [pc : {"idle", "opening", "running", "pausing"}, pid : Pids \cup {NoOne},
                            before : SUBSET Pids, tracked : SUBSET Pids, scans : SUBSET SUBSET Pids]]
    /\ compacted \in [Agents -> Pids \cup {NoOne}]
    /\ boss \in {"up", "down", "boot", "sweep"}
    /\ ops \in 0..MaxOps /\ crashes \in 0..MaxCrashes
    /\ wronged \subseteq Pids

Init ==
    /\ proc = [p \in Pids |-> Unborn]
    /\ row = [a \in Agents |-> "pending"]
    /\ turn = [a \in Agents |-> Idle]
    /\ compacted = [a \in Agents |-> NoOne]
    /\ boss = "up" /\ ops = 0 /\ crashes = 0 /\ wronged = {}

Op == ops < MaxOps /\ ops' = ops + 1
Up == boss # "down" /\ boss # "boot"
Spawn(p, kind, a, child) ==
    /\ p \in Fresh
    /\ proc' = [proc EXCEPT ![p] = [kind |-> kind, agent |-> a, alive |-> TRUE, child |-> child]]
After(dead) == proc' = [p \in Pids |-> [proc[p] EXCEPT !.alive = @ /\ p \notin dead]]

-----------------------------------------------------------------------------
\* runTurn: the listing, the row, then the query and the timer that looks for what it spawned
TurnBegins(a) ==
    /\ Up /\ turn[a].pc = "idle" /\ row[a] \notin {"aborted"}
    /\ turn' = [turn EXCEPT ![a].pc = "opening", ![a].before = Live]
    /\ row' = [row EXCEPT ![a] = "running"]
    /\ UNCHANGED <<proc, compacted, boss, ops, crashes, wronged>>

TurnSpawns(a, p) ==
    /\ Up /\ turn[a].pc = "opening"
    /\ Spawn(p, "turn", a, TRUE)
    /\ turn' = [turn EXCEPT ![a].pc = "running", ![a].pid = p,
                              ![a].scans = @ \cup {turn[a].before}]
    /\ UNCHANGED <<row, compacted, boss, ops, crashes, wronged>>

\* A timer fires, the turn over or not: what getClaudePids lists is tracked, less the listing it
\* was set with (a second after the start: the one from before the start; a hook's: none)
Scan(a, listed) ==
    /\ Up /\ listed \in turn[a].scans
    /\ turn' = [turn EXCEPT ![a].scans = @ \ {listed}, ![a].tracked = @ \cup (Live \ listed)]
    /\ UNCHANGED <<proc, row, compacted, boss, ops, crashes, wronged>>

SubagentStarts(a) ==
    /\ Hooks /\ Up /\ turn[a].pc = "running" /\ {} \notin turn[a].scans
    /\ turn' = [turn EXCEPT ![a].scans = @ \cup {{}}]
    /\ UNCHANGED <<proc, row, compacted, boss, ops, crashes, wronged>>

\* The finally of runTurn, and kill(): abort the child, SIGKILL what is tracked
Reaped(a) == ({turn[a].pid} \cup turn[a].tracked) \cap Live
Stops(a) ==
    /\ After(Reaped(a))
    /\ wronged' = wronged \cup {p \in Reaped(a) : proc[p].agent # a}
    /\ turn' = [turn EXCEPT ![a] = [Idle EXCEPT !.scans = turn[a].scans]]

TurnEnds(a, s) ==
    /\ Up /\ turn[a].pc = "running"
    /\ turn[a].pid \in Live \/ s = "failed"
    /\ Stops(a)
    /\ row' = [row EXCEPT ![a] = IF @ = "running" THEN s ELSE @]
    /\ UNCHANGED <<compacted, boss, ops, crashes>>

\* pause() writes the row once the interrupt is answered; the process ends when it will
Pauses(a) ==
    /\ Up /\ turn[a].pc = "running" /\ row[a] = "running" /\ Op
    /\ row' = [row EXCEPT ![a] = "paused"]
    /\ turn' = [turn EXCEPT ![a].pc = "pausing"]
    /\ UNCHANGED <<proc, compacted, boss, crashes, wronged>>

PausedEnds(a) ==
    /\ Up /\ turn[a].pc = "pausing"
    /\ Stops(a)
    /\ UNCHANGED <<row, compacted, boss, ops, crashes>>

KillAgent(a) ==
    /\ Up /\ turn[a].pc \in {"running", "pausing"} /\ Op
    /\ Stops(a)
    /\ row' = [row EXCEPT ![a] = "aborted"]
    /\ UNCHANGED <<compacted, boss, crashes>>

-----------------------------------------------------------------------------
\* The boss's own calls, one at a time (withClaudeLock)
CallStarts(p) ==
    /\ Up /\ \A q \in Live : ~(proc[q].kind = "call" /\ proc[q].child)
    /\ Spawn(p, "call", None, TRUE)
    /\ UNCHANGED <<row, turn, compacted, boss, ops, crashes, wronged>>

CallEnds(p) ==
    /\ proc[p].kind = "call" /\ After({p}) /\ p \in Live
    /\ UNCHANGED <<row, turn, compacted, boss, ops, crashes, wronged>>

UserRuns(p) ==
    /\ Users /\ Spawn(p, "user", None, FALSE)
    /\ UNCHANGED <<row, turn, compacted, boss, ops, crashes, wronged>>

\* POST compact: no look at the state; its close writes paused or failed over what is there
Compact(a, p) ==
    /\ Up /\ row[a] # "pending" /\ compacted[a] = NoOne /\ Op
    /\ Spawn(p, "compact", a, TRUE)
    /\ compacted' = [compacted EXCEPT ![a] = p]
    /\ UNCHANGED <<row, turn, boss, crashes, wronged>>

CompactCloses(a, code) ==
    /\ Up /\ compacted[a] # NoOne /\ (code = 0 => compacted[a] \in Live)
    /\ After({compacted[a]})
    /\ compacted' = [compacted EXCEPT ![a] = NoOne]
    /\ row' = [row EXCEPT ![a] = IF code = 0 THEN "paused" ELSE "failed"]
    /\ UNCHANGED <<turn, boss, ops, crashes, wronged>>

-----------------------------------------------------------------------------
\* killOrphanedProcesses: nothing while any runner runs, else all but the boss's children
RunnersIdle == \A a \in Agents : turn[a].pc # "running"
Swept == IF RunnersIdle THEN {p \in Live : ~proc[p].child} ELSE {}
KillOrphanedProcesses ==
    /\ After(Swept)
    /\ wronged' = wronged \cup {p \in Swept : proc[p].kind = "user"}

\* POST kill-all: every agent of the listing, then the sweep
KillAll ==
    /\ boss = "up" /\ Op
    /\ LET hit == {a \in Agents : row[a] \in Active}
           dead == UNION {Reaped(a) : a \in {b \in hit : turn[b].pc # "idle"}}
       IN  /\ After(dead)
           /\ row' = [a \in Agents |-> IF a \in hit THEN "aborted" ELSE row[a]]
           /\ turn' = [a \in Agents |-> IF a \in hit THEN [Idle EXCEPT !.scans = turn[a].scans] ELSE turn[a]]
           /\ wronged' = wronged \cup {p \in dead : proc[p].agent \notin hit}
    /\ boss' = "sweep"
    /\ UNCHANGED <<compacted, crashes>>

KillAllSweeps ==
    /\ boss = "sweep" /\ KillOrphanedProcesses
    /\ boss' = "up"
    /\ UNCHANGED <<row, turn, compacted, ops, crashes>>

\* The boss dies; its children live on or die with it
Crash ==
    /\ boss # "down" /\ crashes < MaxCrashes /\ crashes' = crashes + 1
    /\ \E dead \in SUBSET {p \in Live : proc[p].child} :
          proc' = [p \in Pids |-> [proc[p] EXCEPT !.alive = @ /\ p \notin dead, !.child = FALSE]]
    /\ turn' = [a \in Agents |-> Idle]
    /\ compacted' = [a \in Agents |-> NoOne]
    /\ boss' = "down"
    /\ UNCHANGED <<row, ops, wronged>>

\* restoreAgents: what was active is paused, having no heartbeat, and only then a sweep
RestoreAgents ==
    /\ boss = "down"
    /\ row' = [a \in Agents |-> IF row[a] \in Active THEN "paused" ELSE row[a]]
    /\ boss' = IF \E a \in Agents : row[a] \in Active THEN "boot" ELSE "up"
    /\ UNCHANGED <<proc, turn, compacted, ops, crashes, wronged>>

BootSweeps ==
    /\ boss = "boot" /\ KillOrphanedProcesses
    /\ boss' = "up"
    /\ UNCHANGED <<row, turn, compacted, ops, crashes>>

OrphanEnds(p) ==
    /\ p \in Live /\ (proc[p].kind = "user" \/ ~proc[p].child) /\ After({p})
    /\ UNCHANGED <<row, turn, compacted, boss, ops, crashes, wronged>>

Next ==
    \/ \E a \in Agents : \/ TurnBegins(a) \/ SubagentStarts(a)
                         \/ \E listed \in turn[a].scans : Scan(a, listed)
                         \/ \E p \in Pids : TurnSpawns(a, p) \/ Compact(a, p)
                         \/ \E s \in {"waiting_input", "failed"} : TurnEnds(a, s)
                         \/ Pauses(a) \/ PausedEnds(a) \/ KillAgent(a)
                         \/ \E code \in {0, 1} : CompactCloses(a, code)
    \/ \E p \in Pids : CallStarts(p) \/ CallEnds(p) \/ UserRuns(p) \/ OrphanEnds(p)
    \/ KillAll \/ KillAllSweeps \/ Crash \/ RestoreAgents \/ BootSweeps

Spec == Init /\ [][Next]_vars

-----------------------------------------------------------------------------
\* runner.ts:83: what a runner tracks, and kills when its turn ends, it spawned itself; and
\* manager.ts:587-591: a sweep does not reach other people's sessions.
KillsItsOwn == wronged = {}

\* manager.ts:586-592: when no agent was active at the restart nothing was orphaned, so once the
\* boss is up again no process of an agent's turn is left without a runner.
NoOrphanAfterBoot == boss = "up" => \A p \in Live : proc[p].kind = "turn" => proc[p].child

\* The sweep leaves the boss's own calls and compactions alone, and runs when no runner does.
SweepSparesChildren ==
    [][boss # "up" /\ boss # "down" /\ boss' = "up" => \A p \in Live : proc[p].child => p \in Live']_vars

\* While a turn's process runs, its row says so.
RowFollowsTurn == \A a \in Agents : (Up /\ turn[a].pc = "running") => row[a] = "running"
=============================================================================
