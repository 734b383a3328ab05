--------------------------- MODULE NightlySchedule ---------------------------
(***************************************************************************)
(* The phase scheduler (pipeline/scheduler.ts) for one phase of one        *)
(* repository that declares "schedule: nightly": the timer of the process, *)
(* sweeps of several awaits, the time of the last run in app_settings, and *)
(* restarts.  Repositories and phases have keys of their own, and an error *)
(* of one ends the visit of that one only.                                 *)
(***************************************************************************)
EXTENDS Integers, Sequences

CONSTANTS
    Sweeps,       \* sweeps that can be under way in one process
    Gap,          \* the 22 hours of isNightlyDue
    Overlap,      \* whether the timer can fire before the last sweep has ended
    MaxNow        \* bound: the clock

VARIABLES
    now,          \* the clock, in hours
    lastRunAt,    \* the setting: Never, or the time a sweep recorded
    pc, at,       \* per sweep: where it is, and the time it was started with
    launched      \* history: the times recorded by the sweeps that launched, in order

vars == <<now, lastRunAt, pc, at, launched>>

Never == -1

TypeOK ==
    /\ now \in Nat
    /\ lastRunAt \in Nat \cup {Never}
    /\ pc \in [Sweeps -> {"idle", "fetch", "record", "launch"}]
    /\ at \in [Sweeps -> Nat]
    /\ launched \in Seq(Nat)

Init ==
    /\ now \in 0..MaxNow
    /\ lastRunAt = Never
    /\ pc = [s \in Sweeps |-> "idle"]
    /\ at = [s \in Sweeps |-> 0]
    /\ launched = <<>>

IsNightlyDue(last, time) == last = Never \/ time - last >= Gap

Moves(s, from, to) == pc[s] = from /\ pc' = [pc EXCEPT ![s] = to]

\* setInterval does not wait for the sweep it started before.
SweepSchedules(s) ==
    /\ Overlap \/ \A r \in Sweeps : pc[r] = "idle"
    /\ Moves(s, "idle", "fetch")
    /\ at' = [at EXCEPT ![s] = now]
    /\ UNCHANGED <<now, lastRunAt, launched>>

\* No credential, no pipeline.yaml on main, no nightly phase in it, or a call that throws.
Skips(s) ==
    /\ Moves(s, "fetch", "idle")
    /\ UNCHANGED <<now, lastRunAt, at, launched>>

\* The setting is read and judged by the time the sweep was started with.
ReadsSetting(s) ==
    /\ Moves(s, "fetch", IF IsNightlyDue(lastRunAt, at[s]) THEN "record" ELSE "idle")
    /\ UNCHANGED <<now, lastRunAt, at, launched>>

\* The launch is recorded before it runs.
Records(s) ==
    /\ Moves(s, "record", "launch")
    /\ lastRunAt' = at[s]
    /\ UNCHANGED <<now, at, launched>>

RecordFails(s) ==
    /\ Moves(s, "record", "idle")
    /\ UNCHANGED <<now, lastRunAt, at, launched>>

Launches(s) ==
    /\ Moves(s, "launch", "idle")
    /\ launched' = Append(launched, at[s])
    /\ UNCHANGED <<now, lastRunAt, at>>

\* runPhase throws: the night is skipped.
LaunchFails(s) ==
    /\ Moves(s, "launch", "idle")
    /\ UNCHANGED <<now, lastRunAt, at, launched>>

Restart ==
    /\ pc' = [s \in Sweeps |-> "idle"]
    /\ UNCHANGED <<now, lastRunAt, at, launched>>

Tick ==
    /\ now < MaxNow
    /\ now' = now + 1
    /\ UNCHANGED <<lastRunAt, pc, at, launched>>

Next ==
    \/ \E s \in Sweeps :
          \/ SweepSchedules(s) \/ Skips(s) \/ ReadsSetting(s) \/ Records(s) \/ RecordFails(s)
          \/ Launches(s) \/ LaunchFails(s)
    \/ Restart \/ Tick

Spec == Init /\ [][Next]_vars

\* "Restarts never double-run" (scheduler.ts:4-5): the sweeps of two runs of a phase began
\* at least 22 hours apart, wherever the process died or a call threw between them.
NightlySpaced ==
    \A i, j \in 1..Len(launched) : i < j => launched[j] - launched[i] >= Gap

-----------------------------------------------------------------------------
(* The inductive invariant (proved in FurtherProofs).                       *)

Alone == \A r, s \in Sweeps : pc[r] # "idle" /\ pc[s] # "idle" => r = s

Ahead == \A i \in 1..Len(launched) : lastRunAt \in Nat /\ launched[i] <= lastRunAt

\* What the sweep s may count on at each of its awaits.
Clear(s) ==
    /\ pc[s] = "record" => \A i \in 1..Len(launched) : at[s] - launched[i] >= Gap
    /\ pc[s] = "launch" => /\ lastRunAt = at[s]
                           /\ \A i \in 1..Len(launched) : at[s] - launched[i] >= Gap

IInv == TypeOK /\ Alone /\ Ahead /\ NightlySpaced /\ \A s \in Sweeps : Clear(s)
=============================================================================
