------------------------------ MODULE MainWatch ------------------------------
(***************************************************************************)
(* The main watcher (pipeline/main-watch.ts) on one repository: the head of*)
(* main, the watch state in app_settings, the runs it launches, the sweeps *)
(* of the timer with an await between their steps, and restarts.           *)
(***************************************************************************)
EXTENDS Integers, FiniteSets

CONSTANTS
    Sweeps,       \* sweeps that can be under way in one process
    Phases,       \* the repository's test phases
    RunIds,       \* bound: the runs that can be inserted
    Overlap,      \* whether the timer can fire before the last sweep has ended
    MaxHead       \* bound: commits to main

VARIABLES
    head,         \* main's head: its number
    watch,        \* the saved state; sha NoHead: none
    runs,         \* pipeline_runs: status, the head the row was inserted for, the head cloned
    pc, sha, seen,  \* per sweep: where it is, the head it read, the state it read
    todo, ids, fresh \* per sweep: the phases left, the runs inserted, the run being launched

vars == <<head, watch, runs, pc, sha, seen, todo, ids, fresh>>

NoHead == -1
Heads == Nat \cup {NoHead}
Finished == {"passed", "failed", "error", "aborted"}
States == [sha : Heads, status : {"testing", "green", "red", "no-tests"}, runIds : SUBSET RunIds]
NoState == [sha |-> NoHead, status |-> "no-tests", runIds |-> {}]
Runs == [status : Finished \cup {"none", "pending", "running"}, for : Heads, of : Heads]

TypeOK ==
    /\ head \in Nat
    /\ watch \in States
    /\ runs \in [RunIds -> Runs]
    /\ pc \in [Sweeps -> {"idle", "head", "state", "decide", "list", "resolve", "launch", "record",
                          "no-tests", "green", "red"}]
    /\ sha \in [Sweeps -> Heads]
    /\ seen \in [Sweeps -> States]
    /\ todo \in [Sweeps -> SUBSET Phases]
    /\ ids \in [Sweeps -> SUBSET RunIds]
    /\ fresh \in [Sweeps -> RunIds]

Init ==
    /\ head = 0 /\ watch = NoState
    /\ runs = [r \in RunIds |-> [status |-> "none", for |-> NoHead, of |-> NoHead]]
    /\ pc = [s \in Sweeps |-> "idle"]
    /\ sha = [s \in Sweeps |-> NoHead]
    /\ seen = [s \in Sweeps |-> NoState]
    /\ todo = [s \in Sweeps |-> {}]
    /\ ids = [s \in Sweeps |-> {}]
    /\ fresh \in [Sweeps -> RunIds]

Moves(s, from, to) == pc[s] = from /\ pc' = [pc EXCEPT ![s] = to]

\* Pure: what a sweep does that has read this head, this state and these runs.
NextWatchAction(h, state, S) ==
    IF state.sha # h THEN "launch"
    ELSE IF state.status # "testing" THEN "nothing"
    ELSE IF \A r \in S : runs[r].status \in Finished THEN "conclude" ELSE "wait"

-----------------------------------------------------------------------------
(* A sweep.                                                                *)

\* The timer fires; setInterval does not wait for the sweep before.
SweepAllRepos(s) ==
    /\ Overlap \/ \A r \in Sweeps : pc[r] = "idle"
    /\ Moves(s, "idle", "head")
    /\ UNCHANGED <<head, watch, runs, sha, seen, todo, ids, fresh>>

ReadsHead(s) ==
    /\ Moves(s, "head", "state")
    /\ sha' = [sha EXCEPT ![s] = head]
    /\ UNCHANGED <<head, watch, runs, seen, todo, ids, fresh>>

GetState(s) ==
    /\ Moves(s, "state", "decide")
    /\ seen' = [seen EXCEPT ![s] = watch]
    /\ UNCHANGED <<head, watch, runs, sha, todo, ids, fresh>>

\* The runs of a state that is being tested are read, and the next action chosen.
Decides(s) ==
    /\ Moves(s, "decide",
         LET S == IF seen[s].status = "testing" THEN seen[s].runIds ELSE {}
             act == NextWatchAction(sha[s], seen[s], S)
         IN CASE act = "launch" -> "list"
              [] act = "conclude" -> IF \A r \in S : runs[r].status = "passed" THEN "green" ELSE "red"
              [] OTHER -> "idle")
    /\ UNCHANGED <<head, watch, runs, sha, seen, todo, ids, fresh>>

\* The test phases of main; pipeline.yaml that cannot be read declares none.
ListTestPhases(s) ==
    /\ \E S \in {Phases, {}} :
          /\ Moves(s, "list", IF S = {} THEN "no-tests" ELSE "resolve")
          /\ todo' = [todo EXCEPT ![s] = S]
    /\ ids' = [ids EXCEPT ![s] = {}]
    /\ UNCHANGED <<head, watch, runs, sha, seen, fresh>>

\* The phase is resolved and the row of its run inserted.
InsertsRun(s) ==
    /\ \E p \in todo[s] : todo' = [todo EXCEPT ![s] = @ \ {p}]
    /\ Moves(s, "resolve", "launch")
    /\ \E r \in RunIds :
          /\ runs[r].status = "none"
          /\ runs' = [runs EXCEPT ![r] = [status |-> "pending", for |-> sha[s], of |-> NoHead]]
          /\ fresh' = [fresh EXCEPT ![s] = r]
    /\ UNCHANGED <<head, watch, sha, seen, ids>>

\* Images are built and the pod is created; the next phase, or the state.
LaunchResolved(s) ==
    /\ Moves(s, "launch", IF todo[s] = {} THEN "record" ELSE "resolve")
    /\ ids' = [ids EXCEPT ![s] = @ \cup {fresh[s]}]
    /\ UNCHANGED <<head, watch, runs, sha, seen, todo, fresh>>

\* setAppSetting, at the end of a launch or of a test.
Records(s) ==
    /\ pc[s] \in {"record", "no-tests", "green", "red"}
    /\ watch' = CASE pc[s] = "record" -> [sha |-> sha[s], status |-> "testing", runIds |-> ids[s]]
                  [] pc[s] = "no-tests" -> [sha |-> sha[s], status |-> "no-tests", runIds |-> {}]
                  [] OTHER -> [sha |-> sha[s], status |-> pc[s], runIds |-> seen[s].runIds]
    /\ pc' = [pc EXCEPT ![s] = "idle"]
    /\ UNCHANGED <<head, runs, sha, seen, todo, ids, fresh>>

\* A call that throws ends the sweep of the repository; what it has launched runs on.
SweepThrows(s) ==
    /\ pc[s] # "idle"
    /\ pc' = [pc EXCEPT ![s] = "idle"]
    /\ UNCHANGED <<head, watch, runs, sha, seen, todo, ids, fresh>>

-----------------------------------------------------------------------------
(* The repository, the runs and the process.                               *)

MainMoves ==
    /\ head < MaxHead
    /\ head' = head + 1
    /\ UNCHANGED <<watch, runs, pc, sha, seen, todo, ids, fresh>>

\* The pod of the run clones main as it is by then.
RunClones(r) ==
    /\ runs[r].status = "pending" /\ \A s \in Sweeps : pc[s] = "launch" => fresh[s] # r
    /\ runs' = [runs EXCEPT ![r].status = "running", ![r].of = head]
    /\ UNCHANGED <<head, watch, pc, sha, seen, todo, ids, fresh>>

RunEnds(r) ==
    /\ runs[r].status = "running"
    /\ \E o \in {"passed", "failed", "error"} : runs' = [runs EXCEPT ![r].status = o]
    /\ UNCHANGED <<head, watch, pc, sha, seen, todo, ids, fresh>>

\* reapOrphanedPipelineRuns, for a run that has no pod.
RunReaped(r) ==
    /\ runs[r].status = "pending"
    /\ runs' = [runs EXCEPT ![r].status = "aborted"]
    /\ UNCHANGED <<head, watch, pc, sha, seen, todo, ids, fresh>>

Restart ==
    /\ pc' = [s \in Sweeps |-> "idle"]
    /\ UNCHANGED <<head, watch, runs, sha, seen, todo, ids, fresh>>

Next ==
    \/ \E s \in Sweeps :
          \/ SweepAllRepos(s) \/ ReadsHead(s) \/ GetState(s) \/ Decides(s) \/ ListTestPhases(s)
          \/ InsertsRun(s) \/ LaunchResolved(s) \/ Records(s) \/ SweepThrows(s)
    \/ \E r \in RunIds : RunClones(r) \/ RunEnds(r) \/ RunReaped(r)
    \/ MainMoves \/ Restart

Spec == Init /\ [][Next]_vars

-----------------------------------------------------------------------------
(* Properties.                                                             *)

\* A main that is shown green had every one of the runs it shows pass, whichever sweeps
\* wrote over each other, and whatever died between the launch and the conclusion.
GreenIsPassed == watch.status = "green" => \A r \in watch.runIds : runs[r].status = "passed"

\* With one sweep at a time, no sweep is at work on a head whose launch is recorded: a
\* tested head is never launched again (main-watch.test.ts:29-33), wherever a restart fell.
NoRelaunch ==
    \A s \in Sweeps : pc[s] \in {"list", "resolve", "launch", "record", "no-tests"} => watch.sha # sha[s]

\* Refuted: "survives restarts and never double-launches" (main-watch.ts:7-8).  A restart, or
\* an error of a later phase, after the first insert leaves nothing recorded.
NeverDoubleLaunches ==
    \A h \in 0..MaxHead : Cardinality({r \in RunIds : runs[r].for = h}) <= Cardinality(Phases)

\* Refuted: the conclusion names the commit that was tested (the text of the notification).
\* The runs clone main, and main may have moved since its head was read.
ConclusionNamesCommit ==
    watch.status \in {"green", "red"} =>
        \A r \in watch.runIds : runs[r].of \in {NoHead, watch.sha}

-----------------------------------------------------------------------------
(* The inductive invariant (proved in FurtherProofs).                       *)

Judged ==
    \A s \in Sweeps : pc[s] = "green" => \A r \in seen[s].runIds : runs[r].status = "passed"

GInv == TypeOK /\ Judged /\ GreenIsPassed

-----------------------------------------------------------------------------
(* One sweep at a time.                                                    *)

Alone == \A r, s \in Sweeps : pc[r] # "idle" /\ pc[s] # "idle" => r = s

NInv ==
    /\ TypeOK /\ Alone /\ NoRelaunch
    /\ \A s \in Sweeps : pc[s] = "decide" => seen[s] = watch
=============================================================================
