---------------------------- MODULE LandGateProofs ----------------------------
(***************************************************************************)
(* Proofs about LandGate, for any lands, test requests, phases and bounds. *)
(* IInv says what a job (JobOK), a run (RunOK) and a completion handler    *)
(* (HandlerOK) have behind them: a job has inserted exactly the phases it  *)
(* no longer has to launch, and a handler that read "all passed" stands on *)
(* a passed run of each phase in the batch it read.  A merge and the end of*)
(* the draft follow from it.  That a batch is acted on once is counted:    *)
(* each verdict, and each handler about to give one, has a claimed run of  *)
(* its own (PaidFor); for one land with several phases, a handler that acts*)
(* is the one that claimed the whole batch (ActedOnce).                    *)
(***************************************************************************)
EXTENDS LandGate, Integers, SequenceTheorems, FiniteSetTheorems, FunctionTheorems,
        WellFoundedInduction, TLAPS

Todos == {SubSeq(Phases, i, k) : i \in 1 .. Len(Phases) + 1, k \in 0 .. Len(Phases)}

-----------------------------------------------------------------------------
(* The inductive invariant: TypeOK without its bound on the runs, and      *)
(* what a job, a run and a completion handler have behind them.            *)

OthersOK ==
    /\ verified \in BOOLEAN /\ ready \in BOOLEAN /\ merged \in BOOLEAN
    /\ proposed \in BOOLEAN /\ listening \in BOOLEAN
    /\ head \in Nat /\ verdicts \in Nat

BudgetOK ==
    /\ pushes \in 0..MaxPushes
    /\ faults \in 0..MaxFaults
    /\ misreads \in 0..MaxMisreads

TypeInv ==
    /\ runs \in Seq(Run)
    /\ job \in [Jobs -> Job]
    /\ \A j \in Jobs : job[j].run \in 0 .. Len(runs)
    /\ sweep \in [pc : {"idle", "listed", "write"}, held : SUBSET (DOMAIN runs)]
    /\ OthersOK /\ BudgetOK

\* A job inserts each phase once.
OnePerPhase ==
    \A a, b \in DOMAIN runs :
        runs[a].by = runs[b].by /\ runs[a].phase = runs[b].phase => a = b

BeforeRuns == {"idle", "guard", "update", "list"}

\* The phases of a job that are left have no run yet; the one it launches has no pod.
JobOK(j) ==
    /\ job[j].pc \in BeforeRuns => \A r \in DOMAIN runs : runs[r].by # j
    /\ job[j].pc = "insert" =>
         /\ job[j].todo # <<>>
         /\ \A r \in DOMAIN runs : runs[r].by = j => runs[r].phase \notin ToSet(job[j].todo)
    /\ job[j].pc = "launch" =>
         /\ job[j].todo # <<>>
         /\ job[j].run \in DOMAIN runs
         /\ runs[job[j].run].by = j /\ runs[job[j].run].exit = "none"
         /\ runs[job[j].run].pod = "none"
         /\ \A r \in DOMAIN runs : runs[r].by = j => runs[r].phase \notin ToSet(Tail(job[j].todo))
    /\ job[j].pc = "direct" => misreads < MaxMisreads

\* The status a runner wrote agrees with its exit code, and its pod is past.
RunOK(run) ==
    /\ run.status = "passed" => run.exit = "zero"
    /\ run.status \in Finished => run.exit # "none"
    /\ run.exit # "none" => run.pod \in {"exited", "none"}
    /\ run.land <=> run.by \in Lands

\* What a handler goes by.
HandlerOK(r) ==
    /\ runs[r].gate \in {"read", "claim", "act"} =>
         runs[r].expected = Phase \/ misreads < MaxMisreads
    /\ runs[r].gate \in {"claim", "act"} /\ runs[r].green =>
         \A p \in runs[r].expected : PassedIn(p, runs[r].land)

IInv ==
    /\ TypeInv
    /\ OnePerPhase
    /\ \A j \in Jobs : JobOK(j)
    /\ \A r \in DOMAIN runs : RunOK(runs[r]) /\ HandlerOK(r)

-----------------------------------------------------------------------------
(* Each handler that acts has claimed a run of its own.                    *)

Acting == {r \in DOMAIN runs : runs[r].land /\ runs[r].gate = "act"}
Claimed == {r \in DOMAIN runs : runs[r].land /\ runs[r].posted}

PaidFor == verdicts + Cardinality(Acting) <= Cardinality(Claimed)

-----------------------------------------------------------------------------
(* One land: once it is acted upon, every phase has ended and is claimed.  *)

LandEnded ==
    /\ \A p \in Phase : \E r \in DOMAIN runs : runs[r].phase = p /\ runs[r].land
    /\ \A r \in DOMAIN runs : runs[r].land => runs[r].exit # "none"

Shut ==
    /\ LandEnded
    /\ \A r \in DOMAIN runs : runs[r].land /\ runs[r].status \in Finished => runs[r].posted

ActedOnce ==
    /\ verdicts \in {0, 1}
    /\ verdicts = 1 => Acting = {}
    /\ \A a, b \in Acting : a = b
    /\ verdicts = 1 \/ Acting # {} => Shut
    /\ \A r \in DOMAIN runs : runs[r].land /\ runs[r].gate = "claim" => LandEnded

-----------------------------------------------------------------------------
(* The phases a job has left.                                              *)

\* A part of the list of phases has their elements, in order.
LEMMA PartFacts ==
    ASSUME NEW i \in 1 .. Len(Phases) + 1, NEW k \in 0 .. Len(Phases)
    PROVE  /\ ToSet(SubSeq(Phases, i, k)) = {Phases[n] : n \in i .. k}
           /\ k < i <=> SubSeq(Phases, i, k) = <<>>
           /\ i <= k => /\ Head(SubSeq(Phases, i, k)) = Phases[i]
                        /\ Tail(SubSeq(Phases, i, k)) = SubSeq(Phases, i + 1, k)
<1>1. Len(Phases) \in Nat /\ DOMAIN Phases = 1 .. Len(Phases)
  BY PhasesDeclared
<1>2. \A n \in i .. k : Phases[n] \in STRING
  BY PhasesDeclared, <1>1
<1>3. /\ SubSeq(Phases, i, k) \in Seq(STRING)
      /\ Len(SubSeq(Phases, i, k)) = IF i <= k THEN k - i + 1 ELSE 0
      /\ \A n \in 1 .. k - i + 1 : SubSeq(Phases, i, k)[n] = Phases[i + n - 1]
  BY <1>1, <1>2, SubSeqProperties
<1>4. ToSet(SubSeq(Phases, i, k)) = {Phases[n] : n \in i .. k}
  <2>1. DOMAIN SubSeq(Phases, i, k) = 1 .. k - i + 1
    BY <1>1, <1>3
  <2>2. ASSUME NEW n \in i .. k PROVE n - i + 1 \in 1 .. k - i + 1 /\ i + (n - i + 1) - 1 = n
    BY <1>1
  <2>3. ASSUME NEW n \in 1 .. k - i + 1 PROVE i + n - 1 \in i .. k
    BY <1>1
  <2>4. ToSet(SubSeq(Phases, i, k)) = {SubSeq(Phases, i, k)[n] : n \in 1 .. k - i + 1}
    BY <2>1 DEF ToSet
  <2>5. ASSUME NEW n \in 1 .. k - i + 1
        PROVE  SubSeq(Phases, i, k)[n] \in {Phases[m] : m \in i .. k}
    <3>1. SubSeq(Phases, i, k)[n] = Phases[i + n - 1] /\ i + n - 1 \in i .. k
      BY <1>3, <2>3
    <3> QED BY <3>1
  <2>6. ASSUME NEW n \in i .. k
        PROVE  Phases[n] \in {SubSeq(Phases, i, k)[m] : m \in 1 .. k - i + 1}
    <3>1. SubSeq(Phases, i, k)[n - i + 1] = Phases[n] /\ n - i + 1 \in 1 .. k - i + 1
      BY <1>3, <2>2
    <3> QED BY <3>1
  <2> QED BY <2>4, <2>5, <2>6
<1>5. k < i <=> SubSeq(Phases, i, k) = <<>>
  BY <1>1, <1>3
<1>6. i <= k => /\ Head(SubSeq(Phases, i, k)) = Phases[i]
                /\ Tail(SubSeq(Phases, i, k)) = SubSeq(Phases, i + 1, k)
  BY <1>1, HeadTailOfSubSeq, PhasesDeclared
<1> QED BY <1>4, <1>5, <1>6

LEMMA JobIs ==
    Job = [pc : {"idle", "guard", "update", "list", "insert", "launch", "direct",
                 "record", "propose", "done"},
           todo : Todos, run : Nat]
<1> DEFINE T == {SubSeq(Phases, i, k) : i \in 1 .. Len(Phases) + 1, k \in 0 .. Len(Phases)}
<1>1. T = Todos
  BY DEF Todos
<1>2. Job = [pc : {"idle", "guard", "update", "list", "insert", "launch", "direct",
                   "record", "propose", "done"},
             todo : T, run : Nat]
  BY DEF Job
<1> HIDE DEF T
<1> QED BY <1>1, <1>2

LEMMA PartIsTodo ==
    \A i \in 1 .. Len(Phases) + 1, k \in 0 .. Len(Phases) : SubSeq(Phases, i, k) \in Todos
  BY DEF Todos

\* The next phase of a job is not among those after it: no phase is declared twice.
LEMMA TodoFacts ==
    ASSUME NEW todo \in Todos
    PROVE  /\ ToSet(todo) \subseteq Phase
           /\ todo # <<>> => /\ Head(todo) \in ToSet(todo)
                             /\ Tail(todo) \in Todos
                             /\ ToSet(Tail(todo)) \subseteq ToSet(todo) \ {Head(todo)}
<1>1. Len(Phases) \in Nat /\ DOMAIN Phases = 1 .. Len(Phases)
  BY PhasesDeclared
<1>2. PICK i \in 1 .. Len(Phases) + 1, k \in 0 .. Len(Phases) : todo = SubSeq(Phases, i, k)
  BY DEF Todos
<1>3. ToSet(todo) \subseteq Phase
  BY <1>1, <1>2, PartFacts DEF Phase, ToSet
<1>4. ASSUME todo # <<>>
      PROVE  /\ Head(todo) \in ToSet(todo) /\ Tail(todo) \in Todos
             /\ ToSet(Tail(todo)) \subseteq ToSet(todo) \ {Head(todo)}
  <2>1. i <= k /\ i + 1 \in 1 .. Len(Phases) + 1 /\ i \in 1 .. Len(Phases)
    BY <1>1, <1>2, <1>4, PartFacts
  <2>0. Tail(todo) = SubSeq(Phases, i + 1, k)
    BY <1>2, <2>1, PartFacts
  <2>2. /\ Head(todo) = Phases[i]
        /\ ToSet(todo) = {Phases[n] : n \in i .. k}
        /\ ToSet(Tail(todo)) = {Phases[n] : n \in (i + 1) .. k}
    BY <1>2, <2>0, <2>1, PartFacts
  <2>3. \A n \in (i + 1) .. k : n \in i .. k /\ Phases[n] # Phases[i]
    BY <1>1, <2>1, PhasesDeclared DEF IsInjective
  <2>4. Tail(todo) \in Todos
    <3>1. SubSeq(Phases, i + 1, k) \in Todos
      BY <2>1, PartIsTodo
    <3> QED BY <2>0, <3>1
  <2>5. Phases[i] \in {Phases[n] : n \in i .. k}
    BY <2>1
  <2>6. ASSUME NEW n \in (i + 1) .. k
        PROVE  Phases[n] \in {Phases[m] : m \in i .. k} /\ Phases[n] # Phases[i]
    <3> n \in i .. k /\ Phases[n] # Phases[i]
      BY <2>3
    <3> QED OBVIOUS
  <2>7. ASSUME NEW x \in ToSet(Tail(todo)) PROVE x \in ToSet(todo) /\ x # Head(todo)
    <3>1. PICK n \in (i + 1) .. k : x = Phases[n]
      BY <2>2
    <3> QED BY <2>2, <2>6, <3>1
  <2>8. Head(todo) \in ToSet(todo)
    BY <2>2, <2>5
  <2> QED BY <2>4, <2>7, <2>8
<1> QED BY <1>3, <1>4

\* What a job may be given to do.
LEMMA TodosGiven ==
    /\ <<>> \in Todos
    /\ Phases \in Todos
    /\ \A p \in Phase : <<p>> \in Todos
<1>1. Len(Phases) \in Nat \ {0} /\ DOMAIN Phases = 1 .. Len(Phases)
  BY PhasesDeclared
<1>2. <<>> \in Todos
  <2>1. SubSeq(Phases, 1, 0) = <<>>
    BY SubSeqEmpty
  <2> QED BY <1>1, <2>1 DEF Todos
<1>3. Phases \in Todos
  <2>1. SubSeq(Phases, 1, Len(Phases)) = Phases
    BY SubSeqFull, PhasesDeclared
  <2> QED BY <1>1, <2>1 DEF Todos
<1>4. ASSUME NEW p \in Phase PROVE <<p>> \in Todos
  <2>1. PICK n \in 1 .. Len(Phases) : p = Phases[n]
    BY <1>1 DEF Phase, ToSet
  <2>2. SubSeq(Phases, n, n) = <<p>>
    <3>1. /\ SubSeq(Phases, n, n) \in Seq(STRING) /\ Len(SubSeq(Phases, n, n)) = 1
          /\ SubSeq(Phases, n, n)[1] = p
      BY <1>1, <2>1, SubSeqProperties, PhasesDeclared
    <3>2. <<p>> \in Seq(STRING) /\ Len(<<p>>) = 1 /\ <<p>>[1] = p
      BY <1>1, <2>1, PhasesDeclared
    <3>3. \A m \in 1 .. Len(<<p>>) : <<p>>[m] = SubSeq(Phases, n, n)[m]
      BY <3>1, <3>2
    <3> QED BY <3>1, <3>2, <3>3, SeqEqual
  <2>3. SubSeq(Phases, n, n) \in Todos
    <3> n \in 1 .. Len(Phases) + 1 /\ n \in 0 .. Len(Phases)
      BY <1>1
    <3> QED BY DEF Todos
  <2> QED BY <2>2, <2>3
<1> QED BY <1>2, <1>3, <1>4

-----------------------------------------------------------------------------
(* What the steps have in common.                                          *)

\* What no step takes from a run.
RunStep(a, b) ==
    /\ b.by = a.by /\ b.phase = a.phase /\ b.land = a.land
    /\ a.exit # "none" => b.exit = a.exit

Kept ==
    /\ runs' \in Seq(Run) /\ DOMAIN runs \subseteq DOMAIN runs'
    /\ \A r \in DOMAIN runs : RunStep(runs[r], runs'[r])

\* The run a job is launching stays as it is.
Unlaunched ==
    \A r \in DOMAIN runs : runs[r].pod = "none" /\ runs[r].exit = "none" =>
                             runs'[r].pod = "none" /\ runs'[r].exit = "none"

\* A handler goes on with what it has read, or has nothing left to decide.
Follows(a, b) ==
    b.gate \in {"read", "claim", "act"} =>
      /\ a.gate \in {"read", "claim", "act"} /\ b.expected = a.expected
      /\ b.gate \in {"claim", "act"} => a.gate \in {"claim", "act"} /\ b.green = a.green

LEMMA BudgetStep ==
    ASSUME BudgetOK, Fault \/ Misread \/ NoBudget \/ NewCommit
    PROVE  BudgetOK' /\ misreads' <= misreads
  BY BoundsNat DEF BudgetOK, Fault, Misread, NoBudget, budget, NewCommit

\* A run that has passed has passed for good.
LEMMA KeptPassed ==
    ASSUME Kept, NEW p, NEW land, PassedIn(p, land)
    PROVE  PassedIn(p, land)'
<1>1. PICK r \in DOMAIN runs : runs[r].phase = p /\ runs[r].land = land /\ runs[r].exit = "zero"
  BY DEF PassedIn
<1>2. /\ r \in DOMAIN runs'
      /\ runs'[r].phase = p /\ runs'[r].land = land /\ runs'[r].exit = "zero"
  BY <1>1 DEF Kept, RunStep
<1> QED BY <1>2 DEF PassedIn

LEMMA KeptHandler ==
    ASSUME IInv, Kept, misreads' <= misreads, BudgetOK', NEW r \in DOMAIN runs,
           Follows(runs[r], runs'[r])
    PROVE  HandlerOK(r)'
<1>1. HandlerOK(r) /\ BudgetOK /\ runs'[r].land = runs[r].land
  BY DEF IInv, TypeInv, Kept, RunStep
<1>2. ASSUME runs'[r].gate \in {"read", "claim", "act"}
      PROVE  runs'[r].expected = Phase \/ misreads' < MaxMisreads
  BY <1>1, <1>2, BoundsNat DEF HandlerOK, Follows, BudgetOK
<1>3. ASSUME runs'[r].gate \in {"claim", "act"}, runs'[r].green, NEW p \in runs'[r].expected
      PROVE  PassedIn(p, runs[r].land)'
  <2>1. PICK land : land = runs[r].land /\ land = runs'[r].land
    BY <1>1
  <2>2. PassedIn(p, land)
    BY <1>1, <1>3, <2>1 DEF HandlerOK, Follows
  <2>3. PassedIn(p, land)'
    BY <2>2, KeptPassed
  <2> QED BY <2>1, <2>3 DEF PassedIn
<1> QED BY <1>2, <1>3 DEF HandlerOK

\* A step that leaves the jobs alone and inserts no run.
LEMMA RunsOnly ==
    ASSUME IInv, Kept, Unlaunched, DOMAIN runs' = DOMAIN runs, UNCHANGED job,
           sweep' \in [pc : {"idle", "listed", "write"}, held : SUBSET (DOMAIN runs)],
           OthersOK', BudgetOK', misreads' <= misreads,
           \A r \in DOMAIN runs : RunOK(runs'[r]) /\ HandlerOK(r)'
    PROVE  IInv'
<1>1. Len(runs') = Len(runs) /\ Len(runs) \in Nat
  BY DEF IInv, TypeInv, Kept
<1>2. TypeInv'
  BY <1>1 DEF IInv, TypeInv, Kept
<1>3. OnePerPhase'
  BY DEF IInv, OnePerPhase, Kept, RunStep
<1>4. ASSUME NEW j \in Jobs PROVE JobOK(j)'
  <2>1. JobOK(j) /\ \A r \in DOMAIN runs : runs'[r].by = runs[r].by /\ runs'[r].phase = runs[r].phase
    BY DEF IInv, Kept, RunStep
  <2>2. job[j].pc = "direct" => misreads' < MaxMisreads
    BY <2>1, BoundsNat DEF JobOK, BudgetOK, IInv, TypeInv
  <2> QED BY <2>1, <2>2 DEF JobOK, Unlaunched
<1> QED BY <1>2, <1>3, <1>4 DEF IInv

LEMMA PutFacts ==
    ASSUME TypeInv, NEW r \in DOMAIN runs, NEW new \in Run, Put(r, new)
    PROVE  /\ runs' \in Seq(Run) /\ DOMAIN runs' = DOMAIN runs
           /\ runs'[r] = new
           /\ \A i \in DOMAIN runs \ {r} : runs'[i] = runs[i]
<1>1. runs \in Seq(Run) /\ DOMAIN runs = 1 .. Len(runs)
  BY DEF TypeInv
<1> QED BY <1>1, ExceptSeq DEF Put

LEMMA FollowsItself == ASSUME NEW a PROVE Follows(a, a) /\ RunStep(a, a)
  BY DEF Follows, RunStep

\* A step of one run, its runner or its handler.
LEMMA PutKeeps ==
    ASSUME IInv, NEW r \in DOMAIN runs, NEW new \in Run, Put(r, new),
           UNCHANGED <<job, sweep>>, OthersOK', BudgetOK', misreads' <= misreads,
           RunStep(runs[r], new), RunOK(new),
           runs[r].pod = "none" /\ runs[r].exit = "none" => new.pod = "none" /\ new.exit = "none",
           HandlerOK(r)' \/ Follows(runs[r], new)
    PROVE  IInv'
<1>1. /\ runs' \in Seq(Run) /\ DOMAIN runs' = DOMAIN runs
      /\ runs'[r] = new
      /\ \A i \in DOMAIN runs \ {r} : runs'[i] = runs[i]
  BY PutFacts DEF IInv
<1>2. Kept
  BY <1>1, FollowsItself DEF Kept
<1>3. Unlaunched
  BY <1>1 DEF Unlaunched
<1>4. ASSUME NEW i \in DOMAIN runs PROVE RunOK(runs'[i]) /\ HandlerOK(i)'
  <2>1. RunOK(runs'[i])
    BY <1>1 DEF IInv
  <2>2. Follows(runs[i], runs'[i]) \/ HandlerOK(i)'
    BY <1>1, FollowsItself
  <2> QED BY <1>2, <2>1, <2>2, KeptHandler
<1>5. sweep' \in [pc : {"idle", "listed", "write"}, held : SUBSET (DOMAIN runs)]
  BY DEF IInv, TypeInv
<1> QED BY <1>1, <1>2, <1>3, <1>4, <1>5, RunsOnly

-----------------------------------------------------------------------------
(* The steps of a runner.                                                  *)

LEMMA CompleteFacts ==
    ASSUME NEW run \in Run, NEW status \in Finished \cup {"aborted"}
    PROVE  LET c == Complete(run, status)
           IN  /\ c \in Run /\ c.status = status
               /\ c.by = run.by /\ c.phase = run.phase /\ c.land = run.land
               /\ c.exit = run.exit /\ c.pod = run.pod /\ c.posted = run.posted
               /\ c.expected = run.expected /\ c.green = run.green
               /\ c.gate \in {run.gate, "expect"}
  BY DEF Complete, Run, Finished

LEMMA RunnerInv ==
    ASSUME IInv, NEW r \in DOMAIN runs,
           RunnerStarts(r) \/ RunnerEnds(r) \/ RunnerDies(r) \/ PodReaped(r)
    PROVE  IInv'
<1>1. /\ runs[r] \in Run /\ RunOK(runs[r]) /\ OthersOK /\ BudgetOK
  BY DEF IInv, TypeInv
<1>2. /\ RunnerStep /\ OthersOK' /\ (Fault \/ NoBudget)
  BY <1>1 DEF RunnerStarts, RunnerEnds, RunnerDies, PodReaped, RunnerStep, OthersOK, forge
<1>3. UNCHANGED <<job, sweep>> /\ BudgetOK' /\ misreads' <= misreads
  BY <1>1, <1>2, BudgetStep DEF RunnerStep
<1>4. CASE RunnerStarts(r)
  <2> DEFINE new == [runs[r] EXCEPT !.pod = "up", !.status = "running", !.head = head]
  <2>1. /\ new \in Run /\ Follows(runs[r], new) /\ RunStep(runs[r], new) /\ RunOK(new)
        /\ runs[r].pod # "none"
    BY <1>1, <1>4 DEF RunnerStarts, Run, Follows, RunStep, RunOK, OthersOK, InFlight, Finished
  <2>2. Put(r, new)
    BY <1>4 DEF RunnerStarts
  <2> HIDE DEF new
  <2> QED BY <1>2, <1>3, <2>1, <2>2, PutKeeps
<1>5. CASE RunnerEnds(r)
  <2>1. PICK s \in Finished :
          Put(r, [Complete(runs[r], s) EXCEPT !.pod = "exited",
                                              !.exit = IF s = "passed" THEN "zero" ELSE "other"])
    BY <1>5 DEF RunnerEnds
  <2> DEFINE new == [Complete(runs[r], s) EXCEPT !.pod = "exited",
                                              !.exit = IF s = "passed" THEN "zero" ELSE "other"]
  <2> DEFINE c == Complete(runs[r], s)
  <2>2. /\ c \in Run /\ c.status = s
        /\ c.by = runs[r].by /\ c.phase = runs[r].phase /\ c.land = runs[r].land
        /\ c.exit = runs[r].exit
        /\ c.expected = runs[r].expected /\ c.green = runs[r].green
        /\ c.gate \in {runs[r].gate, "expect"}
    BY <1>1, CompleteFacts
  <2>3. runs[r].pod = "up"
    BY <1>5 DEF RunnerEnds
  <2>4. new \in Run /\ Follows(runs[r], new) /\ RunStep(runs[r], new) /\ RunOK(new)
    <3> HIDE DEF c
    <3>1. new = [c EXCEPT !.pod = "exited", !.exit = IF s = "passed" THEN "zero" ELSE "other"]
      BY DEF c
    <3> HIDE DEF new
    <3>2. new \in Run
      BY <2>2, <3>1 DEF Run
    <3>3. /\ new.status = s /\ new.by = runs[r].by /\ new.phase = runs[r].phase
          /\ new.land = runs[r].land /\ new.pod = "exited"
          /\ new.exit = IF s = "passed" THEN "zero" ELSE "other"
          /\ new.expected = runs[r].expected /\ new.green = runs[r].green
          /\ new.gate \in {runs[r].gate, "expect"}
      BY <2>2, <3>1 DEF Run
    <3> QED BY <1>1, <2>3, <3>2, <3>3 DEF Follows, RunStep, RunOK, Finished
  <2> HIDE DEF new
  <2> QED BY <1>2, <1>3, <2>1, <2>3, <2>4, PutKeeps DEF new
<1>6. CASE RunnerDies(r)
  <2> DEFINE new == [runs[r] EXCEPT !.pod = "exited"]
  <2>1. /\ new \in Run /\ Follows(runs[r], new) /\ RunStep(runs[r], new) /\ RunOK(new)
        /\ runs[r].pod # "none"
    BY <1>1, <1>6 DEF RunnerDies, Run, Follows, RunStep, RunOK
  <2>2. Put(r, new)
    BY <1>6 DEF RunnerDies
  <2> HIDE DEF new
  <2> QED BY <1>2, <1>3, <2>1, <2>2, PutKeeps
<1>7. CASE PodReaped(r)
  <2> DEFINE new == [runs[r] EXCEPT !.pod = "none"]
  <2>1. /\ new \in Run /\ Follows(runs[r], new) /\ RunStep(runs[r], new) /\ RunOK(new)
        /\ runs[r].pod # "none"
    BY <1>1, <1>7 DEF PodReaped, Run, Follows, RunStep, RunOK
  <2>2. Put(r, new)
    BY <1>7 DEF PodReaped
  <2> HIDE DEF new
  <2> QED BY <1>2, <1>3, <2>1, <2>2, PutKeeps
<1> QED BY <1>4, <1>5, <1>6, <1>7

-----------------------------------------------------------------------------
(* The steps of a completion handler.                                      *)

\* The newest of some runs is one of them.
LEMMA NewestIn ==
    ASSUME TypeInv, NEW S, S \subseteq DOMAIN runs, S # {}
    PROVE  Newest(S) \in S /\ \A k \in S : k <= Newest(S)
<1> DEFINE n == Len(runs)
           T == {n - i : i \in S}
           R == {p \in Nat \X Nat : p[1] < p[2]}
<1>1. n \in Nat /\ S \subseteq 1 .. n
  BY DEF TypeInv
<1>2. T # {} /\ T \subseteq Nat
  BY <1>1
<1>3. IsWellFoundedOn(R, Nat)
  BY NatLessThanWellFounded DEF OpToRel
<1>4. PICK x \in T : \A y \in T : <<y, x>> \notin R
  <2> HIDE DEF T, R
  <2> QED BY <1>2, <1>3, WFMin
<1>5. PICK i \in S : x = n - i
  BY <1>4
<1>6. ASSUME NEW k \in S PROVE k <= i
  <2>1. n - k \in T /\ n - k \in Nat /\ n - i \in Nat
    BY <1>1
  <2>2. ~(n - k < n - i)
    BY <1>4, <1>5, <2>1
  <2> QED BY <1>1, <2>2
<1>7. \E m \in S : \A k \in S : k <= m
  BY <1>5, <1>6
<1> QED BY ONLY <1>7 DEF Newest

LEMMA LeaveKeeps ==
    ASSUME IInv, NEW r \in DOMAIN runs, Leave(r),
           UNCHANGED <<job, sweep>>, OthersOK', BudgetOK', misreads' <= misreads
    PROVE  IInv'
<1> DEFINE new == [runs[r] EXCEPT !.gate = "none", !.expected = {}, !.green = FALSE]
<1>1. runs[r] \in Run /\ RunOK(runs[r])
  BY DEF IInv, TypeInv
<1>2. /\ new \in Run /\ Follows(runs[r], new) /\ RunStep(runs[r], new) /\ RunOK(new)
      /\ new.pod = runs[r].pod /\ new.exit = runs[r].exit
  BY <1>1 DEF Run, Follows, RunStep, RunOK
<1>3. Put(r, new)
  BY DEF Leave
<1> HIDE DEF new
<1> QED BY <1>2, <1>3, PutKeeps

\* What every step of a handler leaves alone.
LEMMA GateFrame ==
    ASSUME IInv, NEW r \in DOMAIN runs, Gate(r) \/ GateThrows(r)
    PROVE  UNCHANGED <<job, sweep, listening>> /\ OthersOK' /\ BudgetOK' /\ misreads' <= misreads
<1>1. OthersOK /\ BudgetOK /\ runs[r] \in Run
  BY DEF IInv, TypeInv
<1>2. UNCHANGED <<job, sweep, listening>>
  BY DEF Gate, GateThrows, GateStep, Expect, ReadBatch, ClaimBatch, ActOnLand, ActOnPr,
         RecordLand, ProposeDeploy
<1>3. Fault \/ Misread \/ NoBudget
  BY DEF Gate, GateThrows, Expect, ReadBatch, ClaimBatch, ActOnLand, MergePr, ActOnPr,
         RecordLand, ProposeDeploy
<1>4. OthersOK'
  <2>1. CASE ActOnLand(r)
    <3>1. /\ merged' \in {merged, TRUE} /\ ready' \in {ready, TRUE}
          /\ verdicts' = verdicts + 1 /\ UNCHANGED <<verified, head, proposed>>
      BY <2>1 DEF ActOnLand, MergePr
    <3>2. verdicts' \in Nat
      BY <1>1, <3>1 DEF OthersOK
    <3>3. merged' \in BOOLEAN /\ ready' \in BOOLEAN
      BY <1>1, <3>1, Zenon DEF OthersOK
    <3>4. verified' \in BOOLEAN /\ proposed' \in BOOLEAN /\ listening' \in BOOLEAN /\ head' \in Nat
      BY <1>1, <1>2, <3>1 DEF OthersOK
    <3> QED BY <3>2, <3>3, <3>4 DEF OthersOK
  <2>2. CASE ActOnPr(r)
    BY <1>1, <1>2, <2>2 DEF ActOnPr, OthersOK, Run
  <2>3. CASE ~ActOnLand(r) /\ ~ActOnPr(r)
    BY <1>1, <1>2, <2>3 DEF Gate, GateThrows, Expect, ReadBatch, ClaimBatch, RecordLand,
                            ProposeDeploy, OthersOK, forge
  <2> QED BY <2>1, <2>2, <2>3
<1> QED BY <1>1, <1>2, <1>3, <1>4, BudgetStep

LEMMA ExpectInv ==
    ASSUME IInv, NEW r \in DOMAIN runs, Expect(r)
    PROVE  IInv'
<1>1. /\ UNCHANGED <<job, sweep>> /\ OthersOK' /\ BudgetOK' /\ misreads' <= misreads
      /\ runs[r] \in Run /\ RunOK(runs[r]) /\ BudgetOK
  BY GateFrame DEF IInv, TypeInv, Gate
<1>2. PICK e \in {Phase, {runs[r].phase}} :
        /\ Put(r, [runs[r] EXCEPT !.gate = "read", !.expected = e])
        /\ e = Phase \/ Misread
  BY DEF Expect
<1> DEFINE new == [runs[r] EXCEPT !.gate = "read", !.expected = e]
<1>3. /\ new \in Run /\ RunStep(runs[r], new) /\ RunOK(new)
      /\ new.pod = runs[r].pod /\ new.exit = runs[r].exit
      /\ new.gate = "read" /\ new.expected = e
  <2> e \in SUBSET Phase
    BY <1>1 DEF Run
  <2> QED BY <1>1 DEF Run, RunStep, RunOK
<1> HIDE DEF new
<1>4. runs'[r] = new /\ Put(r, new)
  BY <1>2, <1>3, PutFacts DEF IInv, new
<1>5. HandlerOK(r)'
  BY <1>1, <1>2, <1>3, <1>4, BoundsNat DEF HandlerOK, Misread, BudgetOK
<1> QED BY <1>1, <1>3, <1>4, <1>5, PutKeeps

\* Run i is a finished one of phase p, in the mode of run r, and passed if green.
FinishedRun(i, r, p, green) ==
    /\ OfBatch(i, r, p)
    /\ runs[i].status \in Finished
    /\ green = TRUE => runs[i].status = "passed"

\* A handler that goes on has found a finished run of every phase it waits for.
LEMMA ReadBatchFacts ==
    ASSUME IInv, NEW r \in DOMAIN runs, ReadBatch(r)
    PROVE  \E green \in BOOLEAN :
             \/ Put(r, [runs[r] EXCEPT !.gate = "none", !.expected = {}])
             \/ /\ Put(r, [runs[r] EXCEPT !.gate = "claim", !.green = green])
                /\ \A p \in runs[r].expected :
                      \E i \in DOMAIN runs : FinishedRun(i, r, p, green)
<1> DEFINE batch == {Newest(Candidates(r, p)) : p \in {q \in runs[r].expected :
                                                         Candidates(r, q) # {}}}
           complete == /\ Covered(r)
                       /\ \A i \in batch : runs[i].status \in Finished
           green == \A i \in batch : runs[i].status = "passed"
<1>1. /\ complete => Put(r, [runs[r] EXCEPT !.gate = "claim", !.green = green])
      /\ ~complete => Put(r, [runs[r] EXCEPT !.gate = "none", !.expected = {}])
  BY DEF ReadBatch
<1>2. ASSUME complete, NEW p \in runs[r].expected
      PROVE  \E i \in DOMAIN runs : FinishedRun(i, r, p, green)
  <2>1. Candidates(r, p) # {} /\ Candidates(r, p) \subseteq DOMAIN runs
    BY <1>2 DEF Covered, Candidates
  <2>2. Newest(Candidates(r, p)) \in Candidates(r, p)
    BY <2>1, NewestIn DEF IInv
  <2>3. Newest(Candidates(r, p)) \in batch
    BY <2>1
  <2> HIDE DEF batch
  <2> QED BY <1>2, <2>2, <2>3 DEF Candidates, FinishedRun
<1>3. green \in BOOLEAN
  <2> HIDE DEF batch
  <2> QED BY Zenon
<1> HIDE DEF green, complete
<1> QED BY <1>1, <1>2, <1>3

LEMMA ReadBatchInv ==
    ASSUME IInv, NEW r \in DOMAIN runs, ReadBatch(r)
    PROVE  IInv'
<1>1. /\ UNCHANGED <<job, sweep>> /\ OthersOK' /\ BudgetOK' /\ misreads' <= misreads
      /\ runs[r] \in Run /\ RunOK(runs[r]) /\ HandlerOK(r) /\ runs[r].gate = "read"
  <2>1. Gate(r)
    BY DEF Gate
  <2>2. runs[r].gate = "read"
    BY DEF ReadBatch
  <2> QED BY <2>1, <2>2, GateFrame DEF IInv, TypeInv
<1>2. PICK green \in BOOLEAN :
             \/ Put(r, [runs[r] EXCEPT !.gate = "none", !.expected = {}])
             \/ /\ Put(r, [runs[r] EXCEPT !.gate = "claim", !.green = green])
                /\ \A p \in runs[r].expected :
                      \E i \in DOMAIN runs : FinishedRun(i, r, p, green)
  BY ReadBatchFacts
<1>3. CASE Put(r, [runs[r] EXCEPT !.gate = "none", !.expected = {}])
  <2> DEFINE new == [runs[r] EXCEPT !.gate = "none", !.expected = {}]
  <2>1. /\ new \in Run /\ Follows(runs[r], new) /\ RunStep(runs[r], new) /\ RunOK(new)
        /\ new.pod = runs[r].pod /\ new.exit = runs[r].exit
    BY <1>1 DEF Run, Follows, RunStep, RunOK
  <2>2. Put(r, new)
    BY <1>3
  <2> HIDE DEF new
  <2> QED BY <1>1, <2>1, <2>2, PutKeeps
<1>4. CASE /\ Put(r, [runs[r] EXCEPT !.gate = "claim", !.green = green])
           /\ \A p \in runs[r].expected :
                 \E i \in DOMAIN runs : FinishedRun(i, r, p, green)
  <2>0. \A p \in runs[r].expected :
          \E i \in DOMAIN runs : FinishedRun(i, r, p, green)
    BY <1>4, Zenon
  <2> DEFINE new == [runs[r] EXCEPT !.gate = "claim", !.green = green]
  <2>1. /\ new \in Run /\ RunStep(runs[r], new) /\ RunOK(new)
        /\ new.pod = runs[r].pod /\ new.exit = runs[r].exit
        /\ new.gate = "claim" /\ new.expected = runs[r].expected /\ new.land = runs[r].land
        /\ new.green = green
    BY <1>1 DEF Run, RunStep, RunOK
  <2>2. Put(r, new)
    BY <1>4
  <2> HIDE DEF new
  <2>3. /\ runs' \in Seq(Run) /\ DOMAIN runs' = DOMAIN runs
        /\ runs'[r] = new
        /\ \A i \in DOMAIN runs \ {r} : runs'[i] = runs[i]
    BY <2>1, <2>2, PutFacts DEF IInv
  <2>4. Kept
    BY <2>1, <2>3, FollowsItself DEF Kept
  <2>5. ASSUME green = TRUE, NEW p \in runs[r].expected PROVE PassedIn(p, runs[r].land)'
    <3>1. PICK i \in DOMAIN runs : OfBatch(i, r, p) /\ runs[i].status = "passed"
      BY <2>0, <2>5 DEF FinishedRun
    <3>2. RunOK(runs[i])
      BY DEF IInv
    <3>3. PICK land : land = runs[r].land /\ land = runs'[r].land
      BY <2>1, <2>3
    <3>4. PassedIn(p, land)
      BY <3>1, <3>2, <3>3 DEF PassedIn, OfBatch, RunOK
    <3>5. PassedIn(p, land)'
      BY <2>4, <3>4, KeptPassed
    <3> QED BY <3>3, <3>5 DEF PassedIn
  <2>6. runs'[r].expected = Phase \/ misreads' < MaxMisreads
    BY <1>1, <2>1, <2>3, BoundsNat DEF HandlerOK, IInv, TypeInv, BudgetOK
  <2>7. HandlerOK(r)'
    BY <2>1, <2>3, <2>5, <2>6 DEF HandlerOK
  <2> QED BY <1>1, <2>1, <2>2, <2>7, PutKeeps
<1> QED BY <1>2, <1>3, <1>4

\* The claim marks the runs it covers and leaves what a runner wrote.
LEMMA ClaimFacts ==
    ASSUME TypeInv, NEW r \in DOMAIN runs, ClaimBatch(r)
    PROVE  /\ runs' \in Seq(Run) /\ DOMAIN runs' = DOMAIN runs
           /\ \A i \in DOMAIN runs :
                /\ RunStep(runs[i], runs'[i])
                /\ runs'[i].exit = runs[i].exit
                /\ runs'[i].status = runs[i].status /\ runs'[i].pod = runs[i].pod
                /\ runs'[i].posted <=> runs[i].posted \/ i \in Claimable(r)
           /\ \A i \in DOMAIN runs \ {r} : runs'[i].gate = runs[i].gate
           /\ runs'[r].gate = IF Claimable(r) = {} THEN "none" ELSE "act"
           /\ \A i \in DOMAIN runs :
                 runs'[i].gate = "none" \/ /\ runs'[i].expected = runs[i].expected
                                           /\ runs'[i].green = runs[i].green
<1>1. /\ DOMAIN runs = 1 .. Len(runs) /\ Len(runs) \in Nat
      /\ \A i \in DOMAIN runs : runs[i] \in Run
  BY DEF TypeInv
<1> DEFINE marked(i) == [runs[i] EXCEPT !.posted = @ \/ i \in Claimable(r)]
           new(i) == IF i # r THEN marked(i)
                     ELSE IF Claimable(r) = {}
                     THEN [marked(i) EXCEPT !.gate = "none", !.expected = {}, !.green = FALSE]
                     ELSE [marked(i) EXCEPT !.gate = "act"]
<1>2. ASSUME NEW i \in DOMAIN runs
      PROVE  /\ marked(i) \in Run /\ RunStep(runs[i], marked(i))
             /\ marked(i).exit = runs[i].exit
             /\ marked(i).status = runs[i].status /\ marked(i).pod = runs[i].pod
             /\ marked(i).posted <=> runs[i].posted \/ i \in Claimable(r)
             /\ marked(i).gate = runs[i].gate
             /\ marked(i).expected = runs[i].expected /\ marked(i).green = runs[i].green
  <2>1. runs[i] \in Run /\ (runs[i].posted \/ i \in Claimable(r)) \in BOOLEAN
    BY <1>1
  <2> QED BY <2>1 DEF Run, RunStep
<1> HIDE DEF marked
<1>3. ASSUME NEW i \in DOMAIN runs
      PROVE  /\ new(i) \in Run /\ RunStep(runs[i], new(i))
             /\ new(i).exit = runs[i].exit
             /\ new(i).status = runs[i].status /\ new(i).pod = runs[i].pod
             /\ new(i).posted <=> runs[i].posted \/ i \in Claimable(r)
             /\ i # r => new(i).gate = runs[i].gate
             /\ i = r => new(i).gate = IF Claimable(r) = {} THEN "none" ELSE "act"
             /\ new(i).gate = "none" \/ /\ new(i).expected = runs[i].expected
                                        /\ new(i).green = runs[i].green
  BY <1>2 DEF Run, RunStep
<1>4. runs' = [i \in DOMAIN runs |-> new(i)]
  BY DEF ClaimBatch, marked
<1> HIDE DEF new
<1>5. runs' \in Seq(Run)
  BY <1>1, <1>3, <1>4
<1> QED BY <1>3, <1>4, <1>5

LEMMA ClaimInv ==
    ASSUME IInv, NEW r \in DOMAIN runs, ClaimBatch(r)
    PROVE  IInv'
<1>1. /\ UNCHANGED <<job, sweep>> /\ OthersOK' /\ BudgetOK' /\ misreads' <= misreads
  BY GateFrame DEF Gate
<1>2. TypeInv /\ runs[r].gate = "claim"
  BY DEF IInv, ClaimBatch
<1>3. Kept /\ DOMAIN runs' = DOMAIN runs /\ Unlaunched
  BY <1>2, ClaimFacts DEF Kept, Unlaunched
<1>4. ASSUME NEW i \in DOMAIN runs PROVE RunOK(runs'[i]) /\ HandlerOK(i)'
  <2>1. RunOK(runs[i]) /\ RunOK(runs'[i])
    BY <1>2, ClaimFacts DEF IInv, RunOK, RunStep
  <2>2. Follows(runs[i], runs'[i])
    <3>1. CASE i = r
      BY <1>2, <3>1, ClaimFacts DEF Follows
    <3>2. CASE i # r
      BY <1>2, <3>2, ClaimFacts DEF Follows
    <3> QED BY <3>1, <3>2
  <2> QED BY <1>1, <1>3, <2>1, <2>2, KeptHandler
<1>5. sweep' \in [pc : {"idle", "listed", "write"}, held : SUBSET (DOMAIN runs)]
  BY <1>1 DEF IInv, TypeInv
<1> QED BY <1>1, <1>3, <1>4, <1>5, RunsOnly

LEMMA GateInv ==
    ASSUME IInv, NEW r \in DOMAIN runs, Gate(r) \/ GateThrows(r)
    PROVE  IInv'
<1>1. /\ UNCHANGED <<job, sweep>> /\ OthersOK' /\ BudgetOK' /\ misreads' <= misreads
      /\ runs[r] \in Run /\ RunOK(runs[r])
  BY GateFrame DEF IInv, TypeInv
<1>2. ASSUME NEW g \in {"record", "propose"}, Put(r, [runs[r] EXCEPT !.gate = g])
      PROVE  IInv'
  <2> DEFINE new == [runs[r] EXCEPT !.gate = g]
  <2>1. /\ new \in Run /\ Follows(runs[r], new) /\ RunStep(runs[r], new) /\ RunOK(new)
        /\ new.pod = runs[r].pod /\ new.exit = runs[r].exit
    BY <1>1 DEF Run, Follows, RunStep, RunOK
  <2>2. Put(r, new)
    BY <1>2
  <2> HIDE DEF new
  <2> QED BY <1>1, <2>1, <2>2, PutKeeps
<1>3. CASE Expect(r) \/ ReadBatch(r) \/ ClaimBatch(r)
  BY <1>3, ExpectInv, ReadBatchInv, ClaimInv
<1>4. CASE ActOnLand(r)
  <2>1. Leave(r) \/ Put(r, [runs[r] EXCEPT !.gate = "record"])
    BY <1>4 DEF ActOnLand, MergePr
  <2> QED BY <1>1, <1>2, <2>1, LeaveKeeps
<1>5. CASE ActOnPr(r) \/ ProposeDeploy(r) \/ GateThrows(r)
  <2>1. Leave(r)
    BY <1>5 DEF ActOnPr, ProposeDeploy, GateThrows
  <2> QED BY <1>1, <2>1, LeaveKeeps
<1>6. CASE RecordLand(r)
  <2>1. Put(r, [runs[r] EXCEPT !.gate = "propose"])
    BY <1>6 DEF RecordLand
  <2> QED BY <1>2, <2>1
<1> QED BY <1>3, <1>4, <1>5, <1>6 DEF Gate

-----------------------------------------------------------------------------
(* The sweep, the boss and the agent.                                      *)

\* A step that changes neither runs nor jobs.
LEMMA OthersOnly ==
    ASSUME IInv, UNCHANGED <<runs, job>>,
           sweep' \in [pc : {"idle", "listed", "write"}, held : SUBSET (DOMAIN runs)],
           OthersOK', BudgetOK', misreads' <= misreads
    PROVE  IInv'
<1>1. Kept /\ Unlaunched /\ DOMAIN runs' = DOMAIN runs
  BY FollowsItself DEF IInv, TypeInv, Kept, Unlaunched
<1>2. ASSUME NEW r \in DOMAIN runs PROVE RunOK(runs'[r]) /\ HandlerOK(r)'
  <2>1. RunOK(runs[r]) /\ runs'[r] = runs[r] /\ Follows(runs[r], runs'[r])
    BY FollowsItself DEF IInv
  <2> QED BY <1>1, <2>1, KeptHandler
<1> QED BY <1>1, <1>2, RunsOnly

LEMMA SweepInv ==
    ASSUME IInv, Sweep
    PROVE  IInv'
<1>1. /\ UNCHANGED <<job, verified, forge, proposed, listening, verdicts>>
      /\ Fault \/ NoBudget
  BY DEF Sweep, SweepLists, SweepFindsPods, SweepAborts, SweepStep
<1>2. /\ sweep \in [pc : {"idle", "listed", "write"}, held : SUBSET (DOMAIN runs)]
      /\ OthersOK /\ BudgetOK
      /\ DOMAIN runs = 1 .. Len(runs) /\ Len(runs) \in Nat
      /\ \A r \in DOMAIN runs : runs[r] \in Run
  BY DEF IInv, TypeInv
<1>3. OthersOK' /\ BudgetOK' /\ misreads' <= misreads
  BY <1>1, <1>2, BudgetStep DEF OthersOK, forge
<1>4. CASE SweepLists \/ SweepFindsPods
  <2>1. /\ UNCHANGED runs
        /\ sweep' \in [pc : {"idle", "listed", "write"}, held : SUBSET (DOMAIN runs)]
    BY <1>2, <1>4 DEF SweepLists, SweepFindsPods, WithoutPod, NoSweep, Unfinished
  <2> QED BY <1>1, <1>3, <2>1, OthersOnly
<1>5. CASE SweepAborts
  <2> DEFINE new(r) == IF r \in sweep.held THEN Complete(runs[r], "aborted") ELSE runs[r]
  <2>1. /\ runs' = [r \in DOMAIN runs |-> new(r)]
        /\ sweep' = NoSweep
    BY <1>5 DEF SweepAborts
  <2>2. ASSUME NEW r \in DOMAIN runs
        PROVE  /\ new(r) \in Run /\ RunStep(runs[r], new(r)) /\ RunOK(new(r))
               /\ new(r).pod = runs[r].pod /\ new(r).exit = runs[r].exit
               /\ Follows(runs[r], new(r))
    <3> DEFINE c == Complete(runs[r], "aborted")
    <3>1. /\ c \in Run /\ c.status = "aborted"
          /\ c.by = runs[r].by /\ c.phase = runs[r].phase /\ c.land = runs[r].land
          /\ c.exit = runs[r].exit /\ c.pod = runs[r].pod
          /\ c.expected = runs[r].expected /\ c.green = runs[r].green
          /\ c.gate \in {runs[r].gate, "expect"}
      BY <1>2, CompleteFacts
    <3>2. RunOK(runs[r]) /\ new(r) \in {c, runs[r]}
      BY DEF IInv
    <3> HIDE DEF c
    <3>3. CASE new(r) = c
      <4> HIDE DEF new
      <4> QED BY <3>1, <3>2, <3>3 DEF RunStep, RunOK, Follows, Finished
    <3>4. CASE new(r) = runs[r]
      <4> HIDE DEF new
      <4> QED BY <1>2, <3>2, <3>4, FollowsItself
    <3> QED BY <3>2, <3>3, <3>4
  <2> HIDE DEF new
  <2>3. runs' \in Seq(Run) /\ DOMAIN runs' = DOMAIN runs
    BY <1>2, <2>1, <2>2
  <2>4. Kept /\ Unlaunched
    BY <2>1, <2>2, <2>3 DEF Kept, Unlaunched
  <2>5. ASSUME NEW r \in DOMAIN runs PROVE RunOK(runs'[r]) /\ HandlerOK(r)'
    <3>1. RunOK(runs'[r]) /\ Follows(runs[r], runs'[r])
      BY <2>1, <2>2
    <3> QED BY <1>3, <2>4, <3>1, KeptHandler
  <2>6. sweep' \in [pc : {"idle", "listed", "write"}, held : SUBSET (DOMAIN runs)]
    BY <2>1 DEF NoSweep
  <2> QED BY <1>1, <1>3, <2>3, <2>4, <2>5, <2>6, RunsOnly
<1> QED BY <1>4, <1>5 DEF Sweep

LEMMA RestInv ==
    ASSUME IInv, Connect \/ Disconnect \/ AgentPushes
    PROVE  IInv'
<1>1. /\ UNCHANGED <<runs, job, sweep, verified, ready, merged, proposed, verdicts>>
      /\ Fault \/ NoBudget \/ NewCommit
      /\ listening' \in {listening, TRUE, FALSE} /\ head' \in {head, head + 1}
  BY DEF Connect, Disconnect, AgentPushes, forge, NewCommit
<1>2. /\ sweep \in [pc : {"idle", "listed", "write"}, held : SUBSET (DOMAIN runs)]
      /\ OthersOK /\ BudgetOK
  BY DEF IInv, TypeInv
<1>3. BudgetOK' /\ misreads' <= misreads
  BY <1>1, <1>2, BudgetStep
<1>4. OthersOK'
  <2>1. listening' \in BOOLEAN
    BY <1>1, <1>2, Zenon DEF OthersOK
  <2>2. head' \in Nat
    BY <1>1, <1>2 DEF OthersOK
  <2> QED BY <1>1, <1>2, <2>1, <2>2 DEF OthersOK
<1> QED BY <1>1, <1>2, <1>3, <1>4, OthersOnly

LEMMA CrashInv ==
    ASSUME IInv, BossCrash
    PROVE  IInv'
<1>1. /\ runs \in Seq(Run) /\ DOMAIN runs = 1 .. Len(runs) /\ Len(runs) \in Nat
      /\ \A r \in DOMAIN runs : runs[r] \in Run
      /\ job \in [Jobs -> Job] /\ OthersOK /\ BudgetOK
  BY DEF IInv, TypeInv
<1> DEFINE new(r) == [runs[r] EXCEPT !.gate = "none", !.expected = {}, !.green = FALSE]
<1>2. ASSUME NEW r \in DOMAIN runs
      PROVE  /\ new(r) \in Run /\ RunStep(runs[r], new(r)) /\ RunOK(new(r))
             /\ new(r).pod = runs[r].pod /\ new(r).exit = runs[r].exit
             /\ Follows(runs[r], new(r))
  <2>1. runs[r] \in Run /\ RunOK(runs[r])
    BY <1>1 DEF IInv
  <2> QED BY <2>1 DEF Run, RunStep, RunOK, Follows
<1>3. runs' = [r \in DOMAIN runs |-> new(r)]
  BY DEF BossCrash
<1> HIDE DEF new
<1>4. /\ runs' \in Seq(Run) /\ DOMAIN runs' = DOMAIN runs /\ Len(runs') = Len(runs)
  BY <1>1, <1>2, <1>3
<1>5. Kept
  BY <1>2, <1>3, <1>4 DEF Kept
<1>6. BudgetOK' /\ misreads' <= misreads
  BY <1>1, BudgetStep DEF BossCrash
<1>7. OthersOK'
  BY <1>1 DEF OthersOK, BossCrash, forge
<1>8. ASSUME NEW r \in DOMAIN runs PROVE RunOK(runs'[r]) /\ HandlerOK(r)'
  <2>1. RunOK(runs'[r]) /\ Follows(runs[r], runs'[r])
    BY <1>2, <1>3
  <2> QED BY <1>5, <1>6, <2>1, KeptHandler
<1>9. OnePerPhase'
  BY <1>4, <1>5 DEF IInv, OnePerPhase, Kept, RunStep
<1>10. ASSUME NEW j \in Jobs
       PROVE  \/ job'[j] = job[j] /\ job[j].pc = "idle"
              \/ job'[j] = [pc |-> "done", todo |-> <<>>, run |-> 0]
  BY <1>1 DEF BossCrash, JobAt
<1>11. ASSUME NEW j \in Jobs
       PROVE  job'[j] \in Job /\ job'[j].run \in 0 .. Len(runs') /\ JobOK(j)'
  <2>1. CASE job'[j] = job[j] /\ job[j].pc = "idle"
    <3>1. JobOK(j) /\ job[j].run \in 0 .. Len(runs) /\ job[j] \in Job
      BY DEF IInv, TypeInv
    <3>2. \A r \in DOMAIN runs : runs'[r].by = runs[r].by
      BY <1>5 DEF Kept, RunStep
    <3>3. JobOK(j)'
      BY <1>4, <2>1, <3>1, <3>2 DEF JobOK
    <3> QED BY <1>4, <2>1, <3>1, <3>3
  <2>2. CASE job'[j] = [pc |-> "done", todo |-> <<>>, run |-> 0]
    <3>1. [pc |-> "done", todo |-> <<>>, run |-> 0] \in Job
      BY TodosGiven, JobIs
    <3> QED BY <1>1, <1>4, <2>2, <3>1 DEF JobOK, BeforeRuns
  <2> QED BY <1>10, <2>1, <2>2
<1>12. job' \in [Jobs -> Job]
  <2>1. job' = [j \in Jobs |-> IF JobAt(j, "idle") THEN job[j]
                                ELSE [pc |-> "done", todo |-> <<>>, run |-> 0]]
    BY DEF BossCrash
  <2> QED BY <1>11, <2>1
<1>13. sweep' \in [pc : {"idle", "listed", "write"}, held : SUBSET (DOMAIN runs')]
  BY DEF BossCrash, NoSweep
<1>14. TypeInv'
  BY <1>4, <1>6, <1>7, <1>11, <1>12, <1>13 DEF TypeInv
<1> QED BY <1>4, <1>8, <1>9, <1>11, <1>14 DEF IInv

-----------------------------------------------------------------------------
(* The steps of a job.                                                     *)

\* A step of a job that inserts no run and launches none.
LEMMA JobOnly ==
    ASSUME IInv, NEW j \in Jobs, NEW new \in Job, job' = [job EXCEPT ![j] = new],
           UNCHANGED <<runs, sweep>>, OthersOK', BudgetOK', misreads' <= misreads,
           new.run = job[j].run, JobOK(j)'
    PROVE  IInv'
<1>1. TypeInv'
  BY DEF IInv, TypeInv
<1>2. OnePerPhase'
  BY DEF IInv, OnePerPhase
<1>3. ASSUME NEW k \in Jobs PROVE JobOK(k)'
  <2>1. CASE k # j
    <3>1. JobOK(k) /\ job'[k] = job[k] /\ BudgetOK
      BY <2>1 DEF IInv, TypeInv
    <3> QED BY <3>1, BoundsNat DEF JobOK, BudgetOK
  <2> QED BY <2>1
<1>4. Kept
  BY FollowsItself DEF IInv, TypeInv, Kept
<1>5. ASSUME NEW r \in DOMAIN runs PROVE RunOK(runs'[r]) /\ HandlerOK(r)'
  <2>1. RunOK(runs[r]) /\ runs'[r] = runs[r] /\ Follows(runs[r], runs'[r])
    BY FollowsItself DEF IInv
  <2> QED BY <1>4, <2>1, KeptHandler
<1> QED BY <1>1, <1>2, <1>3, <1>5 DEF IInv

\* A job moves on with what it has left.
LEMMA JobMoves ==
    ASSUME IInv, NEW j \in Jobs, NEW todo \in Todos,
           NEW pc \in {"idle", "guard", "update", "list", "insert", "direct", "record",
                       "propose", "done"},
           job' = [job EXCEPT ![j].pc = pc, ![j].todo = todo],
           UNCHANGED <<runs, sweep>>, OthersOK', BudgetOK', misreads' <= misreads,
           pc \in BeforeRuns \cup {"insert"} => job[j].pc \in BeforeRuns,
           pc = "insert" => todo # <<>>,
           pc = "direct" => misreads' < MaxMisreads
    PROVE  IInv'
<1>1. job[j] \in Job /\ job \in [Jobs -> Job] /\ JobOK(j)
  BY DEF IInv, TypeInv
<1> DEFINE new == [job[j] EXCEPT !.pc = pc, !.todo = todo]
<1>2. new \in Job /\ new.run = job[j].run /\ new.pc = pc /\ new.todo = todo
  BY <1>1, JobIs
<1>3. job' = [job EXCEPT ![j] = new] /\ job'[j] = new
  BY <1>1
<1> HIDE DEF new
<1>4. JobOK(j)'
  BY <1>1, <1>2, <1>3 DEF JobOK, BeforeRuns
<1> QED BY <1>2, <1>3, <1>4, JobOnly

LEMMA ToMoves ==
    ASSUME IInv, NEW j \in Jobs, NEW pc, JobTo(j, pc)
    PROVE  /\ job[j].todo \in Todos
           /\ job' = [job EXCEPT ![j].pc = pc, ![j].todo = job[j].todo]
<1>1. job[j] \in Job /\ job \in [Jobs -> Job]
  BY DEF IInv, TypeInv
<1> QED BY <1>1, JobIs DEF JobTo

LEMMA InsertInv ==
    ASSUME IInv, NEW j \in Jobs, InsertRun(j)
    PROVE  IInv'
<1> DEFINE todo == job[j].todo
           row == [phase |-> Head(todo), land |-> j \in Lands,
                   status |-> "pending", exit |-> "none", posted |-> FALSE, head |-> 0,
                   pod |-> "none", gate |-> "none", expected |-> {},
                   green |-> FALSE, by |-> j]
           n == Len(runs) + 1
           new == [job[j] EXCEPT !.pc = "launch", !.run = n]
<1>1. /\ runs \in Seq(Run) /\ DOMAIN runs = 1 .. Len(runs) /\ Len(runs) \in Nat
      /\ job \in [Jobs -> Job] /\ job[j] \in Job /\ OthersOK /\ BudgetOK
      /\ JobOK(j) /\ job[j].pc = "insert" /\ todo \in Todos
  BY JobIs DEF IInv, TypeInv, InsertRun, JobAt
<1>2. /\ todo # <<>> /\ Head(todo) \in Phase
      /\ Head(todo) \in ToSet(todo)
      /\ \A p \in ToSet(Tail(todo)) : p \in ToSet(todo) /\ p # Head(todo)
      /\ \A r \in DOMAIN runs : runs[r].by = j => runs[r].phase \notin ToSet(todo)
  BY <1>1, TodoFacts DEF JobOK
<1>3. row \in Run /\ RunOK(row)
  <2>1. (j \in Lands) \in BOOLEAN
    OBVIOUS
  <2> QED BY <1>2, <2>1 DEF Run, RunOK, InFlight, Finished
<1>4. /\ row.by = j /\ row.phase = Head(todo) /\ row.exit = "none"
      /\ row.pod = "none" /\ row.gate = "none"
  OBVIOUS
<1>5. runs' = Append(runs, row) /\ job' = [job EXCEPT ![j].pc = "launch", ![j].run = n]
  BY DEF InsertRun
<1>6. UNCHANGED <<sweep, verified, forge, proposed, listening, verdicts>> /\ NoBudget
  BY DEF InsertRun, JobStep
<1>7. new \in Job /\ new.pc = "launch" /\ new.run = n /\ new.todo = todo
  <2>1. n \in Nat
    BY <1>1
  <2> HIDE DEF n
  <2> QED BY <1>1, <2>1, JobIs
<1>8. job' = [job EXCEPT ![j] = new] /\ job'[j] = new /\ job' \in [Jobs -> Job]
  BY <1>1, <1>5, <1>7
<1> HIDE DEF row, new, todo
<1>9. /\ runs' \in Seq(Run) /\ Len(runs') = n /\ DOMAIN runs' = DOMAIN runs \cup {n}
      /\ n \notin DOMAIN runs /\ runs'[n] = row
      /\ \A r \in DOMAIN runs : runs'[r] = runs[r]
  BY <1>1, <1>3, <1>5, AppendProperties
<1>10. Kept
  BY <1>9, FollowsItself DEF Kept
<1>11. BudgetOK' /\ misreads' <= misreads /\ OthersOK'
  BY <1>1, <1>6, BudgetStep DEF OthersOK, forge
<1>12. TypeInv'
  <2>1. \A k \in Jobs : job'[k].run \in 0 .. Len(runs')
    BY <1>1, <1>7, <1>8, <1>9 DEF IInv, TypeInv
  <2>2. sweep' \in [pc : {"idle", "listed", "write"}, held : SUBSET (DOMAIN runs')]
    BY <1>6, <1>9 DEF IInv, TypeInv
  <2> QED BY <1>8, <1>9, <1>11, <2>1, <2>2 DEF TypeInv
<1>13. OnePerPhase'
  BY <1>2, <1>4, <1>9 DEF IInv, OnePerPhase
<1>14. ASSUME NEW k \in Jobs PROVE JobOK(k)'
  <2>1. CASE k = j
    <3>1. \A r \in DOMAIN runs' : runs'[r].by = j => runs'[r].phase \notin ToSet(Tail(todo))
      BY <1>2, <1>4, <1>9
    <3> QED BY <1>2, <1>4, <1>7, <1>8, <1>9, <2>1, <3>1 DEF JobOK, BeforeRuns
  <2>2. CASE k # j
    <3>1. JobOK(k) /\ job'[k] = job[k] /\ misreads' = misreads
      BY <1>6, <1>8, <2>2 DEF IInv, NoBudget, budget
    <3>2. \A r \in DOMAIN runs' : runs'[r].by = k => r \in DOMAIN runs /\ runs'[r] = runs[r]
      BY <1>4, <1>9, <2>2
    <3> QED BY <1>9, <3>1, <3>2 DEF JobOK
  <2> QED BY <2>1, <2>2
<1>15. ASSUME NEW r \in DOMAIN runs' PROVE RunOK(runs'[r]) /\ HandlerOK(r)'
  <2>1. CASE r = n
    BY <1>3, <1>4, <1>9, <2>1 DEF HandlerOK
  <2>2. CASE r # n
    <3>1. r \in DOMAIN runs /\ runs'[r] = runs[r] /\ RunOK(runs[r]) /\ Follows(runs[r], runs'[r])
      BY <1>9, <2>2, FollowsItself DEF IInv
    <3> QED BY <1>10, <1>11, <3>1, KeptHandler
  <2> QED BY <2>1, <2>2
<1> QED BY <1>12, <1>13, <1>14, <1>15 DEF IInv

LEMMA LaunchInv ==
    ASSUME IInv, NEW j \in Jobs, LaunchRun(j)
    PROVE  IInv'
<1> DEFINE r == job[j].run
           todo == job[j].todo
           row == [runs[r] EXCEPT !.pod = "starting"]
           pc == IF Rest(todo) = <<>> THEN "done" ELSE "insert"
           new == [job[j] EXCEPT !.pc = pc, !.todo = Tail(todo)]
<1>1. /\ job \in [Jobs -> Job] /\ job[j] \in Job /\ OthersOK /\ BudgetOK
      /\ JobOK(j) /\ job[j].pc = "launch" /\ todo \in Todos
  BY JobIs DEF IInv, TypeInv, LaunchRun, JobAt
<1>2. /\ todo # <<>> /\ Tail(todo) \in Todos /\ r \in DOMAIN runs
      /\ runs[r].by = j /\ runs[r].exit = "none" /\ runs[r].pod = "none"
      /\ \A i \in DOMAIN runs : runs[i].by = j => runs[i].phase \notin ToSet(Tail(todo))
  BY <1>1, TodoFacts DEF JobOK
<1>3. runs[r] \in Run /\ RunOK(runs[r])
  BY <1>2 DEF IInv, TypeInv
<1>4. /\ row \in Run /\ RunStep(runs[r], row) /\ RunOK(row) /\ Follows(runs[r], row)
  BY <1>2, <1>3 DEF Run, RunStep, RunOK, Follows
<1>5. Put(r, row) /\ UNCHANGED <<sweep, verified, forge, proposed, listening, verdicts>> /\ NoBudget
  BY DEF LaunchRun, JobStep
<1>6. new \in Job /\ new.pc = pc /\ new.run = r /\ new.todo = Tail(todo)
  BY <1>1, <1>2, JobIs
<1>7. job' = [job EXCEPT ![j] = new] /\ job'[j] = new /\ job' \in [Jobs -> Job]
  <2>1. job' = [job EXCEPT ![j].pc = pc, ![j].todo = Tail(todo)]
    BY DEF LaunchRun, Rest
  <2> QED BY <1>1, <1>6, <2>1
<1>8. pc = "insert" => Tail(todo) # <<>>
  BY DEF Rest
<1>9. pc \in {"done", "insert"}
  OBVIOUS
<1> HIDE DEF row, new, todo, pc, r
<1>10. /\ runs' \in Seq(Run) /\ DOMAIN runs' = DOMAIN runs /\ runs'[r] = row
       /\ \A i \in DOMAIN runs \ {r} : runs'[i] = runs[i]
  BY <1>2, <1>4, <1>5, PutFacts DEF IInv
<1>11. Kept /\ Len(runs') = Len(runs)
  BY <1>4, <1>10, FollowsItself DEF Kept, IInv, TypeInv
<1>12. BudgetOK' /\ misreads' = misreads /\ OthersOK'
  BY <1>1, <1>5, BudgetStep DEF OthersOK, forge, NoBudget, budget
<1>13. TypeInv'
  <2>1. \A k \in Jobs : job[k].run \in 0 .. Len(runs)
    BY DEF IInv, TypeInv
  <2>2. \A k \in Jobs : job'[k].run \in 0 .. Len(runs')
    BY <1>1, <1>6, <1>7, <1>11, <2>1 DEF r
  <2>3. sweep' \in [pc : {"idle", "listed", "write"}, held : SUBSET (DOMAIN runs')]
    BY <1>5, <1>10 DEF IInv, TypeInv
  <2> QED BY <1>7, <1>10, <1>12, <2>2, <2>3 DEF TypeInv
<1>14. OnePerPhase'
  BY <1>10, <1>11 DEF IInv, OnePerPhase, Kept, RunStep
<1>15. ASSUME NEW k \in Jobs PROVE JobOK(k)'
  <2>1. \A i \in DOMAIN runs : runs'[i].by = runs[i].by /\ runs'[i].phase = runs[i].phase
    BY <1>11 DEF Kept, RunStep
  <2>2. CASE k = j
    BY <1>2, <1>6, <1>7, <1>8, <1>9, <1>10, <2>1, <2>2 DEF JobOK, BeforeRuns
  <2>3. CASE k # j
    <3>1. JobOK(k) /\ job'[k] = job[k] /\ misreads' = misreads
      BY <1>7, <1>12, <2>3 DEF IInv
    <3>2. job[k].pc = "launch" => job[k].run # r
      BY <1>2, <2>3, <3>1 DEF JobOK
    <3> QED BY <1>10, <2>1, <3>1, <3>2 DEF JobOK
  <2> QED BY <2>2, <2>3
<1>16. ASSUME NEW i \in DOMAIN runs PROVE RunOK(runs'[i]) /\ HandlerOK(i)'
  <2>1. RunOK(runs'[i]) /\ Follows(runs[i], runs'[i])
    BY <1>4, <1>10, FollowsItself DEF IInv
  <2> QED BY <1>11, <1>12, <2>1, KeptHandler DEF BudgetOK
<1> QED BY <1>10, <1>13, <1>14, <1>15, <1>16 DEF IInv

LEMMA JobInv ==
    ASSUME IInv, NEW j \in Jobs, Click(j) \/ TestOnePhase(j) \/ JobGoesOn(j) \/ JobThrows(j)
    PROVE  IInv'
<1>1. CASE InsertRun(j)
  BY <1>1, InsertInv
<1>2. CASE LaunchRun(j)
  BY <1>2, LaunchInv
<1>3. ASSUME ~InsertRun(j), ~LaunchRun(j) PROVE IInv'
  <2>1. /\ UNCHANGED <<runs, listening, sweep, verdicts>>
        /\ Fault \/ Misread \/ NoBudget \/ NewCommit
        /\ OthersOK /\ BudgetOK
    BY <1>3 DEF JobGoesOn, Click, TestOnePhase, CheckInFlight, UpdateBranch, ListPhases, JobThrows,
                MergeDirectly, MergePr, RecordDirect, ProposeDirect, JobStep, IInv, TypeInv
  <2>2. BudgetOK' /\ misreads' <= misreads
    BY <2>1, BudgetStep
  <2>3. /\ verified' \in {verified, TRUE} /\ ready' \in {ready, TRUE}
        /\ merged' \in {merged, TRUE} /\ proposed' \in {proposed, TRUE}
        /\ head' \in {head, head + 1}
    BY <1>3 DEF JobGoesOn, Click, TestOnePhase, CheckInFlight, UpdateBranch, ListPhases, JobThrows,
                MergeDirectly, MergePr, RecordDirect, ProposeDirect, forge, NewCommit
  <2>4. OthersOK'
    <3>1. /\ verified' \in BOOLEAN /\ ready' \in BOOLEAN /\ merged' \in BOOLEAN
          /\ proposed' \in BOOLEAN
      BY <2>1, <2>3, Zenon DEF OthersOK
    <3>2. head' \in Nat
      BY <2>1, <2>3 DEF OthersOK
    <3> QED BY <2>1, <3>1, <3>2 DEF OthersOK
  <2>5. ASSUME NEW pc \in {"guard", "update", "list", "direct", "record", "propose", "done"},
               JobTo(j, pc),
               pc \in BeforeRuns => job[j].pc \in BeforeRuns,
               pc = "direct" => misreads' < MaxMisreads
        PROVE  IInv'
    <3>1. /\ job[j].todo \in Todos
          /\ job' = [job EXCEPT ![j].pc = pc, ![j].todo = job[j].todo]
      BY <2>5, ToMoves
    <3>2. /\ pc \in {"idle", "guard", "update", "list", "insert", "direct", "record",
                      "propose", "done"}
          /\ pc # "insert" /\ pc \in BeforeRuns \cup {"insert"} => job[j].pc \in BeforeRuns
      BY <2>5
    <3> QED BY <2>1, <2>2, <2>4, <2>5, <3>1, <3>2, JobMoves
  <2>6. CASE Click(j)
    BY <2>5, <2>6 DEF Click, JobAt, BeforeRuns
  <2>7. CASE TestOnePhase(j)
    <3>1. PICK p \in Phase : job' = [job EXCEPT ![j].pc = "insert", ![j].todo = <<p>>]
      BY <2>7 DEF TestOnePhase
    <3>2. job[j].pc \in BeforeRuns /\ <<p>> \in Todos /\ <<p>> # <<>>
      BY <2>7, TodosGiven DEF TestOnePhase, JobAt, BeforeRuns
    <3> QED BY <2>1, <2>2, <2>4, <3>1, <3>2, JobMoves
  <2>8. CASE CheckInFlight(j)
    BY <2>5, <2>8 DEF CheckInFlight, JobAt, BeforeRuns
  <2>9. CASE UpdateBranch(j)
    BY <2>5, <2>9 DEF UpdateBranch, JobAt, BeforeRuns
  <2>10. CASE ListPhases(j)
    <3>1. CASE job' = [job EXCEPT ![j].pc = "insert", ![j].todo = Phases]
      <4>1. job[j].pc \in BeforeRuns /\ Phases \in Todos /\ Phases # <<>>
        BY <2>10, TodosGiven, PhasesDeclared DEF ListPhases, JobAt, BeforeRuns
      <4> QED BY <2>1, <2>2, <2>4, <3>1, <4>1, JobMoves
    <3>2. CASE JobTo(j, IF j \in Lands THEN "direct" ELSE "done") /\ Misread
      <4>1. misreads' < MaxMisreads
        BY <2>1, <3>2, BoundsNat DEF Misread, BudgetOK
      <4> QED BY <2>5, <3>2, <4>1 DEF BeforeRuns
    <3> QED BY <2>10, <3>1, <3>2 DEF ListPhases
  <2>11. CASE MergeDirectly(j)
    BY <2>5, <2>11 DEF MergeDirectly, MergePr, BeforeRuns
  <2>12. CASE RecordDirect(j) \/ ProposeDirect(j) \/ JobThrows(j)
    BY <2>5, <2>12 DEF RecordDirect, ProposeDirect, JobThrows, BeforeRuns
  <2> QED BY <1>3, <2>6, <2>7, <2>8, <2>9, <2>10, <2>11, <2>12 DEF JobGoesOn
<1> QED BY <1>1, <1>2, <1>3

-----------------------------------------------------------------------------
(* The invariant holds.                                                    *)

LEMMA InitHolds == Init => IInv
<1> SUFFICES ASSUME Init PROVE IInv
  OBVIOUS
<1>1. [pc |-> "idle", todo |-> <<>>, run |-> 0] \in Job
  BY TodosGiven, JobIs
<1>2. /\ runs \in Seq(Run) /\ Len(runs) = 0 /\ DOMAIN runs = {}
      /\ job = [j \in Jobs |-> [pc |-> "idle", todo |-> <<>>, run |-> 0]]
  BY DEF Init
<1>3. \A j \in Jobs : job[j].pc = "idle" /\ job[j].run = 0
  BY <1>2
<1>4. job \in [Jobs -> Job]
  BY <1>1, <1>2
<1>5. OthersOK /\ BudgetOK
  <2>1. OthersOK
    BY DEF Init, OthersOK
  <2>2. BudgetOK
    BY BoundsNat DEF Init, BudgetOK
  <2> QED BY <2>1, <2>2
<1>6. TypeInv
  BY <1>2, <1>3, <1>4, <1>5 DEF Init, TypeInv, NoSweep
<1>7. \A j \in Jobs : JobOK(j)
  BY <1>2, <1>3 DEF JobOK
<1> QED BY <1>2, <1>6, <1>7 DEF IInv, OnePerPhase

LEMMA StepHolds == IInv /\ [Next]_vars => IInv'
<1> SUFFICES ASSUME IInv, [Next]_vars PROVE IInv'
  OBVIOUS
<1>1. ASSUME NEW j \in Jobs, Click(j) \/ TestOnePhase(j) \/ JobGoesOn(j) \/ JobThrows(j)
      PROVE  IInv'
  BY <1>1, JobInv
<1>2. ASSUME NEW r \in DOMAIN runs,
             RunnerStarts(r) \/ RunnerEnds(r) \/ RunnerDies(r) \/ PodReaped(r)
      PROVE  IInv'
  BY <1>2, RunnerInv
<1>3. ASSUME NEW r \in DOMAIN runs, Gate(r) \/ GateThrows(r) PROVE IInv'
  BY <1>3, GateInv
<1>4. CASE Sweep
  BY <1>4, SweepInv
<1>5. CASE Connect \/ Disconnect \/ AgentPushes
  BY <1>5, RestInv
<1>6. CASE BossCrash
  BY <1>6, CrashInv
<1>7. CASE UNCHANGED vars
  <2>1. /\ UNCHANGED <<runs, job, sweep, verified, ready, merged, proposed, listening, head,
                       verdicts, pushes, faults, misreads>>
        /\ OthersOK /\ BudgetOK
        /\ sweep \in [pc : {"idle", "listed", "write"}, held : SUBSET (DOMAIN runs)]
    BY <1>7 DEF vars, IInv, TypeInv
  <2>2. OthersOK' /\ BudgetOK' /\ misreads' <= misreads
    BY <2>1 DEF OthersOK, BudgetOK
  <2> QED BY <2>1, <2>2, OthersOnly
<1> QED BY <1>1, <1>2, <1>3, <1>4, <1>5, <1>6, <1>7 DEF Next

LEMMA InvHolds == Spec => []IInv
  BY InitHolds, StepHolds, PTL DEF Spec

\* One run for each phase of each job: no more runs than MaxRuns.
LEMMA RunsBounded ==
    ASSUME IInv
    PROVE  Len(runs) <= MaxRuns
<1> DEFINE n == Len(runs)
           f == [i \in 1 .. n |-> <<runs[i].by, runs[i].phase>>]
<1>1. /\ n \in Nat /\ DOMAIN runs = 1 .. n
      /\ \A i \in 1 .. n : runs[i].by \in Jobs /\ runs[i].phase \in Phase
  <2>1. n \in Nat /\ DOMAIN runs = 1 .. n /\ \A i \in 1 .. n : runs[i] \in Run
    BY DEF IInv, TypeInv
  <2> HIDE DEF n
  <2> QED BY <2>1 DEF Run
<1>2. f \in [1 .. n -> Jobs \X Phase] /\ \A a, b \in 1 .. n : f[a] = f[b] => a = b
  BY <1>1 DEF IInv, OnePerPhase
<1>3. f \in Injection(1 .. n, Jobs \X Phase)
  <2> HIDE DEF f
  <2> QED BY <1>2, Fun_IsInj
<1>4. Len(Phases) \in Nat /\ Phases \in Bijection(1 .. Len(Phases), Phase)
  <2>1. Len(Phases) \in Nat /\ DOMAIN Phases = 1 .. Len(Phases)
    BY PhasesDeclared
  <2>2. Phases \in [1 .. Len(Phases) -> Phase]
    BY <2>1, PhasesDeclared DEF Phase, ToSet
  <2>3. \A a, b \in 1 .. Len(Phases) : Phases[a] = Phases[b] => a = b
    BY <2>1, PhasesDeclared DEF IsInjective
  <2>4. \A p \in Phase : \E i \in 1 .. Len(Phases) : Phases[i] = p
    BY <2>1 DEF Phase, ToSet
  <2> QED BY <2>1, <2>2, <2>3, <2>4, Fun_IsInj, Fun_IsSurj DEF Bijection
<1>5. Cardinality(Phase) = Len(Phases)
  BY <1>4, FS_CountingElements DEF ExistsBijection
<1>6. IsFiniteSet(Phase)
  BY <1>4, FS_NatBijection DEF ExistsBijection
<1>7. IsFiniteSet(Jobs) /\ Cardinality(Jobs) \in Nat
  BY JobsFinite, FS_Union, FS_CardinalityType DEF Jobs
<1>8. /\ IsFiniteSet(Jobs \X Phase)
      /\ Cardinality(Jobs \X Phase) = Cardinality(Jobs) * Len(Phases)
  BY <1>5, <1>6, <1>7, FS_Product
<1>9. Cardinality(1 .. n) = n
  BY <1>1, FS_Interval
<1>10. n <= Cardinality(Jobs) * Len(Phases)
  <2> HIDE DEF f, n
  <2> QED BY <1>3, <1>8, <1>9, FS_Injection
<1>11. Cardinality(Jobs) * Len(Phases) = Len(Phases) * Cardinality(Jobs)
  BY <1>4, <1>7
<1> QED BY <1>10, <1>11 DEF MaxRuns

\* The state is well-typed for any number of lands and test requests: a job
\* inserts each phase once, so the runs stay within MaxRuns (pipeline/service.ts,
\* runPhase).
THEOREM TypeCorrect == Spec => []TypeOK
<1>1. IInv => TypeOK
  BY RunsBounded, JobIs DEF IInv, TypeInv, TypeOK, OthersOK, BudgetOK
<1> QED BY <1>1, InvHolds, PTL

-----------------------------------------------------------------------------
(* Merging, and leaving draft.                                             *)

\* A handler that acts on a green batch has seen every phase it waits for pass.
LEMMA GreenHasPassed ==
    ASSUME IInv, NEW r \in DOMAIN runs, runs[r].gate = "act", runs[r].green
    PROVE  misreads < MaxMisreads \/ \A p \in Phase : PassedIn(p, runs[r].land)
  BY DEF IInv, HandlerOK

LEMMA WhoMerges ==
    ASSUME Next, ~merged, merged'
    PROVE  \/ \E j \in Jobs : MergeDirectly(j)
           \/ \E r \in DOMAIN runs : ActOnLand(r) /\ runs[r].green
<1>1. ASSUME NEW j \in Jobs, Click(j) \/ TestOnePhase(j) \/ JobGoesOn(j) \/ JobThrows(j)
      PROVE  MergeDirectly(j)
  BY <1>1 DEF Click, TestOnePhase, JobGoesOn, JobThrows, CheckInFlight, UpdateBranch, ListPhases,
              InsertRun, LaunchRun, RecordDirect, ProposeDirect, forge
<1>2. ASSUME NEW r \in DOMAIN runs,
             RunnerStarts(r) \/ RunnerEnds(r) \/ RunnerDies(r) \/ PodReaped(r)
      PROVE  FALSE
  BY <1>2 DEF RunnerStarts, RunnerEnds, RunnerDies, PodReaped, RunnerStep, forge
<1>3. ASSUME NEW r \in DOMAIN runs, Gate(r) \/ GateThrows(r)
      PROVE  ActOnLand(r) /\ runs[r].green
  BY <1>3 DEF Gate, GateThrows, Expect, ReadBatch, ClaimBatch, ActOnLand, ActOnPr, RecordLand,
              ProposeDeploy, forge
<1>4. ~Sweep /\ ~Connect /\ ~Disconnect /\ ~BossCrash /\ ~AgentPushes
  BY DEF Sweep, SweepLists, SweepFindsPods, SweepAborts, SweepStep, Connect, Disconnect,
         BossCrash, AgentPushes, forge
<1> QED BY <1>1, <1>2, <1>3, <1>4 DEF Next

LEMMA WhoReadies ==
    ASSUME Next, ~ready, ready'
    PROVE  \/ \E j \in Jobs : MergeDirectly(j)
           \/ \E r \in DOMAIN runs : (ActOnLand(r) \/ ActOnPr(r)) /\ runs[r].green
<1>1. ASSUME NEW j \in Jobs, Click(j) \/ TestOnePhase(j) \/ JobGoesOn(j) \/ JobThrows(j)
      PROVE  MergeDirectly(j)
  BY <1>1 DEF Click, TestOnePhase, JobGoesOn, JobThrows, CheckInFlight, UpdateBranch, ListPhases,
              InsertRun, LaunchRun, RecordDirect, ProposeDirect, forge
<1>2. ASSUME NEW r \in DOMAIN runs,
             RunnerStarts(r) \/ RunnerEnds(r) \/ RunnerDies(r) \/ PodReaped(r)
      PROVE  FALSE
  BY <1>2 DEF RunnerStarts, RunnerEnds, RunnerDies, PodReaped, RunnerStep, forge
<1>3. ASSUME NEW r \in DOMAIN runs, Gate(r) \/ GateThrows(r)
      PROVE  (ActOnLand(r) \/ ActOnPr(r)) /\ runs[r].green
  BY <1>3 DEF Gate, GateThrows, Expect, ReadBatch, ClaimBatch, ActOnLand, ActOnPr, RecordLand,
              ProposeDeploy, forge
<1>4. ~Sweep /\ ~Connect /\ ~Disconnect /\ ~BossCrash /\ ~AgentPushes
  BY DEF Sweep, SweepLists, SweepFindsPods, SweepAborts, SweepStep, Connect, Disconnect,
         BossCrash, AgentPushes, forge
<1> QED BY <1>1, <1>2, <1>3, <1>4 DEF Next

\* A direct merge is there only after a read that GitHub did not answer.
LEMMA DirectIsMisread ==
    ASSUME IInv, NEW j \in Jobs, MergeDirectly(j)
    PROVE  misreads < MaxMisreads
  BY DEF IInv, JobOK, MergeDirectly, JobAt

\* For any phases, lands, test requests and faults, a pull request is merged only
\* after every phase has passed in a land's retest, or after a read of
\* pipeline.yaml that GitHub did not answer (completion.ts:120-165).
THEOREM MergeSeesRetest == Spec => MergedAfterRetest
<1>1. IInv /\ [Next]_vars =>
        [~merged /\ merged' => misreads < MaxMisreads \/ \A p \in Phase : PassedIn(p, TRUE)]_vars
  <2> SUFFICES ASSUME IInv, Next, ~merged, merged'
               PROVE  misreads < MaxMisreads \/ \A p \in Phase : PassedIn(p, TRUE)
    BY Zenon
  <2>1. CASE \E j \in Jobs : MergeDirectly(j)
    BY <2>1, DirectIsMisread
  <2>2. CASE \E r \in DOMAIN runs : ActOnLand(r) /\ runs[r].green
    <3>1. PICK r \in DOMAIN runs : ActOnLand(r) /\ runs[r].green
      BY <2>2
    <3>2. runs[r].gate = "act" /\ runs[r].land = TRUE
      BY <3>1 DEF ActOnLand, IInv, TypeInv, Run
    <3> QED BY <3>1, <3>2, GreenHasPassed
  <2> QED BY <2>1, <2>2, WhoMerges
<1> QED BY <1>1, InvHolds, PTL DEF Spec, MergedAfterRetest

LEMMA ReadyStep ==
    ASSUME IInv, Next, ~ready, ready'
    PROVE  misreads < MaxMisreads \/ \E land \in BOOLEAN : \A p \in Phase : PassedIn(p, land)
<1>1. CASE \E j \in Jobs : MergeDirectly(j)
  BY <1>1, DirectIsMisread
<1>2. CASE \E r \in DOMAIN runs : (ActOnLand(r) \/ ActOnPr(r)) /\ runs[r].green
  <2>1. PICK r \in DOMAIN runs : (ActOnLand(r) \/ ActOnPr(r)) /\ runs[r].green
    BY <1>2
  <2>2. runs[r].gate = "act"
    BY <2>1 DEF ActOnLand, ActOnPr
  <2>3. runs[r].land \in BOOLEAN
    <3>1. runs[r] \in Run
      BY DEF IInv, TypeInv
    <3> QED BY <3>1 DEF Run
  <2>4. misreads < MaxMisreads \/ \A p \in Phase : PassedIn(p, runs[r].land)
    BY <2>1, <2>2, GreenHasPassed
  <2> QED BY <2>3, <2>4
<1> QED BY <1>1, <1>2, WhoReadies

\* It leaves draft only after every phase has passed, in one mode or the other, or
\* after such a read (completion.ts:1-5).
ReadyUnlessMisread ==
    [][~ready /\ ready' => misreads < MaxMisreads \/
                            \E land \in BOOLEAN : \A p \in Phase : PassedIn(p, land)]_vars

\* So it is for any phases, lands, test requests and faults.
THEOREM ReadySeesTests == Spec => ReadyUnlessMisread
<1>1. IInv /\ [Next]_vars =>
        [~ready /\ ready' => misreads < MaxMisreads \/
                            \E land \in BOOLEAN : \A p \in Phase : PassedIn(p, land)]_vars
  BY ReadyStep
<1> QED BY <1>1, InvHolds, PTL DEF Spec, ReadyUnlessMisread

\* Where GitHub answers every read of pipeline.yaml, a pull request leaves draft
\* only after every phase has passed (completion.ts:1-5).
THEOREM ReadyWhenAnswered ==
    ASSUME MaxMisreads = 0
    PROVE  Spec => ReadyAfterTests
<1>1. ASSUME IInv PROVE ~(misreads < MaxMisreads)
  BY <1>1 DEF IInv, TypeInv, BudgetOK
<1>2. IInv /\ [Next]_vars =>
        [~ready /\ ready' => \E land \in BOOLEAN : \A p \in Phase : PassedIn(p, land)]_vars
  BY <1>1, ReadyStep
<1> QED BY <1>2, InvHolds, PTL DEF Spec, ReadyAfterTests

-----------------------------------------------------------------------------
(* Claims and verdicts.                                                    *)

\* Every phase that handler r reads for has a finished run, in r's mode.
SeenAll(r) ==
    /\ runs[r].gate = "read"
    /\ \A p \in runs[r].expected :
         \E i \in DOMAIN runs : OfBatch(i, r, p) /\ runs[i].status \in Finished

\* What a step that neither claims nor acts does to a run.
CalmRun(a, b) ==
    /\ b.land = a.land /\ b.phase = a.phase /\ b.posted = a.posted
    /\ a.exit # "none" => b.exit = a.exit
    /\ b.gate = "act" => a.gate = "act"
    /\ b.status \in Finished => a.status \in Finished \/ a.exit = "none"

Calm ==
    /\ verdicts' = verdicts /\ DOMAIN runs \subseteq DOMAIN runs'
    /\ \A r \in DOMAIN runs : /\ CalmRun(runs[r], runs'[r])
                              /\ runs'[r].gate = "claim" => runs[r].gate = "claim" \/ SeenAll(r)
    /\ \A r \in DOMAIN runs' \ DOMAIN runs :
         /\ runs'[r].gate = "none"
         /\ runs'[r].land => \E j \in Lands : JobAt(j, "insert")

LEMMA CalmSelf ==
    ASSUME UNCHANGED <<runs, verdicts>>
    PROVE  Calm
  BY DEF Calm, CalmRun

LEMMA CalmPut ==
    ASSUME TypeInv, NEW r \in DOMAIN runs, NEW new \in Run, Put(r, new), UNCHANGED verdicts,
           CalmRun(runs[r], new), new.gate = "claim" => runs[r].gate = "claim" \/ SeenAll(r)
    PROVE  Calm
<1>1. /\ DOMAIN runs' = DOMAIN runs /\ runs'[r] = new
      /\ \A i \in DOMAIN runs \ {r} : runs'[i] = runs[i]
  BY PutFacts
<1>2. ASSUME NEW i \in DOMAIN runs
      PROVE  /\ CalmRun(runs[i], runs'[i])
             /\ runs'[i].gate = "claim" => runs[i].gate = "claim" \/ SeenAll(i)
  <2>1. CASE i = r
    BY <1>1, <2>1
  <2>2. CASE i # r
    BY <1>1, <2>2 DEF CalmRun
  <2> QED BY <2>1, <2>2
<1> QED BY <1>1, <1>2 DEF Calm

LEMMA CalmRunner ==
    ASSUME IInv, NEW r \in DOMAIN runs,
           RunnerStarts(r) \/ RunnerEnds(r) \/ RunnerDies(r) \/ PodReaped(r)
    PROVE  Calm
<1>1. TypeInv /\ runs[r] \in Run /\ RunOK(runs[r]) /\ OthersOK
  BY DEF IInv, TypeInv
<1>2. UNCHANGED verdicts
  BY DEF RunnerStarts, RunnerEnds, RunnerDies, PodReaped, RunnerStep
<1>3. CASE RunnerStarts(r)
  <2> DEFINE new == [runs[r] EXCEPT !.pod = "up", !.status = "running", !.head = head]
  <2>1. new \in Run /\ CalmRun(runs[r], new) /\ new.gate = runs[r].gate
    BY <1>1 DEF Run, CalmRun, OthersOK, InFlight, Finished
  <2>2. Put(r, new)
    BY <1>3 DEF RunnerStarts
  <2> HIDE DEF new
  <2> QED BY <1>1, <1>2, <2>1, <2>2, CalmPut
<1>4. CASE RunnerEnds(r)
  <2>1. PICK s \in Finished :
          Put(r, [Complete(runs[r], s) EXCEPT !.pod = "exited",
                                              !.exit = IF s = "passed" THEN "zero" ELSE "other"])
    BY <1>4 DEF RunnerEnds
  <2> DEFINE c == Complete(runs[r], s)
             new == [c EXCEPT !.pod = "exited", !.exit = IF s = "passed" THEN "zero" ELSE "other"]
  <2>2. /\ c \in Run /\ c.phase = runs[r].phase /\ c.land = runs[r].land
        /\ c.posted = runs[r].posted /\ c.gate \in {runs[r].gate, "expect"}
    BY <1>1, CompleteFacts
  <2>3. runs[r].exit = "none"
    BY <1>1, <1>4 DEF RunnerEnds, RunOK, Run
  <2>4. Put(r, new)
    BY <2>1
  <2> HIDE DEF c
  <2>5. new \in Run
    BY <2>2 DEF Run
  <2>6. /\ new.phase = c.phase /\ new.land = c.land /\ new.posted = c.posted /\ new.gate = c.gate
    BY <2>2 DEF Run
  <2> HIDE DEF new
  <2>7. CalmRun(runs[r], new) /\ (new.gate = "claim" => runs[r].gate = "claim")
    BY <2>2, <2>3, <2>6 DEF CalmRun
  <2> QED BY <1>1, <1>2, <2>4, <2>5, <2>7, CalmPut
<1>5. CASE RunnerDies(r) \/ PodReaped(r)
  <2>1. PICK p \in {"exited", "none"} : Put(r, [runs[r] EXCEPT !.pod = p])
    BY <1>5 DEF RunnerDies, PodReaped
  <2> DEFINE new == [runs[r] EXCEPT !.pod = p]
  <2>2. new \in Run /\ CalmRun(runs[r], new) /\ new.gate = runs[r].gate
    BY <1>1 DEF Run, CalmRun
  <2>3. Put(r, new)
    BY <2>1
  <2> HIDE DEF new
  <2> QED BY <1>1, <1>2, <2>2, <2>3, CalmPut
<1> QED BY <1>3, <1>4, <1>5

LEMMA CalmGate ==
    ASSUME IInv, NEW r \in DOMAIN runs, Gate(r) \/ GateThrows(r), ~ClaimBatch(r), ~ActOnLand(r)
    PROVE  Calm
<1>1. TypeInv /\ runs[r] \in Run
  BY DEF IInv, TypeInv
<1>2. UNCHANGED verdicts
  BY DEF Gate, GateThrows, Expect, ReadBatch, ActOnPr, RecordLand, ProposeDeploy
<1>3. CASE ReadBatch(r)
  <2>1. PICK green \in BOOLEAN :
             \/ Put(r, [runs[r] EXCEPT !.gate = "none", !.expected = {}])
             \/ /\ Put(r, [runs[r] EXCEPT !.gate = "claim", !.green = green])
                /\ \A p \in runs[r].expected :
                      \E i \in DOMAIN runs : FinishedRun(i, r, p, green)
    BY <1>3, ReadBatchFacts
  <2>2. CASE Put(r, [runs[r] EXCEPT !.gate = "none", !.expected = {}])
    <3> DEFINE new == [runs[r] EXCEPT !.gate = "none", !.expected = {}]
    <3>1. new \in Run /\ CalmRun(runs[r], new) /\ new.gate = "none"
      BY <1>1 DEF Run, CalmRun
    <3>2. Put(r, new)
      BY <2>2
    <3> HIDE DEF new
    <3> QED BY <1>1, <1>2, <3>1, <3>2, CalmPut
  <2>3. CASE /\ Put(r, [runs[r] EXCEPT !.gate = "claim", !.green = green])
             /\ \A p \in runs[r].expected :
                   \E i \in DOMAIN runs : FinishedRun(i, r, p, green)
    <3> DEFINE new == [runs[r] EXCEPT !.gate = "claim", !.green = green]
    <3>1. new \in Run /\ CalmRun(runs[r], new)
      BY <1>1 DEF Run, CalmRun
    <3>2. Put(r, new) /\ SeenAll(r)
      BY <1>3, <2>3 DEF SeenAll, FinishedRun, ReadBatch
    <3> HIDE DEF new
    <3> QED BY <1>1, <1>2, <3>1, <3>2, CalmPut
  <2> QED BY <2>1, <2>2, <2>3
<1>4. CASE Expect(r)
  <2>1. PICK e \in {Phase, {runs[r].phase}} :
          Put(r, [runs[r] EXCEPT !.gate = "read", !.expected = e])
    BY <1>4 DEF Expect
  <2> DEFINE new == [runs[r] EXCEPT !.gate = "read", !.expected = e]
  <2>2. e \in SUBSET Phase
    BY <1>1 DEF Run
  <2>3. new \in Run /\ CalmRun(runs[r], new) /\ new.gate = "read"
    BY <1>1, <2>2 DEF Run, CalmRun
  <2>4. Put(r, new)
    BY <2>1
  <2> HIDE DEF new
  <2> QED BY <1>1, <1>2, <2>3, <2>4, CalmPut
<1>5. CASE RecordLand(r)
  <2> DEFINE new == [runs[r] EXCEPT !.gate = "propose"]
  <2>1. new \in Run /\ CalmRun(runs[r], new) /\ new.gate = "propose"
    BY <1>1 DEF Run, CalmRun
  <2>2. Put(r, new)
    BY <1>5 DEF RecordLand
  <2> HIDE DEF new
  <2> QED BY <1>1, <1>2, <2>1, <2>2, CalmPut
<1>6. CASE ActOnPr(r) \/ ProposeDeploy(r) \/ GateThrows(r)
  <2> DEFINE new == [runs[r] EXCEPT !.gate = "none", !.expected = {}, !.green = FALSE]
  <2>1. new \in Run /\ CalmRun(runs[r], new) /\ new.gate = "none"
    BY <1>1 DEF Run, CalmRun
  <2>2. Put(r, new)
    BY <1>6 DEF ActOnPr, ProposeDeploy, GateThrows, Leave
  <2> HIDE DEF new
  <2> QED BY <1>1, <1>2, <2>1, <2>2, CalmPut
<1> QED BY <1>3, <1>4, <1>5, <1>6 DEF Gate

LEMMA CalmJob ==
    ASSUME IInv, NEW j \in Jobs, Click(j) \/ TestOnePhase(j) \/ JobGoesOn(j) \/ JobThrows(j)
    PROVE  Calm
<1>1. CASE InsertRun(j)
  <2>1. /\ JobOK(j) /\ job[j].todo \in Todos /\ JobAt(j, "insert")
        /\ runs \in Seq(Run) /\ DOMAIN runs = 1 .. Len(runs) /\ Len(runs) \in Nat
        /\ UNCHANGED verdicts
    <3>1. job[j] \in Job
      BY DEF IInv, TypeInv
    <3> QED BY <1>1, <3>1, JobIs DEF InsertRun, JobStep, IInv, TypeInv
  <2> DEFINE row == [phase |-> Head(job[j].todo), land |-> j \in Lands,
                     status |-> "pending", exit |-> "none", posted |-> FALSE, head |-> 0,
                     pod |-> "none", gate |-> "none", expected |-> {},
                     green |-> FALSE, by |-> j]
  <2>2. Head(job[j].todo) \in Phase
    BY <2>1, TodoFacts DEF JobOK, JobAt
  <2>3. row \in Run /\ row.gate = "none" /\ row.land = (j \in Lands)
    <3>1. (j \in Lands) \in BOOLEAN
      OBVIOUS
    <3> QED BY <2>2, <3>1 DEF Run, InFlight
  <2>4. runs' = Append(runs, row)
    BY <1>1 DEF InsertRun
  <2> HIDE DEF row
  <2>5. /\ DOMAIN runs' = DOMAIN runs \cup {Len(runs) + 1} /\ runs'[Len(runs) + 1] = row
        /\ \A r \in DOMAIN runs : runs'[r] = runs[r]
    BY <2>1, <2>3, <2>4, AppendProperties
  <2> QED BY <2>1, <2>3, <2>5 DEF Calm, CalmRun
<1>2. CASE LaunchRun(j)
  <2> DEFINE r == job[j].run
             new == [runs[r] EXCEPT !.pod = "starting"]
  <2>1. TypeInv /\ r \in DOMAIN runs /\ UNCHANGED verdicts
    BY <1>2 DEF IInv, JobOK, LaunchRun, JobStep, JobAt
  <2>2. runs[r] \in Run
    BY <2>1 DEF TypeInv
  <2>3. Put(r, new)
    BY <1>2 DEF LaunchRun
  <2> HIDE DEF r
  <2>4. new \in Run /\ CalmRun(runs[r], new) /\ new.gate = runs[r].gate
    BY <2>2 DEF Run, CalmRun
  <2> HIDE DEF new
  <2> QED BY <2>1, <2>3, <2>4, CalmPut
<1>3. CASE ~InsertRun(j) /\ ~LaunchRun(j)
  <2>1. UNCHANGED <<runs, verdicts>>
    BY <1>3 DEF JobGoesOn, Click, TestOnePhase, CheckInFlight, UpdateBranch, ListPhases, JobThrows,
                MergeDirectly, RecordDirect, ProposeDirect, JobStep
  <2> QED BY <2>1, CalmSelf
<1> QED BY <1>1, <1>2, <1>3

LEMMA CalmRest ==
    ASSUME IInv, Sweep \/ Connect \/ Disconnect \/ BossCrash \/ AgentPushes \/ UNCHANGED vars
    PROVE  Calm
<1>1. \A r \in DOMAIN runs : runs[r] \in Run
  BY DEF IInv, TypeInv
<1>2. CASE SweepAborts
  <2> DEFINE new(r) == IF r \in sweep.held THEN Complete(runs[r], "aborted") ELSE runs[r]
  <2>1. /\ runs' = [r \in DOMAIN runs |-> new(r)] /\ UNCHANGED verdicts
    BY <1>2 DEF SweepAborts, SweepStep
  <2>2. ASSUME NEW r \in DOMAIN runs
        PROVE  CalmRun(runs[r], new(r)) /\ (new(r).gate = "claim" => runs[r].gate = "claim")
    <3> DEFINE c == Complete(runs[r], "aborted")
    <3>1. /\ c.status = "aborted" /\ c.phase = runs[r].phase /\ c.land = runs[r].land
          /\ c.exit = runs[r].exit /\ c.posted = runs[r].posted
          /\ c.gate \in {runs[r].gate, "expect"}
      BY <1>1, CompleteFacts
    <3>2. new(r) \in {c, runs[r]}
      OBVIOUS
    <3> HIDE DEF c, new
    <3> QED BY <3>1, <3>2 DEF CalmRun, Finished
  <2> HIDE DEF new
  <2> QED BY <2>1, <2>2 DEF Calm
<1>3. CASE BossCrash
  <2> DEFINE new(r) == [runs[r] EXCEPT !.gate = "none", !.expected = {}, !.green = FALSE]
  <2>1. /\ runs' = [r \in DOMAIN runs |-> new(r)] /\ UNCHANGED verdicts
    BY <1>3 DEF BossCrash
  <2>2. ASSUME NEW r \in DOMAIN runs
        PROVE  CalmRun(runs[r], new(r)) /\ new(r).gate = "none"
    BY <1>1 DEF Run, CalmRun
  <2> HIDE DEF new
  <2> QED BY <2>1, <2>2 DEF Calm
<1>4. CASE ~SweepAborts /\ ~BossCrash
  <2>1. UNCHANGED <<runs, verdicts>>
    BY <1>4 DEF Sweep, SweepLists, SweepFindsPods, SweepStep, Connect, Disconnect, AgentPushes, vars
  <2> QED BY <2>1, CalmSelf
<1> QED BY <1>2, <1>3, <1>4

\* A step claims a batch, acts on a land, or is calm.
LEMMA StepIsCalm ==
    ASSUME IInv, [Next]_vars
    PROVE  Calm \/ \E r \in DOMAIN runs : ClaimBatch(r) \/ ActOnLand(r)
<1>1. ASSUME NEW r \in DOMAIN runs, Gate(r) \/ GateThrows(r)
      PROVE  Calm \/ ClaimBatch(r) \/ ActOnLand(r)
  BY <1>1, CalmGate
<1> QED BY <1>1, CalmRunner, CalmJob, CalmRest DEF Next

-----------------------------------------------------------------------------
(* Every verdict on a land has claimed a run that no other had.            *)

LEMMA FiniteRuns ==
    ASSUME NEW s \in Seq(Run), NEW S \in SUBSET DOMAIN s
    PROVE  IsFiniteSet(S) /\ Cardinality(S) \in Nat
<1>1. IsFiniteSet(DOMAIN s)
  <2>1. DOMAIN s = 1 .. Len(s) /\ Len(s) \in Nat
    OBVIOUS
  <2> QED BY <2>1, FS_Interval
<1> QED BY <1>1, FS_Subset, FS_CardinalityType

LEMMA ActFacts ==
    ASSUME IInv, NEW r \in DOMAIN runs, ActOnLand(r)
    PROVE  /\ r \in Acting /\ Acting' \subseteq Acting \ {r} /\ verdicts' = verdicts + 1
           /\ DOMAIN runs' = DOMAIN runs
           /\ \A i \in DOMAIN runs :
                /\ runs'[i].land = runs[i].land /\ runs'[i].phase = runs[i].phase
                /\ runs'[i].posted = runs[i].posted /\ runs'[i].exit = runs[i].exit
                /\ runs'[i].status = runs[i].status
                /\ runs'[i].gate = "claim" => runs[i].gate = "claim"
<1>1. TypeInv /\ runs[r] \in Run
  BY DEF IInv, TypeInv
<1>2. runs[r].land /\ runs[r].gate = "act" /\ verdicts' = verdicts + 1
  BY DEF ActOnLand
<1>3. PICK new \in Run :
        /\ Put(r, new)
        /\ new.land = runs[r].land /\ new.phase = runs[r].phase
        /\ new.posted = runs[r].posted /\ new.exit = runs[r].exit
        /\ new.status = runs[r].status /\ new.gate \in {"record", "none"}
  <2>1. CASE Leave(r)
    <3> DEFINE new == [runs[r] EXCEPT !.gate = "none", !.expected = {}, !.green = FALSE]
    <3>1. /\ new \in Run
          /\ new.land = runs[r].land /\ new.phase = runs[r].phase
          /\ new.posted = runs[r].posted /\ new.exit = runs[r].exit
          /\ new.status = runs[r].status /\ new.gate = "none"
      BY <1>1 DEF Run
    <3>2. Put(r, new)
      BY <2>1 DEF Leave
    <3> HIDE DEF new
    <3> QED BY <3>1, <3>2
  <2>2. CASE Put(r, [runs[r] EXCEPT !.gate = "record"])
    <3> DEFINE new == [runs[r] EXCEPT !.gate = "record"]
    <3>1. /\ new \in Run
          /\ new.land = runs[r].land /\ new.phase = runs[r].phase
          /\ new.posted = runs[r].posted /\ new.exit = runs[r].exit
          /\ new.status = runs[r].status /\ new.gate = "record"
      BY <1>1 DEF Run
    <3>2. Put(r, new)
      BY <2>2
    <3> HIDE DEF new
    <3> QED BY <3>1, <3>2
  <2> QED BY <2>1, <2>2 DEF ActOnLand, MergePr
<1>4. /\ DOMAIN runs' = DOMAIN runs /\ runs'[r] = new
      /\ \A i \in DOMAIN runs \ {r} : runs'[i] = runs[i]
  BY <1>1, <1>3, PutFacts
<1>5. Acting' \subseteq Acting \ {r}
  BY <1>3, <1>4 DEF Acting
<1> QED BY <1>2, <1>3, <1>4, <1>5 DEF Acting

LEMMA PaidStep ==
    ASSUME IInv, IInv', PaidFor, [Next]_vars
    PROVE  PaidFor'
<1>1. /\ runs \in Seq(Run) /\ runs' \in Seq(Run) /\ verdicts \in Nat
      /\ Acting \in SUBSET DOMAIN runs /\ Claimed \in SUBSET DOMAIN runs
      /\ Acting' \in SUBSET DOMAIN runs' /\ Claimed' \in SUBSET DOMAIN runs'
  BY DEF IInv, TypeInv, OthersOK, Acting, Claimed
<1>2. /\ IsFiniteSet(Acting) /\ IsFiniteSet(Claimed)
      /\ Cardinality(Acting) \in Nat /\ Cardinality(Claimed) \in Nat
      /\ IsFiniteSet(Acting') /\ IsFiniteSet(Claimed')
      /\ Cardinality(Acting') \in Nat /\ Cardinality(Claimed') \in Nat
  <2> HIDE DEF Acting, Claimed
  <2> QED BY <1>1, FiniteRuns
<1>3. ASSUME Acting' \subseteq Acting, Claimed \subseteq Claimed', verdicts' = verdicts
      PROVE  PaidFor'
  <2>1. Cardinality(Acting') <= Cardinality(Acting) /\ Cardinality(Claimed) <= Cardinality(Claimed')
    BY <1>2, <1>3, FS_Subset
  <2> QED BY <1>1, <1>2, <1>3, <2>1 DEF PaidFor
<1>4. CASE Calm
  <2>1. Acting' \subseteq Acting
    BY <1>4 DEF Acting, Calm, CalmRun
  <2>2. Claimed \subseteq Claimed'
    BY <1>4 DEF Claimed, Calm, CalmRun
  <2> QED BY <1>3, <1>4, <2>1, <2>2 DEF Calm
<1>5. CASE \E r \in DOMAIN runs : ClaimBatch(r)
  <2>1. PICK r \in DOMAIN runs : ClaimBatch(r)
    BY <1>5
  <2>2. TypeInv /\ verdicts' = verdicts
    BY <2>1 DEF IInv, ClaimBatch
  <2>3. Claimed \subseteq Claimed'
    BY <2>1, <2>2, ClaimFacts DEF Claimed, RunStep
  <2>4. CASE Claimable(r) = {} \/ ~runs[r].land
    <3>1. Acting' \subseteq Acting
      BY <2>1, <2>2, <2>4, ClaimFacts DEF Acting, RunStep
    <3> QED BY <1>3, <2>2, <2>3, <3>1
  <2>5. CASE Claimable(r) # {} /\ runs[r].land
    <3>1. PICK i : i \in Claimable(r)
      BY <2>5
    <3>2. i \in DOMAIN runs /\ runs[i].land /\ ~runs[i].posted
      BY <2>5, <3>1 DEF Claimable
    <3>3. i \in Claimed' /\ i \notin Claimed
      BY <2>1, <2>2, <3>1, <3>2, ClaimFacts DEF Claimed, RunStep
    <3>4. Acting' \subseteq Acting \cup {r}
      BY <2>1, <2>2, ClaimFacts DEF Acting, RunStep
    <3>5. Cardinality(Claimed) + 1 <= Cardinality(Claimed')
      <4>1. Claimed \cup {i} \in SUBSET Claimed'
        BY <2>3, <3>3
      <4>2. Cardinality(Claimed \cup {i}) = Cardinality(Claimed) + 1
        BY <1>2, <3>3, FS_AddElement
      <4>3. Cardinality(Claimed \cup {i}) <= Cardinality(Claimed')
        BY <1>2, <4>1, FS_Subset
      <4> QED BY <4>2, <4>3
    <3>6. Cardinality(Acting') <= Cardinality(Acting) + 1
      <4>1. /\ IsFiniteSet(Acting \cup {r})
            /\ Cardinality(Acting \cup {r}) = IF r \in Acting THEN Cardinality(Acting)
                                                              ELSE Cardinality(Acting) + 1
        BY <1>2, FS_AddElement
      <4>2. Cardinality(Acting') <= Cardinality(Acting \cup {r})
        BY <3>4, <4>1, FS_Subset
      <4>3. Cardinality(Acting \cup {r}) \in Nat
        BY <4>1, FS_CardinalityType
      <4> QED BY <1>2, <4>1, <4>2, <4>3
    <3> QED BY <1>1, <1>2, <2>2, <3>5, <3>6 DEF PaidFor
  <2> QED BY <2>4, <2>5
<1>6. CASE \E r \in DOMAIN runs : ActOnLand(r)
  <2>1. PICK r \in DOMAIN runs : ActOnLand(r)
    BY <1>6
  <2>2. r \in Acting /\ Acting' \subseteq Acting \ {r} /\ verdicts' = verdicts + 1
    BY <2>1, ActFacts
  <2>3. Claimed' = Claimed
    BY <2>1, ActFacts DEF Claimed
  <2>4. Cardinality(Acting') + 1 <= Cardinality(Acting)
    <3>1. IsFiniteSet(Acting \ {r}) /\ Cardinality(Acting \ {r}) = Cardinality(Acting) - 1
      BY <1>2, <2>2, FS_RemoveElement
    <3>2. Cardinality(Acting') <= Cardinality(Acting \ {r})
      BY <2>2, <3>1, FS_Subset
    <3> QED BY <1>2, <3>1, <3>2
  <2> QED BY <1>1, <1>2, <2>2, <2>3, <2>4 DEF PaidFor
<1> QED BY <1>4, <1>5, <1>6, StepIsCalm

LEMMA PaidInit == Init => PaidFor
<1> SUFFICES ASSUME Init PROVE PaidFor
  OBVIOUS
<1>1. DOMAIN runs = {} /\ verdicts = 0
  BY DEF Init
<1>2. Acting = {} /\ Claimed = {}
  BY <1>1 DEF Acting, Claimed
<1> QED BY <1>1, <1>2, FS_EmptySet DEF PaidFor

\* For any phases, lands, pushes and faults, the land batches acted upon are no
\* more than the runs of lands that were claimed: no run is acted upon twice
\* (completion.ts:116-119, claimTestBatch).
THEOREM VerdictsAreClaimed == Spec => []PaidFor
<1>1. IInv /\ IInv' /\ PaidFor /\ [Next]_vars => PaidFor'
  BY PaidStep
<1> QED BY <1>1, PaidInit, InvHolds, PTL DEF Spec

\* With one test phase, each land is acted upon at most once, for any number of
\* lands at a time.
THEOREM OneActOnePhase ==
    ASSUME Len(Phases) = 1
    PROVE  Spec => []OneActPerLand
<1>1. ASSUME IInv, PaidFor PROVE OneActPerLand
  <2>1. /\ runs \in Seq(Run) /\ verdicts \in Nat
        /\ Acting \in SUBSET DOMAIN runs /\ Claimed \in SUBSET DOMAIN runs
        /\ \A r \in DOMAIN runs : runs[r] \in Run
    BY <1>1 DEF IInv, TypeInv, OthersOK, Acting, Claimed
  <2>2. /\ IsFiniteSet(Acting) /\ IsFiniteSet(Claimed)
        /\ Cardinality(Acting) \in Nat /\ Cardinality(Claimed) \in Nat
    <3> HIDE DEF Acting, Claimed
    <3> QED BY <2>1, FiniteRuns
  <2>3. verdicts <= Cardinality(Claimed)
    BY <1>1, <2>1, <2>2 DEF PaidFor
  <2>4. IsFiniteSet(Retested)
    <3>1. Retested \in SUBSET Jobs
      BY <2>1 DEF Retested, Run
    <3> QED BY <3>1, FS_Union, FS_Subset, JobsFinite DEF Jobs
  <2> DEFINE f == [r \in Claimed |-> runs[r].by]
  <2>5. f \in [Claimed -> Retested]
    BY DEF Claimed, Retested
  <2>6. \A a, b \in Claimed : f[a] = f[b] => a = b
    <3>1. \A p, q \in Phase : p = q
      BY PhasesDeclared DEF Phase, ToSet
    <3>2. \A a, b \in DOMAIN runs : runs[a].phase = runs[b].phase
      BY <2>1, <3>1 DEF Run
    <3> QED BY <1>1, <2>1, <3>2 DEF IInv, OnePerPhase
  <2>7. Cardinality(Claimed) <= Cardinality(Retested)
    <3>1. f \in Injection(Claimed, Retested)
      <4> HIDE DEF f
      <4> QED BY <2>5, <2>6, Fun_IsInj
    <3> HIDE DEF f
    <3> QED BY <2>4, <3>1, FS_Injection
  <2>8. Cardinality(Retested) \in Nat
    BY <2>4, FS_CardinalityType
  <2> QED BY <2>1, <2>2, <2>3, <2>7, <2>8 DEF OneActPerLand
<1> QED BY <1>1, InvHolds, VerdictsAreClaimed, PTL

-----------------------------------------------------------------------------
(* One land at a time, every read answered.                                *)

OneLand == \A a, b \in Lands : a = b

\* A single land has one run of each phase.
LEMMA LandRunsApart ==
    ASSUME IInv, OneLand, NEW a \in DOMAIN runs, NEW b \in DOMAIN runs,
           runs[a].land, runs[b].land, runs[a].phase = runs[b].phase
    PROVE  a = b
<1>1. RunOK(runs[a]) /\ RunOK(runs[b])
  BY DEF IInv
<1>2. runs[a].by = runs[b].by
  BY <1>1 DEF RunOK, OneLand
<1> QED BY <1>2 DEF IInv, OnePerPhase

\* Once a run of every phase has ended, no run of a land is inserted.
LEMMA NoMoreLandRuns ==
    ASSUME IInv, OneLand, LandEnded, NEW j \in Lands, JobAt(j, "insert")
    PROVE  FALSE
<1>1. JobOK(j) /\ job[j] \in Job
  BY DEF IInv, TypeInv, Jobs
<1>2. job[j].todo \in Todos
  BY <1>1, JobIs
<1>3. Head(job[j].todo) \in ToSet(job[j].todo) /\ Head(job[j].todo) \in Phase
  BY <1>1, <1>2, TodoFacts DEF JobOK, JobAt
<1>4. PICK r \in DOMAIN runs : runs[r].phase = Head(job[j].todo) /\ runs[r].land
  BY <1>3 DEF LandEnded
<1>5. runs[r].by = j
  BY <1>4 DEF IInv, RunOK, OneLand
<1> QED BY <1>1, <1>3, <1>4, <1>5 DEF JobOK, JobAt

\* Without a misread a handler waits for every phase.
LEMMA WaitsForAll ==
    ASSUME IInv, MaxMisreads = 0, NEW r \in DOMAIN runs, runs[r].gate \in {"read", "claim", "act"}
    PROVE  runs[r].expected = Phase
<1>1. HandlerOK(r) /\ misreads \in 0 .. MaxMisreads
  BY DEF IInv, TypeInv, BudgetOK
<1>2. ~(misreads < MaxMisreads)
  BY <1>1
<1> QED BY <1>1, <1>2 DEF HandlerOK

LEMMA PhaseOfRun ==
    ASSUME IInv, NEW r \in DOMAIN runs
    PROVE  runs[r].phase \in Phase /\ RunOK(runs[r])
<1>1. runs[r] \in Run
  BY DEF IInv, TypeInv
<1> QED BY <1>1 DEF IInv, Run

LEMMA SeenIsEnded ==
    ASSUME IInv, OneLand, MaxMisreads = 0, NEW r \in DOMAIN runs, SeenAll(r), runs[r].land
    PROVE  LandEnded
<1>1. runs[r].expected = Phase
  BY WaitsForAll DEF SeenAll
<1>2. ASSUME NEW p \in Phase
      PROVE  \E i \in DOMAIN runs : runs[i].phase = p /\ runs[i].land /\ runs[i].exit # "none"
  <2>1. PICK i \in DOMAIN runs : OfBatch(i, r, p) /\ runs[i].status \in Finished
    BY <1>1 DEF SeenAll
  <2> QED BY <2>1, PhaseOfRun DEF OfBatch, RunOK
<1>3. ASSUME NEW k \in DOMAIN runs, runs[k].land PROVE runs[k].exit # "none"
  <2>1. PICK i \in DOMAIN runs :
          runs[i].phase = runs[k].phase /\ runs[i].land /\ runs[i].exit # "none"
    BY <1>2, PhaseOfRun
  <2>2. i = k
    BY <1>3, <2>1, LandRunsApart
  <2> QED BY <2>1, <2>2
<1> QED BY <1>2, <1>3 DEF LandEnded

LEMMA CalmKeepsShut ==
    ASSUME IInv, OneLand, Calm
    PROVE  (LandEnded => LandEnded') /\ (Shut => Shut')
<1>1. ASSUME LandEnded, NEW r \in DOMAIN runs', runs'[r].land PROVE r \in DOMAIN runs
  BY <1>1, NoMoreLandRuns DEF Calm
<1>2. ASSUME LandEnded PROVE LandEnded'
  <2>1. ASSUME NEW p \in Phase
        PROVE  \E r \in DOMAIN runs' : runs'[r].phase = p /\ runs'[r].land
    <3>1. PICK r \in DOMAIN runs : runs[r].phase = p /\ runs[r].land
      BY <1>2 DEF LandEnded
    <3> QED BY <3>1 DEF Calm, CalmRun
  <2>2. ASSUME NEW r \in DOMAIN runs', runs'[r].land PROVE runs'[r].exit # "none"
    <3>1. r \in DOMAIN runs
      BY <1>1, <1>2, <2>2
    <3> QED BY <1>2, <2>2, <3>1 DEF LandEnded, Calm, CalmRun
  <2> QED BY <2>1, <2>2 DEF LandEnded
<1>3. ASSUME Shut PROVE Shut'
  <2>1. ASSUME NEW r \in DOMAIN runs', runs'[r].land, runs'[r].status \in Finished
        PROVE  runs'[r].posted
    <3>1. r \in DOMAIN runs
      BY <1>1, <1>3, <2>1 DEF Shut
    <3> QED BY <1>3, <2>1, <3>1 DEF Shut, LandEnded, Calm, CalmRun
  <2> QED BY <1>2, <1>3, <2>1 DEF Shut
<1> QED BY <1>2, <1>3

\* So do a claim and a verdict.
LEMMA SameKeepsShut ==
    ASSUME DOMAIN runs' = DOMAIN runs,
           \A i \in DOMAIN runs :
              /\ runs'[i].land = runs[i].land /\ runs'[i].phase = runs[i].phase
              /\ runs'[i].exit = runs[i].exit /\ runs'[i].status = runs[i].status
              /\ runs[i].posted => runs'[i].posted
    PROVE  (LandEnded => LandEnded') /\ (Shut => Shut')
  BY DEF LandEnded, Shut

LEMMA ActedStep ==
    ASSUME IInv, IInv', OneLand, MaxMisreads = 0, ActedOnce, [Next]_vars
    PROVE  ActedOnce'
<1>1. CASE Calm
  <2>1. Acting' \subseteq Acting
    BY <1>1 DEF Acting, Calm, CalmRun
  <2>2. (LandEnded => LandEnded') /\ (Shut => Shut')
    BY <1>1, CalmKeepsShut
  <2>3. ASSUME NEW r \in DOMAIN runs', runs'[r].land, runs'[r].gate = "claim" PROVE LandEnded'
    <3>1. r \in DOMAIN runs /\ runs[r].land /\ (runs[r].gate = "claim" \/ SeenAll(r))
      BY <1>1, <2>3 DEF Calm, CalmRun
    <3>2. LandEnded
      BY <3>1, SeenIsEnded DEF ActedOnce
    <3> QED BY <2>2, <3>2
  <2>4. verdicts' = verdicts
    BY <1>1 DEF Calm
  <2> QED BY <2>1, <2>2, <2>3, <2>4 DEF ActedOnce
<1>2. CASE \E r \in DOMAIN runs : ClaimBatch(r)
  <2>1. PICK r \in DOMAIN runs : ClaimBatch(r)
    BY <1>2
  <2>2. TypeInv /\ verdicts' = verdicts /\ runs[r].gate = "claim"
    BY <2>1 DEF IInv, ClaimBatch
  <2>3. /\ DOMAIN runs' = DOMAIN runs
        /\ \A i \in DOMAIN runs :
             /\ runs'[i].land = runs[i].land /\ runs'[i].phase = runs[i].phase
             /\ runs'[i].exit = runs[i].exit /\ runs'[i].status = runs[i].status
             /\ runs'[i].posted <=> runs[i].posted \/ i \in Claimable(r)
        /\ \A i \in DOMAIN runs \ {r} : runs'[i].gate = runs[i].gate
        /\ runs'[r].gate = IF Claimable(r) = {} THEN "none" ELSE "act"
    BY <2>1, <2>2, ClaimFacts DEF RunStep
  <2>4. (LandEnded => LandEnded') /\ (Shut => Shut')
    BY <2>3, SameKeepsShut
  <2>5. ASSUME NEW i \in DOMAIN runs', runs'[i].land, runs'[i].gate = "claim" PROVE LandEnded'
    <3>1. runs[i].land /\ runs[i].gate = "claim" /\ i \in DOMAIN runs
      BY <2>3, <2>5
    <3> QED BY <2>4, <3>1 DEF ActedOnce
  <2>6. CASE Claimable(r) = {} \/ ~runs[r].land
    <3>1. Acting' \subseteq Acting
      BY <2>3, <2>6 DEF Acting
    <3> QED BY <2>2, <2>4, <2>5, <3>1 DEF ActedOnce
  <2>7. CASE Claimable(r) # {} /\ runs[r].land
    <3>1. LandEnded
      BY <2>2, <2>7 DEF ActedOnce
    <3>2. ~Shut
      BY <2>7 DEF Claimable, Shut
    <3>3. verdicts = 0 /\ Acting = {}
      BY <3>2 DEF ActedOnce
    <3>4. Acting' \subseteq {r}
      BY <2>3, <3>3 DEF Acting
    <3>5. ASSUME NEW i \in DOMAIN runs', runs'[i].land, runs'[i].status \in Finished
          PROVE  runs'[i].posted
      <4>1. i \in DOMAIN runs /\ runs[i].land /\ runs[i].status \in Finished
        BY <2>3, <3>5
      <4>2. runs[i].phase \in runs[r].expected
        BY <2>2, <4>1, WaitsForAll, PhaseOfRun
      <4>3. runs[i].posted \/ i \in Claimable(r)
        BY <2>7, <4>1, <4>2 DEF Claimable
      <4> QED BY <2>3, <4>1, <4>3
    <3>6. Shut'
      BY <2>4, <3>1, <3>5 DEF Shut
    <3> QED BY <2>2, <2>5, <3>3, <3>4, <3>6 DEF ActedOnce
  <2> QED BY <2>6, <2>7
<1>3. CASE \E r \in DOMAIN runs : ActOnLand(r)
  <2>1. PICK r \in DOMAIN runs : ActOnLand(r)
    BY <1>3
  <2>2. /\ r \in Acting /\ Acting' \subseteq Acting \ {r} /\ verdicts' = verdicts + 1
        /\ DOMAIN runs' = DOMAIN runs
        /\ \A i \in DOMAIN runs :
             /\ runs'[i].land = runs[i].land /\ runs'[i].phase = runs[i].phase
             /\ runs'[i].posted = runs[i].posted /\ runs'[i].exit = runs[i].exit
             /\ runs'[i].status = runs[i].status
             /\ runs'[i].gate = "claim" => runs[i].gate = "claim"
    BY <2>1, ActFacts
  <2>3. Shut /\ verdicts = 0 /\ Acting = {r}
    BY <2>2 DEF ActedOnce
  <2>4. verdicts' = 1 /\ Acting' = {}
    BY <2>2, <2>3
  <2>5. Shut'
    BY <2>2, <2>3, SameKeepsShut
  <2> QED BY <2>4, <2>5 DEF ActedOnce, Shut
<1> QED BY <1>1, <1>2, <1>3, StepIsCalm

LEMMA ActedInit == Init => ActedOnce
<1> SUFFICES ASSUME Init PROVE ActedOnce
  OBVIOUS
<1>1. DOMAIN runs = {} /\ verdicts = 0
  BY DEF Init
<1>2. Acting = {}
  BY <1>1 DEF Acting
<1> QED BY <1>1, <1>2 DEF ActedOnce

\* With any number of test phases that complete together, each with its handler, a
\* land is acted upon at most once, where no other land is there and GitHub answers
\* every read (completion.ts:116-119).
THEOREM OneActOneLand ==
    ASSUME OneLand, MaxMisreads = 0
    PROVE  Spec => []OneActPerLand
<1>1. IInv /\ IInv' /\ ActedOnce /\ [Next]_vars => ActedOnce'
  BY ActedStep
<1>2. ASSUME IInv, ActedOnce PROVE OneActPerLand
  <2>1. Retested \in SUBSET Jobs
    <3>1. \A r \in DOMAIN runs : runs[r] \in Run
      BY <1>2 DEF IInv, TypeInv
    <3> QED BY <3>1 DEF Retested, Run
  <2>2. IsFiniteSet(Retested) /\ Cardinality(Retested) \in Nat
    BY <2>1, FS_Union, FS_Subset, FS_CardinalityType, JobsFinite DEF Jobs
  <2>3. verdicts = 1 => Retested # {}
    <3>1. PICK p : p \in Phase
      <4>1. 1 \in DOMAIN Phases
        BY PhasesDeclared
      <4> QED BY <4>1 DEF Phase, ToSet
    <3> QED BY <1>2, <3>1 DEF ActedOnce, Shut, LandEnded, Retested
  <2>4. Retested # {} => Cardinality(Retested) # 0
    BY <2>2, FS_EmptySet
  <2> QED BY <1>2, <2>2, <2>3, <2>4 DEF ActedOnce, OneActPerLand
<1> QED BY <1>1, <1>2, ActedInit, InvHolds, PTL DEF Spec

=============================================================================
