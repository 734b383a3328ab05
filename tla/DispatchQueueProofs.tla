------------------------- MODULE DispatchQueueProofs -------------------------
(***************************************************************************)
(* What holds of DispatchQueue for every set of agents and every cap: the  *)
(* types, the agreement of the in-flight map with the flows, the bound on  *)
(* the map, that the queue implements the abstract pool of SlotPool, and   *)
(* that no agent grows without its faults.                                 *)
(*                                                                         *)
(* DispatchBound is not inductive: a sweep computes its slots, and only    *)
(* two awaits later takes them.  What makes it safe is that between the    *)
(* two the map can only shrink, because every growth of the map is under   *)
(* the mutex; SlotsCovered says so.                                        *)
(*                                                                         *)
(* BumpsPaid is not inductive either: a marker that is there, or a copy    *)
(* of it that a flow or a sweep has, is a bump to come.  Still counts      *)
(* them, and no step adds to bumps and Still what no fault pays for.       *)
(*                                                                         *)
(* The last part is about TokenBudget, whose sums are the ones counted     *)
(* here.                                                                   *)
(***************************************************************************)
EXTENDS DispatchQueue, FiniteSetTheorems, WellFoundedInduction, TLAPS

CONSTANTS Users, Costs, Caps, MaxSpend, Transfers
VARIABLES config, override, priority, owner, running, daily, monthly, listed
Budget == INSTANCE TokenBudget

\* The slots a sweep holds and the flows in the map fit in the cap together.
SlotsCovered == Cardinality(dispatching) + slots <= MaxConcurrent

\* A sweep holds rows only until it has launched them.
RowsFinite == IsFiniteSet(rows)

IInv == TypeOK /\ FlowsTracked /\ RowsFinite /\ SlotsCovered

-----------------------------------------------------------------------------
(* Facts about the sets the sweep counts.                                  *)

\* A set of agents has a size.
LEMMA AgentSetSize ==
    ASSUME NEW S \in SUBSET Agents
    PROVE  IsFiniteSet(S) /\ Cardinality(S) \in Nat
BY AgentsFinite, FS_Subset, FS_CardinalityType

\* A union has no more elements than its two parts.
LEMMA UnionSize ==
    ASSUME NEW A, NEW B, IsFiniteSet(A), IsFiniteSet(B)
    PROVE  Cardinality(A \cup B) <= Cardinality(A) + Cardinality(B)
<1>1. Cardinality(A \cup B) = Cardinality(A) + Cardinality(B) - Cardinality(A \cap B)
  BY FS_Union
<1>2. IsFiniteSet(A \cap B)
  BY FS_Subset
<1>3. Cardinality(A) \in Nat /\ Cardinality(B) \in Nat /\ Cardinality(A \cap B) \in Nat
  BY <1>2, FS_CardinalityType
<1> QED BY <1>1, <1>3

\* One launch adds at most as many agents to the map as it has slots.
LEMMA LaunchFits ==
    ASSUME TypeOK, RowsFinite, NEW S, LaunchRows(S)
    PROVE  /\ {r.id : r \in S} \in SUBSET Agents
           /\ Cardinality(dispatching') <= Cardinality(dispatching) + slots
<1> DEFINE ids == {r.id : r \in S}
<1>1. S \subseteq rows /\ IsFiniteSet(S)
  BY FS_Subset DEF LaunchRows, Launchable, RowsFinite
<1>2. IsFiniteSet(Launchable) /\ Cardinality(Launchable) \in Nat
  BY FS_Subset, FS_CardinalityType DEF Launchable, RowsFinite
<1>3. Cardinality(S) <= slots
  BY <1>2 DEF LaunchRows, BatchSize, TypeOK
<1>4. ids \in SUBSET Agents
  BY <1>1 DEF TypeOK, Row
<1>5. Cardinality(ids) <= Cardinality(S)
  <2> DEFINE f == [r \in S |-> r.id]
  <2>1. f \in Surjection(S, ids)
    BY DEF Surjection
  <2> QED BY ONLY <2>1, <1>1, FS_Surjection
<1>6. Cardinality(ids) \in Nat /\ Cardinality(S) \in Nat /\ IsFiniteSet(ids)
  BY <1>1, <1>4, AgentSetSize, FS_CardinalityType
<1>7. Cardinality(dispatching) \in Nat /\ IsFiniteSet(dispatching)
  BY AgentSetSize DEF TypeOK
<1>8. Cardinality(dispatching \cup ids) <= Cardinality(dispatching) + Cardinality(ids)
  BY ONLY <1>6, <1>7, UnionSize
<1>9. dispatching' = dispatching \cup ids
  BY DEF LaunchRows
<1>10. Cardinality(dispatching \cup ids) \in Nat
  BY <1>6, <1>7, FS_Union, FS_CardinalityType
<1> QED BY <1>3, <1>4, <1>5, <1>6, <1>7, <1>8, <1>9, <1>10 DEF TypeOK

-----------------------------------------------------------------------------
(* Types.                                                                  *)

\* The bounds on users and faults.
BudgetOK == ops \in 0..MaxOps /\ inputs \in 0..MaxInputs /\ faults \in 0..MaxFaults

LEMMA BudgetTyped ==
    ASSUME TypeOK, UserOp \/ Message \/ Fault \/ NoBudget PROVE BudgetOK'
BY BoundsNat DEF TypeOK, BudgetOK, UserOp, Message, Fault, NoBudget

\* A flow without a row, at any of its steps.
LEMMA FlowTyped == /\ NoFlow \in FlowRec
                   /\ \A pc \in FlowPc : [NoFlow EXCEPT !.pc = pc] \in FlowRec
<1>1. Unsized \in Size
  BY SizesNat DEF Size, Unsized
<1>2. NoFlow \in FlowRec
  BY <1>1 DEF NoFlow, FlowRec, FlowPc
<1>3. ASSUME NEW pc \in FlowPc PROVE [NoFlow EXCEPT !.pc = pc] \in FlowRec
  BY <1>2 DEF FlowRec
<1> QED BY <1>2, <1>3

\* The rows a launch hands to its flows.
LEMMA LaunchTyped ==
    ASSUME TypeOK, NEW S \in SUBSET rows, LaunchRows(S)
    PROVE  flow' \in [Agents -> FlowRec]
<1> SUFFICES ASSUME NEW a \in Agents, \E r \in S : r.id = a
             PROVE  LET r == CHOOSE q \in S : q.id = a
                    IN  (IF r.size = Unsized \/ ResourceDeath(r)
                         THEN [pc |-> "size", size |-> r.size, marker |-> r.marker]
                         ELSE [NoFlow EXCEPT !.pc = "create"]) \in FlowRec
  BY DEF LaunchRows, TypeOK
<1> DEFINE r == CHOOSE q \in S : q.id = a
<1>1. r \in Row
  BY DEF TypeOK
<1>2. [pc |-> "size", size |-> r.size, marker |-> r.marker] \in FlowRec
  BY <1>1 DEF Row, FlowRec, FlowPc
<1>3. [NoFlow EXCEPT !.pc = "create"] \in FlowRec
  BY FlowTyped DEF FlowPc
<1> QED BY <1>2, <1>3

LEMMA TypeSweep == TypeOK /\ (Sweep \/ Connect \/ Disconnect \/ BossCrash) => TypeOK'
<1> SUFFICES ASSUME TypeOK, Sweep \/ Connect \/ Disconnect \/ BossCrash PROVE TypeOK'
  OBVIOUS
<1> USE BoundsNat, SizesNat DEF TypeOK, NoBudget, Fault, dbVars, sweepVars, history
<1>1. Cardinality(Active) \in Nat
  BY AgentSetSize DEF Active
<1>2. Cardinality(dispatching) \in Nat
  BY AgentSetSize
<1>3. EnterSweep => /\ sweepPc' = "count" /\ activeSeen' \in Nat
                    /\ slots' = slots /\ rows' = rows
  BY <1>1 DEF EnterSweep
<1>4. CASE TimerSweep
  BY <1>3, <1>4 DEF TimerSweep
<1>5. CASE NotifiedSweep
  BY <1>3, <1>5 DEF NotifiedSweep
<1>6. CASE ComputeSlots
  BY <1>2, <1>6, CapNat DEF ComputeSlots, FreeSlots
<1>7. CASE ReadQueue
  BY <1>7 DEF ReadQueue, Queued, Row
<1>8. CASE Launch
  <2> PICK S \in SUBSET rows : LaunchRows(S)
    BY <1>8 DEF Launch
  <2>1. dispatching' \in SUBSET Agents
    BY DEF LaunchRows, Row
  <2>2. flow' \in [Agents -> FlowRec]
    BY LaunchTyped
  <2> QED BY <1>8, <2>1, <2>2 DEF Launch, ReleaseMutex
<1>9. CASE Connect
  BY <1>3, <1>9 DEF Connect
<1>10. CASE Disconnect
  <2>1. BudgetOK'
    BY <1>10, BudgetTyped DEF Disconnect
  <2> QED BY <1>10, <2>1 DEF Disconnect, BudgetOK
<1>11. CASE BossCrash
  <2>1. BudgetOK'
    BY <1>11, BudgetTyped DEF BossCrash
  <2>2. flow' \in [Agents -> FlowRec]
    BY <1>11, FlowTyped DEF BossCrash
  <2> QED BY <1>11, <2>1, <2>2 DEF BossCrash, BudgetOK
<1>12. CASE SweepThrows
  <2>1. BudgetOK'
    BY <1>12, BudgetTyped DEF SweepThrows
  <2> QED BY <1>12, <2>1 DEF SweepThrows, BudgetOK
<1> QED BY <1>4, <1>5, <1>6, <1>7, <1>8, <1>9, <1>10, <1>11, <1>12 DEF Sweep

LEMMA TypeFlow == ASSUME TypeOK, NEW a \in Agents, Flow(a) PROVE TypeOK'
<1> USE BoundsNat, SizesNat DEF TypeOK, NoBudget, Fault, dbVars, sweepVars, history, State,
            FlowTo, FlowPc, Write, WriteMsg
<1>1. Cardinality(Active) \in Nat
  BY AgentSetSize DEF Active
<1>2. EnterSweep => /\ sweepPc' = "count" /\ activeSeen' \in Nat
                    /\ slots' = slots /\ rows' = rows
  BY <1>1 DEF EnterSweep
<1>3. CASE AssessSize(a)
  <2>1. PICK assessed \in Size \ {Unsized} :
           /\ size' = [size EXCEPT ![a] = IF assessed = flow[a].size THEN @ ELSE assessed]
           /\ bumps' = [bumps EXCEPT ![a] =
                           IF ResourceDeath(flow[a]) /\ size'[a] > size[a] THEN @ + 1 ELSE @]
    <3>1. ResourceDeath(flow[a]) => NextSizeUp(flow[a].size) \in Size \ {Unsized}
      <4>1. flow[a].size \in 0..TopSize
        BY DEF FlowRec, Size, Unsized
      <4> QED BY <4>1 DEF ResourceDeath, NextSizeUp, Unsized, Size
    <3> QED BY <1>3, <3>1 DEF AssessSize
  <2>2. size' \in [Agents -> Size] /\ bumps' \in [Agents -> Nat]
    BY <2>1
  <2> QED BY <1>3, <2>2, FlowTyped DEF AssessSize
<1>4. CASE ConsumeMarker(a)
  BY <1>4, FlowTyped DEF ConsumeMarker, ClearMarker
<1>5. CASE DispatchPod(a)
  BY <1>5, FlowTyped DEF DispatchPod, CreatePod, PodPhase
<1>6. CASE DispatchThrows(a)
  BY <1>6, FlowTyped DEF DispatchThrows
<1>7. CASE DispatchFailed(a)
  BY <1>7, FlowTyped DEF DispatchFailed
<1>8. CASE DispatchSettles(a)
  BY <1>2, <1>8, FlowTyped DEF DispatchSettles, LeaveFlight
<1> QED BY <1>3, <1>4, <1>5, <1>6, <1>7, <1>8 DEF Flow

LEMMA TypeUser == ASSUME TypeOK, NEW a \in Agents, User(a) PROVE TypeOK'
<1> USE BoundsNat, SizesNat DEF TypeOK, UserOp, Message, BossIdle, Notify, dbVars, sweepVars, history,
            State, Write, WriteMsg
<1>1. CASE StartAgent(a)
  BY <1>1 DEF StartAgent
<1>2. CASE Redispatch(a)
  BY <1>2 DEF Redispatch
<1>3. CASE PauseAgent(a)
  BY <1>3 DEF PauseAgent
<1>4. CASE KillAgent(a)
  BY <1>4 DEF KillAgent, PodPhase
<1>5. CASE Resize(a)
  BY <1>5 DEF Resize
<1>6. CASE SendInput(a)
  BY <1>6 DEF SendInput, CreatePod, PodPhase
<1> QED BY <1>1, <1>2, <1>3, <1>4, <1>5, <1>6 DEF User

LEMMA TypeCluster == ASSUME TypeOK, NEW a \in Agents, Cluster(a) PROVE TypeOK'
<1> USE BoundsNat, SizesNat DEF TypeOK, NoBudget, Fault, BossIdle, Notify, dbVars, sweepVars, history,
            State, Write, WriteMsg, PodPhase
<1>1. CASE WorkerBoots(a)
  BY <1>1 DEF WorkerBoots
<1>2. CASE WorkerEnds(a)
  <2>1. /\ pod' \in [Agents -> PodPhase]
        /\ state' \in [Agents -> State]
        /\ marker' \in [Agents -> BOOLEAN]
    BY <1>2 DEF WorkerEnds
  <2>2. deaths' \in [Agents -> Nat]
    BY <1>2 DEF WorkerEnds
  <2>3. BudgetOK'
    BY <1>2, BudgetTyped DEF WorkerEnds
  <2> QED BY <1>2, <2>1, <2>2, <2>3 DEF WorkerEnds, BudgetOK
<1>3. CASE PodDies(a)
  BY <1>3 DEF PodDies
<1>4. CASE ReapPod(a)
  BY <1>4 DEF ReapPod
<1>5. CASE ReapWedged(a)
  BY <1>5 DEF ReapWedged
<1>6. CASE HeartbeatReap(a)
  BY <1>6 DEF HeartbeatReap
<1> QED BY <1>1, <1>2, <1>3, <1>4, <1>5, <1>6 DEF Cluster

LEMMA TypeStep == TypeOK /\ [Next]_vars => TypeOK'
<1>1. TypeOK /\ UNCHANGED vars => TypeOK'
  BY DEF TypeOK, vars
<1> QED BY <1>1, TypeSweep, TypeFlow, TypeUser, TypeCluster DEF Next

-----------------------------------------------------------------------------
(* The map, the flows and the slots.                                       *)

\* A launch puts into the map the agents whose flows it starts.
LEMMA LaunchTracks ==
    ASSUME TypeOK, FlowsTracked, NEW S \in SUBSET rows, LaunchRows(S)
    PROVE  FlowsTracked'
<1>1. ASSUME NEW a \in Agents PROVE flow'[a].pc # "none" <=> a \in dispatching'
  <2>1. CASE \E r \in S : r.id = a
    BY <2>1 DEF LaunchRows, TypeOK, NoFlow
  <2>2. CASE ~ \E r \in S : r.id = a
    BY <2>2 DEF LaunchRows, TypeOK, FlowsTracked
  <2> QED BY <2>1, <2>2
<1>2. dispatching' \subseteq Agents
  BY DEF LaunchRows, TypeOK, Row
<1> QED BY <1>1, <1>2 DEF FlowsTracked

\* The steps that take part in the bookkeeping of the queue; every other step
\* leaves its four variables alone.
LEMMA OtherSteps ==
    ASSUME NEW a \in Agents, User(a) \/ Cluster(a)
    PROVE  UNCHANGED <<slots, rows, dispatching, flow>>
BY DEF User, Cluster, StartAgent, Redispatch, PauseAgent, KillAgent, Resize, SendInput,
       WorkerBoots, WorkerEnds, PodDies, ReapPod, ReapWedged, HeartbeatReap,
       BossIdle, sweepVars

\* A step of a flow keeps the agent in the map until the flow is over.
LEMMA FlowSteps ==
    ASSUME TypeOK, FlowsTracked, NEW a \in Agents, Flow(a)
    PROVE  /\ FlowsTracked'
           /\ dispatching' \subseteq dispatching
           /\ UNCHANGED <<slots, rows>>
<1>1. CASE DispatchSettles(a)
  BY <1>1 DEF DispatchSettles, LeaveFlight, EnterSweep, sweepVars, NoFlow, TypeOK, FlowsTracked
<1>2. CASE ~ DispatchSettles(a)
  <2>1. PICK pc \in FlowPc \ {"none"} : FlowTo(a, pc)
    BY <1>2 DEF Flow, AssessSize, ConsumeMarker, DispatchPod, DispatchThrows,
                DispatchFailed, FlowPc
  <2>2. flow[a].pc # "none"
    BY <1>2 DEF Flow, AssessSize, ConsumeMarker, DispatchPod, DispatchThrows, DispatchFailed
  <2>3. UNCHANGED <<slots, rows, dispatching>>
    BY <1>2 DEF Flow, AssessSize, ConsumeMarker, DispatchPod, DispatchThrows,
                DispatchFailed, sweepVars
  <2> QED BY <2>1, <2>2, <2>3 DEF FlowTo, NoFlow, TypeOK, FlowsTracked
<1> QED BY <1>1, <1>2

LEMMA TrackedStep == TypeOK /\ FlowsTracked /\ [Next]_vars => FlowsTracked'
<1> SUFFICES ASSUME TypeOK, FlowsTracked, [Next]_vars PROVE FlowsTracked'
  OBVIOUS
<1>1. CASE Launch
  <2> PICK S \in SUBSET rows : LaunchRows(S)
    BY <1>1 DEF Launch
  <2> QED BY LaunchTracks
<1>2. CASE BossCrash
  BY <1>2 DEF BossCrash, FlowsTracked, NoFlow
<1>3. CASE \E a \in Agents : Flow(a)
  BY <1>3, FlowSteps
<1>4. CASE UNCHANGED <<dispatching, flow>>
  BY <1>4 DEF FlowsTracked
<1> QED
  BY <1>1, <1>2, <1>3, <1>4, OtherSteps
     DEF Next, Sweep, TimerSweep, NotifiedSweep, ComputeSlots, ReadQueue, SweepThrows,
         Connect, Disconnect, vars

LEMMA RowsStep == TypeOK /\ RowsFinite /\ FlowsTracked /\ [Next]_vars => RowsFinite'
<1> SUFFICES ASSUME TypeOK, RowsFinite, FlowsTracked, [Next]_vars PROVE RowsFinite'
  OBVIOUS
<1>1. CASE ReadQueue
  <2> DEFINE f == [a \in Queued |-> [id |-> a, size |-> size[a], marker |-> marker[a]]]
  <2>1. IsFiniteSet(Queued)
    BY AgentSetSize DEF Queued
  <2>2. f \in Surjection(Queued, rows')
    BY <1>1 DEF ReadQueue, Surjection
  <2> QED BY ONLY <2>1, <2>2, FS_Surjection DEF RowsFinite
<1>2. CASE Launch \/ BossCrash
  BY <1>2, FS_EmptySet DEF Launch, BossCrash, RowsFinite
<1>3. CASE UNCHANGED rows
  BY <1>3 DEF RowsFinite
<1> QED
  BY <1>1, <1>2, <1>3, OtherSteps, FlowSteps
     DEF Next, Sweep, TimerSweep, NotifiedSweep, EnterSweep, ComputeSlots, SweepThrows,
         Connect, Disconnect, sweepVars, vars

LEMMA CoveredStep == IInv /\ [Next]_vars => SlotsCovered'
<1> SUFFICES ASSUME IInv, [Next]_vars PROVE SlotsCovered'
  OBVIOUS
<1> USE CapNat DEF IInv
<1>1. Cardinality(dispatching) \in Nat /\ slots \in Nat
  BY AgentSetSize DEF TypeOK
<1>2. CASE ComputeSlots
  <2>1. Cardinality(Active) \in Nat /\ activeSeen \in Nat /\ UNCHANGED dispatching
    BY <1>2, AgentSetSize DEF Active, TypeOK, ComputeSlots
  <2> QED BY <1>1, <1>2, <2>1 DEF ComputeSlots, FreeSlots, SlotsCovered
<1>3. CASE Launch
  <2> PICK S \in SUBSET rows : LaunchRows(S)
    BY <1>3 DEF Launch
  <2>1. dispatching' \in SUBSET Agents
    BY LaunchFits DEF LaunchRows, TypeOK
  <2>2. Cardinality(dispatching') \in Nat
    BY <2>1, AgentSetSize
  <2>3. Cardinality(dispatching') <= Cardinality(dispatching) + slots
    BY LaunchFits
  <2> QED BY <1>1, <1>3, <2>2, <2>3 DEF Launch, SlotsCovered
<1>4. CASE BossCrash \/ SweepThrows
  BY <1>1, <1>4, FS_EmptySet DEF BossCrash, SweepThrows, SlotsCovered
<1>5. CASE dispatching' \subseteq dispatching /\ UNCHANGED slots
  <2>1. IsFiniteSet(dispatching) /\ dispatching' \in SUBSET dispatching
    BY <1>5, AgentSetSize DEF TypeOK
  <2>2. Cardinality(dispatching') <= Cardinality(dispatching)
    BY <2>1, FS_Subset
  <2>3. Cardinality(dispatching') \in Nat
    BY <2>1, FS_Subset, FS_CardinalityType
  <2> QED BY <1>1, <1>5, <2>2, <2>3 DEF SlotsCovered
<1> QED
  BY <1>2, <1>3, <1>4, <1>5, OtherSteps, FlowSteps
     DEF Next, Sweep, TimerSweep, NotifiedSweep, EnterSweep, ReadQueue, Connect,
         Disconnect, sweepVars, vars

-----------------------------------------------------------------------------
(* Sums over a finite set.  The fold that OwnFaults is made of takes the   *)
(* elements in the order in which CHOOSE picks them; Total is what its     *)
(* recursive function satisfies.                                           *)

Picked(T) == CHOOSE x \in T : TRUE

Rest(f, g, T) == IF T = {} THEN 0 ELSE f[Picked(T)] + g[T \ {Picked(T)}]

Total(f, S, g) == g = [T \in SUBSET S |-> Rest(f, g, T)]

\* A set of numbers that has 0, and with a number the next one, has them all.
LEMMA EveryNumber ==
    ASSUME NEW K \in SUBSET Nat, 0 \in K, \A n \in K : n + 1 \in K
    PROVE  K = Nat
<1> DEFINE R == {p \in Nat \X Nat : p[1] < p[2]}
           M == Nat \ K
<1> SUFFICES ASSUME M # {} PROVE FALSE
  OBVIOUS
<1>1. IsWellFoundedOn(R, Nat)
  BY NatLessThanWellFounded DEF OpToRel
<1>2. PICK x \in M : \A y \in M : <<y, x>> \notin R
  <2>1. M \subseteq Nat
    OBVIOUS
  <2> HIDE DEF R, M
  <2> QED BY <1>1, <2>1, WFMin
<1>3. x \in Nat /\ x # 0 /\ x \notin K
  OBVIOUS
<1>4. x - 1 \in Nat /\ <<x - 1, x>> \in R
  BY <1>3
<1>5. x - 1 \in K
  BY <1>2, <1>4
<1> QED BY <1>3, <1>5

\* A set that is not empty shrinks when its picked element is taken.
LEMMA Shrinks ==
    ASSUME NEW T, IsFiniteSet(T), T # {}
    PROVE  /\ Picked(T) \in T
           /\ IsFiniteSet(T \ {Picked(T)})
           /\ Cardinality(T) \in Nat
           /\ Cardinality(T \ {Picked(T)}) \in Nat
           /\ Cardinality(T \ {Picked(T)}) = Cardinality(T) - 1
<1>1. Picked(T) \in T
  BY DEF Picked
<1> QED BY <1>1, FS_RemoveElement, FS_CardinalityType

LEMMA TotalExists ==
    ASSUME NEW S, IsFiniteSet(S), NEW D, S \subseteq D, NEW f \in [D -> Nat]
    PROVE  \E g : Total(f, S, g)
<1> DEFINE Good(g, n) == \A T \in SUBSET S : Cardinality(T) <= n => g[T] = Rest(f, g, T)
           K == {n \in Nat : \E g \in [SUBSET S -> Nat] : Good(g, n)}
<1>1. \A T \in SUBSET S : IsFiniteSet(T)
  BY FS_Subset
<1>2. 0 \in K
  <2> DEFINE g == [T \in SUBSET S |-> 0]
  <2>1. ASSUME NEW T \in SUBSET S, Cardinality(T) <= 0 PROVE T = {}
    BY <1>1, <2>1, FS_EmptySet, FS_CardinalityType
  <2>2. Good(g, 0)
    BY <2>1 DEF Rest
  <2> QED BY <2>2
<1>3. ASSUME NEW n \in K PROVE n + 1 \in K
  <2>1. PICK g \in [SUBSET S -> Nat] : Good(g, n)
    BY <1>3
  <2> DEFINE h == [T \in SUBSET S |-> Rest(f, g, T)]
  <2>2. ASSUME NEW T \in SUBSET S, T # {}
        PROVE  /\ Picked(T) \in D /\ T \ {Picked(T)} \in SUBSET S
               /\ Rest(f, g, T) = f[Picked(T)] + g[T \ {Picked(T)}]
               /\ Rest(f, h, T) = f[Picked(T)] + h[T \ {Picked(T)}]
    <3>1. Picked(T) \in T
      BY <2>2 DEF Picked
    <3> HIDE DEF h
    <3> QED BY <2>2, <3>1 DEF Rest
  <2>3. \A T \in SUBSET S : Rest(f, g, T) \in Nat
    <3> TAKE T \in SUBSET S
    <3>1. CASE T = {}
      BY <3>1 DEF Rest
    <3>2. CASE T # {}
      <4>1. f[Picked(T)] \in Nat /\ g[T \ {Picked(T)}] \in Nat
        BY <2>2, <3>2
      <4>2. Rest(f, g, T) = f[Picked(T)] + g[T \ {Picked(T)}]
        BY <2>2, <3>2
      <4> QED BY <4>1, <4>2
    <3> QED BY <3>1, <3>2
  <2>4. h \in [SUBSET S -> Nat] /\ \A T \in SUBSET S : h[T] = Rest(f, g, T)
    BY <2>3
  <2> HIDE DEF h
  <2>5. ASSUME NEW T \in SUBSET S, Cardinality(T) <= n + 1 PROVE h[T] = Rest(f, h, T)
    <3>1. CASE T = {}
      BY <2>4, <3>1 DEF Rest
    <3>2. CASE T # {}
      <4> DEFINE U == T \ {Picked(T)}
      <4>1. U \in SUBSET S /\ Cardinality(U) <= n
        <5>1. U \in SUBSET S /\ IsFiniteSet(T)
          BY <1>1, <2>2, <3>2
        <5>2. Cardinality(T) \in Nat /\ Cardinality(U) = Cardinality(T) - 1
          BY <3>2, <5>1, Shrinks
        <5> QED BY <2>5, <5>1, <5>2
      <4>2. h[U] = g[U]
        BY <2>1, <2>4, <4>1
      <4> QED BY <2>2, <2>4, <3>2, <4>2
    <3> QED BY <3>1, <3>2
  <2>6. Good(h, n + 1)
    BY <2>5
  <2> QED BY <2>4, <2>6
<1> HIDE DEF K
<1>4. K = Nat
  <2>1. K \in SUBSET Nat
    BY DEF K
  <2> QED BY <1>2, <1>3, <2>1, EveryNumber
<1>5. Cardinality(S) \in K
  BY <1>4, FS_CardinalityType
<1>6. PICK g \in [SUBSET S -> Nat] : Good(g, Cardinality(S))
  BY <1>5 DEF K
<1>7. ASSUME NEW T \in SUBSET S PROVE g[T] = Rest(f, g, T)
  BY <1>6, FS_Subset
<1> QED BY <1>7 DEF Total

LEMMA TotalIs ==
    ASSUME NEW S, NEW f, NEW g, Total(f, S, g)
    PROVE  /\ g[{}] = 0
           /\ \A T \in SUBSET S : T # {} => g[T] = f[Picked(T)] + g[T \ {Picked(T)}]
BY DEF Total, Rest

LEMMA TotalTyped ==
    ASSUME NEW S, IsFiniteSet(S), NEW D, S \subseteq D, NEW f \in [D -> Nat], NEW g, Total(f, S, g)
    PROVE  g \in [SUBSET S -> Nat]
<1> DEFINE K == {n \in Nat : \A T \in SUBSET S : Cardinality(T) = n => g[T] \in Nat}
<1>1. \A T \in SUBSET S : IsFiniteSet(T) /\ Cardinality(T) \in Nat
  BY FS_Subset, FS_CardinalityType
<1>2. g[{}] = 0
  BY TotalIs
<1>3. \A T \in SUBSET S : T # {} => g[T] = f[Picked(T)] + g[T \ {Picked(T)}]
  BY TotalIs
<1>4. 0 \in K
  BY <1>1, <1>2, FS_EmptySet
<1>5. ASSUME NEW n \in K PROVE n + 1 \in K
  <2> SUFFICES ASSUME NEW T \in SUBSET S, Cardinality(T) = n + 1 PROVE g[T] \in Nat
    OBVIOUS
  <2>1. T # {}
    BY FS_EmptySet
  <2> DEFINE U == T \ {Picked(T)}
  <2>2. Picked(T) \in D /\ U \in SUBSET S /\ Cardinality(U) = n
    BY <1>1, <2>1, Shrinks
  <2>3. g[U] \in Nat /\ f[Picked(T)] \in Nat
    BY <2>2
  <2>4. g[T] = f[Picked(T)] + g[U]
    BY <1>3, <2>1
  <2> QED BY <2>3, <2>4
<1>6. K = Nat
  <2>1. K \in SUBSET Nat
    OBVIOUS
  <2> HIDE DEF K
  <2> QED BY <1>4, <1>5, <2>1, EveryNumber
<1>7. \A T \in SUBSET S : g[T] \in Nat
  BY <1>1, <1>6
<1>8. g = [T \in SUBSET S |-> g[T]]
  BY DEF Total
<1> QED BY <1>7, <1>8

\* The sum of a finite set of numbers is a number.
LEMMA SumTyped ==
    ASSUME NEW S, IsFiniteSet(S), NEW D, S \subseteq D, NEW f \in [D -> Nat]
    PROVE  /\ SumFunctionOnSet(f, S) \in Nat
           /\ \E g : Total(f, S, g) /\ SumFunctionOnSet(f, S) = g[S]
<1> DEFINE g == CHOOSE g : Total(f, S, g)
<1>1. Total(f, S, g)
  BY TotalExists
<1>2. SumFunctionOnSet(f, S) = g[S]
  BY DEF SumFunctionOnSet, FoldFunctionOnSet, MapThenFoldSet, Total, Rest, Picked
<1> HIDE DEF g
<1>3. g \in [SUBSET S -> Nat]
  BY <1>1, TotalTyped
<1> QED BY <1>1, <1>2, <1>3

\* One more in one place is one more in the sum of the sets that hold it.
LEMMA SumGrows ==
    ASSUME NEW S, IsFiniteSet(S), NEW D, S \subseteq D, NEW f \in [D -> Nat], NEW a \in D
    PROVE  SumFunctionOnSet([f EXCEPT ![a] = @ + 1], S)
             = SumFunctionOnSet(f, S) + (IF a \in S THEN 1 ELSE 0)
<1> DEFINE e == [f EXCEPT ![a] = @ + 1]
           one(T) == IF a \in T THEN 1 ELSE 0
<1>1. e \in [D -> Nat] /\ e[a] = f[a] + 1 /\ \A x \in D : x # a => e[x] = f[x]
  OBVIOUS
<1> HIDE DEF e
<1>2. PICK g : Total(f, S, g) /\ SumFunctionOnSet(f, S) = g[S]
  BY SumTyped
<1>3. PICK h : Total(e, S, h) /\ SumFunctionOnSet(e, S) = h[S]
  BY <1>1, SumTyped
<1>4. /\ g \in [SUBSET S -> Nat] /\ g[{}] = 0
      /\ \A T \in SUBSET S : T # {} => g[T] = f[Picked(T)] + g[T \ {Picked(T)}]
  <2>1. g \in [SUBSET S -> Nat]
    BY <1>2, TotalTyped
  <2>2. Total(f, S, g)
    BY <1>2
  <2>3. g[{}] = 0 /\ \A T \in SUBSET S : T # {} => g[T] = f[Picked(T)] + g[T \ {Picked(T)}]
    BY <2>2 DEF Total, Rest
  <2> QED BY <2>1, <2>3
<1>5. /\ h \in [SUBSET S -> Nat] /\ h[{}] = 0
      /\ \A T \in SUBSET S : T # {} => h[T] = e[Picked(T)] + h[T \ {Picked(T)}]
  <2>1. h \in [SUBSET S -> Nat]
    BY <1>1, <1>3, TotalTyped
  <2> QED BY <1>3, <2>1, TotalIs
<1>6. \A T \in SUBSET S : IsFiniteSet(T) /\ Cardinality(T) \in Nat
  BY FS_Subset, FS_CardinalityType
<1> DEFINE K == {n \in Nat : \A T \in SUBSET S : Cardinality(T) = n => h[T] = g[T] + one(T)}
<1>7. 0 \in K
  <2>1. \A T \in SUBSET S : Cardinality(T) = 0 => T = {}
    BY <1>6, FS_EmptySet
  <2>2. h[{}] = g[{}] + one({})
    BY <1>4, <1>5
  <2> QED BY <2>1, <2>2
<1>8. ASSUME NEW n \in K PROVE n + 1 \in K
  <2> SUFFICES ASSUME NEW T \in SUBSET S, Cardinality(T) = n + 1 PROVE h[T] = g[T] + one(T)
    OBVIOUS
  <2>1. T # {}
    <3>1. n + 1 # 0
      OBVIOUS
    <3> QED BY ONLY <3>1, Cardinality(T) = n + 1, FS_EmptySet
  <2> DEFINE x == Picked(T)
             U == T \ {x}
  <2>2. x \in T /\ x \in D /\ U \in SUBSET S /\ Cardinality(U) = n
    BY <1>6, <2>1, Shrinks
  <2>3. h[U] = g[U] + one(U) /\ g[U] \in Nat
    BY <1>4, <2>2
  <2>4. g[T] = f[x] + g[U] /\ h[T] = e[x] + h[U] /\ f[x] \in Nat
    BY <1>4, <1>5, <2>1, <2>2
  <2> HIDE DEF x
  <2>5. CASE x = a
    <3>1. a \notin U /\ a \in T
      BY <2>2, <2>5
    <3> QED BY <1>1, <2>3, <2>4, <2>5, <3>1
  <2>6. CASE x # a
    <3>1. (a \in U <=> a \in T) /\ e[x] = f[x]
      BY <1>1, <2>2, <2>6
    <3> QED BY <2>3, <2>4, <3>1
  <2> QED BY <2>5, <2>6
<1>9. K = Nat
  <2>1. K \in SUBSET Nat
    OBVIOUS
  <2> HIDE DEF K
  <2> QED BY <1>7, <1>8, <2>1, EveryNumber
<1>10. Cardinality(S) \in K
  BY <1>6, <1>9
<1> QED BY <1>2, <1>3, <1>10 DEF e

\* Nothing but zeros add up to zero.
LEMMA ZeroSum ==
    ASSUME NEW S, IsFiniteSet(S), NEW D, S \subseteq D
    PROVE  SumFunctionOnSet([x \in D |-> 0], S) = 0
<1> DEFINE f == [x \in D |-> 0]
<1>1. f \in [D -> Nat]
  OBVIOUS
<1>2. PICK g : Total(f, S, g) /\ SumFunctionOnSet(f, S) = g[S]
  BY <1>1, SumTyped
<1>3. g[{}] = 0 /\ \A T \in SUBSET S : T # {} => g[T] = f[Picked(T)] + g[T \ {Picked(T)}]
  BY <1>2 DEF Total, Rest
<1>4. \A T \in SUBSET S : IsFiniteSet(T) /\ Cardinality(T) \in Nat
  BY FS_Subset, FS_CardinalityType
<1> DEFINE K == {n \in Nat : \A T \in SUBSET S : Cardinality(T) = n => g[T] = 0}
<1>5. 0 \in K
  BY <1>3, <1>4, FS_EmptySet
<1>6. ASSUME NEW n \in K PROVE n + 1 \in K
  <2> SUFFICES ASSUME NEW T \in SUBSET S, Cardinality(T) = n + 1 PROVE g[T] = 0
    OBVIOUS
  <2>1. T # {}
    <3>1. n + 1 # 0
      OBVIOUS
    <3> QED BY ONLY <3>1, Cardinality(T) = n + 1, FS_EmptySet
  <2> DEFINE U == T \ {Picked(T)}
  <2>2. Picked(T) \in D /\ U \in SUBSET S /\ Cardinality(U) = n
    BY <1>4, <2>1, Shrinks
  <2>3. g[U] = 0 /\ f[Picked(T)] = 0
    BY <2>2
  <2>4. g[T] = f[Picked(T)] + g[U]
    BY <1>3, <2>1
  <2> QED BY <2>3, <2>4
<1>7. K = Nat
  <2>1. K \in SUBSET Nat
    OBVIOUS
  <2> HIDE DEF K
  <2> QED BY <1>5, <1>6, <2>1, EveryNumber
<1>8. Cardinality(S) \in K
  BY <1>4, <1>7
<1> QED BY <1>2, <1>8

\* When one element alone is not zero, the sum is that element.
LEMMA SumOnly ==
    ASSUME NEW S, IsFiniteSet(S), NEW f \in [S -> Nat], NEW u \in S, \A x \in S : x # u => f[x] = 0
    PROVE  SumFunctionOnSet(f, S) = f[u]
<1>1. PICK g : Total(f, S, g) /\ SumFunctionOnSet(f, S) = g[S]
  BY SumTyped
<1>2. /\ g[{}] = 0
      /\ \A T \in SUBSET S : T # {} => g[T] = f[Picked(T)] + g[T \ {Picked(T)}]
  BY <1>1 DEF Total, Rest
<1>3. \A T \in SUBSET S : IsFiniteSet(T) /\ Cardinality(T) \in Nat
  BY FS_Subset, FS_CardinalityType
<1> DEFINE only(T) == IF u \in T THEN f[u] ELSE 0
           K == {n \in Nat : \A T \in SUBSET S : Cardinality(T) = n => g[T] = only(T)}
<1>4. 0 \in K
  <2>1. \A T \in SUBSET S : Cardinality(T) = 0 => T = {}
    BY <1>3, FS_EmptySet
  <2>2. g[{}] = only({})
    BY <1>2
  <2> QED BY <2>1, <2>2
<1>5. ASSUME NEW n \in K PROVE n + 1 \in K
  <2> SUFFICES ASSUME NEW T \in SUBSET S, Cardinality(T) = n + 1 PROVE g[T] = only(T)
    OBVIOUS
  <2>1. T # {}
    <3>1. n + 1 # 0
      OBVIOUS
    <3> QED BY ONLY <3>1, Cardinality(T) = n + 1, FS_EmptySet
  <2> DEFINE x == Picked(T)
             U == T \ {x}
  <2>2. x \in T /\ x \in S /\ U \in SUBSET S /\ Cardinality(U) = n
    BY <1>3, <2>1, Shrinks
  <2>3. g[U] = only(U) /\ f[x] \in Nat /\ f[u] \in Nat
    BY <2>2
  <2>4. g[T] = f[x] + g[U]
    BY <1>2, <2>1
  <2> HIDE DEF x
  <2>5. CASE x = u
    <3>1. u \notin U /\ u \in T
      BY <2>2, <2>5
    <3> QED BY <2>3, <2>4, <2>5, <3>1
  <2>6. CASE x # u
    <3>1. (u \in U <=> u \in T) /\ f[x] = 0
      BY <2>2, <2>6
    <3> QED BY <2>3, <2>4, <3>1
  <2> QED BY <2>5, <2>6
<1>6. K = Nat
  <2>1. K \in SUBSET Nat
    OBVIOUS
  <2> HIDE DEF K
  <2> QED BY <1>4, <1>5, <2>1, EveryNumber
<1>7. Cardinality(S) \in K
  BY <1>3, <1>6
<1> QED BY <1>1, <1>7

-----------------------------------------------------------------------------
(* The sizes.                                                              *)

One(b) == IF b THEN 1 ELSE 0

\* The times an agent may still grow although nothing else goes wrong: for its marker, until
\* that is consumed; then for the copies its flow and the sweep have of it; for a death of its
\* pod that is not recorded yet.
StillOf(m, f, r, p) ==
    (IF m THEN IF f.pc = "consume" THEN 1 ELSE 2
          ELSE One(f.pc = "size" /\ ResourceDeath(f)) + One(r))
    + (IF p = "oom" THEN 2 ELSE 0)

RowAhead(a) == \E r \in rows : r.id = a /\ ResourceDeath(r)
Still(a) == StillOf(marker[a], flow[a], RowAhead(a), pod[a])

BumpsCovered == \A a \in Agents : bumps[a] + Still(a) <= 2 * OwnFaults(a)

\* A step adds at most n to what an agent has grown and may still grow.
Adds(x, n) == bumps'[x] + Still(x)' <= bumps[x] + Still(x) + n

LEMMA StillTyped ==
    ASSUME NEW x
    PROVE  Still(x) \in Nat /\ Still(x)' \in Nat
BY DEF Still, StillOf, One

\* Dropping the marker, or a death that is not recorded, takes from what an agent may grow.
LEMMA StillFalls ==
    ASSUME NEW m \in BOOLEAN, NEW n \in {m, FALSE}, NEW f, NEW g, NEW r \in BOOLEAN, NEW p, NEW q,
           q = "oom" => p = "oom",
           g = f \/ {f.pc, g.pc} \cap {"size", "consume"} = {}
    PROVE  StillOf(n, g, r, q) <= StillOf(m, f, r, p)
<1> DEFINE copy(h) == h.pc = "size" /\ ResourceDeath(h)
<1>1. (f.pc = "consume" <=> g.pc = "consume") /\ (copy(f) <=> copy(g)) /\ (f.pc = "consume" => ~copy(g))
  OBVIOUS
<1>2. /\ One(copy(f)) \in {0, 1} /\ One(copy(g)) = One(copy(f)) /\ One(r) \in {0, 1}
      /\ (f.pc = "consume" => One(copy(g)) = 0)
  BY <1>1 DEF One
<1> DEFINE a == One(copy(f)) + One(r)
<1>3. a \in 0..2 /\ (f.pc = "consume" => a <= 1)
  BY <1>2
<1>4. /\ StillOf(m, f, r, p) = (IF m THEN IF f.pc = "consume" THEN 1 ELSE 2 ELSE a) + (IF p = "oom" THEN 2 ELSE 0)
      /\ StillOf(n, g, r, q) = (IF n THEN IF f.pc = "consume" THEN 1 ELSE 2 ELSE a) + (IF q = "oom" THEN 2 ELSE 0)
  BY <1>1, <1>2 DEF StillOf
<1> DEFINE left == IF f.pc = "consume" THEN 1 ELSE 2
           lost(h) == IF h = "oom" THEN 2 ELSE 0
<1>5. a \in Nat /\ left \in Nat /\ a <= left /\ lost(p) \in Nat /\ lost(q) \in Nat /\ lost(q) <= lost(p)
  BY <1>3
<1> HIDE DEF a, left, lost
<1>6. (IF n THEN left ELSE a) <= (IF m THEN left ELSE a)
  <2>1. n => m
    OBVIOUS
  <2>2. CASE n
    BY <1>5, <2>1, <2>2
  <2>3. CASE ~n
    BY <1>5, <2>3
  <2> QED BY <2>2, <2>3
<1>7. StillOf(m, f, r, p) = (IF m THEN left ELSE a) + lost(p) /\ StillOf(n, g, r, q) = (IF n THEN left ELSE a) + lost(q)
  BY <1>4 DEF left, lost
<1> QED BY <1>5, <1>6, <1>7

\* An agent whose own row, flow and pod a step leaves alone.
LEMMA AloneAdds ==
    ASSUME TypeOK, NEW x \in Agents,
           bumps'[x] = bumps[x], marker'[x] = marker[x], flow'[x] = flow[x], pod'[x] = pod[x],
           RowAhead(x)' => RowAhead(x) \/ marker[x]
    PROVE  Adds(x, 0)
<1>1. bumps[x] \in Nat /\ marker[x] \in BOOLEAN
  BY DEF TypeOK
<1>2. Still(x)' <= Still(x)
  BY DEF Still, StillOf, One, ResourceDeath
<1> QED BY <1>1, <1>2, StillTyped DEF Adds

\* The agents of a step that starts dispatches.
LEMMA LaunchAdds ==
    ASSUME TypeOK, FlowsTracked, Launch, NEW x \in Agents
    PROVE  Adds(x, 0)
<1> PICK S \in SUBSET rows : LaunchRows(S)
  BY DEF Launch
<1>1. /\ rows' = {} /\ bumps'[x] = bumps[x] /\ marker'[x] = marker[x] /\ pod'[x] = pod[x]
      /\ ~RowAhead(x)' /\ bumps[x] \in Nat /\ marker[x] \in BOOLEAN
  BY DEF Launch, TypeOK, history, dbVars, RowAhead
<1>2. CASE ~ \E r \in S : r.id = x
  <2>1. flow'[x] = flow[x]
    BY <1>2 DEF LaunchRows
  <2> QED BY <1>1, <2>1, AloneAdds
<1>3. CASE \E r \in S : r.id = x
  <2> DEFINE r == CHOOSE q \in S : q.id = x
  <2>1. r \in rows /\ r.id = x /\ x \notin dispatching
    BY <1>3 DEF LaunchRows, Launchable
  <2>2. flow[x].pc = "none"
    BY <2>1 DEF FlowsTracked
  <2>3. flow'[x] = IF r.size = Unsized \/ ResourceDeath(r)
                   THEN [pc |-> "size", size |-> r.size, marker |-> r.marker]
                   ELSE [NoFlow EXCEPT !.pc = "create"]
    BY <1>3 DEF LaunchRows
  <2> HIDE DEF r
  <2>4. flow'[x].pc # "consume"
    BY <2>3 DEF NoFlow
  <2>5. flow'[x].pc = "size" /\ ResourceDeath(flow'[x]) => RowAhead(x)
    BY <2>1, <2>3 DEF NoFlow, ResourceDeath, RowAhead
  <2>6. Still(x)' <= Still(x)
    BY <1>1, <2>2, <2>4, <2>5 DEF Still, StillOf, One, ResourceDeath
  <2> QED BY <1>1, <2>6, StillTyped DEF Adds
<1> QED BY <1>2, <1>3

LEMMA SweepAdds ==
    ASSUME TypeOK, FlowsTracked, Sweep \/ Connect \/ Disconnect, NEW x \in Agents
    PROVE  deaths' = deaths /\ faults' \in {faults, faults - 1} /\ Adds(x, 0)
<1>1. CASE Launch
  BY <1>1, LaunchAdds DEF Launch, history, NoBudget
<1>2. CASE ReadQueue
  <2>1. RowAhead(x)' => marker[x]
    BY <1>2 DEF ReadQueue, RowAhead, ResourceDeath
  <2>2. UNCHANGED <<bumps, marker, flow, pod, deaths, faults>>
    BY <1>2 DEF ReadQueue, dbVars, history, NoBudget
  <2> QED BY <2>1, <2>2, AloneAdds
<1>3. CASE ~Launch /\ ~ReadQueue
  <2>1. UNCHANGED <<bumps, marker, flow, pod, deaths, rows>>
    BY <1>3 DEF Sweep, TimerSweep, NotifiedSweep, EnterSweep, ComputeSlots, SweepThrows, Connect,
                Disconnect, dbVars, history, sweepVars
  <2>2. faults' \in {faults, faults - 1}
    BY <1>3 DEF Sweep, TimerSweep, NotifiedSweep, ComputeSlots, SweepThrows, Connect,
                Disconnect, NoBudget, Fault
  <2>3. RowAhead(x)' => RowAhead(x)
    BY <2>1 DEF RowAhead, ResourceDeath
  <2> QED BY <2>1, <2>2, <2>3, AloneAdds
<1> QED BY <1>1, <1>2, <1>3

LEMMA CrashAdds ==
    ASSUME TypeOK, BossCrash, NEW x \in Agents
    PROVE  deaths' = deaths /\ faults' = faults - 1 /\ Adds(x, 2)
<1>1. /\ bumps'[x] = bumps[x] /\ marker'[x] = marker[x] /\ pod'[x] = pod[x] /\ flow'[x] = NoFlow
      /\ deaths' = deaths /\ faults' = faults - 1 /\ ~RowAhead(x)' /\ bumps[x] \in Nat
  BY DEF BossCrash, Fault, dbVars, history, TypeOK, RowAhead
<1>2. Still(x)' <= Still(x) + 2
  BY <1>1 DEF Still, StillOf, One, NoFlow
<1> QED BY <1>1, <1>2, StillTyped DEF Adds

LEMMA FlowAdds ==
    ASSUME TypeOK, NEW a \in Agents, Flow(a), NEW x \in Agents
    PROVE  /\ deaths' = deaths
           /\ \/ faults' = faults /\ Adds(x, 0)
              \/ faults' = faults - 1 /\ Adds(x, 2)
<1>1. deaths' = deaths /\ UNCHANGED rows
  BY DEF Flow, AssessSize, ConsumeMarker, DispatchPod, DispatchThrows, DispatchFailed, DispatchSettles,
         EnterSweep, history, sweepVars
<1>2. RowAhead(x)' = RowAhead(x) /\ RowAhead(x) \in BOOLEAN /\ marker[x] \in BOOLEAN
  BY <1>1 DEF RowAhead, ResourceDeath, TypeOK
<1>3. bumps[x] \in Nat /\ bumps'[x] \in Nat /\ faults \in Nat
  BY TypeFlow DEF TypeOK
<1>4. faults' = faults \/ (DispatchThrows(a) /\ faults' = faults - 1)
  BY DEF Flow, AssessSize, ConsumeMarker, DispatchPod, DispatchThrows, DispatchFailed, DispatchSettles,
         NoBudget, Fault
<1>5. CASE x # a
  <2>1. flow'[x] = flow[x] /\ marker'[x] = marker[x] /\ pod'[x] = pod[x] /\ bumps'[x] = bumps[x]
    BY <1>5 DEF Flow, AssessSize, ConsumeMarker, DispatchPod, DispatchThrows, DispatchFailed, DispatchSettles,
                FlowTo, CreatePod, ClearMarker, WriteMsg, dbVars, history, TypeOK
  <2>2. Adds(x, 0)
    BY <1>2, <2>1, AloneAdds
  <2> QED BY <1>1, <1>3, <1>4, <2>2, StillTyped DEF Adds
<1>6. CASE x = a /\ AssessSize(a)
  <2> DEFINE dead == ResourceDeath(flow[a])
  <2>1. /\ flow[a].pc = "size" /\ marker'[a] = marker[a] /\ pod'[a] = pod[a] /\ faults' = faults
        /\ flow'[a] = [NoFlow EXCEPT !.pc = IF dead THEN "consume" ELSE "create"]
        /\ bumps'[a] <= bumps[a] + One(dead)
    BY <1>3, <1>6 DEF AssessSize, FlowTo, NoBudget, One, TypeOK
  <2>2. flow'[a].pc = IF dead THEN "consume" ELSE "create"
    BY <2>1 DEF NoFlow
  <2> HIDE DEF dead
  <2>3. Still(a)' + One(dead) <= Still(a)
    BY <1>2, <1>6, <2>1, <2>2 DEF Still, StillOf, One, dead
  <2> QED BY <1>1, <1>3, <1>6, <2>1, <2>3, StillTyped DEF Adds, One
<1>7. CASE x = a /\ ConsumeMarker(a)
  <2>1. /\ flow[a].pc = "consume" /\ marker'[a] = FALSE /\ pod'[a] = pod[a] /\ faults' = faults
        /\ flow'[a] = [NoFlow EXCEPT !.pc = "create"] /\ bumps'[a] = bumps[a]
    BY <1>7 DEF ConsumeMarker, ClearMarker, WriteMsg, FlowTo, NoBudget, history, TypeOK
  <2>2. flow'[a].pc = "create"
    BY <2>1 DEF NoFlow
  <2>3. Still(a)' <= Still(a)
    BY <1>2, <1>7, <2>1, <2>2 DEF Still, StillOf, One
  <2> QED BY <1>1, <1>3, <1>7, <2>1, <2>3, StillTyped DEF Adds
<1>8. CASE x = a /\ (DispatchPod(a) \/ DispatchFailed(a) \/ DispatchSettles(a))
  <2>1. /\ flow[a].pc \in {"create", "fail", "done"} /\ marker'[a] \in {marker[a], FALSE} /\ faults' = faults
        /\ (pod'[a] = "oom" => pod[a] = "oom") /\ bumps'[a] = bumps[a]
    BY <1>8 DEF DispatchPod, DispatchFailed, DispatchSettles, WriteMsg, CreatePod, NoBudget, dbVars, history, TypeOK
  <2>2. flow'[a] = NoFlow \/ flow'[a] = [NoFlow EXCEPT !.pc = "done"]
    BY <1>8 DEF DispatchPod, DispatchFailed, DispatchSettles, FlowTo, TypeOK
  <2>3. flow'[a].pc \in {"none", "done"}
    BY <2>2 DEF NoFlow
  <2>4. Still(a)' <= Still(a)
    <3>1. {flow[a].pc, flow'[a].pc} \cap {"size", "consume"} = {}
      BY <2>1, <2>3
    <3>2. Still(a)' = StillOf(marker'[a], flow'[a], RowAhead(a), pod'[a])
      BY <1>2, <1>8 DEF Still, StillOf, One, ResourceDeath
    <3> QED BY <1>2, <1>8, <2>1, <3>1, <3>2, StillFalls DEF Still
  <2> QED BY <1>1, <1>3, <1>8, <2>1, <2>4, StillTyped DEF Adds
<1>9. CASE x = a /\ DispatchThrows(a)
  <2>1. marker'[a] = marker[a] /\ faults' = faults - 1 /\ pod'[a] = pod[a] /\ bumps'[a] = bumps[a]
    BY <1>9 DEF DispatchThrows, Fault, dbVars, history
  <2>2. flow'[a] = [NoFlow EXCEPT !.pc = "done"] \/ flow'[a] = [NoFlow EXCEPT !.pc = "fail"]
    BY <1>9 DEF DispatchThrows, FlowTo, TypeOK
  <2>3. flow'[a].pc \in {"done", "fail"}
    BY <2>2 DEF NoFlow
  <2>4. Still(a)' <= Still(a) + 2
    BY <1>2, <1>9, <2>1, <2>3 DEF Still, StillOf, One
  <2> QED BY <1>1, <1>3, <1>9, <2>1, <2>4, StillTyped DEF Adds
<1> QED BY <1>5, <1>6, <1>7, <1>8, <1>9 DEF Flow

LEMMA UserAdds ==
    ASSUME TypeOK, NEW a \in Agents, User(a), NEW x \in Agents
    PROVE  deaths' = deaths /\ faults' = faults /\ Adds(x, 0)
<1>1. UNCHANGED <<rows, flow, bumps, deaths, faults>>
  BY OtherSteps DEF User, StartAgent, Redispatch, PauseAgent, KillAgent, Resize, SendInput, UserOp, Message, history
<1>2. RowAhead(x)' = RowAhead(x) /\ RowAhead(x) \in BOOLEAN /\ marker[x] \in BOOLEAN /\ bumps[x] \in Nat
  BY <1>1 DEF RowAhead, ResourceDeath, TypeOK
<1>3. marker'[x] \in {marker[x], FALSE} /\ (pod'[x] = "oom" => pod[x] = "oom")
  BY DEF User, StartAgent, Redispatch, PauseAgent, KillAgent, Resize, SendInput, WriteMsg, CreatePod, dbVars, TypeOK
<1>4. Still(x)' <= Still(x)
  <2>1. Still(x)' = StillOf(marker'[x], flow[x], RowAhead(x), pod'[x])
    BY <1>1, <1>2 DEF Still, StillOf, One, ResourceDeath
  <2> QED BY <1>2, <1>3, <2>1, StillFalls DEF Still
<1> QED BY <1>1, <1>2, <1>4, StillTyped DEF Adds

\* The death of a pod on resources.
Death(y) == faults' = faults - 1 /\ deaths' = [deaths EXCEPT ![y] = @ + 1]

LEMMA ClusterAdds ==
    ASSUME TypeOK, NEW a \in Agents, Cluster(a), NEW x \in Agents
    PROVE  \/ deaths' = deaths /\ faults' \in {faults, faults - 1} /\ Adds(x, 0)
           \/ Death(a) /\ Adds(x, IF x = a THEN 2 ELSE 0)
<1>1. UNCHANGED <<rows, flow, bumps>>
  BY OtherSteps DEF Cluster, WorkerBoots, WorkerEnds, PodDies, ReapPod, ReapWedged, HeartbeatReap, history
<1>2. RowAhead(x)' = RowAhead(x) /\ RowAhead(x) \in BOOLEAN /\ marker[x] \in BOOLEAN /\ bumps[x] \in Nat
  BY <1>1 DEF RowAhead, ResourceDeath, TypeOK
<1>3. Death(a) \/ (deaths' = deaths /\ faults' \in {faults, faults - 1})
  BY DEF Cluster, WorkerBoots, WorkerEnds, PodDies, ReapPod, ReapWedged, HeartbeatReap, NoBudget, Fault, history, Death
<1>8. Still(x)' = StillOf(marker'[x], flow[x], RowAhead(x), pod'[x])
  BY <1>1, <1>2 DEF Still, StillOf, One, ResourceDeath
<1>4. CASE x # a
  <2>1. marker'[x] = marker[x] /\ pod'[x] = pod[x]
    BY <1>4 DEF Cluster, WorkerBoots, WorkerEnds, PodDies, ReapPod, ReapWedged, HeartbeatReap, WriteMsg, dbVars, TypeOK
  <2>2. Adds(x, 0)
    BY <1>1, <1>2, <2>1, AloneAdds
  <2> QED BY <1>3, <1>4, <2>2
<1>5. CASE x = a /\ (WorkerEnds(a) \/ PodDies(a))
  <2>1. pod[a] = "up" /\ marker'[a] \in BOOLEAN
    BY <1>5 DEF WorkerEnds, PodDies, WriteMsg, dbVars, TypeOK
  <2>2. \/ Death(a) /\ (marker'[a] = marker[a] \/ pod'[a] # "oom")
        \/ deaths' = deaths /\ faults' \in {faults, faults - 1} /\ marker'[a] \in {marker[a], FALSE} /\ pod'[a] # "oom"
    BY <1>5 DEF WorkerEnds, PodDies, WriteMsg, NoBudget, Fault, dbVars, Death, TypeOK
  <2>3. CASE Death(a) /\ (marker'[a] = marker[a] \/ pod'[a] # "oom")
    <3>1. Still(a)' <= Still(a) + 2
      BY <1>1, <1>2, <1>5, <2>1, <2>3 DEF Still, StillOf, One, ResourceDeath
    <3> QED BY <1>1, <1>2, <1>5, <2>3, <3>1, StillTyped DEF Adds
  <2>4. CASE deaths' = deaths /\ faults' \in {faults, faults - 1} /\ marker'[a] \in {marker[a], FALSE} /\ pod'[a] # "oom"
    <3>1. Still(a)' <= Still(a)
      <4>1. StillOf(marker'[a], flow[a], RowAhead(a), pod'[a]) <= StillOf(marker[a], flow[a], RowAhead(a), pod[a])
        BY <1>2, <1>5, <2>4, StillFalls
      <4> QED BY <1>5, <1>8, <4>1 DEF Still
    <3> QED BY <1>1, <1>2, <1>5, <2>4, <3>1, StillTyped DEF Adds
  <2> QED BY <2>2, <2>3, <2>4
<1>6. CASE x = a /\ ReapPod(a)
  <2>1. /\ pod'[a] = "none" /\ deaths' = deaths /\ faults' = faults
        /\ (marker'[a] \in {marker[a], FALSE} \/ (pod[a] = "oom" /\ marker'[a] = TRUE))
    BY <1>6 DEF ReapPod, WriteMsg, NoBudget, history, TypeOK
  <2>2. Still(a)' <= Still(a)
    <3>1. CASE marker'[a] \in {marker[a], FALSE}
      <4>1. StillOf(marker'[a], flow[a], RowAhead(a), pod'[a]) <= StillOf(marker[a], flow[a], RowAhead(a), pod[a])
        BY <1>2, <1>6, <2>1, <3>1, StillFalls
      <4> QED BY <1>6, <1>8, <4>1 DEF Still
    <3>2. CASE pod[a] = "oom" /\ marker'[a] = TRUE
      <4>1. Still(a)' \in {1, 2} /\ Still(a) >= 2
        BY <1>6, <1>8, <2>1, <3>2 DEF Still, StillOf, One
      <4> QED BY <4>1, StillTyped
    <3> QED BY <2>1, <3>1, <3>2
  <2> QED BY <1>1, <1>2, <1>6, <2>1, <2>2, StillTyped DEF Adds
<1>7. CASE x = a /\ (WorkerBoots(a) \/ ReapWedged(a) \/ HeartbeatReap(a))
  <2>1. /\ marker'[a] \in {marker[a], FALSE} /\ (pod'[a] = "oom" => pod[a] = "oom")
        /\ deaths' = deaths /\ faults' \in {faults, faults - 1}
    BY <1>7 DEF WorkerBoots, ReapWedged, HeartbeatReap, WriteMsg, NoBudget, Fault, dbVars, history, TypeOK
  <2>2. Still(a)' <= Still(a)
    <3>1. StillOf(marker'[a], flow[a], RowAhead(a), pod'[a]) <= StillOf(marker[a], flow[a], RowAhead(a), pod[a])
      BY <1>2, <1>7, <2>1, StillFalls
    <3> QED BY <1>7, <1>8, <3>1 DEF Still
  <2> QED BY <1>1, <1>2, <1>7, <2>1, <2>2, StillTyped DEF Adds
<1> QED BY <1>4, <1>5, <1>6, <1>7 DEF Cluster

\* What a step adds is paid for by a fault, if by anything.
LEMMA StepAdds ==
    ASSUME TypeOK, FlowsTracked, [Next]_vars, NEW x \in Agents
    PROVE  \/ deaths' = deaths /\ faults' \in {faults, faults - 1} /\ Adds(x, 0)
           \/ deaths' = deaths /\ faults' = faults - 1 /\ Adds(x, 2)
           \/ \E y \in Agents : Death(y) /\ Adds(x, IF x = y THEN 2 ELSE 0)
<1>1. CASE Sweep \/ Connect \/ Disconnect
  BY <1>1, SweepAdds
<1>2. CASE BossCrash
  BY <1>2, CrashAdds
<1>3. ASSUME NEW a \in Agents, Flow(a) \/ User(a) \/ Cluster(a)
      PROVE  \/ deaths' = deaths /\ faults' \in {faults, faults - 1} /\ Adds(x, 0)
             \/ deaths' = deaths /\ faults' = faults - 1 /\ Adds(x, 2)
             \/ \E y \in Agents : Death(y) /\ Adds(x, IF x = y THEN 2 ELSE 0)
  BY <1>3, FlowAdds, UserAdds, ClusterAdds
<1>4. CASE UNCHANGED vars
  <2>1. UNCHANGED <<bumps, marker, flow, pod, deaths, rows, faults>>
    BY <1>4 DEF vars
  <2>2. RowAhead(x)' => RowAhead(x)
    BY <2>1 DEF RowAhead, ResourceDeath
  <2> QED BY <2>1, <2>2, AloneAdds
<1> QED BY <1>1, <1>2, <1>3, <1>4 DEF Next

LEMMA CoveredBumpsStep ==
    ASSUME TypeOK, TypeOK', FlowsTracked, BumpsCovered, [Next]_vars
    PROVE  BumpsCovered'
<1> SUFFICES ASSUME NEW x \in Agents PROVE bumps'[x] + Still(x)' <= 2 * OwnFaults(x)'
  BY DEF BumpsCovered
<1> DEFINE others == Agents \ {x}
<1>1. IsFiniteSet(others) /\ others \subseteq Agents
  BY AgentsFinite, FS_Subset
<1>2. deaths \in [Agents -> Nat] /\ bumps[x] \in Nat /\ bumps'[x] \in Nat /\ faults \in Nat /\ MaxFaults \in Nat
  BY BoundsNat DEF TypeOK
<1> DEFINE was == SumFunctionOnSet(deaths, others)
           is == SumFunctionOnSet(deaths', others)
<1>3. was \in Nat
  BY <1>1, <1>2, SumTyped
<1>4. OwnFaults(x) = MaxFaults - faults - was /\ OwnFaults(x)' = MaxFaults - faults' - is
  BY DEF OwnFaults
<1>5. ASSUME NEW y \in Agents, Death(y) PROVE is = was + (IF x = y THEN 0 ELSE 1)
  <2>1. is = was + (IF y \in others THEN 1 ELSE 0)
    <3>1. deaths' = [deaths EXCEPT ![y] = @ + 1]
      BY <1>5 DEF Death
    <3>2. SumFunctionOnSet([deaths EXCEPT ![y] = @ + 1], others)
            = SumFunctionOnSet(deaths, others) + (IF y \in others THEN 1 ELSE 0)
      <4> HIDE DEF others
      <4> QED BY <1>1, <1>2, SumGrows
    <3> QED BY <3>1, <3>2
  <2> QED BY <2>1
<1>6. bumps[x] + Still(x) <= 2 * (MaxFaults - faults - was)
  BY <1>4 DEF BumpsCovered
<1> HIDE DEF others, was
<1>7. CASE deaths' = deaths /\ faults' \in {faults, faults - 1} /\ Adds(x, 0)
  <2>1. is = was
    BY <1>7 DEF was
  <2> HIDE DEF is
  <2> QED BY <1>2, <1>3, <1>4, <1>6, <1>7, <2>1, StillTyped DEF Adds
<1>8. CASE deaths' = deaths /\ faults' = faults - 1 /\ Adds(x, 2)
  <2>1. is = was
    BY <1>8 DEF was
  <2> HIDE DEF is
  <2> QED BY <1>2, <1>3, <1>4, <1>6, <1>8, <2>1, StillTyped DEF Adds
<1>9. ASSUME NEW y \in Agents, Death(y), Adds(x, IF x = y THEN 2 ELSE 0)
      PROVE  bumps'[x] + Still(x)' <= 2 * OwnFaults(x)'
  <2>1. is = was + (IF x = y THEN 0 ELSE 1) /\ faults' = faults - 1
    BY <1>5, <1>9 DEF Death
  <2> HIDE DEF is
  <2> QED BY <1>2, <1>3, <1>4, <1>6, <1>9, <2>1, StillTyped DEF Adds
<1> QED BY <1>7, <1>8, <1>9, StepAdds

LEMMA InitBumps == Init => BumpsCovered
<1> SUFFICES ASSUME Init, NEW x \in Agents PROVE bumps[x] + Still(x) <= 2 * OwnFaults(x)
  BY DEF BumpsCovered
<1>1. Still(x) = 0 /\ bumps[x] = 0
  BY DEF Init, Still, StillOf, One, RowAhead, NoFlow
<1>2. SumFunctionOnSet(deaths, Agents \ {x}) = 0
  BY ZeroSum, AgentsFinite, FS_Subset DEF Init
<1> QED BY <1>1, <1>2, BoundsNat DEF Init, OwnFaults

-----------------------------------------------------------------------------
(* The theorems.                                                           *)

LEMMA InitIInv == Init => IInv
<1> SUFFICES ASSUME Init PROVE IInv
  OBVIOUS
<1>1. TypeOK
  <2>1. size \in [Agents -> Size]
    BY SizesNat DEF Init, Size, Unsized
  <2>2. flow \in [Agents -> FlowRec]
    BY FlowTyped DEF Init
  <2>3. BudgetOK
    BY BoundsNat DEF Init, BudgetOK
  <2>4. deaths \in [Agents -> Nat] /\ bumps \in [Agents -> Nat]
    BY DEF Init
  <2> QED BY <2>1, <2>2, <2>3, <2>4 DEF Init, TypeOK, State, PodPhase, BudgetOK
<1>2. FlowsTracked
  BY DEF Init, FlowsTracked, NoFlow
<1>3. RowsFinite /\ SlotsCovered
  BY FS_EmptySet, CapNat DEF Init, RowsFinite, SlotsCovered
<1> QED BY <1>1, <1>2, <1>3 DEF IInv

\* The invariant the theorems below follow from.
THEOREM Invariance == Spec => []IInv
<1>1. IInv /\ [Next]_vars => IInv'
  BY TypeStep, TrackedStep, RowsStep, CoveredStep DEF IInv
<1> QED BY InitIInv, <1>1, PTL DEF Spec

\* The types of the database rows, the sweep and the flows.
THEOREM TypeCorrect == Spec => []TypeOK
<1>1. IInv => TypeOK
  BY DEF IInv
<1> QED BY Invariance, <1>1, PTL

\* For any agents and any cap, an agent is in the in-flight map of
\* dispatcher.ts:98 exactly while its flow runs.
THEOREM FlowsAreTracked == Spec => []FlowsTracked
<1>1. IInv => FlowsTracked
  BY DEF IInv
<1> QED BY Invariance, <1>1, PTL

\* For any agents and any cap, no more dispatches are in flight than the cap
\* (dispatcher.ts:104-129).
THEOREM InFlightIsBounded == Spec => []DispatchBound
<1>1. IInv => DispatchBound
  <2> SUFFICES ASSUME IInv PROVE DispatchBound
    OBVIOUS
  <2>1. Cardinality(dispatching) \in Nat /\ slots \in Nat
    BY AgentSetSize DEF IInv, TypeOK
  <2> QED BY <2>1, CapNat DEF IInv, SlotsCovered, DispatchBound
<1> QED BY Invariance, <1>1, PTL

\* For any agents, cap, sizes and bounds, an agent grows at most twice for each fault of its
\* own (dispatcher.ts:87-89), whatever the sweeps and flows do with the rows they have read.
THEOREM BumpsArePaid == Spec => []BumpsPaid
<1>1. Init => TypeOK /\ FlowsTracked /\ BumpsCovered
  BY InitIInv, InitBumps DEF IInv
<1>2. IInv /\ IInv' /\ BumpsCovered /\ [Next]_vars => BumpsCovered'
  BY CoveredBumpsStep DEF IInv
<1>3. IInv /\ BumpsCovered => BumpsPaid
  <2> SUFFICES ASSUME IInv, BumpsCovered, NEW a \in Agents PROVE bumps[a] <= 2 * OwnFaults(a)
    BY DEF BumpsPaid
  <2>1. bumps[a] \in Nat /\ faults \in Nat /\ MaxFaults \in Nat /\ deaths \in [Agents -> Nat]
    BY BoundsNat DEF IInv, TypeOK
  <2>2. OwnFaults(a) \in Int
    <3> DEFINE others == Agents \ {a}
    <3>1. IsFiniteSet(others) /\ others \subseteq Agents
      BY AgentsFinite, FS_Subset
    <3>2. SumFunctionOnSet(deaths, others) \in Nat
      BY <2>1, <3>1, SumTyped
    <3> QED BY <2>1, <3>2 DEF OwnFaults
  <2>3. bumps[a] + Still(a) <= 2 * OwnFaults(a)
    BY DEF BumpsCovered
  <2> QED BY <2>1, <2>2, <2>3, StillTyped
<1> QED BY Invariance, <1>1, <1>2, <1>3, PTL DEF Spec

\* The pool counts as the queue does.
LEMMA PoolCounts == ASSUME NEW S PROVE Pool!Cardinality(S) = Cardinality(S)
BY DEF Cardinality, Pool!Cardinality

\* Every step of the queue is a step of the pool or leaves it as it is.
LEMMA PoolStep == IInv /\ IInv' /\ [Next]_vars => [Pool!Next]_dispatching
<1> SUFFICES ASSUME IInv, IInv', [Next]_vars, dispatching' # dispatching PROVE Pool!Next
  OBVIOUS
<1> USE DEF IInv
<1>1. Cardinality(dispatching') <= MaxConcurrent
  <2>1. Cardinality(dispatching') \in Nat /\ slots' \in Nat
    BY AgentSetSize DEF TypeOK
  <2> QED BY <2>1, CapNat DEF SlotsCovered
<1>2. CASE Launch
  <2> PICK S \in SUBSET rows : LaunchRows(S)
    BY <1>2 DEF Launch
  <2> DEFINE ids == {r.id : r \in S}
  <2>1. ids \in SUBSET Agents
    BY LaunchFits
  <2>2. ids \cap dispatching = {} /\ dispatching' = dispatching \cup ids
    BY DEF LaunchRows, Launchable
  <2>3. Pool!Acquire(ids)
    BY <1>1, <2>2, PoolCounts DEF Pool!Acquire
  <2> QED BY <2>1, <2>3 DEF Pool!Next
<1>3. CASE dispatching' \subseteq dispatching
  <2> DEFINE freed == dispatching \ dispatching'
  <2>1. Pool!Release(freed)
    BY <1>3 DEF Pool!Release
  <2>2. freed \in SUBSET Agents
    BY DEF TypeOK
  <2> QED BY <2>1, <2>2 DEF Pool!Next
<1> QED
  BY <1>2, <1>3, OtherSteps, FlowSteps
     DEF Next, Sweep, TimerSweep, NotifiedSweep, ComputeSlots, ReadQueue, SweepThrows,
         Connect, Disconnect, BossCrash, vars

\* The dispatch queue, with its two queries, its mutex and its flows, implements
\* a pool of MaxConcurrent slots.
THEOREM QueueImplementsPool == Spec => ImplementsPool
<1>1. Init => Pool!Init
  BY DEF Init, Pool!Init
<1> QED BY Invariance, <1>1, PoolStep, PTL DEF Spec, ImplementsPool, Pool!Spec

-----------------------------------------------------------------------------
(***************************************************************************)
(* TokenBudget, for any number of agents and users and any costs. That the *)
(* cap of a user stops whom that user's own burn stops rests on where the  *)
(* rows are: without transfers an agent's are all of its owner (OwnRows),  *)
(* so that the sum over its users is what its owner burnt.                 *)
(***************************************************************************)

Table == [Agents -> [Users -> Nat]]
CapsRec == [daily : Caps, monthly : Caps]

BudgetT ==
    /\ config \in Budget!Config /\ override \in [Users -> CapsRec]
    /\ owner \in [Agents -> Users] /\ running \subseteq Agents
    /\ daily \in Table /\ monthly \in Table

\* What an agent burnt is booked to its owner.
OwnRows == \A a \in Agents, u \in Users : u # owner[a] => daily[a][u] = 0 /\ monthly[a][u] = 0

LEMMA SameSum ==
    ASSUME NEW f, NEW S
    PROVE  Budget!SumFunctionOnSet(f, S) = SumFunctionOnSet(f, S)
BY DEF Budget!SumFunctionOnSet, Budget!FoldFunctionOnSet, Budget!MapThenFoldSet,
       SumFunctionOnSet, FoldFunctionOnSet, MapThenFoldSet

LEMMA BudgetInit ==
    ASSUME 0 \in Caps, Budget!Init
    PROVE  BudgetT /\ OwnRows
BY DEF Budget!Init, BudgetT, OwnRows, Table, CapsRec

LEMMA BudgetTypesStep ==
    ASSUME Costs \subseteq Nat, BudgetT, [Budget!Next]_(Budget!vars)
    PROVE  BudgetT'
<1> USE DEF BudgetT, Table
<1>1. ASSUME NEW a \in Agents, Budget!RecordUsage(a) PROVE BudgetT'
  <2>1. PICK c \in Costs : /\ daily' = [daily EXCEPT ![a][owner[a]] = @ + c]
                           /\ monthly' = [monthly EXCEPT ![a][owner[a]] = @ + c]
    BY <1>1 DEF Budget!RecordUsage
  <2>2. UNCHANGED <<config, override, owner, running>> /\ c \in Nat /\ owner[a] \in Users
    BY <1>1 DEF Budget!RecordUsage
  <2>3. daily[a][owner[a]] + c \in Nat /\ monthly[a][owner[a]] + c \in Nat
    BY <2>2
  <2>4. daily' \in Table /\ monthly' \in Table
    BY <2>1, <2>2, <2>3
  <2> QED BY <2>2, <2>4
<1>2. ASSUME NEW u \in Users, Budget!UpdateUserBudget(u) PROVE BudgetT'
  <2>1. PICK d \in Caps, m \in Caps : override' = [override EXCEPT ![u] = [daily |-> d, monthly |-> m]]
    BY <1>2 DEF Budget!UpdateUserBudget
  <2>2. [daily |-> d, monthly |-> m] \in CapsRec
    BY DEF CapsRec
  <2> QED BY <1>2, <2>1, <2>2 DEF Budget!UpdateUserBudget
<1>3. ASSUME NEW a \in Agents, Budget!UpdateAgentOwner(a) PROVE BudgetT'
  BY <1>3 DEF Budget!UpdateAgentOwner
<1>4. ASSUME Budget!NewDay PROVE BudgetT'
  BY <1>4 DEF Budget!NewDay
<1>5. ASSUME NEW a \in Agents, \/ Budget!Starts(a) \/ Budget!Dispatched(a) \/ Budget!Ends(a) \/ Budget!PauseListed(a)
      PROVE  UNCHANGED <<config, override, owner, daily, monthly>> /\ running' \subseteq running \cup {a}
  BY <1>5 DEF Budget!Starts, Budget!Dispatched, Budget!Ends, Budget!PauseListed
<1>6. ASSUME Budget!ListsAgents \/ UNCHANGED Budget!vars
      PROVE  UNCHANGED <<config, override, owner, daily, monthly, running>>
  BY <1>6 DEF Budget!ListsAgents, Budget!vars
<1>7. ASSUME UNCHANGED <<config, override, owner, daily, monthly>>, running' \subseteq Agents PROVE BudgetT'
  BY <1>7
<1> QED BY <1>1, <1>2, <1>3, <1>4, <1>5, <1>6, <1>7 DEF Budget!Next

LEMMA OwnRowsStep ==
    ASSUME ~Transfers, BudgetT, OwnRows, [Budget!Next]_(Budget!vars)
    PROVE  OwnRows'
<1> USE DEF OwnRows
<1>1. ASSUME NEW a \in Agents, Budget!RecordUsage(a) PROVE OwnRows'
  <2>1. PICK c \in Costs : /\ daily' = [daily EXCEPT ![a][owner[a]] = @ + c]
                           /\ monthly' = [monthly EXCEPT ![a][owner[a]] = @ + c]
    BY <1>1 DEF Budget!RecordUsage
  <2>2. \A b \in Agents, u \in Users : u # owner[b] => daily'[b][u] = daily[b][u] /\ monthly'[b][u] = monthly[b][u]
    BY <2>1 DEF BudgetT, Table
  <2> QED BY <1>1, <2>2 DEF Budget!RecordUsage
<1>2. ASSUME Budget!NewDay PROVE OwnRows'
  BY <1>2 DEF Budget!NewDay
<1>3. ASSUME NEW a \in Agents,
             \/ Budget!Starts(a) \/ Budget!Dispatched(a) \/ Budget!Ends(a) \/ Budget!PauseListed(a)
             \/ Budget!UpdateAgentOwner(a)
      PROVE  UNCHANGED <<owner, daily, monthly>>
  BY <1>3 DEF Budget!Starts, Budget!Dispatched, Budget!Ends, Budget!PauseListed, Budget!UpdateAgentOwner
<1>4. ASSUME Budget!ListsAgents \/ UNCHANGED Budget!vars \/ \E u \in Users : Budget!UpdateUserBudget(u)
      PROVE  UNCHANGED <<owner, daily, monthly>>
  BY <1>4 DEF Budget!ListsAgents, Budget!vars, Budget!UpdateUserBudget
<1>5. ASSUME UNCHANGED <<owner, daily, monthly>> PROVE OwnRows'
  BY <1>5
<1> QED BY <1>1, <1>2, <1>3, <1>4, <1>5 DEF Budget!Next

\* What the rows of a user's agents add up to is what the user burnt.
LEMMA SpentIsBurnt ==
    ASSUME IsFiniteSet(Users), owner \in [Agents -> Users], NEW table \in Table, NEW u \in Users,
           \A a \in Agents, v \in Users : v # owner[a] => table[a][v] = 0
    PROVE  Budget!SpendByUser(table, u) = Budget!Burnt(table, u)
<1>1. ASSUME NEW a \in Agents
      PROVE  (IF owner[a] = u THEN Budget!OfAgent(table, a) ELSE 0) = table[a][u]
  <2>1. CASE owner[a] = u
    <3>1. table[a] \in [Users -> Nat] /\ \A v \in Users : v # u => table[a][v] = 0
      BY <2>1 DEF Table
    <3>2. SumFunctionOnSet(table[a], Users) = table[a][u]
      BY <3>1, SumOnly
    <3> QED BY <2>1, <3>2, SameSum DEF Budget!OfAgent
  <2>2. CASE owner[a] # u
    BY <2>2
  <2> QED BY <2>1, <2>2
<1>2. [a \in Agents |-> IF owner[a] = u THEN Budget!OfAgent(table, a) ELSE 0] = [a \in Agents |-> table[a][u]]
  BY <1>1
<1> QED BY <1>2 DEF Budget!SpendByUser, Budget!Burnt

\* "One user's burn never pauses another user's agents" (budget.ts:78-80), as long as nobody
\* transfers an agent: for any number of agents and users, caps and costs.
THEOREM OwnBurnHolds ==
    ASSUME IsFiniteSet(Users), Costs \subseteq Nat, 0 \in Caps, ~Transfers
    PROVE  Budget!Spec => []Budget!OwnBurnOnly
<1>1. Budget!Init => BudgetT /\ OwnRows
  BY BudgetInit
<1>2. BudgetT /\ OwnRows /\ [Budget!Next]_(Budget!vars) => BudgetT' /\ OwnRows'
  BY BudgetTypesStep, OwnRowsStep
<1>3. ASSUME BudgetT, OwnRows PROVE Budget!OwnBurnOnly
  <2> SUFFICES ASSUME NEW a \in Budget!CapStops
               PROVE  Budget!OverOwnCap(override[owner[a]], config, Budget!Burnt(daily, owner[a]),
                                        Budget!Burnt(monthly, owner[a]))
    BY DEF Budget!OwnBurnOnly
  <2>1. a \in Agents
    BY <1>3 DEF Budget!CapStops, BudgetT
  <2>2. Budget!OverOwnCap(override[owner[a]], config, Budget!SpendByUser(daily, owner[a]),
                          Budget!SpendByUser(monthly, owner[a]))
    BY DEF Budget!CapStops
  <2>3. /\ Budget!SpendByUser(daily, owner[a]) = Budget!Burnt(daily, owner[a])
        /\ Budget!SpendByUser(monthly, owner[a]) = Budget!Burnt(monthly, owner[a])
    BY <1>3, <2>1, SpentIsBurnt DEF BudgetT, OwnRows
  <2> QED BY <2>2, <2>3
<1> QED BY <1>1, <1>2, <1>3, PTL DEF Budget!Spec

\* The two ladders agree: for any number of agents, users, budgets and costs, the ceiling stops
\* a running agent exactly when it would let none of its priority start (budget.ts:23-62).
THEOREM LaddersHold ==
    ASSUME IsFiniteSet(Users), Costs \subseteq Nat, Caps \subseteq Nat, 0 \in Caps
    PROVE  Budget!Spec => []Budget!LaddersAgree
<1>1. Budget!Init => BudgetT
  BY BudgetInit
<1>2. BudgetT /\ [Budget!Next]_(Budget!vars) => BudgetT'
  BY BudgetTypesStep
<1>3. ASSUME BudgetT PROVE Budget!LaddersAgree
  <2>1. Budget!FleetSpend(daily) \in Nat
    <3>1. \A a \in Agents : Budget!OfAgent(daily, a) \in Nat
      BY <1>3, SumTyped, SameSum DEF Budget!OfAgent, BudgetT, Table
    <3>2. [a \in Agents |-> Budget!OfAgent(daily, a)] \in [Agents -> Nat]
      BY <3>1
    <3> QED BY <3>2, AgentsFinite, SumTyped, SameSum DEF Budget!FleetSpend
  <2>2. config.daily \in Nat
    BY <1>3 DEF BudgetT, Budget!Config
  <2>3. ASSUME NEW s \in Nat, NEW b \in Nat, NEW prio
        PROVE  Budget!LadderPauses(prio, s, b) <=> Budget!Denied(prio, s, b)
    <3>1. /\ Budget!Reached(110, s, b) => Budget!Reached(100, s, b)
          /\ Budget!Reached(100, s, b) => Budget!Reached(90, s, b)
      BY DEF Budget!Reached
    <3> QED BY <3>1 DEF Budget!LadderPauses, Budget!Denied
  <2> QED BY <2>1, <2>2, <2>3 DEF Budget!LaddersAgree, Budget!LadderStops
<1> QED BY <1>1, <1>2, <1>3, PTL DEF Budget!Spec
=============================================================================
