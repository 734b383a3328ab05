-------------------------- MODULE FreezeLeasesProofs --------------------------
(***************************************************************************)
(* Proofs about FreezeLeases, for any agents, functions, periods and       *)
(* bounds.  The row of a pod that is up is never older than the time since *)
(* its last heartbeat (Fresh), so the supervisor and the expiry leave it   *)
(* alone.  A contest that has gone unheard has two pods behind it, of whom *)
(* one has the row, or will have it at the end of the first cycle it began *)
(* since, while the other's next cycle finds that row (Heard): that cycle  *)
(* ends within two periods and the time to compute a freeze set.           *)
(***************************************************************************)
EXTENDS FreezeLeases, TLAPS

\* A pod's heartbeats come within the supervisor's cutoff.
Timely == LeasePeriod + MaxCompute <= Cutoff

\* A row that this pod has inserted or renewed.
Holds(a, s) == s \in own[a] /\ lease[a][s] # NoLease

\* What is left of a pod that is gone, and of one that exits.
PodOK(a) ==
    /\ pod[a] \in {"gone", "dead"} =>
          own[a] = {} /\ hook[a].pc = "idle" /\ car[a].pc = "idle" /\ since[a] = 0
    /\ pod[a] = "exiting" => hook[a].pc = "idle"

\* The age of a row is at most the time since the pod's last heartbeat.
Fresh(a) ==
    pod[a] = "up" => \A s \in Symbols :
        Holds(a, s) => lease[a][s] <= IF car[a].pc = "compute" THEN LeasePeriod + car[a].spent
                                      ELSE since[a]

CycleOK(a) ==
    /\ car[a].pc = "compute" /\ pod[a] = "up" => since[a] = car[a].spent
    /\ car[a].pc # "idle" /\ pod[a] = "up" => since[a] <= MaxCompute
    /\ car[a].pc \in {"conflicts", "acquire"} =>
          \A s \in Symbols : lease[a][s] # NoLease => s \in own[a]

HookOK(a) ==
    /\ hook[a].pc = "check" => theirs[a] \subseteq hook[a].left
    /\ hook[a].pc = "acquire" /\ mode = "enforce" => theirs[a] = {}

Edits(a, s) == pod[a] = "up" /\ s \in edited[a]

\* No cycle of a began since the contest did, or the first one is under way.
FirstCycle(a, s) ==
    \/ unheard[s] <= since[a]
    \/ /\ unheard[s] <= LeasePeriod + since[a]
       /\ car[a].pc # "idle" /\ s \in car[a].frozen

\* The cycle of a under way reports the contest at its end.
Reporting(a, s) ==
    /\ unheard[s] <= 2 * LeasePeriod + since[a]
    /\ \/ car[a].pc \in {"compute", "conflicts"} /\ s \in car[a].frozen
       \/ car[a].pc = "acquire" /\ s \in car[a].conflicts

Heard(a, b, s) ==
    /\ a # b /\ Edits(a, s) /\ Edits(b, s)
    /\ \/ FirstCycle(a, s) /\ FirstCycle(b, s)
       \/ Holds(a, s) /\ unheard[s] <= LeasePeriod + since[b]
       \/ Holds(a, s) /\ Reporting(b, s)

Counted(s) == unheard[s] = 0 \/ \E a, b \in Agents : Heard(a, b, s)

IInv ==
    /\ TypeOK
    /\ \A a \in Agents : PodOK(a) /\ CycleOK(a) /\ HookOK(a)
    /\ Timely => \A a \in Agents : Fresh(a)
    /\ Timely => \A s \in Symbols : Counted(s)
-----------------------------------------------------------------------------
(* Type correctness.                                                       *)

HookRec == [pc : {"idle", "check", "acquire"}, fns : SUBSET Symbols, left : SUBSET Symbols]
CycleRec == [pc : {"idle", "compute", "conflicts", "acquire"}, spent : 0..MaxCompute,
             frozen : SUBSET Symbols, conflicts : SUBSET Symbols]

HooksTyped ==
    /\ hook \in [Agents -> HookRec]
    /\ \A a \in Agents : hook[a].left \subseteq hook[a].fns \ heldFns[a]
CyclesTyped == car \in [Agents -> CycleRec]

RestTyped ==
    /\ mode \in Modes
    /\ lease \in [Agents -> [Symbols -> NoLease..Ttl]]
    /\ pod \in [Agents -> {"up", "exiting", "gone", "dead"}]
    /\ edited \in [Agents -> SUBSET Symbols] /\ heldFns \in [Agents -> SUBSET Symbols]
    /\ theirs \in [Agents -> SUBSET Symbols] /\ own \in [Agents -> SUBSET Symbols]
    /\ since \in [Agents -> 0..LeasePeriod]
    /\ strikes \in [Agents -> 0..MaxStrikes] /\ told \in [Agents -> SUBSET Symbols]
    /\ unheard \in [Symbols -> 0..ReportWithin + 1]
    /\ edits \in 0..MaxEdits /\ faults \in 0..MaxFaults

LEMMA TypeParts == TypeOK <=> HooksTyped /\ CyclesTyped /\ RestTyped
  BY DEF TypeOK, HooksTyped, CyclesTyped, RestTyped, HookRec, CycleRec

LEMMA Numbers ==
    /\ LeasePeriod \in Nat /\ LeasePeriod > 0 /\ Ttl \in Nat /\ Cutoff \in Nat /\ Cutoff < Ttl
    /\ MaxCompute \in Nat /\ MaxEdits \in Nat /\ MaxStrikes \in Nat /\ MaxFaults \in Nat
    /\ ReportWithin \in Nat /\ ReportWithin = 2 * LeasePeriod + MaxCompute
  BY PeriodsNat DEF ReportWithin

LEMMA TypeInit == Init => TypeOK
  BY PeriodsNat DEF Init, TypeOK, NoHook, NoCycle, NoLease, ReportWithin

LEMMA NoHookTyped == NoHook \in HookRec /\ NoHook.left = {}
  BY DEF NoHook, HookRec

LEMMA NoCycleTyped == NoCycle \in CycleRec
  BY Numbers DEF NoCycle, CycleRec

\* The hook of one agent gets a record of its type, what it still has to acquire shrinks or
\* starts from what the agent does not hold.
LEMMA HookPut ==
    ASSUME HooksTyped, NEW a \in Agents, NEW h \in HookRec, hook' = [hook EXCEPT ![a] = h],
           h.left \subseteq h.fns \ heldFns[a], heldFns' = heldFns
    PROVE  HooksTyped'
  BY DEF HooksTyped

LEMMA HookCleared ==
    ASSUME HooksTyped, NEW a \in Agents, hook' = [hook EXCEPT ![a] = NoHook],
           \A b \in Agents \ {a} : heldFns'[b] = heldFns[b]
    PROVE  HooksTyped'
  BY NoHookTyped DEF HooksTyped

LEMMA HookSame ==
    ASSUME HooksTyped, hook' = hook, heldFns' = heldFns
    PROVE  HooksTyped'
  BY DEF HooksTyped

LEMMA HookStep ==
    ASSUME HooksTyped, RestTyped, [Next]_vars
    PROVE  HooksTyped'
<1>1. ASSUME NEW a \in Agents, NEW fns \in (SUBSET Symbols) \ {{}}, StartsEdit(a, fns)
      PROVE  HooksTyped'
  <2>1. CASE fns \subseteq heldFns[a]
    BY <1>1, <2>1, HookSame DEF StartsEdit
  <2>2. CASE ~(fns \subseteq heldFns[a])
    <3> DEFINE h == [pc |-> "check", fns |-> fns, left |-> fns \ heldFns[a]]
    <3>1. h \in HookRec /\ h.left \subseteq h.fns \ heldFns[a]
      BY DEF HookRec
    <3>2. hook' = [hook EXCEPT ![a] = h] /\ heldFns' = heldFns
      BY <1>1, <2>2 DEF StartsEdit
    <3> HIDE DEF h
    <3> QED BY <3>1, <3>2, HookPut
  <2> QED BY <2>1, <2>2
<1>2. ASSUME NEW a \in Agents, Checks(a) PROVE HooksTyped'
  <2> DEFINE h == [hook[a] EXCEPT !.pc = "acquire"]
  <2>1. hook[a] \in HookRec /\ hook[a].left \subseteq hook[a].fns \ heldFns[a]
    BY DEF HooksTyped
  <2>2. h \in HookRec /\ h.left = hook[a].left /\ h.fns = hook[a].fns
    BY <2>1 DEF HookRec
  <2>3. hook' = [hook EXCEPT ![a] = NoHook] \/ hook' = [hook EXCEPT ![a] = h]
    BY <1>2 DEF Checks
  <2>4. heldFns' = heldFns
    BY <1>2 DEF Checks
  <2> HIDE DEF h
  <2> QED BY <2>1, <2>2, <2>3, <2>4, HookPut, HookCleared
<1>3. ASSUME NEW a \in Agents, HookAcquires(a) PROVE HooksTyped'
  <2>1. PICK s \in hook[a].left :
          IF hook[a].left = {s}
          THEN EditApplied(a) /\ heldFns' = [heldFns EXCEPT ![a] = @ \cup hook[a].fns]
          ELSE hook' = [hook EXCEPT ![a].left = @ \ {s}] /\ UNCHANGED <<edited, heldFns>>
    BY <1>3 DEF HookAcquires
  <2>2. CASE hook[a].left = {s}
    BY <2>1, <2>2, HookCleared DEF EditApplied, RestTyped
  <2>3. CASE hook[a].left # {s}
    <3> DEFINE h == [hook[a] EXCEPT !.left = @ \ {s}]
    <3>1. hook[a] \in HookRec /\ hook[a].left \subseteq hook[a].fns \ heldFns[a]
      BY DEF HooksTyped
    <3>2. h \in HookRec /\ h.left = hook[a].left \ {s} /\ h.fns = hook[a].fns
      BY <3>1 DEF HookRec
    <3>3. hook' = [hook EXCEPT ![a] = h] /\ heldFns' = heldFns
      BY <2>1, <2>3
    <3> HIDE DEF h
    <3> QED BY <3>1, <3>2, <3>3, HookPut
  <2> QED BY <2>2, <2>3
<1>4. ASSUME NEW a \in Agents, HookFails(a) PROVE HooksTyped'
  BY <1>4, HookCleared DEF HookFails, EditApplied
<1>5. ASSUME NEW a \in Agents, Gone(a) \/ Crashes(a) PROVE HooksTyped'
  BY <1>5, HookCleared DEF Gone, Crashes, Forget, RestTyped
<1>6. ASSUME NEW a \in Agents, Commits(a) \/ Sidecar(a) \/ Exits(a) \/ Restarts(a)
      PROVE  HooksTyped'
  BY <1>6, HookSame DEF Commits, Sidecar, CycleStarts, CycleBeats, CycleChecks, CycleAcquires,
                        Exits, Restarts, podVars
<1>7. CASE Tick \/ ReclaimStaleLeases \/ UNCHANGED vars
  BY <1>7, HookSame DEF Tick, ReclaimStaleLeases, vars
<1> QED BY <1>1, <1>2, <1>3, <1>4, <1>5, <1>6, <1>7 DEF Next

LEMMA CyclePut ==
    ASSUME CyclesTyped, NEW a \in Agents, NEW c \in CycleRec, car' = [car EXCEPT ![a] = c]
    PROVE  CyclesTyped'
  BY DEF CyclesTyped

LEMMA CycleSame == CyclesTyped /\ car' = car => CyclesTyped'
  BY DEF CyclesTyped

LEMMA LongerTyped ==
    ASSUME NEW c \in CycleRec, c.spent < MaxCompute
    PROVE  [c EXCEPT !.spent = @ + 1] \in CycleRec
  BY Numbers DEF CycleRec

LEMMA CycleStep ==
    ASSUME CyclesTyped, RestTyped, [Next]_vars
    PROVE  CyclesTyped'
<1>1. ASSUME NEW a \in Agents, CycleStarts(a) PROVE CyclesTyped'
  <2> DEFINE c == [pc |-> "compute", spent |-> 0, frozen |-> FreezeSet(edited[a]), conflicts |-> {}]
  <2>1. FreezeSet(edited[a]) \subseteq Symbols
    BY CallersAreSymbols DEF FreezeSet, RestTyped
  <2>2. c \in CycleRec
    <3>1. 0 \in 0..MaxCompute
      BY Numbers
    <3> QED BY <2>1, <3>1 DEF CycleRec
  <2>3. car' = [car EXCEPT ![a] = c]
    BY <1>1 DEF CycleStarts
  <2> HIDE DEF c
  <2> QED BY <2>2, <2>3, CyclePut
<1>2. ASSUME NEW a \in Agents, CycleBeats(a) PROVE CyclesTyped'
  <2> DEFINE c == [NoCycle EXCEPT !.pc = "conflicts", !.frozen = car[a].frozen]
  <2>1. car[a] \in CycleRec
    BY DEF CyclesTyped
  <2>3. c \in CycleRec
    BY <2>1, NoCycleTyped DEF CycleRec
  <2>2. car' = [car EXCEPT ![a] = NoCycle] \/ car' = [car EXCEPT ![a] = c]
    BY <1>2 DEF CycleBeats
  <2> HIDE DEF c
  <2> QED BY <2>2, <2>3, CyclePut, NoCycleTyped
<1>3. ASSUME NEW a \in Agents, CycleChecks(a) PROVE CyclesTyped'
  <2> DEFINE c == [car[a] EXCEPT !.pc = "acquire", !.conflicts = LeaseConflicts(a, car[a].frozen)]
  <2>1. car[a] \in CycleRec
    BY DEF CyclesTyped
  <2>2. LeaseConflicts(a, car[a].frozen) \subseteq Symbols
    BY <2>1 DEF LeaseConflicts, CycleRec
  <2>3. c \in CycleRec
    BY <2>1, <2>2 DEF CycleRec
  <2>4. car' = [car EXCEPT ![a] = c]
    BY <1>3 DEF CycleChecks
  <2> HIDE DEF c
  <2> QED BY <2>3, <2>4, CyclePut
<1>4. ASSUME NEW a \in Agents, CycleAcquires(a) PROVE CyclesTyped'
  <2>1. PICK s \in car[a].frozen : IF car[a].frozen = {s} THEN car' = [car EXCEPT ![a] = NoCycle]
                                  ELSE car' = [car EXCEPT ![a].frozen = @ \ {s}]
    BY <1>4 DEF CycleAcquires
  <2> DEFINE c == [car[a] EXCEPT !.frozen = @ \ {s}]
  <2>2. c \in CycleRec
    BY DEF CyclesTyped, CycleRec
  <2>3. car' = [car EXCEPT ![a] = NoCycle] \/ car' = [car EXCEPT ![a] = c]
    BY <2>1
  <2> HIDE DEF c
  <2> QED BY <2>2, <2>3, CyclePut, NoCycleTyped
<1>5. ASSUME NEW a \in Agents, Gone(a) \/ Crashes(a) PROVE CyclesTyped'
  BY <1>5, CyclePut, NoCycleTyped DEF Gone, Crashes, Forget
<1>6. CASE Tick
  <2>1. ASSUME NEW a \in Agents, car[a].pc = "compute"
        PROVE  [car[a] EXCEPT !.spent = @ + 1] \in CycleRec
    BY <1>6, <2>1, LongerTyped DEF Tick, Prompt, CyclesTyped
  <2>2. car' = [a \in Agents |-> IF car[a].pc = "compute" THEN [car[a] EXCEPT !.spent = @ + 1]
                                 ELSE car[a]]
    BY <1>6 DEF Tick
  <2> QED BY <2>1, <2>2 DEF CyclesTyped
<1>7. ASSUME NEW a \in Agents, NEW fns \in (SUBSET Symbols) \ {{}}, StartsEdit(a, fns)
      PROVE  CyclesTyped'
  BY <1>7, CycleSame DEF StartsEdit
<1>8. ASSUME NEW a \in Agents,
             Checks(a) \/ HookAcquires(a) \/ HookFails(a) \/ Commits(a) \/ Exits(a) \/ Restarts(a)
      PROVE  CyclesTyped'
  BY <1>8, CycleSame DEF Checks, HookAcquires, HookFails, Commits, Exits, Restarts, podVars
<1>9. CASE ReclaimStaleLeases \/ UNCHANGED vars
  BY <1>9, CycleSame DEF ReclaimStaleLeases, vars
<1> QED BY <1>1, <1>2, <1>3, <1>4, <1>5, <1>6, <1>7, <1>8, <1>9 DEF Next, Sidecar

LEMMA SetPut ==
    ASSUME NEW f \in [Agents -> SUBSET Symbols], NEW a \in Agents, NEW S \in SUBSET Symbols
    PROVE  /\ [f EXCEPT ![a] = S] \in [Agents -> SUBSET Symbols]
           /\ [f EXCEPT ![a] = @ \cup S] \in [Agents -> SUBSET Symbols]
  OBVIOUS

LEMMA AcquireTyped ==
    ASSUME RestTyped, NEW a \in Agents, NEW s \in Symbols, Acquire(a, s)
    PROVE  /\ lease' \in [Agents -> [Symbols -> NoLease..Ttl]]
           /\ own' \in [Agents -> SUBSET Symbols]
  BY Numbers DEF RestTyped, Acquire, NoLease

\* A row that is inserted is the agent's own.
LEMMA AcquireOwns ==
    ASSUME RestTyped, NEW a \in Agents, NEW s \in Symbols, Acquire(a, s),
           NEW b \in Agents, NEW x \in Symbols
    PROVE  /\ (lease[b][x] # NoLease => x \in own[b]) => (lease'[b][x] # NoLease => x \in own'[b])
           /\ lease[b][x] # NoLease => lease'[b][x] = lease[b][x]
           /\ lease[b][x] = NoLease => lease'[b][x] \in {NoLease, 0}
           /\ own[b] \subseteq own'[b]
           /\ lease'[a][s] # NoLease
  BY Numbers DEF RestTyped, Acquire, NoLease

LEMMA RestStep ==
    ASSUME HooksTyped, CyclesTyped, RestTyped, [Next]_vars
    PROVE  RestTyped'
<1> USE Numbers DEF RestTyped, NoLease
<1>1. CASE Tick
  BY <1>1 DEF Tick, Prompt, StillTheirs
<1>2. CASE ReclaimStaleLeases
  BY <1>2 DEF ReclaimStaleLeases, StillTheirs
<1>3. ASSUME NEW a \in Agents, NEW fns \in (SUBSET Symbols) \ {{}}, StartsEdit(a, fns)
      PROVE  RestTyped'
  <2>1. edited' \in [Agents -> SUBSET Symbols]
    BY <1>3, SetPut DEF StartsEdit
  <2>2. theirs' = theirs \/ theirs' = [theirs EXCEPT ![a] = HeldByOthers(a) \cap (fns \ heldFns[a])]
    BY <1>3 DEF StartsEdit
  <2>3. HeldByOthers(a) \cap (fns \ heldFns[a]) \in SUBSET Symbols
    OBVIOUS
  <2>4. theirs \in [Agents -> SUBSET Symbols]
    OBVIOUS
  <2>5. theirs' \in [Agents -> SUBSET Symbols]
    <3>1. CASE theirs' = theirs
      BY <3>1, <2>4
    <3>2. CASE theirs' = [theirs EXCEPT ![a] = HeldByOthers(a) \cap (fns \ heldFns[a])]
      <4> HIDE DEF RestTyped
      <4> QED BY <3>2, <2>3, <2>4, SetPut
    <3> QED BY <2>2, <3>1, <3>2
  <2> QED BY <1>3, <2>1, <2>5 DEF StartsEdit
<1>4. ASSUME NEW a \in Agents, Checks(a) PROVE RestTyped'
  <2>1. theirs' \in [Agents -> SUBSET Symbols]
    BY <1>4 DEF Checks, StillTheirs
  <2>2. strikes' \in [Agents -> 0..MaxStrikes]
    BY <1>4 DEF Checks, Strike
  <2> QED BY <1>4, <2>1, <2>2 DEF Checks
<1>5. ASSUME NEW a \in Agents, HookAcquires(a) PROVE RestTyped'
  <2>1. PICK s \in hook[a].left :
          /\ Acquire(a, s)
          /\ IF hook[a].left = {s}
             THEN EditApplied(a) /\ heldFns' = [heldFns EXCEPT ![a] = @ \cup hook[a].fns]
             ELSE UNCHANGED <<edited, heldFns>>
    BY <1>5 DEF HookAcquires
  <2>2. s \in Symbols /\ hook[a].fns \in SUBSET Symbols
    BY DEF HooksTyped, HookRec
  <2>3. lease' \in [Agents -> [Symbols -> NoLease..Ttl]] /\ own' \in [Agents -> SUBSET Symbols]
    BY <2>1, <2>2, AcquireTyped
  <2>4. edited' \in [Agents -> SUBSET Symbols] /\ heldFns' \in [Agents -> SUBSET Symbols]
    <3>1. /\ edited' = edited \/ edited' = [edited EXCEPT ![a] = @ \cup hook[a].fns]
          /\ heldFns' = heldFns \/ heldFns' = [heldFns EXCEPT ![a] = @ \cup hook[a].fns]
      BY <2>1 DEF EditApplied
    <3>2. edited \in [Agents -> SUBSET Symbols] /\ heldFns \in [Agents -> SUBSET Symbols]
      OBVIOUS
    <3>3. edited' \in [Agents -> SUBSET Symbols]
      <4>1. CASE edited' = edited
        BY <4>1, <3>2
      <4>2. CASE edited' = [edited EXCEPT ![a] = @ \cup hook[a].fns]
        BY <4>2, <3>2, <2>2
      <4> QED BY <3>1, <4>1, <4>2
    <3>4. heldFns' \in [Agents -> SUBSET Symbols]
      <4>1. CASE heldFns' = heldFns
        BY <4>1, <3>2
      <4>2. CASE heldFns' = [heldFns EXCEPT ![a] = @ \cup hook[a].fns]
        BY <4>2, <3>2, <2>2
      <4> QED BY <3>1, <4>1, <4>2
    <3> QED BY <3>3, <3>4
  <2>5. theirs' \in [Agents -> SUBSET Symbols]
    BY <1>5 DEF HookAcquires, StillTheirs
  <2> QED BY <1>5, <2>3, <2>4, <2>5 DEF HookAcquires
<1>6. ASSUME NEW a \in Agents, HookFails(a) PROVE RestTyped'
  BY <1>6 DEF HookFails, Fails, EditApplied, HooksTyped, HookRec
<1>7. ASSUME NEW a \in Agents, Commits(a) PROVE RestTyped'
  BY <1>7 DEF Commits, Undisputed
<1>8. ASSUME NEW a \in Agents, CycleStarts(a) PROVE RestTyped'
  BY <1>8 DEF CycleStarts
<1>9. ASSUME NEW a \in Agents, CycleBeats(a) PROVE RestTyped'
  BY <1>9 DEF CycleBeats, Heartbeat
<1>10. ASSUME NEW a \in Agents, CycleChecks(a) PROVE RestTyped'
  BY <1>10 DEF CycleChecks
<1>11. ASSUME NEW a \in Agents, CycleAcquires(a) PROVE RestTyped'
  <2>1. PICK s \in car[a].frozen :
          /\ Acquire(a, s)
          /\ IF car[a].frozen = {s}
             THEN /\ told' = [told EXCEPT ![a] = car[a].conflicts]
                  /\ unheard' = [x \in Symbols |-> IF x \in car[a].conflicts THEN 0 ELSE unheard[x]]
                  /\ IF Evades(a) THEN Strike(a) ELSE UNCHANGED strikes
             ELSE UNCHANGED <<told, unheard, strikes>>
    BY <1>11 DEF CycleAcquires
  <2>2. s \in Symbols /\ car[a].conflicts \in SUBSET Symbols
    BY DEF CyclesTyped, CycleRec
  <2>3. lease' \in [Agents -> [Symbols -> NoLease..Ttl]] /\ own' \in [Agents -> SUBSET Symbols]
    BY <2>1, <2>2, AcquireTyped
  <2>4. told' \in [Agents -> SUBSET Symbols]
    BY <2>1, <2>2, SetPut
  <2>7. unheard' \in [Symbols -> 0..ReportWithin + 1]
    BY <2>1
  <2>5. theirs' \in [Agents -> SUBSET Symbols]
    BY <1>11 DEF CycleAcquires, StillTheirs
  <2>6. strikes' \in [Agents -> 0..MaxStrikes]
    BY <2>1 DEF Strike
  <2> QED BY <1>11, <2>3, <2>4, <2>5, <2>6, <2>7 DEF CycleAcquires
<1>12. ASSUME NEW a \in Agents, Exits(a) PROVE RestTyped'
  BY <1>12 DEF Exits, Release, Undisputed, StillTheirs
<1>13. ASSUME NEW a \in Agents, Gone(a) PROVE RestTyped'
  BY <1>13 DEF Gone, Forget, Undisputed
<1>14. ASSUME NEW a \in Agents, Crashes(a) PROVE RestTyped'
  BY <1>14 DEF Crashes, Fails, Forget, Undisputed
<1>15. ASSUME NEW a \in Agents, Restarts(a) PROVE RestTyped'
  BY <1>15 DEF Restarts, podVars
<1>16. CASE UNCHANGED vars
  BY <1>16 DEF vars
<1> QED
  BY <1>1, <1>2, <1>3, <1>4, <1>5, <1>6, <1>7, <1>8, <1>9, <1>10, <1>11, <1>12, <1>13, <1>14,
     <1>15, <1>16 DEF Next, Sidecar

LEMMA TypeStep == TypeOK /\ [Next]_vars => TypeOK'
<1>1. TypeOK => HooksTyped /\ CyclesTyped /\ RestTyped
  BY TypeParts
<1>2. HooksTyped' /\ CyclesTyped' /\ RestTyped' => TypeOK'
  BY DEF TypeOK, HooksTyped, CyclesTyped, RestTyped, HookRec, CycleRec
<1> QED BY <1>1, <1>2, HookStep, CycleStep, RestStep

-----------------------------------------------------------------------------
(* Pods and hooks.                                                         *)

LEMMA PodStep ==
    ASSUME HooksTyped, CyclesTyped, RestTyped, [Next]_vars,
           NEW b \in Agents, PodOK(b)
    PROVE  PodOK(b)'
<1> USE DEF HooksTyped, CyclesTyped, RestTyped, PodOK
<1>1. CASE Tick
  BY <1>1, Numbers DEF Tick
<1>2. CASE ReclaimStaleLeases \/ UNCHANGED vars
  BY <1>2 DEF ReclaimStaleLeases, vars
<1>3. ASSUME NEW a \in Agents, NEW fns \in (SUBSET Symbols) \ {{}}, StartsEdit(a, fns)
      PROVE  PodOK(b)'
  BY <1>3 DEF StartsEdit
<1>4. ASSUME NEW a \in Agents, Checks(a) PROVE PodOK(b)'
  BY <1>4 DEF Checks, NoHook, HookRec
<1>5. ASSUME NEW a \in Agents, HookAcquires(a) PROVE PodOK(b)'
  <2>1. b # a => own'[b] = own[b] /\ hook'[b] = hook[b] /\ car' = car /\ since' = since /\ pod' = pod
    BY <1>5 DEF HookAcquires, Acquire, EditApplied
  <2>2. b = a => pod'[b] = pod[b] /\ pod[b] = "up"
    BY <1>5 DEF HookAcquires
  <2> QED BY <2>1, <2>2
<1>6. ASSUME NEW a \in Agents, HookFails(a) PROVE PodOK(b)'
  BY <1>6 DEF HookFails, EditApplied, NoHook
<1>7. ASSUME NEW a \in Agents, Commits(a) PROVE PodOK(b)'
  BY <1>7 DEF Commits
<1>8. ASSUME NEW a \in Agents, CycleStarts(a) PROVE PodOK(b)'
  BY <1>8 DEF CycleStarts
<1>9. ASSUME NEW a \in Agents, CycleBeats(a) PROVE PodOK(b)'
  BY <1>9 DEF CycleBeats, NoCycle
<1>10. ASSUME NEW a \in Agents, CycleChecks(a) PROVE PodOK(b)'
  BY <1>10 DEF CycleChecks, CycleRec
<1>11. ASSUME NEW a \in Agents, CycleAcquires(a) PROVE PodOK(b)'
  <2>1. hook' = hook /\ since' = since /\ pod' = pod
    BY <1>11 DEF CycleAcquires
  <2>2. b # a => own'[b] = own[b] /\ car'[b] = car[b]
    BY <1>11 DEF CycleAcquires, Acquire
  <2>3. b = a => pod[b] \notin {"gone", "dead"}
    BY <1>11 DEF CycleAcquires
  <2> QED BY <2>1, <2>2, <2>3
<1>12. ASSUME NEW a \in Agents, Exits(a) PROVE PodOK(b)'
  BY <1>12 DEF Exits
<1>13. ASSUME NEW a \in Agents, Gone(a) \/ Crashes(a) PROVE PodOK(b)'
  BY <1>13 DEF Gone, Crashes, Forget, NoHook, NoCycle
<1>14. ASSUME NEW a \in Agents, Restarts(a) PROVE PodOK(b)'
  BY <1>14 DEF Restarts, podVars
<1> QED
  BY <1>1, <1>2, <1>3, <1>4, <1>5, <1>6, <1>7, <1>8, <1>9, <1>10, <1>11, <1>12, <1>13, <1>14
  DEF Next, Sidecar

\* What others have held all along only shrinks while a hook runs.
LEMMA TheirsShrink ==
    ASSUME StillTheirs, NEW b \in Agents
    PROVE  theirs'[b] \subseteq theirs[b]
  BY DEF StillTheirs

LEMMA HookOKStep ==
    ASSUME HooksTyped, CyclesTyped, RestTyped, [Next]_vars,
           NEW b \in Agents, HookOK(b)
    PROVE  HookOK(b)'
<1> USE DEF HooksTyped, CyclesTyped, RestTyped, HookOK
<1>1. CASE Tick \/ ReclaimStaleLeases
  <2>1. hook' = hook /\ mode' = mode /\ StillTheirs
    BY <1>1 DEF Tick, ReclaimStaleLeases
  <2> QED BY <2>1, TheirsShrink
<1>2. ASSUME NEW a \in Agents,
             Commits(a) \/ CycleStarts(a) \/ CycleBeats(a) \/ CycleChecks(a) \/ Restarts(a)
      PROVE  HookOK(b)'
  <2>1. hook' = hook /\ mode' = mode /\ theirs' = theirs
    BY <1>2 DEF Commits, CycleStarts, CycleBeats, CycleChecks, Restarts, podVars
  <2> QED BY <2>1
<1>3. ASSUME NEW a \in Agents, NEW fns \in (SUBSET Symbols) \ {{}}, StartsEdit(a, fns)
      PROVE  HookOK(b)'
  <2>1. CASE fns \subseteq heldFns[a]
    BY <1>3, <2>1 DEF StartsEdit
  <2>2. CASE ~(fns \subseteq heldFns[a])
    <3>1. hook'[b] = IF a = b THEN [pc |-> "check", fns |-> fns, left |-> fns \ heldFns[a]]
                     ELSE hook[b]
      BY <1>3, <2>2 DEF StartsEdit
    <3>2. theirs'[b] = IF a = b THEN HeldByOthers(a) \cap (fns \ heldFns[a]) ELSE theirs[b]
      BY <1>3, <2>2 DEF StartsEdit
    <3>3. mode' = mode
      BY <1>3 DEF StartsEdit
    <3> QED BY <3>1, <3>2, <3>3
  <2> QED BY <2>1, <2>2
<1>4. ASSUME NEW a \in Agents, Checks(a) PROVE HookOK(b)'
  <2>1. StillTheirs /\ mode' = mode /\ lease' = lease /\ hook[a].pc = "check"
    BY <1>4 DEF Checks
  <2>2. hook'[b].pc = IF a # b THEN hook[b].pc
                      ELSE IF LeaseConflicts(a, hook[a].left) # {} /\ mode = "enforce" THEN "idle"
                           ELSE "acquire"
    BY <1>4 DEF Checks, NoHook, HookRec
  <2>3. a # b => hook'[b] = hook[b]
    BY <1>4 DEF Checks
  <2>4. a = b /\ mode = "enforce" /\ hook'[b].pc = "acquire" => theirs'[b] = {}
    <3>1. theirs'[b] \subseteq HeldByOthers(b)'
      BY <2>1 DEF StillTheirs
    <3>2. HeldByOthers(b)' = HeldByOthers(b)
      BY <2>1 DEF HeldByOthers
    <3>3. a = b => theirs'[b] \subseteq hook[b].left /\ hook[b].left \subseteq Symbols
      BY <2>1, TheirsShrink DEF HookRec
    <3>4. a = b => theirs'[b] \subseteq LeaseConflicts(a, hook[a].left)
      BY <3>1, <3>2, <3>3 DEF HeldByOthers, LeaseConflicts
    <3> QED BY <3>4, <2>2
  <2>5. a = b => hook'[b].pc # "check"
    BY <2>2
  <2> QED BY <2>1, <2>3, <2>4, <2>5, TheirsShrink
<1>5. ASSUME NEW a \in Agents, HookAcquires(a) PROVE HookOK(b)'
  <2>1. StillTheirs /\ mode' = mode /\ hook[a].pc = "acquire"
    BY <1>5 DEF HookAcquires
  <2>2. hook'[b].pc \in {"idle", hook[b].pc} /\ (a # b => hook'[b] = hook[b])
    <3>1. PICK s \in hook[a].left : \/ hook' = [hook EXCEPT ![a] = NoHook]
                                  \/ hook' = [hook EXCEPT ![a].left = @ \ {s}]
      BY <1>5 DEF HookAcquires, EditApplied
    <3>2. CASE hook' = [hook EXCEPT ![a] = NoHook]
      BY <3>2 DEF NoHook
    <3>3. CASE hook' = [hook EXCEPT ![a].left = @ \ {s}]
      BY <3>3 DEF HookRec
    <3> QED BY <3>1, <3>2, <3>3
  <2> QED BY <2>1, <2>2, TheirsShrink
<1>6. ASSUME NEW a \in Agents, HookFails(a) \/ Gone(a) \/ Crashes(a) PROVE HookOK(b)'
  BY <1>6 DEF HookFails, EditApplied, Gone, Crashes, Forget, NoHook
<1>7. ASSUME NEW a \in Agents, CycleAcquires(a) \/ Exits(a) PROVE HookOK(b)'
  <2>1. hook' = hook /\ mode' = mode /\ StillTheirs
    BY <1>7 DEF CycleAcquires, Exits
  <2> QED BY <2>1, TheirsShrink
<1>8. CASE UNCHANGED vars
  BY <1>8 DEF vars
<1> QED
  BY <1>1, <1>2, <1>3, <1>4, <1>5, <1>6, <1>7, <1>8 DEF Next, Sidecar

-----------------------------------------------------------------------------
(* The sidecar's cycle and the age of the rows.                            *)

LEMMA CycleOKStep ==
    ASSUME HooksTyped, CyclesTyped, RestTyped, [Next]_vars,
           NEW b \in Agents, PodOK(b), CycleOK(b)
    PROVE  CycleOK(b)'
<1> USE Numbers DEF HooksTyped, CyclesTyped, RestTyped, CycleOK
<1>1. CASE Tick
  <2>1. /\ pod' = pod /\ own' = own
        /\ car[b].pc = "idle" \/ (car[b].pc = "compute" /\ car[b].spent < MaxCompute)
        /\ pod[b] = "up" => since'[b] = since[b] + 1
    BY <1>1 DEF Tick, Prompt
  <2>2. car[b].pc = "compute" => car'[b].pc = "compute" /\ car'[b].spent = car[b].spent + 1
    BY <1>1 DEF Tick, CycleRec
  <2>3. car[b].pc = "idle" => car'[b] = car[b]
    BY <1>1 DEF Tick
  <2>4. car[b].spent \in 0..MaxCompute /\ since[b] \in Nat
    BY DEF CycleRec
  <2> QED BY <2>1, <2>2, <2>3, <2>4
<1>2. CASE ReclaimStaleLeases
  <2>1. \A s \in Symbols : lease'[b][s] # NoLease => lease[b][s] # NoLease
    BY <1>2 DEF ReclaimStaleLeases
  <2> QED BY <1>2, <2>1 DEF ReclaimStaleLeases
<1>3. ASSUME NEW a \in Agents, NEW fns \in (SUBSET Symbols) \ {{}},
             StartsEdit(a, fns)
      PROVE  CycleOK(b)'
  BY <1>3 DEF StartsEdit
<1>13. ASSUME NEW a \in Agents, Checks(a) \/ HookFails(a) \/ Commits(a) PROVE CycleOK(b)'
  <2>1. UNCHANGED <<car, pod, since, lease, own>>
    BY <1>13 DEF Checks, HookFails, Commits
  <2> QED BY <2>1
<1>4. ASSUME NEW a \in Agents, HookAcquires(a) PROVE CycleOK(b)'
  <2>1. PICK s \in hook[a].left : Acquire(a, s)
    BY <1>4 DEF HookAcquires
  <2>2. s \in Symbols
    BY DEF HookRec
  <2>3. UNCHANGED <<car, pod, since>>
    BY <1>4 DEF HookAcquires
  <2>4. \A x \in Symbols : (lease[b][x] # NoLease => x \in own[b])
                            => (lease'[b][x] # NoLease => x \in own'[b])
    BY <2>1, <2>2, AcquireOwns
  <2> QED BY <2>3, <2>4
<1>5. ASSUME NEW a \in Agents, CycleStarts(a) PROVE CycleOK(b)'
  <2>1. car'[b] = IF a = b THEN [pc |-> "compute", spent |-> 0, frozen |-> FreezeSet(edited[a]),
                                 conflicts |-> {}]
                  ELSE car[b]
    BY <1>5 DEF CycleStarts
  <2>2. since'[b] = IF a = b THEN 0 ELSE since[b]
    BY <1>5 DEF CycleStarts
  <2>3. UNCHANGED <<pod, lease, own>>
    BY <1>5 DEF CycleStarts
  <2> QED BY <2>1, <2>2, <2>3
<1>6. ASSUME NEW a \in Agents, CycleBeats(a) PROVE CycleOK(b)'
  <2>1. UNCHANGED <<pod, since>> /\ car[a].pc = "compute"
    BY <1>6 DEF CycleBeats
  <2>2. a # b => car'[b] = car[b] /\ lease'[b] = lease[b] /\ own'[b] = own[b]
    BY <1>6 DEF CycleBeats
  <2>3. car'[a].pc \in {"idle", "conflicts"}
    BY <1>6 DEF CycleBeats, NoCycle
  <2>4. own'[a] = {s \in Symbols : lease[a][s] # NoLease} /\ lease'[a] = Heartbeat(a)
    BY <1>6 DEF CycleBeats
  <2>5. \A s \in Symbols : lease'[a][s] # NoLease => s \in own'[a]
    BY <2>4 DEF Heartbeat
  <2>6. car[a].spent \in 0..MaxCompute
    BY DEF CycleRec
  <2> QED BY <2>1, <2>2, <2>3, <2>5, <2>6
<1>7. ASSUME NEW a \in Agents, CycleChecks(a) PROVE CycleOK(b)'
  <2>1. UNCHANGED <<pod, since, lease, own>> /\ car[a].pc = "conflicts"
    BY <1>7 DEF CycleChecks
  <2>2. car'[b].pc = IF a = b THEN "acquire" ELSE car[b].pc
    BY <1>7 DEF CycleChecks, CycleRec
  <2>3. a # b => car'[b] = car[b]
    BY <1>7 DEF CycleChecks
  <2> QED BY <2>1, <2>2, <2>3
<1>8. ASSUME NEW a \in Agents, CycleAcquires(a) PROVE CycleOK(b)'
  <2>1. PICK s \in car[a].frozen :
          /\ Acquire(a, s)
          /\ car' = [car EXCEPT ![a] = NoCycle] \/ car' = [car EXCEPT ![a].frozen = @ \ {s}]
    BY <1>8 DEF CycleAcquires
  <2>2. s \in Symbols
    BY DEF CycleRec
  <2>3. UNCHANGED <<pod, since>> /\ car[a].pc = "acquire"
    BY <1>8 DEF CycleAcquires
  <2>4. \A x \in Symbols : (lease[b][x] # NoLease => x \in own[b])
                            => (lease'[b][x] # NoLease => x \in own'[b])
    BY <2>1, <2>2, AcquireOwns
  <2>5. a # b => car'[b] = car[b]
    BY <2>1
  <2>6. car'[a].pc \in {"idle", "acquire"}
    BY <2>1, <2>3 DEF NoCycle, CycleRec
  <2> QED BY <2>3, <2>4, <2>5, <2>6
<1>9. ASSUME NEW a \in Agents, Exits(a) PROVE CycleOK(b)'
  <2>1. UNCHANGED <<car, since, own>>
    BY <1>9 DEF Exits
  <2>2. pod'[b] = "up" => pod[b] = "up"
    BY <1>9 DEF Exits
  <2>3. \A s \in Symbols : lease'[b][s] # NoLease => lease[b][s] # NoLease
    BY <1>9 DEF Exits, Release
  <2> QED BY <2>1, <2>2, <2>3
<1>10. ASSUME NEW a \in Agents, Gone(a) \/ Crashes(a) PROVE CycleOK(b)'
  BY <1>10 DEF Gone, Crashes, Forget, NoCycle
<1>11. ASSUME NEW a \in Agents, Restarts(a) PROVE CycleOK(b)'
  <2>1. UNCHANGED <<car, since, own, lease>>
    BY <1>11 DEF Restarts, podVars
  <2>2. pod'[b] # pod[b] => car[b].pc = "idle"
    BY <1>11 DEF Restarts, PodOK
  <2> QED BY <2>1, <2>2
<1>12. CASE UNCHANGED vars
  BY <1>12 DEF vars
<1> QED
  BY <1>1, <1>2, <1>3, <1>4, <1>5, <1>6, <1>7, <1>8, <1>9, <1>10, <1>11, <1>12, <1>13
  DEF Next, Sidecar

LEMMA FreshStep ==
    ASSUME HooksTyped, CyclesTyped, RestTyped, [Next]_vars,
           NEW b \in Agents, PodOK(b), CycleOK(b), Fresh(b)
    PROVE  Fresh(b)'
<1> USE Numbers DEF HooksTyped, CyclesTyped, RestTyped, Fresh, Holds, NoLease
<1>0. lease[b] \in [Symbols -> NoLease..Ttl] /\ since[b] \in 0..LeasePeriod /\ car[b].spent \in 0..MaxCompute
  BY DEF CycleRec
<1>1. CASE Tick
  <2>1. /\ UNCHANGED <<pod, own>>
        /\ car[b].pc = "idle" \/ (car[b].pc = "compute" /\ car[b].spent < MaxCompute)
        /\ pod[b] = "up" => since'[b] = since[b] + 1
    BY <1>1 DEF Tick, Prompt
  <2>2. car[b].pc = "compute" => car'[b].pc = "compute" /\ car'[b].spent = car[b].spent + 1
    BY <1>1 DEF Tick, CycleRec
  <2>3. car[b].pc = "idle" => car'[b] = car[b]
    BY <1>1 DEF Tick
  <2>4. SUFFICES ASSUME pod'[b] = "up", NEW s \in Symbols, s \in own'[b], lease'[b][s] # NoLease
                 PROVE  lease'[b][s] <= IF car'[b].pc = "compute" THEN LeasePeriod + car'[b].spent
                                        ELSE since'[b]
    OBVIOUS
  <2>5. lease'[b][s] = IF lease[b][s] \in 0..(Ttl - 1) THEN lease[b][s] + 1 ELSE lease[b][s]
    BY <1>1 DEF Tick
  <2>6. lease[b][s] \in NoLease..Ttl
    BY <1>0
  <2>7. lease[b][s] # NoLease /\ lease'[b][s] <= lease[b][s] + 1 /\ lease'[b][s] \in Int
    BY <2>4, <2>5, <2>6
  <2>8. lease[b][s] <= IF car[b].pc = "compute" THEN LeasePeriod + car[b].spent ELSE since[b]
    BY <2>1, <2>4, <2>7
  <2>9. CASE car[b].pc = "compute"
    BY <2>1, <2>2, <2>6, <2>7, <2>8, <2>9, <1>0
  <2>10. CASE car[b].pc = "idle"
    BY <2>1, <2>3, <2>4, <2>6, <2>7, <2>8, <2>10, <1>0
  <2> QED BY <2>1, <2>9, <2>10
<1>2. CASE ReclaimStaleLeases
  <2>1. \A s \in Symbols : lease'[b][s] # NoLease => lease'[b][s] = lease[b][s]
    BY <1>2 DEF ReclaimStaleLeases
  <2> QED BY <1>2, <2>1 DEF ReclaimStaleLeases
<1>3. ASSUME NEW a \in Agents, NEW fns \in (SUBSET Symbols) \ {{}}, StartsEdit(a, fns)
      PROVE  Fresh(b)'
  BY <1>3 DEF StartsEdit
<1>4. ASSUME NEW a \in Agents, Checks(a) \/ HookFails(a) \/ Commits(a) PROVE Fresh(b)'
  <2>1. UNCHANGED <<car, pod, since, lease, own>>
    BY <1>4 DEF Checks, HookFails, Commits
  <2> QED BY <2>1
<1>5. ASSUME NEW a \in Agents, NEW s \in Symbols, Acquire(a, s), UNCHANGED <<pod, since>>,
             car'[b] = car[b] \/ (car'[b].pc # "compute" /\ car[b].pc # "compute")
      PROVE  Fresh(b)'
  <2>1. SUFFICES ASSUME pod'[b] = "up", NEW x \in Symbols, x \in own'[b], lease'[b][x] # NoLease
                 PROVE  lease'[b][x] <= IF car'[b].pc = "compute" THEN LeasePeriod + car'[b].spent
                                        ELSE since'[b]
    OBVIOUS
  <2>2. CASE lease[b][x] = NoLease
    <3>1. lease'[b][x] = 0
      BY <2>1, <2>2, <1>5, AcquireOwns
    <3>2. since'[b] \in Nat /\ since'[b] = since[b] /\ (car'[b] = car[b] \/ car'[b].pc # "compute")
      BY <1>0, <1>5
    <3> QED BY <1>0, <3>1, <3>2
  <2>3. CASE lease[b][x] # NoLease
    <3>1. lease'[b][x] = lease[b][x] /\ x \in own[b]
      BY <2>1, <2>3, <1>5, AcquireOwns DEF Acquire
    <3>2. lease[b][x] <= IF car[b].pc = "compute" THEN LeasePeriod + car[b].spent ELSE since[b]
      BY <2>1, <2>3, <3>1, <1>5
    <3> QED BY <1>5, <3>1, <3>2
  <2> QED BY <2>2, <2>3
<1>6. ASSUME NEW a \in Agents, HookAcquires(a) PROVE Fresh(b)'
  <2>1. PICK s \in hook[a].left : Acquire(a, s)
    BY <1>6 DEF HookAcquires
  <2>2. s \in Symbols
    BY DEF HookRec
  <2>3. UNCHANGED <<car, pod, since>>
    BY <1>6 DEF HookAcquires
  <2> QED BY <2>1, <2>2, <2>3, <1>5
<1>7. ASSUME NEW a \in Agents, CycleStarts(a) PROVE Fresh(b)'
  <2>1. a # b => car'[b] = car[b] /\ since'[b] = since[b]
    BY <1>7 DEF CycleStarts
  <2>2. /\ car'[a].pc = "compute" /\ car'[a].spent = 0
        /\ car[a].pc = "idle" /\ since[a] = LeasePeriod
    BY <1>7 DEF CycleStarts
  <2>3. UNCHANGED <<pod, lease, own>>
    BY <1>7 DEF CycleStarts
  <2> QED BY <2>1, <2>2, <2>3
<1>8. ASSUME NEW a \in Agents, CycleBeats(a) PROVE Fresh(b)'
  <2>1. UNCHANGED <<pod, since>>
    BY <1>8 DEF CycleBeats
  <2>2. a # b => car'[b] = car[b] /\ lease'[b] = lease[b] /\ own'[b] = own[b]
    BY <1>8 DEF CycleBeats
  <2>3. car'[a].pc \in {"idle", "conflicts"}
    BY <1>8 DEF CycleBeats, NoCycle
  <2>4. \A s \in Symbols : lease'[a][s] # NoLease => lease'[a][s] = 0
    BY <1>8 DEF CycleBeats, Heartbeat
  <2> QED BY <1>0, <2>1, <2>2, <2>3, <2>4
<1>9. ASSUME NEW a \in Agents, CycleChecks(a) PROVE Fresh(b)'
  <2>1. UNCHANGED <<pod, since, lease, own>> /\ car[a].pc = "conflicts"
    BY <1>9 DEF CycleChecks
  <2>2. car'[a].pc = "acquire"
    BY <1>9 DEF CycleChecks, CycleRec
  <2>3. a # b => car'[b] = car[b]
    BY <1>9 DEF CycleChecks
  <2> QED BY <2>1, <2>2, <2>3
<1>10. ASSUME NEW a \in Agents, CycleAcquires(a) PROVE Fresh(b)'
  <2>1. PICK s \in car[a].frozen :
          /\ Acquire(a, s)
          /\ car' = [car EXCEPT ![a] = NoCycle] \/ car' = [car EXCEPT ![a].frozen = @ \ {s}]
    BY <1>10 DEF CycleAcquires
  <2>2. s \in Symbols
    BY DEF CycleRec
  <2>3. UNCHANGED <<pod, since>> /\ car[a].pc = "acquire"
    BY <1>10 DEF CycleAcquires
  <2>4. a # b => car'[b] = car[b]
    BY <2>1
  <2>5. car'[a].pc \in {"idle", "acquire"}
    BY <2>1, <2>3 DEF NoCycle, CycleRec
  <2>6. car'[b] = car[b] \/ (car'[b].pc # "compute" /\ car[b].pc # "compute")
    BY <2>3, <2>4, <2>5
  <2> QED BY <2>1, <2>2, <2>3, <2>6, <1>5
<1>11. ASSUME NEW a \in Agents, Exits(a) PROVE Fresh(b)'
  <2>1. UNCHANGED <<car, since, own>>
    BY <1>11 DEF Exits
  <2>2. pod'[b] = "up" => pod[b] = "up" /\ lease'[b] = lease[b]
    BY <1>11 DEF Exits
  <2> QED BY <2>1, <2>2
<1>12. ASSUME NEW a \in Agents, Gone(a) \/ Crashes(a) PROVE Fresh(b)'
  BY <1>12 DEF Gone, Crashes, Forget
<1>13. ASSUME NEW a \in Agents, Restarts(a) PROVE Fresh(b)'
  <2>1. UNCHANGED <<car, since, own, lease>>
    BY <1>13 DEF Restarts, podVars
  <2>2. pod'[b] # pod[b] => own[b] = {}
    BY <1>13 DEF Restarts, PodOK
  <2> QED BY <2>1, <2>2
<1>14. CASE UNCHANGED vars
  BY <1>14 DEF vars
<1> QED
  BY <1>1, <1>2, <1>3, <1>4, <1>6, <1>7, <1>8, <1>9, <1>10, <1>11, <1>12, <1>13, <1>14
  DEF Next, Sidecar

-----------------------------------------------------------------------------
(* What one step does to one agent, to one row and to one contest.         *)

\* The cycle of an agent moves only by its own steps and by time.
LEMMA CycleMoves ==
    ASSUME HooksTyped, CyclesTyped, RestTyped, [Next]_vars, NEW b \in Agents, pod'[b] = "up"
    PROVE  \/ car'[b] = car[b] /\ since'[b] = since[b]
           \/ Tick
           \/ CycleStarts(b) \/ CycleBeats(b) \/ CycleChecks(b) \/ CycleAcquires(b)
<1> USE DEF HooksTyped, CyclesTyped, RestTyped
<1> DEFINE Still == car'[b] = car[b] /\ since'[b] = since[b]
<1>1. ASSUME NEW a \in Agents, NEW fns \in (SUBSET Symbols) \ {{}}, StartsEdit(a, fns) PROVE Still
  BY <1>1 DEF StartsEdit
<1>2. ASSUME NEW a \in Agents, Checks(a) \/ HookAcquires(a) \/ HookFails(a) \/ Commits(a)
                               \/ Exits(a) \/ Restarts(a)
      PROVE  Still
  BY <1>2 DEF Checks, HookAcquires, HookFails, Commits, Exits, Restarts, podVars
<1>3. ASSUME NEW a \in Agents, a # b, CycleStarts(a) \/ CycleBeats(a) \/ CycleChecks(a)
      PROVE  Still
  BY <1>3 DEF CycleStarts, CycleBeats, CycleChecks
<1>4. ASSUME NEW a \in Agents, a # b, CycleAcquires(a) PROVE Still
  BY <1>4 DEF CycleAcquires
<1>5. ASSUME NEW a \in Agents, Gone(a) \/ Crashes(a) PROVE Still
  BY <1>5 DEF Gone, Crashes, Forget
<1>6. CASE ReclaimStaleLeases \/ UNCHANGED vars
  BY <1>6 DEF ReclaimStaleLeases, vars
<1> QED
  BY <1>1, <1>2, <1>3, <1>4, <1>5, <1>6 DEF Next, Sidecar

LEMMA UnheardMoves ==
    ASSUME HooksTyped, CyclesTyped, RestTyped, [Next]_vars, NEW s \in Symbols
    PROVE  \/ unheard'[s] \in {0, unheard[s]}
           \/ Tick /\ Contested(s) /\ unheard'[s] = unheard[s] + 1
<1> USE DEF RestTyped
<1> DEFINE Still == unheard'[s] \in {0, unheard[s]}
<1>1. CASE Tick
  BY <1>1 DEF Tick
<1>2. ASSUME NEW a \in Agents, NEW fns \in (SUBSET Symbols) \ {{}}, StartsEdit(a, fns) PROVE Still
  BY <1>2 DEF StartsEdit
<1>3. ASSUME NEW a \in Agents, Checks(a) \/ HookAcquires(a) \/ HookFails(a) \/ CycleStarts(a)
                               \/ CycleBeats(a) \/ CycleChecks(a) \/ Restarts(a)
      PROVE  Still
  BY <1>3 DEF Checks, HookAcquires, HookFails, CycleStarts, CycleBeats, CycleChecks, Restarts
<1>4. ASSUME NEW a \in Agents, Commits(a) \/ Exits(a) \/ Gone(a) \/ Crashes(a) PROVE Still
  BY <1>4 DEF Commits, Exits, Gone, Crashes, Forget, Undisputed
<1>5. ASSUME NEW a \in Agents, CycleAcquires(a) PROVE Still
  BY <1>5 DEF CycleAcquires
<1>6. CASE ReclaimStaleLeases \/ UNCHANGED vars
  BY <1>6 DEF ReclaimStaleLeases, vars
<1> QED
  BY <1>1, <1>2, <1>3, <1>4, <1>5, <1>6 DEF Next, Sidecar

\* A function leaves the diff of a pod that is up only by a step that ends the contest.
LEMMA EditsKept ==
    ASSUME HooksTyped, CyclesTyped, RestTyped, [Next]_vars,
           NEW s \in Symbols, NEW b \in Agents, Edits(b, s)
    PROVE  Edits(b, s)' \/ unheard'[s] = 0
<1> USE DEF RestTyped, Edits
<1>1. CASE Tick \/ ReclaimStaleLeases \/ UNCHANGED vars
  BY <1>1 DEF Tick, ReclaimStaleLeases, vars
<1>2. ASSUME NEW a \in Agents, NEW fns \in (SUBSET Symbols) \ {{}}, StartsEdit(a, fns)
      PROVE  Edits(b, s)'
  BY <1>2 DEF StartsEdit
<1>3. ASSUME NEW a \in Agents, Checks(a) \/ CycleStarts(a) \/ CycleBeats(a) \/ CycleChecks(a)
      PROVE  Edits(b, s)'
  BY <1>3 DEF Checks, CycleStarts, CycleBeats, CycleChecks
<1>4. ASSUME NEW a \in Agents, HookAcquires(a) PROVE Edits(b, s)'
  <2>1. pod' = pod /\ (edited' = edited \/ edited' = [edited EXCEPT ![a] = @ \cup hook[a].fns])
    BY <1>4 DEF HookAcquires, EditApplied
  <2> QED BY <2>1
<1>5. ASSUME NEW a \in Agents, HookFails(a) PROVE Edits(b, s)'
  BY <1>5 DEF HookFails, EditApplied
<1>6. ASSUME NEW a \in Agents, Commits(a) \/ Exits(a) \/ Gone(a) \/ Crashes(a)
      PROVE  Edits(b, s)' \/ unheard'[s] = 0
  BY <1>6 DEF Commits, Exits, Gone, Crashes, Forget, Undisputed
<1>7. ASSUME NEW a \in Agents, CycleAcquires(a) PROVE Edits(b, s)'
  BY <1>7 DEF CycleAcquires
<1>8. ASSUME NEW a \in Agents, Restarts(a) PROVE Edits(b, s)'
  BY <1>8 DEF Restarts, podVars
<1> QED
  BY <1>1, <1>2, <1>3, <1>4, <1>5, <1>6, <1>7, <1>8 DEF Next, Sidecar

\* A row of a pod that is up has not expired.
LEMMA YoungRow ==
    ASSUME CyclesTyped, RestTyped, Timely, NEW s \in Symbols,
           NEW b \in Agents, Fresh(b), Holds(b, s), pod[b] = "up"
    PROVE  lease[b][s] \in 0..Cutoff /\ lease[b][s] \in 0..(Ttl - 1)
<1> USE Numbers DEF CyclesTyped, RestTyped, Holds, NoLease
<1>1. lease[b][s] \in 0..Ttl /\ since[b] \in 0..LeasePeriod /\ car[b].spent \in 0..MaxCompute
  BY DEF CycleRec
<1>2. lease[b][s] <= IF car[b].pc = "compute" THEN LeasePeriod + car[b].spent ELSE since[b]
  BY DEF Fresh
<1>3. CASE car[b].pc = "compute"
  BY <1>1, <1>2, <1>3 DEF Timely
<1>4. CASE car[b].pc # "compute"
  BY <1>1, <1>2, <1>4 DEF Timely
<1> QED BY <1>3, <1>4

\* A row that a pod inserted or renewed is there as long as the pod is up: its age stays
\* below the cutoff of the supervisor.
LEMMA HoldsKept ==
    ASSUME HooksTyped, CyclesTyped, RestTyped, Timely, [Next]_vars, NEW s \in Symbols,
           NEW b \in Agents, PodOK(b), CycleOK(b), Fresh(b), Holds(b, s), pod'[b] = "up"
    PROVE  Holds(b, s)'
<1> USE Numbers DEF HooksTyped, CyclesTyped, RestTyped, Holds, NoLease
<1>0. pod[b] = "up"
  <2>1. ASSUME NEW a \in Agents, Restarts(a), pod[b] # "up" PROVE FALSE
    BY <2>1 DEF Restarts, PodOK
  <2>2. ASSUME NEW a \in Agents, Exits(a) \/ Gone(a) \/ Crashes(a) PROVE pod[b] = "up"
    BY <2>2 DEF Exits, Gone, Crashes
  <2>3. ASSUME NEW a \in Agents, NEW fns \in (SUBSET Symbols) \ {{}}, StartsEdit(a, fns)
        PROVE  pod' = pod
    BY <2>3 DEF StartsEdit
  <2>4. ASSUME NEW a \in Agents, Checks(a) \/ HookAcquires(a) \/ HookFails(a) \/ Commits(a)
                                 \/ CycleStarts(a) \/ CycleBeats(a) \/ CycleChecks(a) \/ CycleAcquires(a)
        PROVE  pod' = pod
    BY <2>4 DEF Checks, HookAcquires, HookFails, Commits, CycleStarts, CycleBeats, CycleChecks,
                CycleAcquires
  <2>5. CASE Tick \/ ReclaimStaleLeases \/ UNCHANGED vars
    BY <2>5 DEF Tick, ReclaimStaleLeases, vars
  <2> QED BY <2>1, <2>2, <2>3, <2>4, <2>5 DEF Next, Sidecar
<1>1. lease[b][s] \in 0..Cutoff
  BY <1>0, YoungRow
<1>2. CASE Tick
  <2>1. own' = own /\ lease'[b][s] = IF lease[b][s] \in 0..(Ttl - 1) THEN lease[b][s] + 1 ELSE lease[b][s]
    BY <1>2 DEF Tick
  <2> QED BY <1>1, <2>1
<1>3. CASE ReclaimStaleLeases
  <2>1. own' = own /\ lease'[b][s] = IF Stale(lease[b][s]) THEN NoLease ELSE lease[b][s]
    BY <1>3 DEF ReclaimStaleLeases
  <2>2. ~Stale(lease[b][s])
    BY <1>1 DEF Stale
  <2> QED BY <2>1, <2>2
<1>4. ASSUME NEW a \in Agents, NEW fns \in (SUBSET Symbols) \ {{}}, StartsEdit(a, fns)
      PROVE  Holds(b, s)'
  BY <1>4 DEF StartsEdit
<1>5. ASSUME NEW a \in Agents, Checks(a) \/ HookFails(a) \/ Commits(a) \/ CycleStarts(a)
                               \/ CycleChecks(a) \/ Restarts(a)
      PROVE  Holds(b, s)'
  <2>1. UNCHANGED <<own, lease>>
    BY <1>5 DEF Checks, HookFails, Commits, CycleStarts, CycleChecks, Restarts, podVars
  <2> QED BY <2>1
<1>6. ASSUME NEW a \in Agents, HookAcquires(a) PROVE Holds(b, s)'
  <2>1. PICK t \in hook[a].left : Acquire(a, t)
    BY <1>6 DEF HookAcquires
  <2>2. t \in Symbols
    BY DEF HookRec
  <2> QED BY <2>1, <2>2, AcquireOwns
<1>7. ASSUME NEW a \in Agents, CycleAcquires(a) PROVE Holds(b, s)'
  <2>1. PICK t \in car[a].frozen : Acquire(a, t)
    BY <1>7 DEF CycleAcquires
  <2>2. t \in Symbols
    BY DEF CycleRec
  <2> QED BY <2>1, <2>2, AcquireOwns
<1>8. ASSUME NEW a \in Agents, CycleBeats(a) PROVE Holds(b, s)'
  BY <1>8 DEF CycleBeats, Heartbeat
<1>9. ASSUME NEW a \in Agents, Exits(a) PROVE Holds(b, s)'
  BY <1>9 DEF Exits
<1>10. ASSUME NEW a \in Agents, Gone(a) \/ Crashes(a) PROVE Holds(b, s)'
  BY <1>10 DEF Gone, Crashes, Forget
<1>11. CASE UNCHANGED vars
  BY <1>11 DEF vars
<1> QED
  BY <1>2, <1>3, <1>4, <1>5, <1>6, <1>7, <1>8, <1>9, <1>10, <1>11 DEF Next, Sidecar

-----------------------------------------------------------------------------
(* A contest is heard of.                                                  *)

\* The first cycle of an agent since the contest began ends with the row in the table.
LEMMA FirstCycleKept ==
    ASSUME HooksTyped, CyclesTyped, RestTyped, [Next]_vars, NEW s \in Symbols, unheard'[s] # 0,
           NEW b \in Agents, CycleOK(b), Edits(b, s), Edits(b, s)', FirstCycle(b, s)
    PROVE  FirstCycle(b, s)' \/ Holds(b, s)'
<1> USE Numbers
<1>0. /\ unheard[s] \in Nat /\ since[b] \in 0..LeasePeriod /\ car[b] \in CycleRec
      /\ pod'[b] = "up"
  BY DEF RestTyped, CyclesTyped, Edits
<1>1. CASE car'[b] = car[b] /\ since'[b] = since[b] /\ ~Tick
  <2>1. unheard'[s] = unheard[s]
    BY <1>1, UnheardMoves
  <2> QED BY <1>1, <2>1 DEF FirstCycle
<1>2. CASE Tick
  <2>1. unheard'[s] \in {unheard[s], unheard[s] + 1}
    BY UnheardMoves
  <2>2. since'[b] = since[b] + 1
    BY <1>2 DEF Tick, Edits, RestTyped
  <2>3. car[b].pc # "idle" => car'[b].pc # "idle" /\ car'[b].frozen = car[b].frozen
    BY <1>0, <1>2 DEF Tick, CyclesTyped, CycleRec
  <2> QED BY <1>0, <2>1, <2>2, <2>3 DEF FirstCycle
<1>3. CASE CycleStarts(b)
  <2>1. /\ since[b] = LeasePeriod /\ since'[b] = 0 /\ unheard' = unheard /\ car[b].pc = "idle"
        /\ car'[b].pc = "compute" /\ car'[b].frozen = FreezeSet(edited[b])
    BY <1>3 DEF CycleStarts, CyclesTyped, RestTyped
  <2>2. s \in FreezeSet(edited[b])
    BY DEF Edits, FreezeSet
  <2> QED BY <1>0, <2>1, <2>2 DEF FirstCycle
<1>4. CASE CycleBeats(b)
  <2>1. since' = since /\ unheard' = unheard
    BY <1>4 DEF CycleBeats
  <2>2. s \in car[b].frozen => car'[b].pc = "conflicts" /\ car'[b].frozen = car[b].frozen
    BY <1>4 DEF CycleBeats, CyclesTyped, NoCycle
  <2> QED BY <2>1, <2>2 DEF FirstCycle
<1>5. CASE CycleChecks(b)
  <2>1. since' = since /\ unheard' = unheard
    BY <1>5 DEF CycleChecks
  <2>2. car'[b].pc = "acquire" /\ car'[b].frozen = car[b].frozen
    BY <1>0, <1>5 DEF CycleChecks, CyclesTyped, CycleRec
  <2> QED BY <2>1, <2>2 DEF FirstCycle
<1>6. CASE CycleAcquires(b)
  <2>1. PICK t \in car[b].frozen :
          /\ Acquire(b, t)
          /\ IF car[b].frozen = {t} THEN car' = [car EXCEPT ![b] = NoCycle]
             ELSE car' = [car EXCEPT ![b].frozen = @ \ {t}]
    BY <1>6 DEF CycleAcquires
  <2>2. t \in Symbols /\ car[b].pc = "acquire" /\ since' = since
    BY <1>0, <1>6 DEF CycleAcquires, CycleRec
  <2>3. CASE t = s
    <3>1. lease[b][s] # NoLease => s \in own[b]
      BY <2>2 DEF CycleOK
    <3>2. lease'[b][s] # NoLease
      BY <2>1, <2>2, <2>3, AcquireOwns
    <3>3. s \in own'[b]
      BY <2>1, <2>2, <2>3, <3>1, <3>2, AcquireOwns
    <3> QED BY <3>2, <3>3 DEF Holds
  <2>4. CASE t # s
    <3>1. ~Tick
      BY <2>2, <1>0 DEF Tick, Prompt
    <3>2. unheard'[s] = unheard[s]
      BY <3>1, UnheardMoves
    <3>3. s \in car[b].frozen => car'[b].pc = "acquire" /\ s \in car'[b].frozen
      BY <2>1, <2>2, <2>4, <1>0 DEF CyclesTyped, CycleRec
    <3> QED BY <2>2, <3>2, <3>3 DEF FirstCycle
  <2> QED BY <2>3, <2>4
<1> QED BY <1>0, <1>1, <1>2, <1>3, <1>4, <1>5, <1>6, CycleMoves

\* Then the other agent has one cycle to begin, and reports in it.
LEMMA LatestKept ==
    ASSUME HooksTyped, CyclesTyped, RestTyped, [Next]_vars, NEW s \in Symbols, unheard'[s] # 0,
           NEW b \in Agents, Edits(b, s), Edits(b, s)', unheard[s] <= LeasePeriod + since[b]
    PROVE  unheard'[s] <= LeasePeriod + since'[b] \/ Reporting(b, s)'
<1> USE Numbers
<1>0. /\ unheard[s] \in Nat /\ since[b] \in 0..LeasePeriod /\ pod'[b] = "up"
  BY DEF RestTyped, Edits
<1>1. CASE since'[b] = since[b] /\ ~Tick
  BY <1>0, <1>1, UnheardMoves
<1>2. CASE Tick
  <2>1. unheard'[s] \in {unheard[s], unheard[s] + 1}
    BY UnheardMoves
  <2>2. since'[b] = since[b] + 1
    BY <1>2 DEF Tick, Edits, RestTyped
  <2> QED BY <1>0, <2>1, <2>2
<1>3. CASE CycleStarts(b)
  <2>1. /\ since[b] = LeasePeriod /\ since'[b] = 0 /\ unheard' = unheard
        /\ car'[b].pc = "compute" /\ car'[b].frozen = FreezeSet(edited[b])
    BY <1>3 DEF CycleStarts, CyclesTyped, RestTyped
  <2>2. s \in FreezeSet(edited[b])
    BY DEF Edits, FreezeSet
  <2> QED BY <1>0, <2>1, <2>2 DEF Reporting
<1>4. CASE CycleBeats(b) \/ CycleChecks(b) \/ CycleAcquires(b)
  BY <1>1, <1>2, <1>4 DEF CycleBeats, CycleChecks, CycleAcquires
<1> QED BY <1>0, <1>1, <1>2, <1>3, <1>4, CycleMoves

\* A cycle that begins when the other's row is there reports it at its end.
LEMMA ReportKept ==
    ASSUME HooksTyped, CyclesTyped, RestTyped, Timely, [Next]_vars, NEW s \in Symbols,
           unheard'[s] # 0,
           NEW a \in Agents, pod[a] = "up", Fresh(a), Holds(a, s),
           NEW b \in Agents \ {a}, Edits(b, s), Edits(b, s)', Reporting(b, s)
    PROVE  Reporting(b, s)'
<1> USE Numbers
<1>0. /\ unheard[s] \in Nat /\ since[b] \in 0..LeasePeriod /\ car[b] \in CycleRec
      /\ pod'[b] = "up"
  BY DEF RestTyped, CyclesTyped, Edits
<1>1. CASE car'[b] = car[b] /\ since'[b] = since[b] /\ ~Tick
  <2>1. unheard'[s] = unheard[s]
    BY <1>1, UnheardMoves
  <2> QED BY <1>1, <2>1 DEF Reporting
<1>2. CASE Tick
  <2>1. unheard'[s] \in {unheard[s], unheard[s] + 1}
    BY UnheardMoves
  <2>2. since'[b] = since[b] + 1
    BY <1>2 DEF Tick, Edits, RestTyped
  <2>3. car'[b].pc = car[b].pc /\ car'[b].frozen = car[b].frozen /\ car'[b].conflicts = car[b].conflicts
    BY <1>0, <1>2 DEF Tick, CyclesTyped, CycleRec
  <2> QED BY <1>0, <2>1, <2>2, <2>3 DEF Reporting
<1>3. CASE CycleStarts(b)
  BY <1>3 DEF CycleStarts, Reporting
<1>4. CASE CycleBeats(b)
  <2>1. since' = since /\ unheard' = unheard /\ car[b].pc = "compute"
    BY <1>4 DEF CycleBeats
  <2>2. s \in car[b].frozen => car'[b].pc = "conflicts" /\ car'[b].frozen = car[b].frozen
    BY <1>4 DEF CycleBeats, CyclesTyped, NoCycle
  <2> QED BY <2>1, <2>2 DEF Reporting
<1>5. CASE CycleChecks(b)
  <2>1. since' = since /\ unheard' = unheard /\ car[b].pc = "conflicts"
    BY <1>5 DEF CycleChecks
  <2>2. car'[b].pc = "acquire" /\ car'[b].conflicts = LeaseConflicts(b, car[b].frozen)
    BY <1>0, <1>5 DEF CycleChecks, CyclesTyped, CycleRec
  <2>3. lease[a][s] \in 0..(Ttl - 1)
    BY YoungRow
  <2>4. s \in car[b].frozen => s \in LeaseConflicts(b, car[b].frozen)
    BY <2>3 DEF LeaseConflicts
  <2> QED BY <2>1, <2>2, <2>4 DEF Reporting
<1>6. CASE CycleAcquires(b)
  <2>1. PICK t \in car[b].frozen :
          IF car[b].frozen = {t}
          THEN unheard' = [x \in Symbols |-> IF x \in car[b].conflicts THEN 0 ELSE unheard[x]]
          ELSE car' = [car EXCEPT ![b].frozen = @ \ {t}] /\ unheard' = unheard
    BY <1>6 DEF CycleAcquires
  <2>2. car[b].pc = "acquire" /\ since' = since /\ s \in car[b].conflicts
    BY <1>6 DEF CycleAcquires, Reporting
  <2>3. car[b].frozen # {t}
    BY <2>1, <2>2
  <2>4. car'[b].pc = "acquire" /\ car'[b].conflicts = car[b].conflicts
    BY <1>0, <2>1, <2>2, <2>3 DEF CyclesTyped, CycleRec
  <2> QED BY <2>1, <2>2, <2>3, <2>4 DEF Reporting
<1> QED BY <1>0, <1>1, <1>2, <1>3, <1>4, <1>5, <1>6, CycleMoves

LEMMA CountedStep ==
    ASSUME HooksTyped, CyclesTyped, RestTyped, Timely, [Next]_vars,
           \A b \in Agents : PodOK(b) /\ CycleOK(b) /\ Fresh(b),
           NEW s \in Symbols, Counted(s)
    PROVE  Counted(s)'
<1> SUFFICES ASSUME unheard'[s] # 0
             PROVE  \E a, b \in Agents : Heard(a, b, s)'
  BY DEF Counted
<1>1. PICK a \in Agents, b \in Agents : Heard(a, b, s)
  <2>1. CASE unheard[s] # 0
    BY <2>1 DEF Counted
  <2>2. CASE unheard[s] = 0
    <3>1. Contested(s)
      BY <2>2, UnheardMoves
    <3>2. \A c \in Agents : unheard[s] <= since[c]
      BY <2>2, Numbers DEF RestTyped
    <3> QED BY <3>1, <3>2 DEF Contested, Heard, Edits, FirstCycle
  <2> QED BY <2>1, <2>2
<1>2. a # b /\ Edits(a, s) /\ Edits(b, s)
  BY <1>1 DEF Heard
<1>3. Edits(a, s)' /\ Edits(b, s)'
  BY <1>2, EditsKept
<1>4. pod[a] = "up" /\ pod'[a] = "up" /\ pod[b] = "up" /\ pod'[b] = "up"
  BY <1>2, <1>3 DEF Edits
<1>5. \A c \in Agents : unheard'[s] \in Nat /\ since'[c] \in Nat /\ unheard[s] \in Nat /\ since[c] \in Nat
  <2>1. RestTyped'
    BY RestStep
  <2> QED BY <2>1, Numbers DEF RestTyped
<1>6. ASSUME NEW c \in Agents, FirstCycle(c, s)' \/ FirstCycle(c, s)
      PROVE  /\ FirstCycle(c, s)' => unheard'[s] <= LeasePeriod + since'[c]
             /\ FirstCycle(c, s) => unheard[s] <= LeasePeriod + since[c]
  BY <1>5, Numbers DEF FirstCycle
<1>7. CASE FirstCycle(a, s) /\ FirstCycle(b, s)
  <2>1. FirstCycle(a, s)' \/ Holds(a, s)'
    BY <1>2, <1>3, <1>7, FirstCycleKept
  <2>2. FirstCycle(b, s)' \/ Holds(b, s)'
    BY <1>2, <1>3, <1>7, FirstCycleKept
  <2>3. unheard'[s] <= LeasePeriod + since'[a] \/ Reporting(a, s)'
    BY <1>2, <1>3, <1>6, <1>7, LatestKept
  <2>4. unheard'[s] <= LeasePeriod + since'[b] \/ Reporting(b, s)'
    BY <1>2, <1>3, <1>6, <1>7, LatestKept
  <2>5. CASE Holds(a, s)'
    <3>1. Heard(a, b, s)'
      BY <1>2, <1>3, <2>4, <2>5 DEF Heard
    <3> QED BY <3>1
  <2>6. CASE Holds(b, s)'
    <3>1. Heard(b, a, s)'
      BY <1>2, <1>3, <2>3, <2>6 DEF Heard
    <3> QED BY <3>1
  <2>7. CASE FirstCycle(a, s)' /\ FirstCycle(b, s)'
    <3>1. Heard(a, b, s)'
      BY <1>2, <1>3, <2>7 DEF Heard
    <3> QED BY <3>1
  <2> QED BY <2>1, <2>2, <2>5, <2>6, <2>7
<1>8. CASE Holds(a, s) /\ unheard[s] <= LeasePeriod + since[b]
  <2>1. Holds(a, s)'
    BY <1>4, <1>8, HoldsKept
  <2>2. unheard'[s] <= LeasePeriod + since'[b] \/ Reporting(b, s)'
    BY <1>2, <1>3, <1>8, LatestKept
  <2>3. Heard(a, b, s)'
    BY <1>2, <1>3, <2>1, <2>2 DEF Heard
  <2> QED BY <2>3
<1>9. CASE Holds(a, s) /\ Reporting(b, s)
  <2>1. Holds(a, s)'
    BY <1>4, <1>9, HoldsKept
  <2>2. Reporting(b, s)'
    BY <1>2, <1>3, <1>4, <1>9, ReportKept
  <2>3. Heard(a, b, s)'
    BY <1>2, <1>3, <2>1, <2>2 DEF Heard
  <2> QED BY <2>3
<1> QED BY <1>1, <1>7, <1>8, <1>9 DEF Heard

-----------------------------------------------------------------------------
(* The theorems.                                                           *)

LEMMA InvInit == Init => IInv
<1> SUFFICES ASSUME Init PROVE IInv
  OBVIOUS
<1>1. TypeOK
  BY TypeInit
<1>2. \A a \in Agents : PodOK(a) /\ CycleOK(a) /\ HookOK(a)
  BY Numbers DEF Init, PodOK, CycleOK, HookOK, NoHook, NoCycle
<1>3. \A a \in Agents : Fresh(a)
  BY DEF Init, Fresh, Holds
<1>4. \A s \in Symbols : Counted(s)
  BY DEF Init, Counted
<1> QED BY <1>1, <1>2, <1>3, <1>4 DEF IInv

LEMMA InvStep == IInv /\ [Next]_vars => IInv'
<1> SUFFICES ASSUME IInv, [Next]_vars PROVE IInv'
  OBVIOUS
<1>1. /\ TypeOK /\ HooksTyped /\ CyclesTyped /\ RestTyped
      /\ \A a \in Agents : PodOK(a) /\ CycleOK(a) /\ HookOK(a)
  BY TypeParts DEF IInv
<1>2. TypeOK'
  BY <1>1, TypeStep
<1>3. \A a \in Agents : PodOK(a)' /\ CycleOK(a)' /\ HookOK(a)'
  BY <1>1, PodStep, CycleOKStep, HookOKStep
<1>4. ASSUME Timely PROVE \A a \in Agents : Fresh(a)'
  BY <1>1, <1>4, FreshStep DEF IInv
<1>5. ASSUME Timely PROVE \A s \in Symbols : Counted(s)'
  BY <1>1, <1>5, CountedStep DEF IInv
<1> QED BY <1>2, <1>3, <1>4, <1>5 DEF IInv, Timely

LEMMA InvHolds == Spec => []IInv
  BY InvInit, InvStep, PTL DEF Spec

\* The state is well-typed for any number of agents and functions; the count of the time a
\* contest goes unheard stays within its bound.
THEOREM TypeCorrect == Spec => []TypeOK
<1>1. IInv => TypeOK
  BY DEF IInv
<1> QED BY <1>1, InvHolds, PTL

\* In enforce mode the check of the hook comes before anything is taken, for any agents,
\* functions and failures of others (worker/index.ts, the lease hook; freeze-set.ts).
THEOREM FrozenStaysRefused == Spec => FrozenIsRefused
<1> DEFINE Refused == mode = "enforce" =>
        \A a \in Agents : (hook[a].pc = "acquire" /\ hook'[a].pc = "idle" /\ faults' = faults)
                            => theirs[a] = {}
<1>1. IInv /\ [Next]_vars => [Refused]_vars
  BY DEF IInv, HookOK
<1> QED BY <1>1, InvHolds, PTL DEF Spec, FrozenIsRefused

\* Where a heartbeat comes within the supervisor's cutoff, no row that a pod still up has
\* inserted or renewed is reclaimed, for any agents, functions and periods (checks.ts,
\* reclaimStaleLeases).
THEOREM ReclaimsDead ==
    ASSUME Timely
    PROVE  Spec => ReclaimsOnlyTheDead
<1> DEFINE Spared == \A a \in Agents, s \in Symbols :
        pod'[a] = "up" /\ s \in own[a] /\ lease[a][s] # NoLease => lease'[a][s] # NoLease
<1>1. IInv /\ [Next]_vars => [Spared]_vars
  <2> SUFFICES ASSUME IInv, [Next]_vars, NEW a \in Agents, NEW s \in Symbols,
                      pod'[a] = "up", Holds(a, s)
               PROVE  Holds(a, s)'
    BY DEF Holds
  <2>1. HooksTyped /\ CyclesTyped /\ RestTyped /\ PodOK(a) /\ CycleOK(a) /\ Fresh(a)
    BY TypeParts DEF IInv
  <2> QED BY <2>1, HoldsKept
<1> QED BY <1>1, InvHolds, PTL DEF Spec, ReclaimsOnlyTheDead

\* Where a heartbeat comes within the supervisor's cutoff, a contest is reported within two
\* periods and the time to compute a freeze set, for any number of agents and functions and
\* whatever hooks fail, pods crash and rows are left behind (sidecar/index.ts, the lease
\* cycle; checks.ts, reclaimStaleLeases).
THEOREM ContestsAreReported ==
    ASSUME Timely
    PROVE  Spec => []ContestIsReported
<1>1. IInv => ContestIsReported
  <2> SUFFICES ASSUME IInv, NEW s \in Symbols PROVE unheard[s] <= ReportWithin
    BY DEF ContestIsReported
  <2>1. HooksTyped /\ CyclesTyped /\ RestTyped /\ (\A a \in Agents : CycleOK(a)) /\ Counted(s)
    BY TypeParts DEF IInv
  <2>2. unheard[s] \in Nat /\ \A a \in Agents : since[a] \in 0..LeasePeriod
    BY <2>1, Numbers DEF RestTyped
  <2>3. CASE unheard[s] = 0
    BY <2>3, Numbers
  <2>4. ASSUME NEW a \in Agents, NEW b \in Agents, Heard(a, b, s)
        PROVE  unheard[s] <= ReportWithin
    <3>1. pod[a] = "up" /\ pod[b] = "up"
      BY <2>4 DEF Heard, Edits
    <3>2. FirstCycle(a, s) => unheard[s] <= LeasePeriod + since[a]
      BY <2>2, Numbers DEF FirstCycle
    <3>3. Reporting(b, s) => car[b].pc # "idle" /\ unheard[s] <= 2 * LeasePeriod + since[b]
      BY DEF Reporting
    <3>4. car[b].pc # "idle" => since[b] <= MaxCompute
      BY <2>1, <3>1 DEF CycleOK
    <3>5. \/ unheard[s] <= LeasePeriod + since[a]
          \/ unheard[s] <= LeasePeriod + since[b]
          \/ unheard[s] <= 2 * LeasePeriod + since[b] /\ since[b] <= MaxCompute
      BY <2>4, <3>2, <3>3, <3>4 DEF Heard
    <3> QED BY <2>2, <3>5, Numbers
  <2> QED BY <2>1, <2>3, <2>4 DEF Counted
<1> QED BY <1>1, InvHolds, PTL
===============================================================================
