----------------------------- MODULE FreezeLeases -----------------------------
(***************************************************************************)
(* The leases that keep agents out of each other's functions, for agents   *)
(* that work in one repository.                                            *)
(*   hook      the worker's check before an edit: review, then acquire     *)
(*   sidecar   the periodic pass: blast radius of the diff, heartbeat,     *)
(*             conflicts, acquire                                          *)
(*   reclaim   the supervisor frees what nobody kept alive                 *)
(* Nothing in the table is exclusive: a lease is a row per holder, and     *)
(* whoever checks before it inserts may be overtaken.  Time is counted in  *)
(* sidecar heartbeats.                                                     *)
(***************************************************************************)
EXTENDS Integers, FiniteSets

CONSTANTS
    Agents, Symbols,
    CallersOf,      \* the functions that call a function
    ForkOf,         \* pairs <<name, frozen name>> that isNameVariant takes for a fork
    Modes,          \* the values of config.leaseMode to consider ("off" takes no lease)
    LeasePeriod,    \* sidecarLeaseSeconds
    MaxCompute,     \* bound: how long computeFreezeSet may take before the heartbeat
    Cutoff,         \* the age at which the supervisor reclaims: four sidecar heartbeats
    Ttl,            \* LEASE_TTL_SECONDS
    MaxEdits,       \* bound: edits that need a lease
    MaxStrikes,     \* bound on the count of strikes
    MaxFaults       \* bound: pods that crash, hooks that throw

ASSUME PeriodsNat ==
    /\ {LeasePeriod, Ttl} \subseteq Nat \ {0}
    /\ {MaxCompute, Cutoff, MaxEdits, MaxStrikes, MaxFaults} \subseteq Nat
    /\ Cutoff < Ttl
ASSUME CallersAreSymbols == CallersOf \in [Symbols -> SUBSET Symbols]

NoLease == -1
ReportWithin == 2 * LeasePeriod + MaxCompute

VARIABLES
    mode,
    lease,     \* of each agent and symbol: age of heartbeat_at of its active row, NoLease without one
    pod,       \* the pod of each agent: worker and sidecar
    edited,    \* functions in the uncommitted diff
    heldFns,   \* the worker's memory of what it has acquired
    hook,      \* where the hook is, what it acquires, what is left of it
    own,       \* history: the rows this pod inserted or renewed
    theirs,    \* history: what others have held without a break since the hook began
    car,       \* where the lease cycle is
    since,     \* time since the cycle last started
    strikes,   \* agents.advisory_strikes
    told,      \* lastConflictKey: the conflicts a cycle last warned of
    unheard,   \* history: how long two pods have both had a function in their diffs, unreported
    edits, faults

podVars == <<edited, heldFns, hook, own, theirs, car, since, told>>
vars == <<mode, lease, pod, edited, heldFns, hook, own, theirs, car, since, told, strikes, unheard, edits, faults>>

NoHook == [pc |-> "idle", fns |-> {}, left |-> {}]
NoCycle == [pc |-> "idle", spent |-> 0, frozen |-> {}, conflicts |-> {}]

TypeOK ==
    /\ mode \in Modes
    /\ lease \in [Agents -> [Symbols -> NoLease..Ttl]]
    /\ pod \in [Agents -> {"up", "exiting", "gone", "dead"}]
    /\ edited \in [Agents -> SUBSET Symbols] /\ heldFns \in [Agents -> SUBSET Symbols]
    /\ hook \in [Agents -> [pc : {"idle", "check", "acquire"}, fns : SUBSET Symbols,
                            left : SUBSET Symbols]]
    /\ \A a \in Agents : hook[a].left \subseteq hook[a].fns \ heldFns[a]
    /\ theirs \in [Agents -> SUBSET Symbols] /\ own \in [Agents -> SUBSET Symbols]
    /\ car \in [Agents -> [pc : {"idle", "compute", "conflicts", "acquire"}, spent : 0..MaxCompute,
                           frozen : SUBSET Symbols, conflicts : SUBSET Symbols]]
    /\ since \in [Agents -> 0..LeasePeriod]
    /\ strikes \in [Agents -> 0..MaxStrikes] /\ told \in [Agents -> SUBSET Symbols]
    /\ unheard \in [Symbols -> 0..ReportWithin + 1]
    /\ edits \in 0..MaxEdits /\ faults \in 0..MaxFaults

Init ==
    /\ mode \in Modes
    /\ lease = [a \in Agents |-> [s \in Symbols |-> NoLease]]
    /\ pod = [a \in Agents |-> "up"]
    /\ edited = [a \in Agents |-> {}] /\ heldFns = [a \in Agents |-> {}]
    /\ hook = [a \in Agents |-> NoHook]
    /\ theirs = [a \in Agents |-> {}] /\ own = [a \in Agents |-> {}]
    /\ car = [a \in Agents |-> NoCycle]
    /\ since = [a \in Agents |-> 0]
    /\ strikes = [a \in Agents |-> 0] /\ told = [a \in Agents |-> {}]
    /\ unheard = [s \in Symbols |-> 0]
    /\ edits = 0 /\ faults = 0

(***************************************************************************)
(* The statements on the table.                                            *)
(***************************************************************************)
Fails == faults < MaxFaults /\ faults' = faults + 1

\* mutant: the caller's own rows instead of the others'
OwnConflicts(a, fns) == {s \in fns : lease[a][s] \in 0..(Ttl - 1)}

\* getLeaseConflicts: active, not expired, of somebody else
LeaseConflicts(a, fns) ==
    {s \in fns : \E b \in Agents \ {a} : lease[b][s] \in 0..(Ttl - 1)}

\* acquireLeases inserts unless an active row of one's own is there, expired or not.
Acquire(a, s) ==
    /\ lease' = [lease EXCEPT ![a][s] = IF @ = NoLease THEN 0 ELSE @]
    /\ own' = [own EXCEPT ![a] = IF lease[a][s] = NoLease THEN @ \cup {s} ELSE @]

\* heartbeatLeases renews every active row of the agent.
Heartbeat(a) == [s \in Symbols |-> IF lease[a][s] = NoLease THEN NoLease ELSE 0]

Release(a) == [s \in Symbols |-> NoLease]

\* history
HeldByOthers(a) == {s \in Symbols : \E b \in Agents \ {a} : lease[b][s] \in 0..(Ttl - 1)}

StillTheirs ==
    theirs' = [a \in Agents |-> {s \in theirs[a] : hook'[a].pc # "idle" /\ s \in HeldByOthers(a)'}]

Undisputed(a) == unheard' = [s \in Symbols |-> IF s \in edited[a] THEN 0 ELSE unheard[s]]

Contested(s) ==
    \E a, b \in Agents :
        /\ a # b /\ pod[a] = "up" /\ pod[b] = "up"
        /\ s \in edited[a] \cap edited[b] /\ s \notin told[a] \cup told[b]

Strike(a) == strikes' = [strikes EXCEPT ![a] = IF @ < MaxStrikes THEN @ + 1 ELSE @]

(***************************************************************************)
(* The hook of the worker.                                                 *)
(***************************************************************************)
\* An edit of functions the worker holds already passes without a look at the table.
StartsEdit(a, fns) ==
    /\ pod[a] = "up" /\ hook[a].pc = "idle"
    /\ edits < MaxEdits
    /\ edits' = edits + 1
    /\ IF fns \subseteq heldFns[a]
       THEN edited' = [edited EXCEPT ![a] = @ \cup fns] /\ UNCHANGED <<hook, theirs>>
       ELSE /\ hook' = [hook EXCEPT ![a] = [pc |-> "check", fns |-> fns,
                                            left |-> fns \ heldFns[a]]]
            /\ theirs' = [theirs EXCEPT ![a] = HeldByOthers(a) \cap (fns \ heldFns[a])]
            /\ UNCHANGED edited
    /\ UNCHANGED <<mode, told, lease, pod, heldFns, own, car, since, strikes, unheard, faults>>

Checks(a) ==
    LET conflicts == LeaseConflicts(a, hook[a].left) IN
    /\ hook[a].pc = "check"
    /\ IF conflicts # {} /\ mode = "enforce"
       THEN hook' = [hook EXCEPT ![a] = NoHook] /\ UNCHANGED strikes        \* denied
       ELSE /\ hook' = [hook EXCEPT ![a].pc = "acquire"]
            /\ IF conflicts # {} THEN Strike(a) ELSE UNCHANGED strikes
    /\ UNCHANGED <<mode, told, lease, pod, edited, heldFns, own, car, since, unheard, edits, faults>>
    /\ StillTheirs

EditApplied(a) ==
    /\ edited' = [edited EXCEPT ![a] = @ \cup hook[a].fns]
    /\ hook' = [hook EXCEPT ![a] = NoHook]

HookAcquires(a) ==
    /\ hook[a].pc = "acquire"
    /\ \E s \in hook[a].left :
          /\ Acquire(a, s)
          /\ IF hook[a].left = {s}
             THEN EditApplied(a) /\ heldFns' = [heldFns EXCEPT ![a] = @ \cup hook[a].fns]
             ELSE hook' = [hook EXCEPT ![a].left = @ \ {s}] /\ UNCHANGED <<edited, heldFns>>
    /\ UNCHANGED <<mode, told, pod, car, since, strikes, unheard, edits, faults>>
    /\ StillTheirs

\* "never block the agent on a hook error"
HookFails(a) ==
    /\ hook[a].pc # "idle"
    /\ Fails
    /\ EditApplied(a)
    /\ theirs' = [theirs EXCEPT ![a] = {}]
    /\ UNCHANGED <<mode, told, lease, pod, heldFns, own, car, since, strikes, unheard, edits>>

\* The agent commits: its diff is empty again.
Commits(a) ==
    /\ pod[a] = "up" /\ hook[a].pc = "idle" /\ edited[a] # {}
    /\ edited' = [edited EXCEPT ![a] = {}]
    /\ Undisputed(a)
    /\ UNCHANGED <<mode, told, lease, pod, heldFns, hook, own, theirs, car, since, strikes, edits, faults>>

(***************************************************************************)
(* The sidecar's lease cycle.                                              *)
(***************************************************************************)
\* mutant: the callers without the functions themselves
CallersOnly(fns) == UNION {CallersOf[s] : s \in fns}

\* computeFreezeSet: what the diff touches, and one hop of callers
FreezeSet(fns) == fns \cup UNION {CallersOf[s] : s \in fns}

CycleStarts(a) ==
    /\ pod[a] = "up" /\ car[a].pc = "idle"
    /\ since[a] = LeasePeriod
    /\ since' = [since EXCEPT ![a] = 0]
    /\ car' = [car EXCEPT ![a] = [pc |-> "compute", spent |-> 0, frozen |-> FreezeSet(edited[a]),
                                       conflicts |-> {}]]
    /\ UNCHANGED <<mode, told, lease, pod, edited, heldFns, hook, own, theirs, strikes, unheard, edits, faults>>

CycleBeats(a) ==
    /\ car[a].pc = "compute"
    /\ lease' = [lease EXCEPT ![a] = Heartbeat(a)]
    /\ own' = [own EXCEPT ![a] = {s \in Symbols : lease[a][s] # NoLease}]
    /\ car' = [car EXCEPT ![a] = IF @.frozen = {} THEN NoCycle
                                 ELSE [NoCycle EXCEPT !.pc = "conflicts", !.frozen = car[a].frozen]]
    /\ UNCHANGED <<mode, told, pod, edited, heldFns, hook, theirs, since, strikes, unheard, edits, faults>>

CycleChecks(a) ==
    /\ car[a].pc = "conflicts"
    /\ car' = [car EXCEPT ![a].pc = "acquire", ![a].conflicts = LeaseConflicts(a, car[a].frozen)]
    /\ UNCHANGED <<mode, told, lease, pod, edited, heldFns, hook, own, theirs, since, strikes, unheard, edits, faults>>

Evades(a) ==
    \E e \in edited[a], b \in Agents \ {a}, s \in Symbols :
        lease[b][s] # NoLease /\ <<e, s>> \in ForkOf

\* One insert at a time; the last one is followed by the look for forks of frozen names (a
\* strike) and the report of the conflicts read before the inserts.
CycleAcquires(a) ==
    /\ car[a].pc = "acquire"
    /\ \E s \in car[a].frozen :
          /\ Acquire(a, s)
          /\ IF car[a].frozen = {s}
             THEN /\ car' = [car EXCEPT ![a] = NoCycle]
                  /\ told' = [told EXCEPT ![a] = car[a].conflicts]
                  /\ unheard' = [x \in Symbols |-> IF x \in car[a].conflicts THEN 0 ELSE unheard[x]]
                  /\ IF Evades(a) THEN Strike(a) ELSE UNCHANGED strikes
             ELSE car' = [car EXCEPT ![a].frozen = @ \ {s}] /\ UNCHANGED <<told, unheard, strikes>>
    /\ UNCHANGED <<mode, pod, edited, heldFns, hook, since, edits, faults>>
    /\ StillTheirs

(***************************************************************************)
(* Pods and the supervisor.                                                *)
(***************************************************************************)
\* Kubernetes terminates the sidecar after the worker: its leases are released, while an
\* insert of a cycle under way may still land.
Exits(a) ==
    /\ pod[a] = "up" /\ hook[a].pc = "idle"
    /\ pod' = [pod EXCEPT ![a] = "exiting"]
    /\ lease' = [lease EXCEPT ![a] = Release(a)]
    /\ Undisputed(a)
    /\ UNCHANGED <<mode, told, edited, heldFns, hook, own, car, since, strikes, edits, faults>>
    /\ StillTheirs

Forget(a) ==
    /\ edited' = [edited EXCEPT ![a] = {}]
    /\ heldFns' = [heldFns EXCEPT ![a] = {}]
    /\ hook' = [hook EXCEPT ![a] = NoHook]
    /\ theirs' = [theirs EXCEPT ![a] = {}]
    /\ own' = [own EXCEPT ![a] = {}]
    /\ car' = [car EXCEPT ![a] = NoCycle]
    /\ since' = [since EXCEPT ![a] = 0]
    /\ told' = [told EXCEPT ![a] = {}]
    /\ Undisputed(a)

Gone(a) ==
    /\ pod[a] = "exiting"
    /\ pod' = [pod EXCEPT ![a] = "gone"]
    /\ Forget(a)
    /\ UNCHANGED <<mode, lease, strikes, edits, faults>>

Crashes(a) ==
    /\ pod[a] = "up"
    /\ Fails
    /\ pod' = [pod EXCEPT ![a] = "dead"]
    /\ Forget(a)
    /\ UNCHANGED <<mode, lease, strikes, edits>>

\* A message or a redispatch gives the agent a new pod, which remembers nothing.
Restarts(a) ==
    /\ pod[a] \in {"gone", "dead"}
    /\ edits < MaxEdits
    /\ pod' = [pod EXCEPT ![a] = "up"]
    /\ UNCHANGED <<mode, lease, podVars, strikes, unheard, edits, faults>>

\* mutant: off by one
StaleEarly(age) == age >= Cutoff

\* mutant: what has expired is taken for free already
StaleUnexpired(age) == age > Cutoff /\ age < Ttl

\* reclaimStaleLeases, one statement: heartbeat_at < cutoff
Stale(age) == age > Cutoff

ReclaimStaleLeases ==
    /\ lease' = [a \in Agents |-> [s \in Symbols |-> IF Stale(lease[a][s]) THEN NoLease
                                                     ELSE lease[a][s]]]
    /\ lease' # lease
    /\ UNCHANGED <<mode, told, pod, edited, heldFns, hook, own, car, since, strikes, unheard, edits, faults>>
    /\ StillTheirs

\* mutant: a cycle may start late
PromptOnceStarted(a) == car[a].pc = "idle" \/ (car[a].pc = "compute" /\ car[a].spent < MaxCompute)

\* A cycle starts when its interval is over and its heartbeat comes within MaxCompute; the
\* calls to the database are short against the unit of time.
Prompt(a) ==
    /\ since[a] < LeasePeriod \/ pod[a] # "up"
    /\ car[a].pc = "idle" \/ (car[a].pc = "compute" /\ car[a].spent < MaxCompute)

Tick ==
    /\ \A a \in Agents : Prompt(a)
    /\ lease' = [a \in Agents |-> [s \in Symbols |->
                    IF lease[a][s] \in 0..(Ttl - 1) THEN lease[a][s] + 1 ELSE lease[a][s]]]
    /\ since' = [a \in Agents |-> IF pod[a] = "up" THEN since[a] + 1 ELSE since[a]]
    /\ car' = [a \in Agents |-> IF car[a].pc = "compute" THEN [car[a] EXCEPT !.spent = @ + 1]
                                ELSE car[a]]
    /\ unheard' = [s \in Symbols |-> IF Contested(s) /\ unheard[s] <= ReportWithin
                                     THEN unheard[s] + 1 ELSE unheard[s]]
    /\ UNCHANGED <<mode, told, pod, edited, heldFns, hook, own, strikes, edits, faults>>
    /\ StillTheirs

Sidecar(a) == CycleStarts(a) \/ CycleBeats(a) \/ CycleChecks(a) \/ CycleAcquires(a)

Next ==
    \/ Tick \/ ReclaimStaleLeases
    \/ \E a \in Agents :
          \/ \E fns \in (SUBSET Symbols) \ {{}} : StartsEdit(a, fns)
          \/ Checks(a) \/ HookAcquires(a) \/ HookFails(a) \/ Commits(a)
          \/ Sidecar(a)
          \/ Exits(a) \/ Gone(a) \/ Crashes(a) \/ Restarts(a)

\* Time passes, the sidecar's and the supervisor's timers fire, Kubernetes ends a pod.
Fairness ==
    /\ WF_vars(Tick) /\ WF_vars(ReclaimStaleLeases)
    /\ WF_vars(\E a \in Agents : Sidecar(a)) /\ WF_vars(\E a \in Agents : Gone(a))

Spec == Init /\ [][Next]_vars /\ Fairness

(***************************************************************************)
(* Properties.                                                             *)
(***************************************************************************)
\* In enforce mode no edit goes into a function that somebody else has held ever since the
\* hook of that edit began, unless the hook failed: the deny comes before anything is taken.
FrozenIsRefused ==
    [][mode = "enforce" =>
        \A a \in Agents : (hook[a].pc = "acquire" /\ hook'[a].pc = "idle" /\ faults' = faults)
                            => theirs[a] = {}]_vars

\* The supervisor frees the territory of dead holders, never a row that a pod still up has
\* inserted or renewed itself.  This needs LeasePeriod + MaxCompute <= Cutoff: the defaults, a
\* period of 60 seconds and four heartbeats of 15 (config.ts:42, 57), leave no time to compute.
ReclaimsOnlyTheDead ==
    [][\A a \in Agents, s \in Symbols :
        pod'[a] = "up" /\ s \in own[a] /\ lease[a][s] # NoLease => lease'[a][s] # NoLease]_vars

\* Within two lease periods of two pods having a function in their diffs, what one of them was
\* last warned of names it, although both hooks may have checked before either acquired, or
\* failed and acquired nothing.
ContestIsReported == \A s \in Symbols : unheard[s] <= ReportWithin

\* What a holder leaves behind when it dies, or when an insert lands after its release, freezes
\* nothing for ever.
DeadLeasesFreed ==
    \A a \in Agents, s \in Symbols :
        (pod[a] \in {"dead", "gone"} /\ lease[a][s] # NoLease) ~> (lease[a][s] = NoLease \/ pod[a] = "up")
=============================================================================
