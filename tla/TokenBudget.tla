----------------------------- MODULE TokenBudget -----------------------------
(***************************************************************************)
(* The token budget (tokens/budget.ts): the ledger of token_usage, the     *)
(* fleet's ceiling with its ladder of priorities, the cap of each user, the*)
(* gate of a start and the list of agents a supervisor cycle pauses.       *)
(* Amounts are whole cents; a percentage is compared without dividing.  The*)
(* day and the month are counted from their start: the sums are what has   *)
(* been recorded since.                                                    *)
(***************************************************************************)
EXTENDS Integers, FiniteSets, Functions

CONSTANTS
    Agents, Users,
    Costs,        \* bound: what one turn may cost
    Caps,         \* bound: budgets an admin may set; 0 stands for null (or for no budget)
    MaxSpend,     \* bound: what an agent may burn in a month
    Transfers     \* whether an admin may transfer agents

Priorities == {"high", "medium", "low"}

VARIABLES
    config,       \* budget_config: the fleet's budgets and the users' defaults
    override,     \* users: own caps
    priority,     \* per agent
    owner,        \* created_by_user_id
    running,      \* agents in state running
    daily, monthly, \* per agent and user: cents burnt while that user owned the agent
    listed        \* the agents that a cycle has decided to pause and has not paused yet

vars == <<config, override, priority, owner, running, daily, monthly, listed>>

Config == [daily : Caps, monthly : Caps, userDaily : Caps, userMonthly : Caps]

TypeOK ==
    /\ config \in Config
    /\ override \in [Users -> [daily : Caps, monthly : Caps]]
    /\ priority \in [Agents -> Priorities]
    /\ owner \in [Agents -> Users]
    /\ running \in SUBSET Agents
    /\ daily \in [Agents -> [Users -> 0..MaxSpend]]
    /\ monthly \in [Agents -> [Users -> 0..MaxSpend]]
    /\ listed \in SUBSET Agents

Init ==
    /\ config \in Config
    /\ override = [u \in Users |-> [daily |-> 0, monthly |-> 0]]
    /\ priority \in [Agents -> Priorities]
    /\ owner \in [Agents -> Users]
    /\ running = {} /\ listed = {}
    /\ daily = [a \in Agents |-> [u \in Users |-> 0]]
    /\ monthly = daily

-----------------------------------------------------------------------------
(* The rules, as functions of what was spent.                              *)

\* daily_percent or monthly_percent is at least p; a budget of zero is never reached.
Reached(p, spend, budget) == budget > 0 /\ spend * 100 >= p * budget

\* The ladder of canAllocate: who may not start at this daily spend.
Denied(prio, spend, budget) ==
    \/ Reached(110, spend, budget)
    \/ Reached(100, spend, budget) /\ prio # "high"
    \/ Reached(90, spend, budget) /\ prio = "low"

\* The ladder of getAgentsToPause: which of the running agents the ceiling stops.
LadderPauses(prio, spend, budget) ==
    /\ Reached(90, spend, budget)
    /\ IF Reached(110, spend, budget) THEN TRUE
       ELSE IF Reached(100, spend, budget) /\ prio # "high" THEN TRUE
       ELSE prio = "low"

\* An override, or the default; 0: uncapped.
EffectiveCap(own, default) == IF own = 0 THEN default ELSE own
CapReached(spend, cap) == cap # 0 /\ spend >= cap

\* The caps of a user against what was spent for it.
OverOwnCap(own, cfg, spentDay, spentMonth) ==
    \/ CapReached(spentDay, EffectiveCap(own.daily, cfg.userDaily))
    \/ CapReached(spentMonth, EffectiveCap(own.monthly, cfg.userMonthly))

-----------------------------------------------------------------------------
(* The sums the queries read.                                              *)

OfAgent(table, a) == SumFunctionOnSet(table[a], Users)

\* getDailySpend and getMonthlySpend: everybody's rows.
FleetSpend(table) == SumFunctionOnSet([a \in Agents |-> OfAgent(table, a)], Agents)

\* getSpendByUser: the rows of the agents the user owns now, whoever owned them then.
SpendByUser(table, u) ==
    SumFunctionOnSet([a \in Agents |-> IF owner[a] = u THEN OfAgent(table, a) ELSE 0], Agents)

\* What the user's own turns cost.
Burnt(table, u) == SumFunctionOnSet([a \in Agents |-> table[a][u]], Agents)

CanAllocate(a) ==
    /\ ~Denied(priority[a], FleetSpend(daily), config.daily)
    /\ ~Reached(100, FleetSpend(monthly), config.monthly)

LadderStops == {a \in running : LadderPauses(priority[a], FleetSpend(daily), config.daily)}
CapStops == {a \in running :
    OverOwnCap(override[owner[a]], config, SpendByUser(daily, owner[a]), SpendByUser(monthly, owner[a]))}
GetAgentsToPause == LadderStops \cup CapStops

-----------------------------------------------------------------------------
(* Actions.                                                                *)

\* An agent starts, by the gate of the in-process runner.
Starts(a) ==
    /\ a \notin running /\ CanAllocate(a)
    /\ running' = running \cup {a}
    /\ UNCHANGED <<config, override, priority, owner, daily, monthly, listed>>

\* A dispatch in pod mode does not ask the budget.
Dispatched(a) ==
    /\ a \notin running
    /\ running' = running \cup {a}
    /\ UNCHANGED <<config, override, priority, owner, daily, monthly, listed>>

RecordUsage(a) ==
    /\ a \in running
    /\ \E c \in Costs :
          /\ OfAgent(monthly, a) + c <= MaxSpend
          /\ daily' = [daily EXCEPT ![a][owner[a]] = @ + c]
          /\ monthly' = [monthly EXCEPT ![a][owner[a]] = @ + c]
    /\ UNCHANGED <<config, override, priority, owner, running, listed>>

Ends(a) ==
    /\ a \in running /\ running' = running \ {a}
    /\ UNCHANGED <<config, override, priority, owner, daily, monthly, listed>>

\* The budget part of a cycle reads the sums and makes its list.
ListsAgents ==
    /\ listed = {}
    /\ listed' = GetAgentsToPause
    /\ UNCHANGED <<config, override, priority, owner, running, daily, monthly>>

\* Each agent of the list is paused, whatever it does by then.
PauseListed(a) ==
    /\ a \in listed
    /\ listed' = listed \ {a} /\ running' = running \ {a}
    /\ UNCHANGED <<config, override, priority, owner, daily, monthly>>

\* Budgets that are not positive are stored as null for users.
UpdateUserBudget(u) ==
    /\ \E d \in Caps, m \in Caps : override' = [override EXCEPT ![u] = [daily |-> d, monthly |-> m]]
    /\ UNCHANGED <<config, priority, owner, running, daily, monthly, listed>>

\* An agent that does not run gets another owner, with all of its rows.
UpdateAgentOwner(a) ==
    /\ Transfers /\ a \notin running
    /\ \E u \in Users : owner' = [owner EXCEPT ![a] = u]
    /\ UNCHANGED <<config, override, priority, running, daily, monthly, listed>>

NewDay ==
    /\ daily' = [a \in Agents |-> [u \in Users |-> 0]]
    /\ UNCHANGED <<config, override, priority, owner, running, monthly, listed>>

Next ==
    \/ \E a \in Agents : \/ Starts(a) \/ Dispatched(a) \/ RecordUsage(a) \/ Ends(a)
                         \/ PauseListed(a) \/ UpdateAgentOwner(a)
    \/ \E u \in Users : UpdateUserBudget(u)
    \/ ListsAgents \/ NewDay

Spec == Init /\ [][Next]_vars

-----------------------------------------------------------------------------
(* Properties.                                                             *)

\* "One user's burn never pauses another user's agents at this tier" (budget.ts:78-80): who
\* is stopped by its cap has burnt that much.  Refuted with transfers: the new owner is
\* charged what the old one burnt, because the rows go by the owner of the day.
OwnBurnOnly ==
    \A a \in CapStops :
        OverOwnCap(override[owner[a]], config, Burnt(daily, owner[a]), Burnt(monthly, owner[a]))

\* The two ladders agree: the ceiling stops a running agent exactly when it would not let
\* another of its priority start that day.
LaddersAgree ==
    \A a \in running : a \in LadderStops <=> Denied(priority[a], FleetSpend(daily), config.daily)

=============================================================================
