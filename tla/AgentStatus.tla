----------------------------- MODULE AgentStatus -----------------------------
(***************************************************************************)
(* One change as the two pages show it.  Its rows are written by the       *)
(* pipeline (here only what the status depends on: the other modules say   *)
(* when each write is made).  The dashboard's request reads them in batches*)
(* for all agents, the detail request one agent at a time, each with an    *)
(* await between its queries; both end in computeAgentStatus.              *)
(***************************************************************************)
EXTENDS Naturals, Sequences, FiniteSets, FiniteSetsExt

CONSTANTS
    Reviewers,    \* review agents of the change
    Executors,    \* deploy agents
    Runs,         \* pipeline runs, numbered as they are inserted: 1..n
    Envs,         \* dev environments of the change, numbered likewise
    Refs,         \* git_ref of a deploy somebody starts: a subset of {"main", None}
    Worked,       \* states, apart from verified, that the change is taken through
    MaxTorn       \* bound: writes between the first and the last query of the two requests

VARIABLES
    change,       \* its row of agents
    agents,       \* the state of the review and deploy agents; None: not there
    run,          \* rows of pipeline_runs
    link,         \* dispatchDeployAgent, per deploy agent: its run and where it is
    env,          \* rows of dev_envs: their status
    card, header, \* the two requests: how many queries are done, and what they read
    torn          \* how many rows were written since the first of their queries

vars == <<change, agents, run, link, env, card, header, torn>>
pages == <<card, header>>

None == "none"
Change == "change"
States == {"pending", "queued", "running", "waiting_permission", "waiting_input", "paused",
           "failed", "aborted", "completed", "verified"}
Ended == {"failed", "aborted", "completed", "verified", "paused"}   \* of a review agent
Gated == {"pending_review", "pending_approval"}
Active == Gated \cup {"pending", "running"}
Last(S) == IF S = {} THEN 0 ELSE Max(S)      \* ORDER BY created_at DESC LIMIT 1

NoRun == [phase |-> None, status |-> None, land |-> FALSE, agent |-> None, ref |-> None]

ListQueries == <<"deploy_ids", "agent", "testing", "landing", "reviewing", "deploy_status",
                 "deploy_agent_state", "dev_env">>
DetailQueries == <<"agent", "testing", "landing", "deploy_status", "deploy_agent_state",
                   "reviewing", "dev_env", "deploy_ids">>
NewChange == [state |-> "pending", recommendation |-> None, pr |-> FALSE, deployed_by |-> None]
Unread == [n |-> 0,
           got |-> [agent |-> NewChange, deploy_ids |-> FALSE, testing |-> FALSE, landing |-> FALSE,
                    reviewing |-> FALSE, deploy_status |-> None, deploy_agent_state |-> None,
                    dev_env |-> None]]

TypeOK ==
    /\ change \in [state : States, recommendation : {None, "merge", "fix", "hold"},
                   pr : BOOLEAN, deployed_by : Executors \cup {None}]
    /\ agents \in [Reviewers \cup Executors -> States \cup {None}]
    /\ run \in [Runs -> [phase : {None, "test", "deploy"}, land : BOOLEAN,
                         status : Active \cup {None, "passed", "failed"},
                         agent : {None, Change} \cup Executors, ref : {None, "main", "branch"}]]
    /\ link \in [Executors -> [pc : {"idle", "link", "run", "claim", "done"}, run : Runs \cup {0}]]
    /\ env \in [Envs -> {None, "starting", "ready", "failed", "stopping", "stopped"}]
    /\ card.n \in 0..Len(ListQueries) /\ header.n \in 0..Len(DetailQueries)
    /\ torn \in 0..MaxTorn

Init ==
    /\ change = NewChange
    /\ agents = [a \in Reviewers \cup Executors |-> None]
    /\ run = [r \in Runs |-> NoRun]
    /\ link = [e \in Executors |-> [pc |-> "idle", run |-> 0]]
    /\ env = [e \in Envs |-> None]
    /\ card = Unread /\ header = Unread /\ torn = 0

-----------------------------------------------------------------------------
\* What an agent reads, from what either endpoint collected
ComputeAgentStatus(a, g) ==
    IF g["dev_env"] # None /\ a.state \in {"pending", "paused"}
    THEN CASE g["dev_env"] = "ready" -> "local_dev"
           [] g["dev_env"] = "failed" -> "local_dev_failed"
           [] OTHER -> "local_dev_starting"
    ELSE IF a.state = "verified"
    THEN CASE a.deployed_by # None ->
                 (CASE g["deploy_agent_state"] \in {"completed", "verified"} -> "deployed"
                    [] g["deploy_agent_state"] \in {"failed", "aborted"} -> "deploy_failed"
                    [] OTHER -> "deploying")
           [] g["deploy_status"] = "pending_review" -> "deploy_gate"
           [] g["deploy_status"] = "pending_approval" -> "deploy_approval"
           [] g["deploy_status"] \in {"pending", "running"} -> "deploying"
           [] OTHER -> "merged"
    ELSE IF a.state = "completed"
    THEN CASE g["landing"] -> "landing"
           [] g["testing"] -> "testing"
           [] g["reviewing"] -> "reviewing"
           [] a.recommendation # None -> a.recommendation
           [] a.pr -> "needs_review"
           [] OTHER -> "done"
    ELSE a.state

\* The page's own derivation, for a payload without a status
DeriveStatus(a, g) == ComputeAgentStatus(a, [g EXCEPT !["dev_env"] = None])

-----------------------------------------------------------------------------
\* The rows as the queries of the dashboard read them: one query for all agents
RunsWhere(P(_)) == {r \in Runs : run[r].status # None /\ P(run[r])}
InTest(x) == x.phase = "test" /\ x.status \in {"pending", "running"}
Landing(x) == x.land /\ x.status \in Active
ShipsNow(x) == x.phase = "deploy" /\ x.status \in Active
Dispatched(x) == x.phase # "test" /\ x.status \notin Gated \cup {"pending"}

GetAgentsWithActiveTestRuns == {run[r].agent : r \in RunsWhere(InTest)} \ {None}
GetAgentsWithLandInFlight == {run[r].agent : r \in RunsWhere(Landing)} \ {None}
GetAgentsWithActiveReview ==
    {Change : r \in {v \in Reviewers : agents[v] \notin Ended \cup {None}}}
GetDeployAgentIds == {run[r].agent : r \in RunsWhere(Dispatched)} \ {None}
\* Keyed by repository and ref, where a run without a ref counts as main's
GetActiveDeployStatusByRepoRef ==
    LET r == Last(RunsWhere(LAMBDA x : ShipsNow(x) /\ x.ref \in {"main", None}))
    IN  IF r = 0 THEN None ELSE run[r].status
StateOf(e) == IF e = None THEN None ELSE agents[e]
LiveEnvs == {e \in Envs : env[e] \notin {None, "stopped"}}

ListAnswer(q, a) ==
    CASE q = "deploy_ids" -> Change \in GetDeployAgentIds
      [] q = "agent" -> change
      [] q = "testing" -> Change \in GetAgentsWithActiveTestRuns
      [] q = "landing" -> Change \in GetAgentsWithLandInFlight
      [] q = "reviewing" -> Change \in GetAgentsWithActiveReview
      [] q = "deploy_status" -> GetActiveDeployStatusByRepoRef
      [] q = "deploy_agent_state" -> StateOf(a.deployed_by)
      [] q = "dev_env" -> LET l == Last(LiveEnvs) IN IF l = 0 THEN None ELSE env[l]

\* The same rows as the detail endpoint reads them: one query for this agent
HasActiveTestRuns(a) == \E r \in RunsWhere(InTest) : run[r].agent = a
HasLandInFlight(a) == \E r \in RunsWhere(Landing) : run[r].agent = a
ClosedReviews == {"failed", "aborted", "completed", "verified", "paused"}
HasActiveReviewAgent == \E v \in Reviewers : agents[v] \notin ClosedReviews \cup {None}
IsDeployAgent(a) == \E r \in RunsWhere(Dispatched) : run[r].agent = a
\* The ref is compared as it is stored
GetActiveDeployRun(ref) == Last(RunsWhere(LAMBDA x : ShipsNow(x) /\ x.ref = ref))
GetLiveDevEnvForAgent == Last(LiveEnvs)

DetailAnswer(q, a) ==
    CASE q = "deploy_ids" -> IsDeployAgent(Change)
      [] q = "agent" -> change
      [] q = "testing" -> HasActiveTestRuns(Change)
      [] q = "landing" -> HasLandInFlight(Change)
      [] q = "reviewing" -> HasActiveReviewAgent
      [] q = "deploy_status" -> LET r == GetActiveDeployRun("main")
                                IN  IF r = 0 THEN None ELSE run[r].status
      [] q = "deploy_agent_state" -> StateOf(a.deployed_by)
      [] q = "dev_env" -> LET l == GetLiveDevEnvForAgent IN IF l = 0 THEN None ELSE env[l]

Read(page, queries, Answer(_, _)) ==
    LET q == queries[page.n + 1]
    IN  [n |-> page.n + 1, got |-> [page.got EXCEPT ![q] = Answer(q, page.got["agent"])]]

ListReads ==
    /\ card.n < Len(ListQueries)
    /\ card' = Read(card, ListQueries, ListAnswer)
    /\ UNCHANGED <<change, agents, run, link, env, header, torn>>

DetailReads ==
    /\ header.n < Len(DetailQueries)
    /\ header' = Read(header, DetailQueries, DetailAnswer)
    /\ UNCHANGED <<change, agents, run, link, env, card, torn>>

Loading == card.n > 0 \/ header.n > 0
Loaded == card.n = Len(ListQueries) /\ header.n = Len(DetailQueries)

-----------------------------------------------------------------------------
\* The writes.  The two pages are loaded once, at any moment.
Writes ==
    /\ ~Loaded /\ torn < MaxTorn
    /\ torn' = IF Loading THEN torn + 1 ELSE 0
    /\ UNCHANGED pages

ChangeMoves(s) ==
    /\ change.state \notin {s, "verified"} /\ s \in Worked
    /\ change' = [change EXCEPT !.state = s, !.pr = @ \/ s = "completed"]
    /\ Writes /\ UNCHANGED <<agents, run, link, env>>

Review(v) ==
    /\ agents[v] = None /\ ~HasActiveReviewAgent
    /\ agents' = [agents EXCEPT ![v] = "running"]
    /\ Writes /\ UNCHANGED <<change, run, link, env>>

ReviewEnds(v, rec) ==
    /\ agents[v] = "running"
    /\ agents' = [agents EXCEPT ![v] = "completed"]
    /\ change' = [change EXCEPT !.recommendation = rec]
    /\ Writes /\ UNCHANGED <<run, link, env>>

\* interruptReviewForDeadReviewer
ReviewerStops(v, s) ==
    /\ agents[v] = "running"
    /\ agents' = [agents EXCEPT ![v] = s]
    /\ change' = [change EXCEPT !.recommendation = IF @ = None THEN "hold" ELSE @]
    /\ Writes /\ UNCHANGED <<run, link, env>>

RequestChanges ==
    /\ change.recommendation # None /\ change.state # "verified"
    /\ change' = [change EXCEPT !.recommendation = None, !.state = "running"]
    /\ Writes /\ UNCHANGED <<agents, run, link, env>>

Insert(x) ==
    LET r == Last({s \in Runs : run[s].status # None}) + 1
    IN  r \in Runs /\ run' = [run EXCEPT ![r] = x]

Test(land) ==
    /\ land => change.pr /\ change.state # "verified" /\ ~HasLandInFlight(Change)
    /\ Insert([phase |-> "test", status |-> "pending", land |-> land, agent |-> Change, ref |-> "branch"])
    /\ Writes /\ UNCHANGED <<change, agents, link, env>>

RunMoves(r, s) ==
    /\ \/ run[r].status = "pending" /\ s = "running"
       \/ run[r].status = "running" /\ s \in {"passed", "failed"}
    /\ run' = [run EXCEPT ![r].status = s]
    /\ \/ change' = change
       \/ run[r].land /\ s = "passed" /\ change' = [change EXCEPT !.state = "verified"]
    /\ Writes /\ UNCHANGED <<agents, link, env>>

\* The proposal after a land names its change and its ref; a run somebody starts names no agent
Propose(owner, ref) ==
    /\ GetActiveDeployRun("main") = 0
    /\ owner = Change => (change.state = "verified" /\ ref = "main")
    /\ Insert([phase |-> "deploy", status |-> "pending_review", land |-> FALSE, agent |-> owner, ref |-> ref])
    /\ Writes /\ UNCHANGED <<change, agents, link, env>>

Assess(r) ==
    /\ run[r].status = "pending_review"
    /\ run' = [run EXCEPT ![r].status = "pending_approval"]
    /\ Writes /\ UNCHANGED <<change, agents, link, env>>

\* A rejected deploy keeps the agent it was proposed for
Reject(r) ==
    /\ run[r].status \in Gated
    /\ run' = [run EXCEPT ![r].status = "failed"]
    /\ Writes /\ UNCHANGED <<change, agents, link, env>>

\* dispatchDeployAgent: the agent, the run's link to it, the run's status, the manifest
Approve(r, e) ==
    /\ run[r].status = "pending_approval" /\ agents[e] = None
    /\ agents' = [agents EXCEPT ![e] = "pending"]
    /\ link' = [link EXCEPT ![e] = [pc |-> "link", run |-> r]]
    /\ Writes /\ UNCHANGED <<change, run, env>>

LinkRun(e) ==
    /\ link[e].pc = "link"
    /\ run' = [run EXCEPT ![link[e].run].agent = e]
    /\ link' = [link EXCEPT ![e].pc = "run"]
    /\ Writes /\ UNCHANGED <<change, agents, env>>

StartRun(e) ==
    /\ link[e].pc = "run"
    /\ run' = [run EXCEPT ![link[e].run].status = "running"]
    /\ link' = [link EXCEPT ![e].pc = "claim"]
    /\ Writes /\ UNCHANGED <<change, agents, env>>

ClaimDeployManifest(e) ==
    /\ link[e].pc = "claim"
    /\ change' = IF change.state = "verified" /\ change.pr /\ change.deployed_by = None
                 THEN [change EXCEPT !.deployed_by = e] ELSE change
    /\ link' = [link EXCEPT ![e].pc = "done"]
    /\ agents' = [agents EXCEPT ![e] = "running"]
    /\ Writes /\ UNCHANGED <<run, env>>

ExecutorEnds(e, s) ==
    /\ agents[e] = "running"
    /\ agents' = [agents EXCEPT ![e] = s]
    /\ Writes /\ UNCHANGED <<change, run, link, env>>

EnvMoves(e, s) ==
    /\ \/ s = "starting" /\ env[e] = None /\ GetLiveDevEnvForAgent = 0 /\ e = Cardinality({x \in Envs : env[x] # None}) + 1
       \/ s \in {"ready", "failed"} /\ env[e] = "starting"
       \/ s = "stopping" /\ env[e] \in {"starting", "ready", "failed"}
       \/ s = "stopped" /\ env[e] = "stopping"
    /\ env' = [env EXCEPT ![e] = s]
    /\ Writes /\ UNCHANGED <<change, agents, run, link>>

Next ==
    \/ ListReads \/ DetailReads
    \/ \E s \in Worked : ChangeMoves(s)
    \/ \E v \in Reviewers : \/ Review(v) \/ ReviewerStops(v, "paused")
                            \/ \E rec \in {"merge", "hold"} : ReviewEnds(v, rec)
    \/ RequestChanges
    \/ \E land \in BOOLEAN : Test(land)
    \/ \E r \in Runs : \/ \E s \in {"running", "passed", "failed"} : RunMoves(r, s)
                       \/ Assess(r) \/ Reject(r) \/ \E e \in Executors : Approve(r, e)
    \/ \E owner \in {Change, None}, ref \in Refs : Propose(owner, ref)
    \/ \E e \in Executors : \/ LinkRun(e) \/ StartRun(e) \/ ClaimDeployManifest(e)
                            \/ \E s \in {"completed", "failed"} : ExecutorEnds(e, s)
    \/ \E e \in Envs, s \in {"starting", "ready", "failed", "stopping", "stopped"} : EnvMoves(e, s)

Spec == Init /\ [][Next]_vars

-----------------------------------------------------------------------------
Shown(page) == ComputeAgentStatus(page.got["agent"], page.got)

\* agent-status.ts:1-6: the card and the header of one change never disagree.  Nor do they on
\* which agents are deploy agents, when no row was written while the two requests ran.
CardAgreesWithHeader ==
    Loaded /\ torn = 0 => /\ Shown(card) = Shown(header)
                       /\ card.got["deploy_ids"] = header.got["deploy_ids"]

\* The same without the proviso: a write between two of a request's queries tears it.
NeverDisagree == Loaded => Shown(card) = Shown(header)

\* ui/src/agentStatus.ts:1-3: what the page derives on its own is what the server computes.
FallbackAgrees == Loaded => DeriveStatus(header.got["agent"], header.got) = Shown(header)

\* queries.ts:1539-1548: only an agent that was dispatched to run a deploy is taken for a deploy
\* agent, hidden from the dashboard and refused tests and deploys; a change never is.
ChangeIsNoDeployAgent == ~IsDeployAgent(Change)

\* A change reads deployed, or failed to deploy, only after the agent that claimed it ended, and
\* that agent's run was dispatched: a page never runs ahead of the rows, torn or not.
ReadsDeployedAfterTheFact ==
    \A page \in {card, header} :
        (page.n = Len(ListQueries) /\ Shown(page) \in {"deployed", "deploy_failed"})
            => \E e \in Executors : agents[e] \in {"completed", "failed"} /\ link[e].pc = "done"
=============================================================================
