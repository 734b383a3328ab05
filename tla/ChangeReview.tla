----------------------------- MODULE ChangeReview -----------------------------
(***************************************************************************)
(* The review of one change by review agents: the dispatch (one step       *)
(* between two awaits), the reviewer's turns, the live relay that hears a  *)
(* turn end and applies its recommendation, the heartbeat monitor that     *)
(* closes a dead reviewer's review, the user who messages a reviewer or    *)
(* sends the change back, and a restart of the boss between any two steps. *)
(***************************************************************************)
EXTENDS Naturals, FiniteSets

CONSTANTS
    Reviewers,    \* the review agents that may be created for the change
    Callers,      \* requests for a review: REST, MCP, hand-back
    MaxRounds,    \* bound: turns a reviewer ends by itself
    MaxOps,       \* bound: messages, pauses and change requests of users
    MaxFaults     \* bound: pods that die, lost connections, restarts

ASSUME BoundsNat == {MaxRounds, MaxOps, MaxFaults} \subseteq Nat

VARIABLES
    verdict,    \* agents.recommendation of the change, and who wrote it
    state,      \* agents.state of each reviewer
    linked,     \* agents.review_of_agent_id is set
    row,        \* reviews.status of the reviewer's row
    out,        \* what the reviewer's latest messages recommend
    round,      \* turns the reviewer has ended
    beating,    \* the reviewer's pod lives
    call,       \* dispatchReviewAgent, per caller
    apply,      \* applyReviewResult, per ended turn
    reap,       \* interruptReviewForDeadReviewer, per reviewer
    listening,  \* the relay's LISTEN connection
    ops, faults

vars == <<verdict, state, linked, row, out, round, beating, call, apply, reap, listening, ops, faults>>

Rounds == 1..MaxRounds
Outputs == {"none", "merge", "vague"}     \* vague: no RECOMMENDATION line
Recs == {"none", "merge", "fix", "hold"}
InFlight == {"pending", "running"}        \* the states that still count as reviewing

Idle == [pc |-> "idle", reviewer |-> "none"]
NoApply == [pc |-> "none", rec |-> "none"]

TypeOK ==
    /\ verdict \in [rec : Recs, by : Reviewers \cup {"none", "reaper"}, round : 0..MaxRounds]
    /\ state \in [Reviewers -> {"none", "pending", "running", "paused", "ended"}]
    /\ linked \in [Reviewers -> BOOLEAN]
    /\ row \in [Reviewers -> {"none", "running", "done", "error"}]
    /\ out \in [Reviewers -> Outputs]
    /\ round \in [Reviewers -> 0..MaxRounds]
    /\ beating \in [Reviewers -> BOOLEAN]
    /\ call \in [Callers -> [pc : {"idle", "clear", "created", "linked", "recorded"},
                             reviewer : Reviewers \cup {"none"}]]
    /\ apply \in [Reviewers \X Rounds ->
                  [pc : {"none", "heard", "open", "write", "close", "ended", "lost"}, rec : Recs]]
    /\ reap \in [Reviewers -> {"no", "row", "read", "hold"}]
    /\ listening \in BOOLEAN
    /\ ops \in 0..MaxOps /\ faults \in 0..MaxFaults
    \* a reviewer that was only created has not run, and one that runs is linked
    /\ \A r \in Reviewers : /\ state[r] \in {"none", "pending"} => ~beating[r] /\ round[r] = 0
                            /\ state[r] \notin {"none", "pending"} => linked[r]

Init ==
    /\ verdict = [rec |-> "none", by |-> "none", round |-> 0]
    /\ state = [r \in Reviewers |-> "none"] /\ linked = [r \in Reviewers |-> FALSE]
    /\ row = [r \in Reviewers |-> "none"] /\ out = [r \in Reviewers |-> "none"]
    /\ round = [r \in Reviewers |-> 0] /\ beating = [r \in Reviewers |-> FALSE]
    /\ call = [c \in Callers |-> Idle]
    /\ apply = [p \in Reviewers \X Rounds |-> NoApply]
    /\ reap = [r \in Reviewers |-> "no"]
    /\ listening = TRUE
    /\ ops = 0 /\ faults = 0

Op == ops < MaxOps /\ ops' = ops + 1
Fault == faults < MaxFaults /\ faults' = faults + 1

-----------------------------------------------------------------------------
\* dispatchReviewAgent: the check, the agent, its link, its row, its start

HasActiveReviewAgent == \E r \in Reviewers : linked[r] /\ state[r] \in InFlight

Asks(c) ==
    /\ call[c].pc = "idle" /\ ~HasActiveReviewAgent /\ Op
    /\ call' = [call EXCEPT ![c].pc = "clear"]
    /\ UNCHANGED <<verdict, state, linked, row, out, round, beating, apply, reap, listening, faults>>

\* mutant: the reviewer is started before it is linked to the change
CreatesRunningReviewer(c) ==
    /\ call[c].pc = "clear"
    /\ \E r \in Reviewers :
          /\ state[r] = "none"
          /\ state' = [state EXCEPT ![r] = "running"]
          /\ call' = [call EXCEPT ![c] = [pc |-> "created", reviewer |-> r]]
    /\ UNCHANGED <<verdict, linked, row, out, round, beating, apply, reap, listening, ops, faults>>

CreatesReviewer(c) ==
    /\ call[c].pc = "clear"
    /\ \E r \in Reviewers :
          /\ state[r] = "none"
          /\ state' = [state EXCEPT ![r] = "pending"]
          /\ call' = [call EXCEPT ![c] = [pc |-> "created", reviewer |-> r]]
    /\ UNCHANGED <<verdict, linked, row, out, round, beating, apply, reap, listening, ops, faults>>

LinksReviewer(c) ==
    /\ call[c].pc = "created"
    /\ linked' = [linked EXCEPT ![call[c].reviewer] = TRUE]
    /\ call' = [call EXCEPT ![c].pc = "linked"]
    /\ UNCHANGED <<verdict, state, row, out, round, beating, apply, reap, listening, ops, faults>>

\* createReview is best-effort: when it fails the review goes on without a row
OpensRow(c) ==
    /\ call[c].pc = "linked"
    /\ call' = [call EXCEPT ![c].pc = "recorded"]
    /\ \/ row' = [row EXCEPT ![call[c].reviewer] = "running"] /\ UNCHANGED faults
       \/ Fault /\ UNCHANGED row
    /\ UNCHANGED <<verdict, state, linked, out, round, beating, apply, reap, listening, ops>>

StartsReviewer(c) ==
    /\ call[c].pc = "recorded"
    /\ state' = [state EXCEPT ![call[c].reviewer] = "running"]
    /\ beating' = [beating EXCEPT ![call[c].reviewer] = TRUE]
    /\ call' = [call EXCEPT ![c] = Idle]
    /\ UNCHANGED <<verdict, linked, row, out, round, apply, reap, listening, ops, faults>>

-----------------------------------------------------------------------------
\* the reviewer's pod and the people around it

\* the turn ends, completed or failed, perhaps with no message; the state_change
\* event reaches the boss only while the relay listens
Ends(r) ==
    /\ state[r] = "running" /\ beating[r] /\ round[r] < MaxRounds
    /\ state' = [state EXCEPT ![r] = "ended"] /\ beating' = [beating EXCEPT ![r] = FALSE]
    /\ round' = [round EXCEPT ![r] = @ + 1]
    /\ \E o \in Outputs : /\ o = "none" => out[r] = "none"
                          /\ out' = [out EXCEPT ![r] = o]
    /\ apply' = IF listening THEN [apply EXCEPT ![<<r, round[r] + 1>>].pc = "heard"] ELSE apply
    /\ UNCHANGED <<verdict, linked, row, call, reap, listening, ops, faults>>

Dies(r) ==
    /\ beating[r] /\ Fault
    /\ beating' = [beating EXCEPT ![r] = FALSE]
    /\ UNCHANGED <<verdict, state, linked, row, out, round, call, apply, reap, listening, ops>>

\* a message to a reviewer that is done or paused starts it again
MessagesReviewer(r) ==
    /\ state[r] \in {"ended", "paused"} /\ round[r] < MaxRounds /\ Op
    /\ state' = [state EXCEPT ![r] = "running"] /\ beating' = [beating EXCEPT ![r] = TRUE]
    /\ UNCHANGED <<verdict, linked, row, out, round, call, apply, reap, listening, faults>>

\* the user's pause deletes the pod; the review row stays as it is
PausesReviewer(r) ==
    /\ state[r] = "running" /\ Op
    /\ state' = [state EXCEPT ![r] = "paused"] /\ beating' = [beating EXCEPT ![r] = FALSE]
    /\ UNCHANGED <<verdict, linked, row, out, round, call, apply, reap, listening, faults>>

RequestsChanges ==
    /\ verdict.rec # "none" /\ Op
    /\ verdict' = [rec |-> "none", by |-> "none", round |-> 0]
    /\ UNCHANGED <<state, linked, row, out, round, beating, call, apply, reap, listening, faults>>

-----------------------------------------------------------------------------
\* applyReviewResult

SetApply(p, pc, rec) == apply' = [apply EXCEPT ![p] = [pc |-> pc, rec |-> rec]]

\* mutant: an interrupted review counts as closed
SealedUnlessRunning(r) == row[r] \in {"done", "error"}
\* mutant: nothing is sealed
NeverSealed(r) == FALSE
\* only a done review is sealed
Sealed(r) == row[r] = "done"

ReadsReview(p) ==
    /\ apply[p].pc = "heard"
    /\ SetApply(p, IF linked[p[1]] /\ ~Sealed(p[1]) THEN "open" ELSE "ended", "none")
    /\ UNCHANGED <<verdict, state, linked, row, out, round, beating, call, reap, listening, ops, faults>>

\* the reviewer's last messages as they are by now; extractVerdict asks the
\* model when they have no RECOMMENDATION line
ExtractVerdict(o) ==
    CASE o = "none" -> {"none"} [] o = "merge" -> {"merge"} [] o = "vague" -> {"fix", "hold"}

ReadsMessages(p) ==
    /\ apply[p].pc = "open"
    /\ \E rec \in ExtractVerdict(out[p[1]]) : SetApply(p, "write", rec)
    /\ UNCHANGED <<verdict, state, linked, row, out, round, beating, call, reap, listening, ops, faults>>

WritesVerdict(p) ==
    /\ apply[p].pc = "write"
    /\ verdict' = [rec |-> IF apply[p].rec = "none" THEN "hold" ELSE apply[p].rec,
                   by |-> p[1], round |-> p[2]]
    /\ SetApply(p, "close", apply[p].rec)
    /\ UNCHANGED <<state, linked, row, out, round, beating, call, reap, listening, ops, faults>>

CloseReviewRecord(p) ==
    row' = IF row[p[1]] = "none" THEN row
           ELSE [row EXCEPT ![p[1]] = IF apply[p].rec = "none" THEN "error" ELSE "done"]

ClosesReview(p) ==
    /\ apply[p].pc = "close"
    /\ CloseReviewRecord(p)
    /\ SetApply(p, "ended", "none")
    /\ UNCHANGED <<verdict, state, linked, out, round, beating, call, reap, listening, ops, faults>>

-----------------------------------------------------------------------------
\* the heartbeat monitor: paused, then the review row, then the change's verdict

\* mutant: the reviewer stays running, to be noticed by somebody else
ReapsOnlyTheReview(r) ==
    /\ state[r] = "running" /\ ~beating[r] /\ row[r] = "running"
    /\ reap' = [reap EXCEPT ![r] = "row"]
    /\ UNCHANGED <<verdict, state, linked, row, out, round, beating, call, apply, listening, ops, faults>>

Reaps(r) ==
    /\ state[r] = "running" /\ ~beating[r] /\ reap[r] = "no"
    /\ state' = [state EXCEPT ![r] = "paused"]
    /\ reap' = [reap EXCEPT ![r] = "row"]
    /\ UNCHANGED <<verdict, linked, row, out, round, beating, call, apply, listening, ops, faults>>

InterruptsRow(r) ==
    /\ reap[r] = "row"
    /\ row' = IF row[r] = "running" THEN [row EXCEPT ![r] = "error"] ELSE row
    /\ reap' = [reap EXCEPT ![r] = "read"]
    /\ UNCHANGED <<verdict, state, linked, out, round, beating, call, apply, listening, ops, faults>>

ReadsReviewed(r) ==
    /\ reap[r] = "read"
    /\ reap' = [reap EXCEPT ![r] = IF verdict.rec = "none" THEN "hold" ELSE "no"]
    /\ UNCHANGED <<verdict, state, linked, row, out, round, beating, call, apply, listening, ops, faults>>

HoldsChange(r) ==
    /\ reap[r] = "hold"
    /\ verdict' = [rec |-> "hold", by |-> "reaper", round |-> 0]
    /\ reap' = [reap EXCEPT ![r] = "no"]
    /\ UNCHANGED <<state, linked, row, out, round, beating, call, apply, listening, ops, faults>>

-----------------------------------------------------------------------------
\* the relay's connection and the boss

Disconnects ==
    /\ listening /\ Fault /\ listening' = FALSE
    /\ UNCHANGED <<verdict, state, linked, row, out, round, beating, call, apply, reap, ops>>

Reconnects ==
    /\ ~listening /\ listening' = TRUE
    /\ UNCHANGED <<verdict, state, linked, row, out, round, beating, call, apply, reap, ops, faults>>

\* what was between two awaits is lost
Restarts ==
    /\ Fault
    /\ listening' = FALSE
    /\ call' = [c \in Callers |-> Idle]
    /\ reap' = [r \in Reviewers |-> "no"]
    /\ apply' = [p \in Reviewers \X Rounds |->
                    IF apply[p].pc \in {"none", "ended", "lost"} THEN apply[p]
                    ELSE [NoApply EXCEPT !.pc = "lost"]]
    /\ UNCHANGED <<verdict, state, linked, row, out, round, beating, ops>>

Dispatches(c) ==
    CreatesReviewer(c) \/ LinksReviewer(c) \/ OpensRow(c) \/ StartsReviewer(c)
Applies(p) == ReadsReview(p) \/ ReadsMessages(p) \/ WritesVerdict(p) \/ ClosesReview(p)
Interrupts(r) == InterruptsRow(r) \/ ReadsReviewed(r) \/ HoldsChange(r)

Next ==
    \/ \E c \in Callers : Asks(c) \/ Dispatches(c)
    \/ \E r \in Reviewers : Ends(r) \/ Dies(r) \/ MessagesReviewer(r) \/ PausesReviewer(r)
    \/ RequestsChanges
    \/ \E p \in Reviewers \X Rounds : Applies(p)
    \/ \E r \in Reviewers : Reaps(r) \/ Interrupts(r)
    \/ Disconnects \/ Reconnects \/ Restarts

\* An await of the boss ends; the monitor runs on an interval and the relay
\* retries its connection; a turn that is not cut ends. Fairness is stated for each
\* kind of work, which asks less than for each agent and caller.
Fairness ==
    /\ WF_vars(\E c \in Callers : Dispatches(c))
    /\ WF_vars(\E p \in Reviewers \X Rounds : Applies(p))
    /\ WF_vars(\E r \in Reviewers : Ends(r) \/ Reaps(r) \/ Interrupts(r))
    /\ WF_vars(Reconnects)

Spec == Init /\ [][Next]_vars /\ Fairness

-----------------------------------------------------------------------------
\* No application of a verdict of r is under way.
Quiet(r) == \A n \in Rounds : apply[<<r, n>>].pc \in {"none", "ended", "lost"}

\* A verdict counts only from the review's own run. Once a review is done and no
\* application of it is under way, whatever the reviewer is asked and answers
\* later never reaches the change (review-agent.ts:108).
LateOutputIgnored ==
    \A r \in Reviewers, n \in 1..(MaxRounds - 1) :
        [](row[r] = "done" /\ Quiet(r) /\ round[r] = n
             => [](verdict.by = r => verdict.round <= n))

\* A review that was interrupted has not delivered: when its reviewer is resumed,
\* ends with something to say and the relay hears it, the review gets done, unless
\* the boss restarts while the verdict is applied (review-agent.ts:114).
ResumedVerdictLands ==
    \A p \in Reviewers \X Rounds :
        (apply[p].pc = "heard" /\ row[p[1]] = "error" /\ out[p[1]] # "none")
            ~> (row[p[1]] = "done" \/ apply[p].pc = "lost")

Dispatched(r) == \E c \in Callers : call[c].reviewer = r

\* A reviewer stops blocking a fresh review: it ends, or its pod dies and the
\* monitor pauses it. Only one whose dispatch a restart cut before the start stays
\* pending (queries.ts:1440, reaper.ts:32).
ReviewNeverWedged ==
    \A r \in Reviewers :
        (linked[r] /\ state[r] \in InFlight)
            ~> (state[r] \notin InFlight \/ (state[r] = "pending" /\ ~Dispatched(r)))

\* review-agent.ts:54 "Idempotent per reviewed agent (won't stack reviewers)": the
\* check is read several awaits before the new reviewer counts as one.
NoStackedReviewers ==
    Cardinality({r \in Reviewers : linked[r] /\ state[r] = "running"}) <= 1

==============================================================================
