----------------------------- MODULE FurtherProofs -----------------------------
(***************************************************************************)
(* Theorems about ten components. Three are extended, and share no name:   *)
(* ChangeReview, the reviews of a change; AgentPod, the pod of an agent;   *)
(* DeployGate, the gate of a deploy. The others are instances, over the    *)
(* constants and variables of their own names: the watch on main, the      *)
(* nightly schedule, the image builds, the end of a user, the way a        *)
(* request gets its user, the merge of a flagged change, and the branch of *)
(* a change. The names that two of them share (state, pod, Phases, ...)    *)
(* are arbitrary in both.                                                  *)
(***************************************************************************)
EXTENDS Integers, Sequences, FiniteSets, ChangeReview, AgentPod, DeployGate, FiniteSetTheorems, TLAPS

CONSTANTS
    Sweeps, Phases, RunIds, Overlap, MaxHead, Gap, MaxNow,
    Agents, Bases, Decls, Branches, Kinds, Requests, RowIds, Oidc, AdminEmail,
    Reviews, StagingDeploys, MaxCommits, MaxDeaths,
    Handbacks, MaxPrs, Outsiders

VARIABLES
    head, watch, runs, pc, sha, seen, todo, ids, fresh,
    now, lastRunAt, at, launched,
    base, decl, registry, baked, inflight, cur,
    user, tombstone, creds, refs, volume, rows, branch, env, remote, off, left,
    approved, role, others, qualifies, found, late,
    rec, deploy, deaths,
    main, pr, w, hb, reviewers, last, done, landed

Watch == INSTANCE MainWatch
Nightly == INSTANCE NightlySchedule
Img == INSTANCE ImageBuilds
Off == INSTANCE Offboarding
Accts == INSTANCE Accounts
Staging == INSTANCE StagingMerge WITH Deploys <- StagingDeploys
Br == INSTANCE ChangeBranch WITH Callers <- Handbacks

-----------------------------------------------------------------------------
(***************************************************************************)
(* ChangeReview, for any number of reviewers, callers and turns.           *)
(* LateOutputIgnored is not an invariant: it says that from some state on  *)
(* the verdict of a reviewer is not of a later turn. Shut is what holds    *)
(* from that state on, and ShutStays that no step ends it. For that no     *)
(* step may reopen a row that is done: a request opens the row of a        *)
(* reviewer that has not run yet (CallOK, ReviewerOK), and only a turn     *)
(* that has ended closes one (ApplyOK).                                    *)
(***************************************************************************)

VerdictRec == [rec : Recs, by : Reviewers \cup {"none", "reaper"}, round : 0..MaxRounds]
CallRec == [pc : {"idle", "clear", "created", "linked", "recorded"}, reviewer : Reviewers \cup {"none"}]
ApplyRec == [pc : {"none", "heard", "open", "write", "close", "ended", "lost"}, rec : Recs]
Turns == Reviewers \X Rounds

\* The parts of the type invariant.
VerdictT == verdict \in VerdictRec
AgentsT ==
    /\ state \in [Reviewers -> {"none", "pending", "running", "paused", "ended"}]
    /\ linked \in [Reviewers -> BOOLEAN]
    /\ round \in [Reviewers -> 0..MaxRounds]
    /\ beating \in [Reviewers -> BOOLEAN]
    /\ out \in [Reviewers -> Outputs]
RowT == row \in [Reviewers -> {"none", "running", "done", "error"}]
CallT == call \in [Callers -> CallRec]
ApplyT == apply \in [Turns -> ApplyRec]
ReapT == reap \in [Reviewers -> {"no", "row", "read", "hold"}]
CountT == listening \in BOOLEAN /\ ops \in 0..MaxOps /\ faults \in 0..MaxFaults

\* A reviewer that was only created has not run, one that runs is linked.
Young(r) == state[r] \in {"none", "pending"}
ReviewerOK(r) == /\ Young(r) => ~beating[r] /\ round[r] = 0 /\ row[r] # "done"
                 /\ ~Young(r) => linked[r]

Dispatching(c) == call[c].pc \in {"created", "linked", "recorded"}

\* A reviewer on its way to its start is of one request, and has not run.
CallOK(c) ==
    Dispatching(c) =>
        /\ call[c].reviewer \in Reviewers /\ state[call[c].reviewer] = "pending"
        /\ call[c].pc # "created" => linked[call[c].reviewer]
        /\ \A e \in Callers : Dispatching(e) /\ call[e].reviewer = call[c].reviewer => e = c

\* Only the end of a turn is applied, and only what was applied is a reviewer's verdict.
ApplyOK == \A p \in Turns : apply[p].pc # "none" => p[2] <= round[p[1]]
VerdictOK == verdict.by \in Reviewers => verdict.round <= round[verdict.by]

Typed == VerdictT /\ AgentsT /\ RowT /\ CallT /\ ApplyT /\ ReapT /\ CountT
ReviewersOK == \A r \in Reviewers : ReviewerOK(r)
CallsOK == \A c \in Callers : CallOK(c)
IInv == Typed /\ ReviewersOK /\ CallsOK /\ ApplyOK /\ VerdictOK

\* r is done after n turns, and no verdict of it is about to be written.
Shut(r, n) ==
    /\ row[r] = "done"
    /\ \A m \in Rounds : apply[<<r, m>>].pc \in {"none", "heard", "ended", "lost"}
    /\ verdict.by = r => verdict.round <= n

-----------------------------------------------------------------------------
LEMMA Numbers == /\ MaxRounds \in Nat /\ MaxOps \in Nat /\ MaxFaults \in Nat
                 /\ Rounds \subseteq Nat /\ \A n \in Rounds : n # 0 /\ n \in 0..MaxRounds
  BY BoundsNat DEF Rounds

LEMMA CountStep == ASSUME CountT, [Next]_vars PROVE CountT'
<1> USE Numbers DEF CountT
<1>1. ASSUME Op PROVE ops' \in 0..MaxOps
  BY <1>1 DEF Op
<1>2. ASSUME Fault PROVE faults' \in 0..MaxFaults
  BY <1>2 DEF Fault
<1>3. ASSUME NEW c \in Callers, Asks(c) \/ Dispatches(c) PROVE CountT'
  BY <1>1, <1>2, <1>3 DEF Asks, Dispatches, CreatesReviewer, LinksReviewer, OpensRow, StartsReviewer
<1>4. ASSUME NEW r \in Reviewers, Ends(r) \/ Dies(r) \/ MessagesReviewer(r) \/ PausesReviewer(r)
      PROVE  CountT'
  BY <1>1, <1>2, <1>4 DEF Ends, Dies, MessagesReviewer, PausesReviewer
<1>5. ASSUME NEW p \in Turns, Applies(p) PROVE CountT'
  BY <1>5 DEF Applies, ReadsReview, ReadsMessages, WritesVerdict, ClosesReview
<1>6. ASSUME NEW r \in Reviewers, Reaps(r) \/ Interrupts(r) PROVE CountT'
  BY <1>6 DEF Reaps, Interrupts, InterruptsRow, ReadsReviewed, HoldsChange
<1>7. CASE RequestsChanges
  BY <1>1, <1>7 DEF RequestsChanges
<1>8. CASE Disconnects \/ Reconnects \/ Restarts
  BY <1>2, <1>8 DEF Disconnects, Reconnects, Restarts
<1>9. CASE UNCHANGED vars
  BY <1>9 DEF vars
<1> QED BY <1>3, <1>4, <1>5, <1>6, <1>7, <1>8, <1>9 DEF Next, Turns

LEMMA AgentsStep == ASSUME AgentsT, CallT, CallsOK, [Next]_vars PROVE AgentsT'
<1> USE DEF AgentsT
<1>1. ASSUME NEW c \in Callers, CreatesReviewer(c) PROVE AgentsT'
  BY <1>1 DEF CreatesReviewer
<1>2. ASSUME NEW c \in Callers, LinksReviewer(c) PROVE AgentsT'
  BY <1>2 DEF LinksReviewer
<1>3. ASSUME NEW c \in Callers, StartsReviewer(c) PROVE AgentsT'
  BY <1>3 DEF StartsReviewer
<1>4. ASSUME NEW c \in Callers, Asks(c) \/ OpensRow(c) PROVE AgentsT'
  BY <1>4 DEF Asks, OpensRow
<1>5. ASSUME NEW r \in Reviewers, Ends(r) PROVE AgentsT'
  <2>1. round[r] + 1 \in 0..MaxRounds
    BY <1>5, Numbers DEF Ends
  <2>2. round' = [round EXCEPT ![r] = round[r] + 1]
    BY <1>5 DEF Ends
  <2>3. PICK o \in Outputs : out' = [out EXCEPT ![r] = o]
    BY <1>5 DEF Ends
  <2> QED BY <1>5, <2>1, <2>2, <2>3 DEF Ends
<1>6. ASSUME NEW r \in Reviewers, Dies(r) \/ MessagesReviewer(r) \/ PausesReviewer(r) \/ Reaps(r) PROVE AgentsT'
  BY <1>6 DEF Dies, MessagesReviewer, PausesReviewer, Reaps
<1>7. ASSUME NEW p \in Turns, Applies(p) PROVE AgentsT'
  BY <1>7 DEF Applies, ReadsReview, ReadsMessages, WritesVerdict, ClosesReview
<1>8. ASSUME NEW r \in Reviewers, Interrupts(r) PROVE AgentsT'
  BY <1>8 DEF Interrupts, InterruptsRow, ReadsReviewed, HoldsChange
<1>9. CASE RequestsChanges \/ Disconnects \/ Reconnects \/ Restarts \/ UNCHANGED vars
  BY <1>9 DEF RequestsChanges, Disconnects, Reconnects, Restarts, vars
<1> QED
  BY <1>1, <1>2, <1>3, <1>4, <1>5, <1>6, <1>7, <1>8, <1>9 DEF Next, Dispatches, Turns

LEMMA VerdictStep == ASSUME VerdictT, ApplyT, [Next]_vars PROVE VerdictT'
<1> USE DEF VerdictT
<1>1. ASSUME NEW p \in Turns, WritesVerdict(p) PROVE VerdictT'
  <2>1. p[1] \in Reviewers /\ p[2] \in 0..MaxRounds
    BY Numbers DEF Turns
  <2>2. apply[p].rec \in Recs
    BY DEF ApplyT, ApplyRec
  <2>3. (IF apply[p].rec = "none" THEN "hold" ELSE apply[p].rec) \in Recs
    BY <2>2 DEF Recs
  <2> QED BY <1>1, <2>1, <2>3 DEF WritesVerdict, VerdictRec
<1>2. ASSUME NEW r \in Reviewers, HoldsChange(r) PROVE VerdictT'
  BY <1>2, Numbers DEF HoldsChange, VerdictRec, Recs
<1>3. CASE RequestsChanges
  BY <1>3, Numbers DEF RequestsChanges, VerdictRec, Recs
<1>4. ASSUME NEW c \in Callers, Asks(c) \/ Dispatches(c) PROVE VerdictT'
  BY <1>4 DEF Asks, Dispatches, CreatesReviewer, LinksReviewer, OpensRow, StartsReviewer
<1>5. ASSUME NEW r \in Reviewers, Ends(r) \/ Dies(r) \/ MessagesReviewer(r) \/ PausesReviewer(r) \/ Reaps(r)
      PROVE  VerdictT'
  BY <1>5 DEF Ends, Dies, MessagesReviewer, PausesReviewer, Reaps
<1>6. ASSUME NEW p \in Turns, ReadsReview(p) \/ ReadsMessages(p) \/ ClosesReview(p) PROVE VerdictT'
  BY <1>6 DEF ReadsReview, ReadsMessages, ClosesReview
<1>7. ASSUME NEW r \in Reviewers, InterruptsRow(r) \/ ReadsReviewed(r) PROVE VerdictT'
  BY <1>7 DEF InterruptsRow, ReadsReviewed
<1>8. CASE Disconnects \/ Reconnects \/ Restarts \/ UNCHANGED vars
  BY <1>8 DEF Disconnects, Reconnects, Restarts, vars
<1> QED BY <1>1, <1>2, <1>3, <1>4, <1>5, <1>6, <1>7, <1>8 DEF Next, Applies, Interrupts, Turns

-----------------------------------------------------------------------------
(* What a step does to the rows of the reviews, to the requests and to the applications. *)

\* A row is opened, closed or interrupted.
RowMoves ==
    \/ row' = row
    \/ \E c \in Callers : call[c].pc = "linked" /\ row' = [row EXCEPT ![call[c].reviewer] = "running"]
    \/ \E p \in Turns : /\ apply[p].pc = "close"
                        /\ \E s \in {"error", "done"} : row' = [row EXCEPT ![p[1]] = s]
    \/ \E r \in Reviewers : row[r] = "running" /\ row' = [row EXCEPT ![r] = "error"]

LEMMA RowStep == ASSUME RowT, [Next]_vars PROVE RowT' /\ RowMoves
<1> USE DEF RowMoves
<1>1. ASSUME NEW c \in Callers, OpensRow(c) PROVE RowMoves
  BY <1>1 DEF OpensRow
<1>2. ASSUME NEW p \in Turns, ClosesReview(p) PROVE RowMoves
  BY <1>2 DEF ClosesReview, CloseReviewRecord
<1>3. ASSUME NEW r \in Reviewers, InterruptsRow(r) PROVE RowMoves
  BY <1>3 DEF InterruptsRow
<1>4. ASSUME NEW c \in Callers, Asks(c) \/ CreatesReviewer(c) \/ LinksReviewer(c) \/ StartsReviewer(c)
      PROVE  RowMoves
  BY <1>4 DEF Asks, CreatesReviewer, LinksReviewer, StartsReviewer
<1>5. ASSUME NEW r \in Reviewers, Ends(r) \/ Dies(r) \/ MessagesReviewer(r) \/ PausesReviewer(r) \/ Reaps(r)
                                  \/ ReadsReviewed(r) \/ HoldsChange(r)
      PROVE  RowMoves
  BY <1>5 DEF Ends, Dies, MessagesReviewer, PausesReviewer, Reaps, ReadsReviewed, HoldsChange
<1>6. ASSUME NEW p \in Turns, ReadsReview(p) \/ ReadsMessages(p) \/ WritesVerdict(p) PROVE RowMoves
  BY <1>6 DEF ReadsReview, ReadsMessages, WritesVerdict
<1>7. ASSUME RequestsChanges \/ Disconnects \/ Reconnects \/ Restarts \/ UNCHANGED vars
      PROVE  RowMoves
  <2>1. row' = row
    BY <1>7 DEF RequestsChanges, Disconnects, Reconnects, Restarts, vars
  <2> QED BY <2>1
<1>8. RowMoves
  BY <1>1, <1>2, <1>3, <1>4, <1>5, <1>6, <1>7 DEF Next, Dispatches, Applies, Interrupts, Turns
<1>9. RowT'
  BY <1>8 DEF RowT
<1> QED BY <1>8, <1>9

\* The requests of a review, and the states they set.
LEMMA CallStep == ASSUME CallT, [Next]_vars PROVE CallT'
<1> USE DEF CallT
<1>1. ASSUME NEW c \in Callers, NEW place \in {"clear", "linked", "recorded"}, call' = [call EXCEPT ![c].pc = place]
      PROVE  CallT'
  <2> DEFINE entry == [call[c] EXCEPT !.pc = place]
  <2>1. entry \in CallRec
    BY DEF CallRec
  <2>2. call' = [call EXCEPT ![c] = entry]
    BY <1>1
  <2> HIDE DEF entry
  <2> QED BY <2>1, <2>2
<1>2. ASSUME NEW c \in Callers, Asks(c) \/ LinksReviewer(c) \/ OpensRow(c) PROVE CallT'
  BY <1>1, <1>2 DEF Asks, LinksReviewer, OpensRow
<1>3. ASSUME NEW c \in Callers, CreatesReviewer(c) PROVE CallT'
  <2>1. PICK r \in Reviewers : call' = [call EXCEPT ![c] = [pc |-> "created", reviewer |-> r]]
    BY <1>3 DEF CreatesReviewer
  <2>2. [pc |-> "created", reviewer |-> r] \in CallRec
    BY DEF CallRec
  <2> QED BY <2>1, <2>2
<1>4. Idle \in CallRec
  BY DEF Idle, CallRec
<1>5. ASSUME NEW c \in Callers, StartsReviewer(c) PROVE CallT'
  BY <1>4, <1>5 DEF StartsReviewer
<1>6. CASE Restarts
  BY <1>4, <1>6 DEF Restarts
<1>7. ASSUME NEW r \in Reviewers, Ends(r) \/ Dies(r) \/ MessagesReviewer(r) \/ PausesReviewer(r) \/ Reaps(r)
                                  \/ Interrupts(r)
      PROVE  CallT'
  BY <1>7 DEF Ends, Dies, MessagesReviewer, PausesReviewer, Reaps, Interrupts, InterruptsRow, ReadsReviewed,
              HoldsChange
<1>8. ASSUME NEW p \in Turns, Applies(p) PROVE CallT'
  BY <1>8 DEF Applies, ReadsReview, ReadsMessages, WritesVerdict, ClosesReview
<1>9. CASE RequestsChanges \/ Disconnects \/ Reconnects \/ UNCHANGED vars
  BY <1>9 DEF RequestsChanges, Disconnects, Reconnects, vars
<1> QED BY <1>2, <1>3, <1>5, <1>6, <1>7, <1>8, <1>9 DEF Next, Dispatches, Turns

LEMMA ReapStep == ASSUME ReapT, [Next]_vars PROVE ReapT'
<1> USE DEF ReapT
<1>1. ASSUME NEW c \in Callers, Asks(c) \/ Dispatches(c) PROVE ReapT'
  BY <1>1 DEF Asks, Dispatches, CreatesReviewer, LinksReviewer, OpensRow, StartsReviewer
<1>2. ASSUME NEW r \in Reviewers, Ends(r) \/ Dies(r) \/ MessagesReviewer(r) \/ PausesReviewer(r) PROVE ReapT'
  BY <1>2 DEF Ends, Dies, MessagesReviewer, PausesReviewer
<1>3. ASSUME NEW r \in Reviewers, Reaps(r) \/ Interrupts(r) PROVE ReapT'
  BY <1>3 DEF Reaps, Interrupts, InterruptsRow, ReadsReviewed, HoldsChange
<1>4. ASSUME NEW p \in Turns, Applies(p) PROVE ReapT'
  BY <1>4 DEF Applies, ReadsReview, ReadsMessages, WritesVerdict, ClosesReview
<1>5. CASE RequestsChanges \/ Disconnects \/ Reconnects \/ UNCHANGED vars
  BY <1>5 DEF RequestsChanges, Disconnects, Reconnects, vars
<1>6. CASE Restarts
  BY <1>6 DEF Restarts
<1> QED BY <1>1, <1>2, <1>3, <1>4, <1>5, <1>6 DEF Next, Turns

\* An application begins with the end of its turn, and one of a review that is done goes no further.
ApplyMoves(p) ==
    \/ apply'[p] = apply[p]
    \/ apply'[p].pc = "heard" /\ p[2] = round[p[1]] + 1 /\ round'[p[1]] = p[2]
    \/ /\ apply[p].pc \notin {"none", "ended", "lost"}
       /\ apply[p].pc = "heard" /\ row[p[1]] = "done" => apply'[p].pc \in {"ended", "lost"}

LEMMA ApplyStep ==
    ASSUME ApplyT, AgentsT, [Next]_vars
    PROVE  ApplyT' /\ \A p \in Turns : ApplyMoves(p)
<1> DEFINE P == ApplyT' /\ \A p \in Turns : ApplyMoves(p)
<1>0. \A p \in Turns : p = <<p[1], p[2]>> /\ p[1] \in Reviewers /\ p[2] \in Rounds
  BY DEF Turns
<1>1. ASSUME NEW p \in Turns, NEW place \in {"open", "ended", "write", "close"}, NEW entry \in Recs,
             apply' = [apply EXCEPT ![p] = [pc |-> place, rec |-> entry]],
             apply[p].pc \notin {"none", "ended", "lost"},
             apply[p].pc = "heard" /\ row[p[1]] = "done" => place = "ended"
      PROVE  P
  <2>1. [pc |-> place, rec |-> entry] \in ApplyRec
    BY DEF ApplyRec
  <2>2. ApplyT'
    BY <1>1, <2>1 DEF ApplyT
  <2>3. apply'[p].pc = place /\ \A q \in Turns : q # p => apply'[q] = apply[q]
    BY <1>1 DEF ApplyT
  <2> QED BY <1>1, <2>2, <2>3 DEF ApplyMoves
<1>2. \A p \in Turns : apply[p].rec \in Recs /\ "none" \in Recs
  BY DEF ApplyT, ApplyRec, Recs
<1>3. ASSUME NEW p \in Turns, ReadsReview(p) PROVE P
  <2> DEFINE place == IF linked[p[1]] /\ ~Sealed(p[1]) THEN "open" ELSE "ended"
  <2>1. apply' = [apply EXCEPT ![p] = [pc |-> place, rec |-> "none"]] /\ apply[p].pc = "heard"
    BY <1>3 DEF ReadsReview, SetApply
  <2>2. place \in {"open", "ended"} /\ (row[p[1]] = "done" => place = "ended")
    BY DEF Sealed
  <2> HIDE DEF place
  <2> QED BY <1>1, <1>2, <2>1, <2>2
<1>4. ASSUME NEW p \in Turns, ReadsMessages(p) PROVE P
  <2>1. PICK entry \in ExtractVerdict(out[p[1]]) : apply' = [apply EXCEPT ![p] = [pc |-> "write", rec |-> entry]]
    BY <1>4 DEF ReadsMessages, SetApply
  <2>2. out[p[1]] \in Outputs
    BY <1>0 DEF AgentsT
  <2>3. entry \in Recs
    BY <2>1, <2>2 DEF ExtractVerdict, Outputs, Recs
  <2>4. apply[p].pc = "open"
    BY <1>4 DEF ReadsMessages
  <2> QED BY <1>1, <2>1, <2>3, <2>4
<1>5. ASSUME NEW p \in Turns, WritesVerdict(p) PROVE P
  <2>1. apply' = [apply EXCEPT ![p] = [pc |-> "close", rec |-> apply[p].rec]] /\ apply[p].pc = "write"
    BY <1>5 DEF WritesVerdict, SetApply
  <2> QED BY <1>1, <1>2, <2>1
<1>6. ASSUME NEW p \in Turns, ClosesReview(p) PROVE P
  <2>1. apply' = [apply EXCEPT ![p] = [pc |-> "ended", rec |-> "none"]] /\ apply[p].pc = "close"
    BY <1>6 DEF ClosesReview, SetApply
  <2> QED BY <1>1, <1>2, <2>1
<1>7. ASSUME UNCHANGED apply PROVE P
  BY <1>7 DEF ApplyT, ApplyMoves
<1>8. ASSUME NEW r \in Reviewers, Ends(r) PROVE P
  <2> DEFINE q == <<r, round[r] + 1>>
  <2>1. round' = [round EXCEPT ![r] = round[r] + 1]
        /\ (apply' = apply \/ apply' = [apply EXCEPT ![q].pc = "heard"])
    BY <1>8 DEF Ends
  <2>2. CASE apply' = [apply EXCEPT ![q].pc = "heard"]
    <3> DEFINE entry == [apply[q] EXCEPT !.pc = "heard"]
    <3>1. q \in Turns /\ q[1] = r /\ q[2] = round[r] + 1
      BY <1>8, Numbers DEF Turns, Ends, AgentsT, Rounds
    <3>2. entry \in ApplyRec /\ entry.pc = "heard"
      BY <3>1 DEF ApplyT, ApplyRec
    <3>3. apply' = [apply EXCEPT ![q] = entry]
      BY <2>2
    <3>4. round'[r] = round[r] + 1
      BY <2>1 DEF AgentsT
    <3> HIDE DEF entry, q
    <3>5. ApplyT' /\ apply'[q].pc = "heard" /\ \A p \in Turns : p # q => apply'[p] = apply[p]
      BY <3>1, <3>2, <3>3 DEF ApplyT
    <3> QED BY <3>1, <3>4, <3>5 DEF ApplyMoves
  <2> QED BY <1>7, <2>1, <2>2
<1>9. CASE Restarts
  <2> DEFINE lost == [NoApply EXCEPT !.pc = "lost"]
  <2>1. lost \in ApplyRec /\ lost.pc = "lost"
    BY DEF NoApply, ApplyRec, Recs
  <2>2. apply' = [p \in Turns |-> IF apply[p].pc \in {"none", "ended", "lost"} THEN apply[p] ELSE lost]
    BY <1>9 DEF Restarts, Turns
  <2> HIDE DEF lost
  <2>3. ApplyT'
    BY <2>1, <2>2 DEF ApplyT
  <2> QED BY <2>1, <2>2, <2>3 DEF ApplyMoves
<1>10. ASSUME NEW c \in Callers, Asks(c) \/ Dispatches(c) PROVE P
  <2>1. apply' = apply
    BY <1>10 DEF Asks, Dispatches, CreatesReviewer, LinksReviewer, OpensRow, StartsReviewer
  <2> QED BY <1>7, <2>1
<1>11. ASSUME NEW r \in Reviewers, Dies(r) \/ MessagesReviewer(r) \/ PausesReviewer(r) \/ Reaps(r) \/ Interrupts(r)
       PROVE  P
  <2>1. apply' = apply
    BY <1>11 DEF Dies, MessagesReviewer, PausesReviewer, Reaps, Interrupts, InterruptsRow, ReadsReviewed,
                 HoldsChange
  <2> QED BY <1>7, <2>1
<1>12. CASE RequestsChanges \/ Disconnects \/ Reconnects \/ UNCHANGED vars
  <2>1. apply' = apply
    BY <1>12 DEF RequestsChanges, Disconnects, Reconnects, vars
  <2> QED BY <1>7, <2>1
<1> QED
  BY <1>3, <1>4, <1>5, <1>6, <1>8, <1>9, <1>10, <1>11, <1>12 DEF Next, Applies, Turns

\* What a step does to the reviewers: one may be made or linked or started by its request; every
\* other step is of one that has been started.
AgentMoves(r) ==
    \/ UNCHANGED <<state, linked, round>> /\ (beating'[r] => beating[r])
    \/ \E c \in Callers : /\ call[c].pc = "clear" /\ state[r] = "none" /\ call'[c].reviewer = r
                          /\ state'[r] = "pending"
                          /\ UNCHANGED <<linked, round, beating>>
    \/ \E c \in Callers : /\ call[c].pc = "created" /\ call[c].reviewer = r
                          /\ linked'[r] /\ UNCHANGED <<state, round, beating>>
    \/ \E c \in Callers : /\ call[c].pc = "recorded" /\ call[c].reviewer = r
                          /\ state'[r] = "running" /\ UNCHANGED <<linked, round>>
    \/ /\ ~Young(r) /\ state'[r] \in {"running", "paused", "ended"} /\ UNCHANGED linked
       /\ round'[r] \in {round[r], round[r] + 1}
    \/ state'[r] = state[r] /\ linked'[r] = linked[r] /\ round'[r] = round[r] /\ beating'[r] = beating[r]

LEMMA AgentsMove ==
    ASSUME AgentsT, CallT, CallsOK, [Next]_vars, NEW r \in Reviewers
    PROVE  AgentMoves(r)
<1> DEFINE Same == state'[r] = state[r] /\ linked'[r] = linked[r] /\ round'[r] = round[r] /\ beating'[r] = beating[r]
<1>0. ASSUME Same PROVE AgentMoves(r)
  BY <1>0 DEF AgentMoves
<1>1. ASSUME NEW c \in Callers, CreatesReviewer(c) PROVE AgentMoves(r)
  <2>1. PICK q \in Reviewers :
          /\ state[q] = "none" /\ state' = [state EXCEPT ![q] = "pending"]
          /\ call' = [call EXCEPT ![c] = [pc |-> "created", reviewer |-> q]]
    BY <1>1 DEF CreatesReviewer
  <2>2. call[c].pc = "clear" /\ UNCHANGED <<linked, round, beating>>
    BY <1>1 DEF CreatesReviewer
  <2>3. CASE q = r
    <3>1. call'[c].reviewer = r /\ state'[r] = "pending"
      BY <2>1, <2>3 DEF CallT, AgentsT
    <3> QED BY <2>1, <2>2, <2>3, <3>1 DEF AgentMoves
  <2>4. CASE q # r
    <3>1. state'[r] = state[r]
      BY <2>1, <2>4 DEF AgentsT
    <3> QED BY <1>0, <2>2, <3>1
  <2> QED BY <2>3, <2>4
<1>2. ASSUME NEW c \in Callers, LinksReviewer(c) PROVE AgentMoves(r)
  <2>1. /\ call[c].pc = "created" /\ linked' = [linked EXCEPT ![call[c].reviewer] = TRUE]
        /\ UNCHANGED <<state, round, beating>>
    BY <1>2 DEF LinksReviewer
  <2>2. CASE call[c].reviewer = r
    BY <2>1, <2>2 DEF AgentMoves, AgentsT
  <2>3. CASE call[c].reviewer # r
    <3>1. linked'[r] = linked[r]
      BY <2>1, <2>3 DEF AgentsT
    <3> QED BY <1>0, <2>1, <3>1
  <2> QED BY <2>2, <2>3
<1>3. ASSUME NEW c \in Callers, StartsReviewer(c) PROVE AgentMoves(r)
  <2>1. /\ call[c].pc = "recorded" /\ state' = [state EXCEPT ![call[c].reviewer] = "running"]
        /\ beating' = [beating EXCEPT ![call[c].reviewer] = TRUE]
        /\ UNCHANGED <<linked, round>>
    BY <1>3 DEF StartsReviewer
  <2>2. CASE call[c].reviewer = r
    <3>1. state'[r] = "running"
      BY <2>1, <2>2 DEF AgentsT
    <3> QED BY <2>1, <2>2, <3>1 DEF AgentMoves
  <2>3. CASE call[c].reviewer # r
    <3>1. state'[r] = state[r] /\ beating'[r] = beating[r]
      BY <2>1, <2>3 DEF AgentsT
    <3> QED BY <1>0, <2>1, <3>1
  <2> QED BY <2>2, <2>3
<1>4. ASSUME NEW c \in Callers, Asks(c) \/ OpensRow(c) PROVE AgentMoves(r)
  BY <1>0, <1>4 DEF Asks, OpensRow
<1>5. ASSUME NEW q \in Reviewers, Ends(q) \/ MessagesReviewer(q) \/ PausesReviewer(q) \/ Reaps(q)
      PROVE  AgentMoves(r)
  <2>1. /\ state[q] \in {"running", "ended", "paused"} /\ UNCHANGED linked
        /\ \E s \in {"running", "paused", "ended"} : state' = [state EXCEPT ![q] = s]
        /\ round' = round \/ round' = [round EXCEPT ![q] = round[q] + 1]
        /\ beating' = beating \/ \E b \in BOOLEAN : beating' = [beating EXCEPT ![q] = b]
    BY <1>5 DEF Ends, MessagesReviewer, PausesReviewer, Reaps
  <2>2. CASE q = r
    <3>1. /\ ~Young(r) /\ state'[r] \in {"running", "paused", "ended"}
          /\ round'[r] \in {round[r], round[r] + 1}
      BY <2>1, <2>2 DEF Young, AgentsT
    <3> QED BY <2>1, <3>1 DEF AgentMoves
  <2>3. CASE q # r
    <3>1. state'[r] = state[r] /\ round'[r] = round[r] /\ beating'[r] = beating[r]
      BY <2>1, <2>3 DEF AgentsT
    <3> QED BY <1>0, <2>1, <3>1
  <2> QED BY <2>2, <2>3
<1>6. ASSUME NEW q \in Reviewers, Dies(q) PROVE AgentMoves(r)
  <2>1. beating' = [beating EXCEPT ![q] = FALSE] /\ UNCHANGED <<state, linked, round>>
    BY <1>6 DEF Dies
  <2>2. beating'[r] => beating[r]
    BY <2>1 DEF AgentsT
  <2> QED BY <2>1, <2>2 DEF AgentMoves
<1>7. ASSUME NEW p \in Turns, Applies(p) PROVE AgentMoves(r)
  BY <1>0, <1>7 DEF Applies, ReadsReview, ReadsMessages, WritesVerdict, ClosesReview
<1>8. ASSUME NEW q \in Reviewers, Interrupts(q) PROVE AgentMoves(r)
  BY <1>0, <1>8 DEF Interrupts, InterruptsRow, ReadsReviewed, HoldsChange
<1>9. CASE RequestsChanges \/ Disconnects \/ Reconnects \/ Restarts \/ UNCHANGED vars
  <2>1. UNCHANGED <<state, linked, round, beating>>
    BY <1>9 DEF RequestsChanges, Disconnects, Reconnects, Restarts, vars
  <2> QED BY <1>0, <2>1
<1> QED
  BY <1>1, <1>2, <1>3, <1>4, <1>5, <1>6, <1>7, <1>8, <1>9 DEF Next, Dispatches, Turns

-----------------------------------------------------------------------------
(* The four strengthenings.                                                *)

LEMMA ReviewersStep ==
    ASSUME IInv, [Next]_vars, NEW r \in Reviewers
    PROVE  ReviewerOK(r)'
<1>0. /\ AgentMoves(r) /\ RowMoves /\ ReviewerOK(r) /\ CallsOK
      /\ AgentsT /\ RowT /\ CallT /\ ApplyT /\ ApplyOK
  BY AgentsMove, RowStep DEF IInv, Typed, ReviewersOK
<1>1. ASSUME Young(r), row'[r] = "done" PROVE FALSE
  <2>1. row[r] # "done" /\ round[r] = 0
    BY <1>0, <1>1 DEF ReviewerOK
  <2>2. PICK p \in Turns : apply[p].pc = "close" /\ p[1] = r
    BY <1>0, <1>1, <2>1 DEF RowMoves, RowT
  <2>3. p[2] <= 0 /\ p[2] \in Rounds
    BY <1>0, <2>1, <2>2 DEF ApplyOK, Turns
  <2> QED BY <2>3, Numbers DEF Rounds
<1>2. CASE UNCHANGED <<state, linked, round>> /\ (beating'[r] => beating[r])
  BY <1>0, <1>1, <1>2 DEF ReviewerOK, Young
<1>3. ASSUME NEW c \in Callers, state[r] = "none", state'[r] = "pending", UNCHANGED <<linked, round, beating>>
      PROVE  ReviewerOK(r)'
  BY <1>0, <1>1, <1>3 DEF ReviewerOK, Young
<1>4. ASSUME NEW c \in Callers, linked'[r], UNCHANGED <<state, round, beating>>
      PROVE  ReviewerOK(r)'
  BY <1>0, <1>1, <1>4 DEF ReviewerOK, Young
<1>5. ASSUME NEW c \in Callers, call[c].pc = "recorded", call[c].reviewer = r, state'[r] = "running",
             UNCHANGED <<linked, round>>
      PROVE  ReviewerOK(r)'
  BY <1>0, <1>5 DEF ReviewerOK, Young, CallsOK, CallOK, Dispatching
<1>6. CASE /\ ~Young(r) /\ state'[r] \in {"running", "paused", "ended"} /\ UNCHANGED linked
  BY <1>0, <1>6 DEF ReviewerOK, Young
<1>7. CASE state'[r] = state[r] /\ linked'[r] = linked[r] /\ round'[r] = round[r] /\ beating'[r] = beating[r]
  BY <1>0, <1>1, <1>7 DEF ReviewerOK, Young
<1> QED BY <1>0, <1>2, <1>3, <1>4, <1>5, <1>6, <1>7 DEF AgentMoves

LEMMA CallsStep ==
    ASSUME CallT, AgentsT, CallsOK, [Next]_vars
    PROVE  CallsOK'
<1> USE DEF CallsOK, CallOK, Dispatching
<1>1. ASSUME NEW c \in Callers, CreatesReviewer(c) PROVE CallsOK'
  <2>1. PICK q \in Reviewers :
          /\ state[q] = "none" /\ state' = [state EXCEPT ![q] = "pending"]
          /\ call' = [call EXCEPT ![c] = [pc |-> "created", reviewer |-> q]]
    BY <1>1 DEF CreatesReviewer
  <2>2. /\ call'[c].pc = "created" /\ call'[c].reviewer = q
        /\ \A e \in Callers : e # c => call'[e] = call[e]
        /\ state'[q] = "pending" /\ \A s \in Reviewers : s # q => state'[s] = state[s]
    BY <2>1 DEF CallT, AgentsT
  <2>3. UNCHANGED linked
    BY <1>1 DEF CreatesReviewer
  <2>4. \A e \in Callers : e # c /\ Dispatching(e) => call[e].reviewer # q /\ call[e].reviewer \in Reviewers
    BY <2>1
  <2> QED BY <2>2, <2>3, <2>4
<1>2. ASSUME NEW c \in Callers, NEW place \in {"linked", "recorded"}, Dispatching(c),
             call' = [call EXCEPT ![c].pc = place], UNCHANGED state,
             \A q \in Reviewers : linked[q] => linked'[q],
             linked'[call[c].reviewer]
      PROVE  CallsOK'
  <2>1. /\ call'[c].pc = place /\ call'[c].reviewer = call[c].reviewer
        /\ \A e \in Callers : e # c => call'[e] = call[e]
    BY <1>2 DEF CallT, CallRec
  <2>2. \A e \in Callers : (Dispatching(e)' <=> Dispatching(e)) /\ call'[e].reviewer = call[e].reviewer
    BY <1>2, <2>1
  <2>3. \A e \in Callers : call'[e].pc # "created" => e = c \/ call[e].pc # "created"
    BY <2>1
  <2> QED BY <1>2, <2>2, <2>3
<1>3. ASSUME NEW c \in Callers, LinksReviewer(c) PROVE CallsOK'
  <2>1. call[c].pc = "created" /\ call[c].reviewer \in Reviewers
    BY <1>3 DEF LinksReviewer
  <2>2. linked' = [linked EXCEPT ![call[c].reviewer] = TRUE] /\ UNCHANGED state
        /\ call' = [call EXCEPT ![c].pc = "linked"]
    BY <1>3 DEF LinksReviewer
  <2>3. linked'[call[c].reviewer] /\ \A q \in Reviewers : linked[q] => linked'[q]
    BY <2>1, <2>2 DEF AgentsT
  <2> QED BY <1>2, <2>1, <2>2, <2>3
<1>4. ASSUME NEW c \in Callers, OpensRow(c) PROVE CallsOK'
  <2>1. call[c].pc = "linked" /\ UNCHANGED <<state, linked>> /\ call' = [call EXCEPT ![c].pc = "recorded"]
    BY <1>4 DEF OpensRow
  <2> QED BY <1>2, <2>1
<1>5. ASSUME NEW c \in Callers, StartsReviewer(c) PROVE CallsOK'
  <2>1. /\ call[c].pc = "recorded" /\ state' = [state EXCEPT ![call[c].reviewer] = "running"]
        /\ call' = [call EXCEPT ![c] = Idle] /\ UNCHANGED linked
    BY <1>5 DEF StartsReviewer
  <2>2. call'[c].pc = "idle" /\ \A e \in Callers : e # c => call'[e] = call[e]
    BY <2>1 DEF Idle, CallT
  <2>3. \A s \in Reviewers : s # call[c].reviewer => state'[s] = state[s]
    BY <2>1 DEF AgentsT
  <2>4. \A e \in Callers : e # c /\ Dispatching(e) => call[e].reviewer # call[c].reviewer
    BY <2>1
  <2> QED BY <2>1, <2>2, <2>3, <2>4
<1>6. ASSUME NEW c \in Callers, Asks(c) PROVE CallsOK'
  <2>1. call' = [call EXCEPT ![c].pc = "clear"] /\ UNCHANGED <<state, linked>>
    BY <1>6 DEF Asks
  <2>2. call'[c].pc = "clear" /\ \A e \in Callers : e # c => call'[e] = call[e]
    BY <2>1 DEF CallT, CallRec
  <2> QED BY <2>1, <2>2
<1>7. ASSUME NEW r \in Reviewers, state[r] # "pending", UNCHANGED <<call, linked>>,
             \A q \in Reviewers : q # r => state'[q] = state[q]
      PROVE  CallsOK'
  BY <1>7
<1>8. ASSUME NEW r \in Reviewers, Ends(r) \/ MessagesReviewer(r) \/ PausesReviewer(r) \/ Reaps(r) PROVE CallsOK'
  <2>1. state[r] # "pending" /\ UNCHANGED <<call, linked>>
    BY <1>8 DEF Ends, MessagesReviewer, PausesReviewer, Reaps
  <2>2. \A q \in Reviewers : q # r => state'[q] = state[q]
    BY <1>8 DEF Ends, MessagesReviewer, PausesReviewer, Reaps, AgentsT
  <2> QED BY <1>7, <2>1, <2>2
<1>9. ASSUME UNCHANGED <<call, linked, state>> PROVE CallsOK'
  BY <1>9
<1>10. ASSUME NEW r \in Reviewers, Dies(r) \/ Interrupts(r) PROVE CallsOK'
  <2>1. UNCHANGED <<call, linked, state>>
    BY <1>10 DEF Dies, Interrupts, InterruptsRow, ReadsReviewed, HoldsChange
  <2> QED BY <1>9, <2>1
<1>11. ASSUME NEW p \in Turns, Applies(p) PROVE CallsOK'
  <2>1. UNCHANGED <<call, linked, state>>
    BY <1>11 DEF Applies, ReadsReview, ReadsMessages, WritesVerdict, ClosesReview
  <2> QED BY <1>9, <2>1
<1>12. CASE RequestsChanges \/ Disconnects \/ Reconnects \/ UNCHANGED vars
  <2>1. UNCHANGED <<call, linked, state>>
    BY <1>12 DEF RequestsChanges, Disconnects, Reconnects, vars
  <2> QED BY <1>9, <2>1
<1>13. CASE Restarts
  <2>1. \A c \in Callers : call'[c].pc = "idle"
    BY <1>13 DEF Restarts, Idle
  <2> QED BY <2>1
<1> QED
  BY <1>1, <1>3, <1>4, <1>5, <1>6, <1>8, <1>10, <1>11, <1>12, <1>13 DEF Next, Dispatches, Turns

\* No turn is taken back.
LEMMA RoundsGrow ==
    ASSUME IInv, [Next]_vars, NEW r \in Reviewers
    PROVE  /\ round[r] \in Nat /\ round'[r] \in Nat /\ round[r] <= round'[r]
<1>1. AgentMoves(r) /\ AgentsT /\ AgentsT'
  BY AgentsMove, AgentsStep DEF IInv, Typed
<1>2. round[r] \in Nat /\ round'[r] \in Nat
  BY <1>1, Numbers DEF AgentsT
<1>3. round'[r] \in {round[r], round[r] + 1}
  BY <1>1 DEF AgentMoves
<1> QED BY <1>2, <1>3

LEMMA ApplyOKStep == ASSUME IInv, [Next]_vars PROVE ApplyOK'
<1> SUFFICES ASSUME NEW p \in Turns, apply'[p].pc # "none" PROVE p[2] <= round'[p[1]]
  BY DEF ApplyOK
<1>1. p[1] \in Reviewers /\ p[2] \in Nat
  BY Numbers DEF Turns
<1>2. ApplyMoves(p) /\ (apply[p].pc # "none" => p[2] <= round[p[1]])
  BY ApplyStep DEF IInv, Typed, ApplyOK
<1>3. apply[p].pc # "none" \/ round'[p[1]] = p[2]
  BY <1>2 DEF ApplyMoves
<1>4. round[p[1]] \in Nat /\ round'[p[1]] \in Nat /\ round[p[1]] <= round'[p[1]]
  BY <1>1, RoundsGrow
<1> QED BY <1>1, <1>2, <1>3, <1>4

\* The verdict is written from a turn's application, cleared, or held.
VerdictMoves ==
    \/ verdict' = verdict
    \/ verdict'.round = 0
    \/ \E p \in Turns : apply[p].pc = "write" /\ verdict'.by = p[1] /\ verdict'.round = p[2]

LEMMA VerdictMove == ASSUME [Next]_vars PROVE VerdictMoves
<1> USE DEF VerdictMoves
<1>1. ASSUME NEW p \in Turns, WritesVerdict(p) PROVE VerdictMoves
  BY <1>1 DEF WritesVerdict
<1>2. ASSUME NEW r \in Reviewers, HoldsChange(r) PROVE VerdictMoves
  BY <1>2 DEF HoldsChange
<1>3. CASE RequestsChanges
  BY <1>3 DEF RequestsChanges
<1>4. ASSUME NEW c \in Callers, Asks(c) \/ Dispatches(c) PROVE VerdictMoves
  BY <1>4 DEF Asks, Dispatches, CreatesReviewer, LinksReviewer, OpensRow, StartsReviewer
<1>5. ASSUME NEW r \in Reviewers, Ends(r) \/ Dies(r) \/ MessagesReviewer(r) \/ PausesReviewer(r) \/ Reaps(r)
      PROVE  VerdictMoves
  BY <1>5 DEF Ends, Dies, MessagesReviewer, PausesReviewer, Reaps
<1>6. ASSUME NEW p \in Turns, ReadsReview(p) \/ ReadsMessages(p) \/ ClosesReview(p) PROVE VerdictMoves
  BY <1>6 DEF ReadsReview, ReadsMessages, ClosesReview
<1>7. ASSUME NEW r \in Reviewers, InterruptsRow(r) \/ ReadsReviewed(r) PROVE VerdictMoves
  BY <1>7 DEF InterruptsRow, ReadsReviewed
<1>8. CASE Disconnects \/ Reconnects \/ Restarts \/ UNCHANGED vars
  <2>1. verdict' = verdict
    BY <1>8 DEF Disconnects, Reconnects, Restarts, vars
  <2> QED BY <2>1
<1> QED BY <1>1, <1>2, <1>3, <1>4, <1>5, <1>6, <1>7, <1>8 DEF Next, Applies, Interrupts, Turns

LEMMA VerdictOKStep == ASSUME IInv, [Next]_vars PROVE VerdictOK'
<1> SUFFICES ASSUME verdict'.by \in Reviewers PROVE verdict'.round <= round'[verdict'.by]
  BY DEF VerdictOK
<1> DEFINE r == verdict'.by
<1>1. round[r] \in Nat /\ round'[r] \in Nat /\ round[r] <= round'[r]
  BY RoundsGrow
<1>2. verdict \in VerdictRec /\ VerdictOK /\ ApplyOK
  BY DEF IInv, Typed, VerdictT
<1>3. CASE verdict' = verdict
  BY <1>1, <1>2, <1>3, Numbers DEF VerdictOK, VerdictRec
<1>4. CASE verdict'.round = 0
  BY <1>1, <1>4
<1>5. ASSUME NEW p \in Turns, apply[p].pc = "write", verdict'.by = p[1], verdict'.round = p[2]
      PROVE  verdict'.round <= round'[r]
  <2>1. PICK q \in Reviewers, n \in Rounds : p = <<q, n>>
    BY DEF Turns
  <2>2. n <= round[q] /\ q = r /\ verdict'.round = n /\ n \in Nat
    BY <1>2, <1>5, <2>1, Numbers DEF ApplyOK, Turns, Rounds
  <2> QED BY <1>1, <2>2
<1> QED BY <1>3, <1>4, <1>5, VerdictMove DEF VerdictMoves

-----------------------------------------------------------------------------
LEMMA InvInit == Init => IInv
<1> SUFFICES ASSUME Init PROVE IInv
  OBVIOUS
<1> USE Numbers DEF Init
<1>1. VerdictT /\ AgentsT /\ RowT /\ ReapT /\ CountT
  BY DEF VerdictT, VerdictRec, Recs, AgentsT, Outputs, RowT, ReapT, CountT
<1>2. CallT /\ CallsOK
  BY DEF CallT, CallRec, Idle, CallsOK, CallOK, Dispatching
<1>3. ApplyT /\ ApplyOK
  BY DEF ApplyT, ApplyRec, NoApply, Recs, Turns, ApplyOK
<1>4. ReviewersOK /\ VerdictOK
  BY DEF ReviewersOK, ReviewerOK, Young, VerdictOK
<1> QED BY <1>1, <1>2, <1>3, <1>4 DEF IInv, Typed

LEMMA InvStep == IInv /\ [Next]_vars => IInv'
<1> SUFFICES ASSUME IInv, [Next]_vars PROVE IInv'
  OBVIOUS
<1>1. Typed'
  BY VerdictStep, AgentsStep, RowStep, CallStep, ApplyStep, ReapStep, CountStep DEF IInv, Typed
<1>2. ReviewersOK'
  BY ReviewersStep DEF ReviewersOK
<1>3. CallsOK'
  BY CallsStep DEF IInv, Typed
<1> QED BY <1>1, <1>2, <1>3, ApplyOKStep, VerdictOKStep DEF IInv

LEMMA InvIsInvariant == Spec => []IInv
  BY InvInit, InvStep, PTL DEF Spec

\* The change's verdict, its reviewers, their requests and their applications keep their types; a
\* reviewer that was only created has not run, and one that runs is linked to the change.
THEOREM TypeCorrect == Spec => []TypeOK
<1>1. IInv => TypeOK
  BY DEF IInv, Typed, TypeOK, VerdictT, VerdictRec, AgentsT, RowT, CallT, CallRec, ApplyT, ApplyRec, Turns, ReapT, CountT,
         ReviewersOK, ReviewerOK, Young
<1> QED BY <1>1, InvIsInvariant, PTL

\* What holds when a review is done and quiet, and what it leads to.
LEMMA ShutBegins ==
    ASSUME IInv, NEW r \in Reviewers, NEW n \in 1..(MaxRounds - 1), row[r] = "done", Quiet(r), round[r] = n
    PROVE  Shut(r, n)
<1>1. verdict.by = r => verdict.round <= n
  BY DEF IInv, VerdictOK
<1> QED BY <1>1 DEF Shut, Quiet

LEMMA ShutStays ==
    ASSUME IInv, [Next]_vars, NEW r \in Reviewers, NEW n \in 1..(MaxRounds - 1), Shut(r, n)
    PROVE  Shut(r, n)'
<1>0. n \in Nat /\ ReviewerOK(r) /\ CallsOK
  BY Numbers DEF IInv, ReviewersOK
<1>1. row'[r] = "done"
  <2>1. ASSUME NEW c \in Callers, call[c].pc = "linked", call[c].reviewer = r PROVE FALSE
    BY <1>0, <2>1 DEF CallsOK, CallOK, Dispatching, ReviewerOK, Young, Shut
  <2>2. ASSUME NEW p \in Turns, apply[p].pc = "close", p[1] = r PROVE FALSE
    BY <2>2 DEF Shut, Turns
  <2>3. RowMoves /\ RowT /\ row[r] = "done"
    BY RowStep DEF IInv, Typed, Shut
  <2> QED BY <2>1, <2>2, <2>3 DEF RowMoves, RowT
<1>2. ASSUME NEW m \in Rounds PROVE apply'[<<r, m>>].pc \in {"none", "heard", "ended", "lost"}
  <2>1. <<r, m>> \in Turns /\ ApplyMoves(<<r, m>>)
    BY ApplyStep DEF IInv, Typed, Turns
  <2>2. row[r] = "done" /\ apply[<<r, m>>].pc \in {"none", "heard", "ended", "lost"}
    BY DEF Shut
  <2> QED BY <2>1, <2>2 DEF ApplyMoves
<1>3. verdict'.by = r => verdict'.round <= n
  <2>1. ASSUME NEW p \in Turns, apply[p].pc = "write", p[1] = r PROVE FALSE
    BY <2>1 DEF Shut, Turns
  <2> QED BY <1>0, <2>1, VerdictMove DEF VerdictMoves, Shut
<1> QED BY <1>1, <1>2, <1>3 DEF Shut

\* A verdict counts only from the review's own run: once a review is done and no application of it is
\* under way, whatever its reviewer is asked and answers later never reaches the change.
THEOREM LateOutputHolds == Spec => LateOutputIgnored
<1>1. ASSUME NEW r \in Reviewers, NEW n \in 1..(MaxRounds - 1)
      PROVE  Spec => [](row[r] = "done" /\ Quiet(r) /\ round[r] = n => [](verdict.by = r => verdict.round <= n))
  <2>1. IInv /\ (row[r] = "done" /\ Quiet(r) /\ round[r] = n) => Shut(r, n)
    BY ShutBegins
  <2>2. IInv /\ Shut(r, n) /\ [Next]_vars => Shut(r, n)'
    BY ShutStays
  <2>3. Shut(r, n) => (verdict.by = r => verdict.round <= n)
    BY DEF Shut
  <2> QED BY <2>1, <2>2, <2>3, InvIsInvariant, PTL DEF Spec
<1> QED BY <1>1 DEF LateOutputIgnored

-----------------------------------------------------------------------------
(***************************************************************************)
(* AgentPod, for any number of messages and bounds. MonitorSparesWorkers   *)
(* needs WorkerHeard: a worker that has announced itself has a row that    *)
(* was written recently or a beat since, because a row of a live pod ages  *)
(* only when the pod has beaten.                                           *)
(***************************************************************************)

\* The pod that is there, the places of the actors, and the rest.
PodThere == pod \in Pod /\ (pod.phase = "None" => pod = NoPod)
PodRowT == agentState \in State /\ recent \in BOOLEAN /\ beat \in {"never", "fresh", "stale"}
ActorT ==
    /\ creator \in [Creators -> {"idle", "secret", "unset", "reset", "volume", "phase",
                                 "replace", "wait", "create", "recover", "fail"}]
    /\ stopper \in [pc : {"idle", "pod", "secret", "read", "write"}, kind : {"kill", "budget"}]
    /\ reaper \in [pc : {"idle", "pod", "secret", "read", "write"}, failed : BOOLEAN]
    /\ monitor \in BOOLEAN /\ secret \in BOOLEAN
    /\ fate \in [Messages -> {"unsent", "sent", "seen", "refused"}]
PodCountT == podOps \in 0..MaxPodOps /\ podFaults \in 0..MaxPodFaults

\* A worker that has announced itself was written or has been heard of since.
WorkerHeard == Alive /\ pod.worker = "working" => recent \/ beat = "fresh"

PodTyped == PodThere /\ PodRowT /\ ActorT /\ PodCountT
PodInv == PodTyped /\ WorkerHeard

-----------------------------------------------------------------------------
Wrote == agentState' \in State /\ recent' = TRUE /\ UNCHANGED beat

\* What the steps of the actors outside the cluster do to the row and to the pod.
ActorMoves ==
    /\ UNCHANGED dbVars \/ Wrote
    /\ \/ UNCHANGED pod
       \/ pod # NoPod /\ pod' = [pod EXCEPT !.deleting = TRUE]
       \/ \E c \in Creators : pod' = [NoPod EXCEPT !.phase = "Pending", !.turn = c]

Outside == \/ StartDispatch
           \/ \E m \in Messages : SendInput(m)
           \/ \E c \in Creators : Create(c) \/ CreateRefused(c) \/ CreatorThrows(c)
           \/ \E kind \in {"kill", "budget"} : StartStop(kind)
           \/ Stop \/ Reap \/ ListStale \/ PauseStale \/ StartAgent \/ PauseAgent

LEMMA OutsideMoves == ASSUME Outside PROVE ActorMoves
<1> USE DEF ActorMoves
<1>1. ASSUME NEW s \in State, Write(s) PROVE Wrote
  BY <1>1 DEF Write, Wrote
<1>2. "queued" \in State /\ "paused" \in State /\ "failed" \in State /\ "aborted" \in State
  BY DEF State
<1>3. ASSUME DeletePod PROVE pod' = pod \/ (pod # NoPod /\ pod' = [pod EXCEPT !.deleting = TRUE])
  BY <1>3 DEF DeletePod
<1>4. CASE StartDispatch \/ (\E m \in Messages : SendInput(m)) \/ ListStale \/ PauseStale \/ StartAgent \/ PauseAgent
  <2>1. UNCHANGED pod
    BY <1>4 DEF StartDispatch, SendInput, ListStale, PauseStale, StartAgent, PauseAgent, ApiStep
  <2>2. UNCHANGED dbVars \/ Wrote
    BY <1>1, <1>2, <1>4 DEF StartDispatch, SendInput, ListStale, PauseStale, StartAgent, PauseAgent
  <2> QED BY <2>1, <2>2
<1>5. ASSUME NEW c \in Creators, CreateSecret(c) \/ DeleteOldSecret(c) \/ RecreateSecret(c) \/ EnsureVolume(c) \/ ReadPhase(c)
                                 \/ StopWaiting(c) \/ DropSecret(c) \/ CreateRefused(c) \/ CreatorThrows(c)
      PROVE  ActorMoves
  BY <1>5 DEF CreateSecret, DeleteOldSecret, RecreateSecret, EnsureVolume, ReadPhase, StopWaiting, DropSecret,
              CreateRefused, CreatorThrows
<1>6. ASSUME NEW c \in Creators, ReplacePod(c) PROVE ActorMoves
  BY <1>3, <1>6 DEF ReplacePod
<1>7. ASSUME NEW c \in Creators, CreatePod(c) PROVE ActorMoves
  BY <1>7 DEF CreatePod
<1>8. ASSUME NEW c \in Creators, CreatorFailed(c) PROVE ActorMoves
  BY <1>1, <1>2, <1>8 DEF CreatorFailed
<1>9. ASSUME NEW kind \in {"kill", "budget"}, StartStop(kind) PROVE ActorMoves
  BY <1>9 DEF StartStop
<1>10. CASE Stop
  BY <1>1, <1>2, <1>3, <1>10 DEF Stop, StopPod, StopSecret, StopRead, StopWrite
<1>11. CASE Reap
  BY <1>1, <1>2, <1>3, <1>11 DEF Reap, ListPods, ReapPod, ReapSecret, ReapRead, ReapWrite
<1> QED BY <1>4, <1>5, <1>6, <1>7, <1>8, <1>9, <1>10, <1>11 DEF Outside, Create

LEMMA PodStep ==
    ASSUME PodThere, PodRowT, WorkerHeard, [PodNext]_(podVars)
    PROVE  PodThere' /\ PodRowT' /\ WorkerHeard'
<1> DEFINE P == PodThere' /\ PodRowT' /\ WorkerHeard'
<1> USE DEF PodThere, PodRowT, WorkerHeard, Alive
<1>0. NoPod \in Pod /\ NoPod.phase = "None" /\ Task \in Creators
  BY DEF NoPod, Pod, Task, Creators, TerminalPhases
<1>1. CASE Outside
  <2>1. PodRowT' /\ (recent \/ beat = "fresh" => recent' \/ beat' = "fresh")
    BY <1>1, OutsideMoves DEF ActorMoves, Wrote, dbVars
  <2>2. CASE UNCHANGED pod
    BY <2>1, <2>2
  <2>3. CASE pod # NoPod /\ pod' = [pod EXCEPT !.deleting = TRUE]
    <3>1. pod' \in Pod /\ pod'.phase = pod.phase /\ pod'.worker = pod.worker
      BY <2>3 DEF Pod
    <3> QED BY <2>1, <2>3, <3>1
  <2>4. ASSUME NEW c \in Creators, pod' = [NoPod EXCEPT !.phase = "Pending", !.turn = c] PROVE P
    <3>1. pod' = [phase |-> "Pending", worker |-> "none", deleting |-> FALSE, turn |-> c]
      BY <2>4 DEF NoPod
    <3> HIDE DEF PodThere, WorkerHeard
    <3>2. PodThere' /\ WorkerHeard'
      BY <3>1 DEF PodThere, WorkerHeard, Alive, Pod, TerminalPhases
    <3> QED BY <2>1, <3>2
  <2> QED BY <1>1, <2>2, <2>3, <2>4, OutsideMoves DEF ActorMoves
<1>2. CASE PodStarts
  BY <1>2 DEF PodStarts, Pod, TerminalPhases, dbVars
<1>3. CASE WorkerBoots
  BY <1>0, <1>3 DEF WorkerBoots, Write, State, Pod
<1>4. CASE WorkerRecords
  BY <1>4 DEF WorkerRecords, Write, State, Pod
<1>5. CASE WorkerExits
  BY <1>5 DEF WorkerExits, Pod, TerminalPhases, dbVars
<1>6. CASE PodDies
  BY <1>0, <1>6 DEF PodDies, Pod, TerminalPhases, dbVars
<1>7. CASE PodGone
  BY <1>0, <1>7 DEF PodGone, dbVars
<1>8. CASE SidecarBeats \/ BeatAges \/ RowAges \/ UNCHANGED podVars
  BY <1>8 DEF SidecarBeats, BeatAges, RowAges, podVars, dbVars
<1> QED
  BY <1>1, <1>2, <1>3, <1>4, <1>5, <1>6, <1>7, <1>8 DEF PodNext, Cluster, Outside

Places == {"idle", "secret", "unset", "reset", "volume", "phase", "replace", "wait", "create", "recover", "fail"}
Fates == {"unsent", "sent", "seen", "refused"}
StopRec == [pc : {"idle", "pod", "secret", "read", "write"}, kind : {"kill", "budget"}]
ReaperRec == [pc : {"idle", "pod", "secret", "read", "write"}, failed : BOOLEAN]

LEMMA PodCountStep ==
    ASSUME PodCountT, [PodNext]_(podVars)
    PROVE  PodCountT'
<1> USE PodBounds DEF PodCountT
<1>1. ASSUME UserOp \/ PodFault \/ NoBudget PROVE PodCountT'
  BY <1>1 DEF UserOp, PodFault, NoBudget
<1>2. ASSUME NEW c \in Creators, Create(c) PROVE PodCountT'
  BY <1>1, <1>2 DEF Create, CreateSecret, DeleteOldSecret, RecreateSecret, EnsureVolume, ReadPhase, ReplacePod,
                    StopWaiting, CreatePod, DropSecret, CreatorFailed, CreatorStep
<1>3. ASSUME NEW c \in Creators, CreateRefused(c) \/ CreatorThrows(c) PROVE PodCountT'
  BY <1>1, <1>3 DEF CreateRefused, CreatorThrows
<1>4. ASSUME NEW kind \in {"kill", "budget"}, StartStop(kind) PROVE PodCountT'
  BY <1>1, <1>4 DEF StartStop
<1>5. CASE Stop \/ Reap
  BY <1>1, <1>5 DEF Stop, StopPod, StopSecret, StopRead, StopWrite, StopperStep, Reap, ListPods, ReapPod, ReapSecret,
                    ReapRead, ReapWrite, ReaperStep
<1>6. CASE StartDispatch \/ (\E m \in Messages : SendInput(m)) \/ ListStale \/ PauseStale \/ StartAgent \/ PauseAgent
  BY <1>1, <1>6 DEF StartDispatch, SendInput, ListStale, PauseStale, StartAgent, PauseAgent, ApiStep, CreatorStep
<1>7. CASE Cluster
  BY <1>1, <1>7 DEF Cluster, PodStarts, WorkerBoots, WorkerRecords, WorkerExits, PodDies, PodGone, SidecarBeats,
                    BeatAges, RowAges
<1>8. CASE UNCHANGED podVars
  BY <1>8 DEF podVars
<1> QED BY <1>2, <1>3, <1>4, <1>5, <1>6, <1>7, <1>8 DEF PodNext

LEMMA ActorStep ==
    ASSUME ActorT, PodThere, [PodNext]_(podVars)
    PROVE  ActorT'
<1> USE DEF ActorT
<1> DEFINE CreatorT == creator' \in [Creators -> Places]
           OthersT == stopper' \in StopRec /\ reaper' \in ReaperRec /\ monitor' \in BOOLEAN
           RestT == secret' \in BOOLEAN /\ fate' \in [Messages -> Fates]
<1>0. CreatorT /\ OthersT /\ RestT => ActorT'
  BY DEF Places, StopRec, ReaperRec, Fates
<1>1. ASSUME NEW c \in Creators, NEW from, NEW to \in Places, Creating(c, from, to) PROVE CreatorT
  BY <1>1 DEF Creating, Places
<1>2. ASSUME UNCHANGED creator PROVE CreatorT
  BY <1>2 DEF Places
<1>3. ASSUME UNCHANGED <<stopper, reaper, monitor>> PROVE OthersT
  BY <1>3 DEF StopRec, ReaperRec
<1>4. ASSUME secret' \in BOOLEAN, UNCHANGED fate PROVE RestT
  BY <1>4 DEF Fates
<1> HIDE DEF CreatorT, OthersT, RestT
<1>5. ASSUME NEW c \in Creators, CreateSecret(c) \/ DeleteOldSecret(c) \/ RecreateSecret(c) \/ EnsureVolume(c)
                                 \/ ReadPhase(c) \/ ReplacePod(c) \/ StopWaiting(c) \/ CreatePod(c) \/ DropSecret(c)
      PROVE  ActorT'
  <2>1. CreatorT
    BY <1>1, <1>5 DEF CreateSecret, DeleteOldSecret, RecreateSecret, EnsureVolume, ReadPhase, ReplacePod, StopWaiting,
                      CreatePod, DropSecret, Places
  <2>2. UNCHANGED <<stopper, reaper, monitor, fate>> /\ secret' \in BOOLEAN
    BY <1>5 DEF CreateSecret, DeleteOldSecret, RecreateSecret, EnsureVolume, ReadPhase, ReplacePod, StopWaiting,
                CreatePod, DropSecret, CreatorStep
  <2> QED BY <1>0, <1>3, <1>4, <2>1, <2>2
<1>6. ASSUME NEW c \in Creators, CreatorFailed(c) PROVE ActorT'
  <2>1. CreatorT
    BY <1>1, <1>6 DEF CreatorFailed, Places
  <2>2. UNCHANGED <<stopper, reaper, monitor, secret>>
    BY <1>6 DEF CreatorFailed, CreatorStep
  <2>3. fate' \in [Messages -> Fates]
    BY <1>6 DEF CreatorFailed, Fates
  <2> QED BY <1>0, <1>3, <2>1, <2>2, <2>3 DEF RestT
<1>7. ASSUME NEW c \in Creators, CreateRefused(c) \/ CreatorThrows(c) PROVE ActorT'
  <2>1. CreatorT
    BY <1>1, <1>7 DEF CreateRefused, CreatorThrows, Places
  <2>2. UNCHANGED <<stopper, reaper, monitor, fate, secret>>
    BY <1>7 DEF CreateRefused, CreatorThrows
  <2> QED BY <1>0, <1>3, <1>4, <2>1, <2>2
<1>8. CASE StartDispatch
  <2>1. CreatorT
    BY <1>1, <1>8 DEF StartDispatch, Creators, Places
  <2>2. UNCHANGED <<stopper, reaper, monitor, fate, secret>>
    BY <1>8 DEF StartDispatch, CreatorStep
  <2> QED BY <1>0, <1>3, <1>4, <2>1, <2>2
<1>9. ASSUME NEW m \in Messages, SendInput(m) PROVE ActorT'
  <2>1. CreatorT
    BY <1>1, <1>9 DEF SendInput, Creators, Places
  <2>2. UNCHANGED <<stopper, reaper, monitor, secret>>
    BY <1>9 DEF SendInput, CreatorStep
  <2>3. fate' \in [Messages -> Fates]
    BY <1>9 DEF SendInput, Fates
  <2> QED BY <1>0, <1>3, <2>1, <2>2, <2>3 DEF RestT
<1>10. ASSUME UNCHANGED <<creator, fate>>, secret' \in BOOLEAN, OthersT PROVE ActorT'
  BY <1>0, <1>2, <1>4, <1>10
<1>11. ASSUME NEW kind \in {"kill", "budget"}, StartStop(kind) PROVE ActorT'
  <2>1. OthersT
    BY <1>11 DEF StartStop, OthersT, StopRec, ReaperRec
  <2> QED BY <1>10, <1>11, <2>1 DEF StartStop
<1>12. CASE Stop
  <2>1. OthersT
    BY <1>12 DEF Stop, StopPod, StopSecret, StopRead, StopWrite, Stopping, StopperStep, StopperIdle, OthersT, StopRec,
                 ReaperRec
  <2>2. UNCHANGED <<creator, fate>> /\ secret' \in BOOLEAN
    BY <1>12 DEF Stop, StopPod, StopSecret, StopRead, StopWrite, StopperStep
  <2> QED BY <1>10, <2>1, <2>2
<1>13. CASE Reap
  <2>1. ReaperIdle \in ReaperRec /\ \A b \in BOOLEAN : [pc |-> "pod", failed |-> b] \in ReaperRec
    BY DEF ReaperIdle, ReaperRec
  <2>2. reaper \in ReaperRec /\ \A place \in {"secret", "read", "write"} : [reaper EXCEPT !.pc = place] \in ReaperRec
    BY DEF ReaperRec
  <2>3. reaper' \in ReaperRec
    BY <1>13, <2>1, <2>2 DEF Reap, ListPods, ReapPod, ReapSecret, ReapRead, ReapWrite
  <2>4. UNCHANGED <<creator, stopper, monitor, fate>> /\ secret' \in BOOLEAN
    BY <1>13 DEF Reap, ListPods, ReapPod, ReapSecret, ReapRead, ReapWrite, ReaperStep
  <2> QED BY <1>10, <2>3, <2>4 DEF OthersT, StopRec
<1>14. CASE ListStale \/ PauseStale
  <2>1. OthersT
    BY <1>14 DEF ListStale, PauseStale, OthersT, StopRec, ReaperRec
  <2> QED BY <1>10, <1>14, <2>1 DEF ListStale, PauseStale
<1>15. CASE StartAgent \/ PauseAgent
  BY <1>3, <1>10, <1>15 DEF StartAgent, PauseAgent, ApiStep
<1>16. CASE WorkerBoots
  <2>1. UNCHANGED <<creator, stopper, reaper, monitor, secret>>
    BY <1>16 DEF WorkerBoots, ClusterStep
  <2>2. fate' \in [Messages -> Fates]
    BY <1>16 DEF WorkerBoots, Fates
  <2> QED BY <1>0, <1>2, <1>3, <2>1, <2>2 DEF RestT
<1>17. CASE PodStarts \/ WorkerRecords \/ WorkerExits \/ PodDies \/ PodGone \/ SidecarBeats \/ BeatAges \/ RowAges
  <2>1. UNCHANGED <<creator, stopper, reaper, monitor, secret, fate>>
    BY <1>17 DEF PodStarts, WorkerRecords, WorkerExits, PodDies, PodGone, SidecarBeats, BeatAges, RowAges, ClusterStep
  <2> QED BY <1>3, <1>10, <2>1
<1>18. CASE UNCHANGED podVars
  BY <1>3, <1>10, <1>18 DEF podVars
<1> QED
  BY <1>5, <1>6, <1>7, <1>8, <1>9, <1>11, <1>12, <1>13, <1>14, <1>15, <1>16, <1>17, <1>18 DEF PodNext, Create, Cluster

LEMMA PodInvInit == PodInit => PodInv
<1> SUFFICES ASSUME PodInit PROVE PodInv
  OBVIOUS
<1> USE DEF PodInit
<1>1. PodThere /\ WorkerHeard
  BY DEF PodThere, Pod, NoPod, Task, Creators, TerminalPhases, WorkerHeard, Alive
<1>2. PodRowT
  BY DEF PodRowT, State
<1>4. PodCountT
  BY PodBounds DEF PodCountT
<1>3. ActorT
  BY DEF ActorT, StopperIdle, ReaperIdle
<1> QED BY <1>1, <1>2, <1>3, <1>4 DEF PodInv, PodTyped

LEMMA PodInvStep == PodInv /\ [PodNext]_(podVars) => PodInv'
  BY PodStep, ActorStep, PodCountStep DEF PodInv, PodTyped

\* The row, the pod, and the places of the creators, the stopper and the reaper keep their types: the
\* pod that is there is whole, and none is left half deleted.
THEOREM PodTypeCorrect == PodSpec => []PodTypeOK
<1>1. PodInv => PodTypeOK
  BY DEF PodInv, PodTyped, PodThere, PodRowT, ActorT, PodCountT, PodTypeOK
<1> QED BY <1>1, PodInvInit, PodInvStep, PTL DEF PodSpec

\* The monitor never takes an agent for dead whose worker has announced itself, although at that moment
\* the last beat on record may be that of an older pod (the updated_at grace of queries.ts:796-804).
THEOREM WorkersAreSpared == PodSpec => MonitorSparesWorkers
<1>1. PodInv /\ [PodNext]_(podVars) => [~monitor /\ monitor' => ~(Alive /\ pod.worker = "working")]_(podVars)
  <2> SUFFICES ASSUME PodInv, [PodNext]_(podVars), ~monitor, monitor', Alive, pod.worker = "working"
               PROVE  FALSE
    OBVIOUS
  <2>1. recent \/ beat = "fresh"
    BY DEF PodInv, WorkerHeard
  <2>2. ~ListStale
    BY <2>1 DEF ListStale, StaleRead
  <2>3. UNCHANGED monitor \/ PauseStale
    <3>1. ASSUME NEW c \in Creators, Create(c) \/ CreateRefused(c) \/ CreatorThrows(c) PROVE UNCHANGED monitor
      BY <3>1 DEF Create, CreateSecret, DeleteOldSecret, RecreateSecret, EnsureVolume, ReadPhase, ReplacePod,
                  StopWaiting, CreatePod, DropSecret, CreatorFailed, CreatorStep, CreateRefused, CreatorThrows
    <3>2. ASSUME NEW kind \in {"kill", "budget"}, StartStop(kind) PROVE UNCHANGED monitor
      BY <3>2 DEF StartStop
    <3>3. ASSUME Stop \/ Reap PROVE UNCHANGED monitor
      BY <3>3 DEF Stop, StopPod, StopSecret, StopRead, StopWrite, StopperStep, Reap, ListPods, ReapPod, ReapSecret,
                  ReapRead, ReapWrite, ReaperStep
    <3>4. ASSUME StartDispatch \/ (\E m \in Messages : SendInput(m)) \/ StartAgent \/ PauseAgent PROVE UNCHANGED monitor
      BY <3>4 DEF StartDispatch, SendInput, StartAgent, PauseAgent, ApiStep, CreatorStep
    <3>5. ASSUME Cluster PROVE UNCHANGED monitor
      BY <3>5 DEF Cluster, PodStarts, WorkerBoots, WorkerRecords, WorkerExits, PodDies, PodGone, SidecarBeats,
                  BeatAges, RowAges, ClusterStep
    <3> QED BY <2>2, <3>1, <3>2, <3>3, <3>4, <3>5 DEF PodNext, podVars
  <2> QED BY <2>3 DEF PauseStale
<1> QED BY <1>1, PodInvInit, PodInvStep, PTL DEF PodSpec, MonitorSparesWorkers

-----------------------------------------------------------------------------
(***************************************************************************)
(* DeployGate, for any number of changes, deploys, tests and clicks.       *)
(* RunMoves is all that a step may do to the deploy runs, and              *)
(* DecidedStaysDecided follows from it. TypeOK relates the executors,      *)
(* their runs and the claims of the changes; it needs to know what a click *)
(* on its way to a launch has seen (ClickOK).                              *)
(***************************************************************************)

RunStatus == Active \cup Terminal \cup {None, "aborted"}
RunRec == [status : RunStatus, rec : {None, "approve", "hold", "reject"}, seen : SUBSET Changes]
TestRec == [run : Deploys \cup {NoOne}, pod : BOOLEAN,
            status : {None, "pending", "running", "aborted"} \cup Terminal]
ProposalRec == [pc : {"idle", "check", "dedupe", "insert", "gate", "review", "over"}, run : Deploys \cup {NoOne}]
ReviewRec == [pc : {"idle", "heard", "read", "ask"}, run : Deploys \cup {NoOne}, red : BOOLEAN, seen : SUBSET Changes]
ClickRec == [pc : {"idle", "approve", "reject", "created", "launched", "claimed", "over"},
             run : Deploys \cup {NoOne}]
ExecRec == [run : Deploys \cup {NoOne}, st : {None, "made", "up", "down"},
            agent : {None, "running", "ended"}, recorder : {"off", "on", "wrote"}]

\* The parts of the type invariant.
RunT == run \in [Deploys -> RunRec]
TestT == test \in [Batch -> TestRec]
ProposalT == proposal \in [Changes -> ProposalRec]
ReviewT == review \in [Reviewing -> ReviewRec]
ClickT == click \in [Clicks -> ClickRec]
ExecT == exec \in [Clicks -> ExecRec]
RestT == /\ managed \in DeployPhases /\ merged \subseteq Changes /\ claimed \in [Changes -> Clicks \cup {None}]
         /\ reconcile \in [Clicks -> {"idle", "heard", "fail"}]
         /\ bossListens \in BOOLEAN /\ gateFaults \in 0..MaxGateFaults
GateTyped == RunT /\ TestT /\ ProposalT /\ ReviewT /\ ClickT /\ ExecT /\ RestT

Proposed(d) == d \in Deploys /\ run[d].status # None

\* A click is on a deploy that was proposed, and its launch is of that deploy.
ClickOK(k) ==
    /\ click[k].pc \in {"approve", "reject", "created", "launched", "claimed"} => Proposed(click[k].run)
    /\ click[k].pc \in {"created", "launched", "claimed"} => exec[k].run = click[k].run
ExecOK(k) == exec[k].run # NoOne => Proposed(exec[k].run)
ClaimOK(c) == claimed[c] # None => c \in merged /\ claimed[c] \in Clicks /\ exec[claimed[c]].run # NoOne

ClicksOK == \A k \in Clicks : ClickOK(k) /\ ExecOK(k)
ClaimsOK == \A c \in Changes : ClaimOK(c)

GateInv == GateTyped /\ ClicksOK /\ ClaimsOK

-----------------------------------------------------------------------------
LEMMA GateNumbers == MaxGateFaults \in Nat /\ NoOne \notin Deploys
  BY GateBounds DEF NoOne

\* What a step does to the deploy runs.
RunMoves ==
    \/ run' = run
    \/ \E d \in Deploys : run[d].status = None /\ run' = [run EXCEPT ![d].status = "pending_review"]
    \/ \E d \in Deploys, entry \in {"approve", "hold", "reject"}, read \in SUBSET Changes :
          /\ run[d].status = "pending_review"
          /\ run' = [run EXCEPT ![d] = [status |-> "pending_approval", rec |-> entry, seen |-> read]]
    \/ \E d \in Deploys, s \in {"pending", "running", "passed", "failed", "aborted"} :
          run' = [run EXCEPT ![d].status = s]

LEMMA RunStep ==
    ASSUME RunT, ReviewT, ClickT, ExecT, ClicksOK, [GateNext]_(gateVars)
    PROVE  RunMoves
<1> USE DEF RunMoves
<1>1. ASSUME NEW d \in Deploys \cup {NoOne}, NEW s \in {"pending", "running", "passed", "failed", "aborted"}, SetStatus(d, s)
      PROVE  RunMoves
  <2>1. CASE d = NoOne
    <3>1. run' = run
      BY <1>1, <2>1, GateNumbers DEF SetStatus, RunT
    <3> QED BY <3>1
  <2> QED BY <1>1, <2>1 DEF SetStatus
<1>2. ASSUME NEW c \in Changes, InsertsRun(c) PROVE RunMoves
  BY <1>2 DEF InsertsRun, SetStatus
<1>3. ASSUME NEW v \in Reviewing, WritesReview(v) PROVE RunMoves
  <2>1. PICK entry \in Recommendations(v) :
          run' = IF Pending(review[v].run)
                 THEN [run EXCEPT ![review[v].run] = [status |-> "pending_approval", rec |-> entry,
                                                      seen |-> review[v].seen]]
                 ELSE run
    BY <1>3 DEF WritesReview
  <2>2. /\ entry \in {"approve", "hold", "reject"} /\ review[v].seen \in SUBSET Changes
        /\ review[v].run \in Deploys \cup {NoOne}
    BY DEF Recommendations, ReviewT, ReviewRec
  <2>3. CASE review[v].run = NoOne
    <3>1. run' = run
      BY <2>1, <2>3, GateNumbers DEF RunT
    <3> QED BY <3>1
  <2> QED BY <2>1, <2>2, <2>3 DEF Pending
<1>4. \A k \in Clicks : click[k].run \in Deploys \cup {NoOne} /\ exec[k].run \in Deploys \cup {NoOne}
  BY DEF ClickT, ClickRec, ExecT, ExecRec
<1>5. ASSUME NEW k \in Clicks, WritesRejection(k) \/ MarksLaunched(k) PROVE RunMoves
  <2>1. \E s \in {"pending", "running", "failed"} : SetStatus(click[k].run, s)
    BY <1>5 DEF WritesRejection, MarksLaunched
  <2> QED BY <1>1, <1>4, <2>1
<1>6. ASSUME NEW k \in Clicks, RecorderStarts(k) \/ RecorderWrites(k) \/ FailsDeployRun(k) PROVE RunMoves
  <2>1. \E s \in {"running", "passed", "failed"} : SetStatus(exec[k].run, s)
    BY <1>6 DEF RecorderStarts, RecorderWrites, FailsDeployRun, Terminal
  <2> QED BY <1>1, <1>4, <2>1
<1>7. ASSUME NEW d \in Deploys, SweepsRun(d) PROVE RunMoves
  BY <1>1, <1>7 DEF SweepsRun
<1>8. ASSUME NEW c \in Changes, Lands(c) \/ ChecksActive(c) \/ Dedupes(c) \/ LaunchesTest(c) \/ GateLaunched(c)
                                \/ ReviewsAtOnce(c)
      PROVE  RunMoves
  BY <1>8 DEF Lands, ChecksActive, Dedupes, LaunchesTest, GateLaunched, ReviewsAtOnce
<1>9. ASSUME NEW b \in Batch, Tested(b) \/ TestPodLost(b) PROVE RunMoves
  BY <1>9 DEF Tested, TestRuns, TestEnds, SweepsTest, TestPodLost
<1>10. ASSUME NEW v \in Reviewing, EvaluatesGate(v) \/ ReadsForReview(v) PROVE RunMoves
  BY <1>10 DEF EvaluatesGate, ReadsForReview
<1>11. ASSUME NEW k \in Clicks, Approves(k) \/ Rejects(k) \/ CreatesExecutor(k) \/ ClaimsManifest(k) \/ Starts(k)
       PROVE  RunMoves
  BY <1>11 DEF Approves, Rejects, CreatesExecutor, ClaimsManifest, Starts
<1>12. ASSUME NEW k \in Clicks, AgentEnds(k) \/ PodLost(k) \/ ReadsDeployRun(k) PROVE RunMoves
  BY <1>12 DEF AgentEnds, PodLost, ReadsDeployRun
<1>13. CASE BossDisconnects \/ BossReconnects \/ BossRestarts \/ UNCHANGED gateVars
  <2>1. run' = run
    BY <1>13 DEF BossDisconnects, BossReconnects, BossRestarts, gateVars
  <2> QED BY <2>1
<1> QED
  BY <1>2, <1>3, <1>5, <1>6, <1>7, <1>8, <1>9, <1>10, <1>11, <1>12, <1>13
  DEF GateNext, Proposes, Produces, Handles, Executes, Reconciles

LEMMA RunsKeep ==
    ASSUME RunT, RunMoves
    PROVE  RunT' /\ \A d : Proposed(d) => Proposed(d)'
<1>1. CASE run' = run
  BY <1>1 DEF RunT, Proposed
<1>2. ASSUME NEW d \in Deploys, NEW s \in {"pending_review", "pending", "running", "passed", "failed", "aborted"},
             run' = [run EXCEPT ![d].status = s]
      PROVE  RunT' /\ \A e : Proposed(e) => Proposed(e)'
  <2> DEFINE entry == [run[d] EXCEPT !.status = s]
  <2>1. entry \in RunRec /\ entry.status # None
    BY <1>2 DEF RunT, RunRec, RunStatus, Active, Terminal, None
  <2>2. run' = [run EXCEPT ![d] = entry]
    BY <1>2
  <2> HIDE DEF entry
  <2> QED BY <2>1, <2>2 DEF RunT, Proposed
<1>3. ASSUME NEW d \in Deploys, NEW entry \in {"approve", "hold", "reject"}, NEW read \in SUBSET Changes,
             run' = [run EXCEPT ![d] = [status |-> "pending_approval", rec |-> entry, seen |-> read]]
      PROVE  RunT' /\ \A e : Proposed(e) => Proposed(e)'
  <2> DEFINE written == [status |-> "pending_approval", rec |-> entry, seen |-> read]
  <2>1. written \in RunRec /\ written.status # None
    BY DEF RunRec, RunStatus, Active, None
  <2> HIDE DEF written
  <2>2. run' = [run EXCEPT ![d] = written]
    BY <1>3 DEF written
  <2> QED BY <2>1, <2>2 DEF RunT, Proposed
<1> QED BY <1>1, <1>2, <1>3 DEF RunMoves

-----------------------------------------------------------------------------
(* The types of the tests, the proposals, the reviews and the rest.        *)

LEMMA ProposalTyped ==
    ASSUME ProposalT, NEW c \in Changes, NEW d \in Deploys \cup {NoOne},
           NEW place \in {"check", "dedupe", "insert", "gate", "review", "over"}, Propose(c, place, d)
    PROVE  ProposalT'
<1>1. [pc |-> place, run |-> d] \in ProposalRec
  BY DEF ProposalRec
<1> QED BY <1>1 DEF Propose, ProposalT

LEMMA ProposalStep == ASSUME ProposalT, [GateNext]_(gateVars) PROVE ProposalT'
<1>1. NoOne \in Deploys \cup {NoOne}
  OBVIOUS
<1>2. \A c \in Changes : proposal[c].run \in Deploys \cup {NoOne}
  BY DEF ProposalT, ProposalRec
<1>3. ASSUME UNCHANGED proposal PROVE ProposalT'
  BY <1>3 DEF ProposalT
<1>4. ASSUME NEW c \in Changes, Lands(c) PROVE ProposalT'
  BY <1>1, <1>4, ProposalTyped DEF Lands
<1>5. ASSUME NEW c \in Changes, ChecksActive(c) PROVE ProposalT'
  BY <1>1, <1>5, ProposalTyped DEF ChecksActive
<1>6. ASSUME NEW c \in Changes, Dedupes(c) PROVE ProposalT'
  BY <1>1, <1>6, ProposalTyped DEF Dedupes, ActiveDeployRuns
<1>7. ASSUME NEW c \in Changes, InsertsRun(c) PROVE ProposalT'
  BY <1>7, ProposalTyped DEF InsertsRun
<1>8. ASSUME NEW c \in Changes, LaunchesTest(c) PROVE ProposalT'
  BY <1>2, <1>3, <1>8, ProposalTyped DEF LaunchesTest
<1>9. ASSUME NEW c \in Changes, GateLaunched(c) PROVE ProposalT'
  BY <1>1, <1>2, <1>9, ProposalTyped DEF GateLaunched
<1>10. ASSUME NEW c \in Changes, ReviewsAtOnce(c) PROVE ProposalT'
  BY <1>1, <1>10, ProposalTyped DEF ReviewsAtOnce
<1>11. CASE BossRestarts
  <2>1. NoProposal \in ProposalRec /\ [NoProposal EXCEPT !.pc = "over"] \in ProposalRec
    BY DEF NoProposal, ProposalRec
  <2> QED BY <1>11, <2>1 DEF BossRestarts, ProposalT
<1>12. ASSUME NEW b \in Batch, Tested(b) \/ TestPodLost(b) PROVE ProposalT'
  BY <1>3, <1>12 DEF Tested, TestRuns, TestEnds, SweepsTest, TestPodLost, calls
<1>13. ASSUME NEW v \in Reviewing, Produces(v) PROVE ProposalT'
  BY <1>3, <1>13 DEF Produces, EvaluatesGate, ReadsForReview, WritesReview
<1>14. ASSUME NEW k \in Clicks, Approves(k) \/ Rejects(k) \/ Handles(k) PROVE ProposalT'
  BY <1>3, <1>14 DEF Approves, Rejects, Handles, WritesRejection, CreatesExecutor, MarksLaunched, ClaimsManifest, Starts
<1>15. ASSUME NEW k \in Clicks, Executes(k) \/ PodLost(k) \/ Reconciles(k) PROVE ProposalT'
  BY <1>3, <1>15 DEF Executes, RecorderStarts, RecorderWrites, AgentEnds, PodLost, Reconciles, ReadsDeployRun,
                     FailsDeployRun, calls
<1>16. ASSUME NEW d \in Deploys, SweepsRun(d) PROVE ProposalT'
  BY <1>3, <1>16 DEF SweepsRun, calls
<1>17. CASE BossDisconnects \/ BossReconnects \/ UNCHANGED gateVars
  BY <1>3, <1>17 DEF BossDisconnects, BossReconnects, gateVars, calls
<1> QED
  BY <1>4, <1>5, <1>6, <1>7, <1>8, <1>9, <1>10, <1>11, <1>12, <1>13, <1>14, <1>15, <1>16, <1>17 DEF GateNext, Proposes

LEMMA TestStep == ASSUME TestT, ProposalT, [GateNext]_(gateVars) PROVE TestT'
<1>1. ASSUME NEW b \in Batch, NEW entry \in TestRec, test' = [test EXCEPT ![b] = entry] PROVE TestT'
  BY <1>1 DEF TestT
<1>2. ASSUME UNCHANGED test PROVE TestT'
  BY <1>2 DEF TestT
<1>3. ASSUME NEW c \in Changes, LaunchesTest(c) PROVE TestT'
  <2>1. PICK t \in Tests, p \in BOOLEAN :
          test' = [test EXCEPT ![<<c, t>>] = [run |-> proposal[c].run, status |-> "pending", pod |-> p]]
    BY <1>3 DEF LaunchesTest
  <2>2. [run |-> proposal[c].run, status |-> "pending", pod |-> p] \in TestRec
    BY DEF ProposalT, ProposalRec, TestRec
  <2>3. <<c, t>> \in Batch
    BY DEF Batch
  <2> QED BY <1>1, <2>1, <2>2, <2>3
<1>4. ASSUME NEW b \in Batch, TestRuns(b) PROVE TestT'
  <2> DEFINE entry == [test[b] EXCEPT !.status = "running"]
  <2>1. entry \in TestRec
    BY DEF TestT, TestRec
  <2>2. test' = [test EXCEPT ![b] = entry]
    BY <1>4 DEF TestRuns
  <2> QED BY <1>1, <2>1, <2>2
<1>5. ASSUME NEW b \in Batch, SweepsTest(b) PROVE TestT'
  <2> DEFINE entry == [test[b] EXCEPT !.status = "aborted"]
  <2>1. entry \in TestRec
    BY DEF TestT, TestRec
  <2>2. test' = [test EXCEPT ![b] = entry]
    BY <1>5 DEF SweepsTest
  <2> QED BY <1>1, <2>1, <2>2
<1>6. ASSUME NEW b \in Batch, TestPodLost(b) PROVE TestT'
  <2> DEFINE entry == [test[b] EXCEPT !.pod = FALSE]
  <2>1. entry \in TestRec
    BY DEF TestT, TestRec
  <2>2. test' = [test EXCEPT ![b] = entry]
    BY <1>6 DEF TestPodLost
  <2> QED BY <1>1, <2>1, <2>2
<1>7. ASSUME NEW b \in Batch, TestEnds(b) PROVE TestT'
  <2>1. PICK s \in Terminal : test' = [test EXCEPT ![b].status = s, ![b].pod = FALSE]
    BY <1>7 DEF TestEnds
  <2> DEFINE entry == [test[b] EXCEPT !.status = s, !.pod = FALSE]
  <2>2. entry \in TestRec
    BY DEF TestT, TestRec
  <2>3. test' = [test EXCEPT ![b] = entry]
    BY <2>1 DEF TestT
  <2> QED BY <1>1, <2>2, <2>3
<1>8. ASSUME NEW c \in Changes, Lands(c) \/ ChecksActive(c) \/ Dedupes(c) \/ InsertsRun(c) \/ GateLaunched(c)
                                \/ ReviewsAtOnce(c)
      PROVE  TestT'
  BY <1>2, <1>8 DEF Lands, ChecksActive, Dedupes, InsertsRun, GateLaunched, ReviewsAtOnce
<1>9. ASSUME NEW v \in Reviewing, Produces(v) PROVE TestT'
  BY <1>2, <1>9 DEF Produces, EvaluatesGate, ReadsForReview, WritesReview
<1>10. ASSUME NEW k \in Clicks, Approves(k) \/ Rejects(k) \/ Handles(k) PROVE TestT'
  BY <1>2, <1>10 DEF Approves, Rejects, Handles, WritesRejection, CreatesExecutor, MarksLaunched, ClaimsManifest, Starts
<1>11. ASSUME NEW k \in Clicks, Executes(k) \/ PodLost(k) \/ Reconciles(k) PROVE TestT'
  BY <1>2, <1>11 DEF Executes, RecorderStarts, RecorderWrites, AgentEnds, PodLost, Reconciles, ReadsDeployRun,
                     FailsDeployRun
<1>12. ASSUME NEW d \in Deploys, SweepsRun(d) PROVE TestT'
  BY <1>2, <1>12 DEF SweepsRun
<1>13. CASE BossDisconnects \/ BossReconnects \/ BossRestarts \/ UNCHANGED gateVars
  BY <1>2, <1>13 DEF BossDisconnects, BossReconnects, BossRestarts, gateVars
<1> QED
  BY <1>3, <1>4, <1>5, <1>6, <1>7, <1>8, <1>9, <1>10, <1>11, <1>12, <1>13 DEF GateNext, Proposes, Tested

LEMMA ReviewStep == ASSUME ReviewT, TestT, ProposalT, RestT, [GateNext]_(gateVars) PROVE ReviewT'
<1>0. NoReview \in ReviewRec
  BY DEF NoReview, ReviewRec
<1>1. ASSUME NEW v \in Reviewing, NEW entry \in ReviewRec, review' = [review EXCEPT ![v] = entry] PROVE ReviewT'
  BY <1>1 DEF ReviewT
<1>2. ASSUME UNCHANGED review PROVE ReviewT'
  BY <1>2 DEF ReviewT
<1>3. ASSUME NEW d \in Deploys \cup {NoOne}, NEW place \in {"heard", "read"}
      PROVE  [NoReview EXCEPT !.pc = place, !.run = d] \in ReviewRec
  BY <1>0 DEF ReviewRec
<1>4. ASSUME NEW c \in Changes, ReviewsAtOnce(c) PROVE ReviewT'
  <2>1. <<c, None>> \in Reviewing /\ proposal[c].run \in Deploys \cup {NoOne}
    BY DEF Reviewing, ProposalT, ProposalRec
  <2> QED BY <1>1, <1>3, <1>4, <2>1 DEF ReviewsAtOnce
<1>5. ASSUME NEW b \in Batch, Notified(b) PROVE ReviewT'
  <2>1. b \in Reviewing /\ test[b].run \in Deploys \cup {NoOne}
    BY DEF Reviewing, Batch, TestT, TestRec
  <2> QED BY <1>1, <1>2, <1>3, <1>5, <2>1 DEF Notified
<1>6. ASSUME NEW b \in Batch, Tested(b) \/ TestPodLost(b) PROVE ReviewT'
  BY <1>2, <1>5, <1>6 DEF Tested, TestRuns, TestEnds, SweepsTest, TestPodLost, calls
<1>7. ASSUME NEW v \in Reviewing, EvaluatesGate(v) PROVE ReviewT'
  <2> DEFINE entry == [review[v] EXCEPT !.pc = "read"]
  <2>1. entry \in ReviewRec
    BY DEF ReviewT, ReviewRec
  <2>2. review' = [review EXCEPT ![v] = entry] \/ review' = [review EXCEPT ![v] = NoReview]
    BY <1>7 DEF EvaluatesGate
  <2> QED BY <1>0, <1>1, <2>1, <2>2
<1>8. ASSUME NEW v \in Reviewing, ReadsForReview(v) PROVE ReviewT'
  <2> DEFINE red == \E b \in GateTests(review[v].run) : test[b].status = "failed"
             entry == [review[v] EXCEPT !.pc = "ask", !.red = red, !.seen = Unshipped]
  <2>1. red \in BOOLEAN /\ Unshipped \in SUBSET Changes
    BY DEF Unshipped, RestT
  <2>2. review' = [review EXCEPT ![v].pc = "ask", ![v].red = red, ![v].seen = Unshipped]
        \/ review' = [review EXCEPT ![v] = NoReview]
    BY <1>8 DEF ReadsForReview
  <2> HIDE DEF red
  <2>3. entry \in ReviewRec
    BY <2>1 DEF ReviewT, ReviewRec
  <2>4. review' = [review EXCEPT ![v] = entry] \/ review' = [review EXCEPT ![v] = NoReview]
    BY <2>2 DEF ReviewT
  <2> QED BY <1>0, <1>1, <2>3, <2>4
<1>9. ASSUME NEW v \in Reviewing, WritesReview(v) PROVE ReviewT'
  BY <1>0, <1>1, <1>9 DEF WritesReview
<1>10. CASE BossRestarts
  BY <1>0, <1>10 DEF BossRestarts, ReviewT
<1>11. ASSUME NEW c \in Changes, Lands(c) \/ ChecksActive(c) \/ Dedupes(c) \/ InsertsRun(c) \/ LaunchesTest(c)
                                 \/ GateLaunched(c)
       PROVE  ReviewT'
  BY <1>2, <1>11 DEF Lands, ChecksActive, Dedupes, InsertsRun, LaunchesTest, GateLaunched
<1>12. ASSUME NEW k \in Clicks, Approves(k) \/ Rejects(k) \/ Handles(k) PROVE ReviewT'
  BY <1>2, <1>12 DEF Approves, Rejects, Handles, WritesRejection, CreatesExecutor, MarksLaunched, ClaimsManifest, Starts
<1>13. ASSUME NEW k \in Clicks, Executes(k) \/ PodLost(k) \/ Reconciles(k) PROVE ReviewT'
  BY <1>2, <1>13 DEF Executes, RecorderStarts, RecorderWrites, AgentEnds, PodLost, Reconciles, ReadsDeployRun,
                     FailsDeployRun, calls
<1>14. ASSUME NEW d \in Deploys, SweepsRun(d) PROVE ReviewT'
  BY <1>2, <1>14 DEF SweepsRun, calls
<1>15. CASE BossDisconnects \/ BossReconnects \/ UNCHANGED gateVars
  BY <1>2, <1>15 DEF BossDisconnects, BossReconnects, gateVars, calls
<1> QED
  BY <1>4, <1>6, <1>7, <1>8, <1>9, <1>10, <1>11, <1>12, <1>13, <1>14, <1>15 DEF GateNext, Proposes, Produces

-----------------------------------------------------------------------------
(* The clicks, the executors they launch, and what these ship.             *)

ClickMoves(k) ==
    \/ click'[k] = click[k]
    \/ click'[k].pc \in {"idle", "over"}
    \/ click'[k].pc \in {"approve", "reject"} /\ Proposed(click'[k].run)
    \/ /\ click[k].pc = "approve" /\ click'[k].pc = "created" /\ click'[k].run = click[k].run
       /\ exec'[k].run = click[k].run
    \/ /\ click[k].pc \in {"created", "launched"} /\ click'[k].pc \in {"launched", "claimed"}
       /\ click'[k].run = click[k].run /\ UNCHANGED exec

LEMMA ClickTyped ==
    ASSUME ClickT, NEW k \in Clicks, NEW d \in Deploys \cup {NoOne},
           NEW place \in {"approve", "reject", "created", "launched", "claimed", "over"}, SetClick(k, place, d)
    PROVE  /\ ClickT' /\ click'[k].pc = place /\ click'[k].run = d
           /\ \A j \in Clicks : j # k => click'[j] = click[j]
<1>1. [pc |-> place, run |-> d] \in ClickRec
  BY DEF ClickRec
<1> QED BY <1>1 DEF SetClick, ClickT

LEMMA ClickStep == ASSUME ClickT, ExecT, [GateNext]_(gateVars) PROVE ClickT' /\ \A k \in Clicks : ClickMoves(k)
<1> DEFINE P == ClickT' /\ \A k \in Clicks : ClickMoves(k)
<1>1. \A k \in Clicks : click[k].run \in Deploys \cup {NoOne} /\ NoOne \in Deploys \cup {NoOne}
  BY DEF ClickT, ClickRec
<1>2. ASSUME UNCHANGED click PROVE P
  BY <1>2 DEF ClickT, ClickMoves
<1>3. ASSUME NEW k \in Clicks, Approves(k) \/ Rejects(k) PROVE P
  <2>1. PICK d \in Deploys, place \in {"approve", "reject"} : run[d].status # None /\ SetClick(k, place, d)
    BY <1>3 DEF Approves, Rejects, None
  <2>2. /\ ClickT' /\ click'[k].pc = place /\ click'[k].run = d
        /\ \A j \in Clicks : j # k => click'[j] = click[j]
    BY <2>1, ClickTyped
  <2> QED BY <2>1, <2>2 DEF ClickMoves, Proposed
<1>4. ASSUME NEW k \in Clicks, WritesRejection(k) \/ Starts(k) PROVE P
  <2>1. SetClick(k, "over", NoOne)
    BY <1>4 DEF WritesRejection, Starts
  <2>2. /\ ClickT' /\ click'[k].pc = "over" /\ \A j \in Clicks : j # k => click'[j] = click[j]
    BY <1>1, <2>1, ClickTyped
  <2> QED BY <2>2 DEF ClickMoves
<1>5. ASSUME NEW k \in Clicks, CreatesExecutor(k) PROVE P
  <2>1. /\ click[k].pc = "approve" /\ SetClick(k, "created", click[k].run)
        /\ exec' = [exec EXCEPT ![k] = [NoExec EXCEPT !.st = "made", !.run = click[k].run]]
    BY <1>5 DEF CreatesExecutor
  <2>2. /\ ClickT' /\ click'[k].pc = "created" /\ click'[k].run = click[k].run
        /\ \A j \in Clicks : j # k => click'[j] = click[j]
    BY <1>1, <2>1, ClickTyped
  <2>3. exec'[k].run = click[k].run
    BY <2>1 DEF ExecT, NoExec
  <2> QED BY <2>1, <2>2, <2>3 DEF ClickMoves
<1>6. ASSUME NEW k \in Clicks, MarksLaunched(k) \/ ClaimsManifest(k) PROVE P
  <2>1. PICK place \in {"launched", "claimed"} :
          /\ SetClick(k, place, click[k].run)
          /\ click[k].pc \in {"created", "launched"} /\ UNCHANGED exec
    BY <1>6 DEF MarksLaunched, ClaimsManifest
  <2>2. /\ ClickT' /\ click'[k].pc = place /\ click'[k].run = click[k].run
        /\ \A j \in Clicks : j # k => click'[j] = click[j]
    BY <1>1, <2>1, ClickTyped
  <2> QED BY <2>1, <2>2 DEF ClickMoves
<1>7. CASE BossRestarts
  <2>1. NoClick \in ClickRec /\ [NoClick EXCEPT !.pc = "over"] \in ClickRec
        /\ NoClick.pc = "idle" /\ [NoClick EXCEPT !.pc = "over"].pc = "over"
    BY DEF NoClick, ClickRec
  <2>2. click' = [k \in Clicks |-> IF click[k].pc = "idle" THEN NoClick ELSE [NoClick EXCEPT !.pc = "over"]]
    BY <1>7 DEF BossRestarts
  <2>3. \A k \in Clicks : click'[k] \in ClickRec /\ click'[k].pc \in {"idle", "over"}
    BY <2>1, <2>2
  <2> QED BY <2>2, <2>3 DEF ClickT, ClickMoves
<1>8. ASSUME NEW c \in Changes, Lands(c) \/ Proposes(c) PROVE P
  BY <1>2, <1>8 DEF Lands, Proposes, ChecksActive, Dedupes, InsertsRun, LaunchesTest, GateLaunched, ReviewsAtOnce
<1>9. ASSUME NEW b \in Batch, Tested(b) \/ TestPodLost(b) PROVE P
  BY <1>2, <1>9 DEF Tested, TestRuns, TestEnds, SweepsTest, TestPodLost, calls
<1>10. ASSUME NEW v \in Reviewing, Produces(v) PROVE P
  BY <1>2, <1>10 DEF Produces, EvaluatesGate, ReadsForReview, WritesReview
<1>11. ASSUME NEW k \in Clicks, Executes(k) \/ PodLost(k) \/ Reconciles(k) PROVE P
  BY <1>2, <1>11 DEF Executes, RecorderStarts, RecorderWrites, AgentEnds, PodLost, Reconciles, ReadsDeployRun,
                     FailsDeployRun, calls
<1>12. ASSUME NEW d \in Deploys, SweepsRun(d) PROVE P
  BY <1>2, <1>12 DEF SweepsRun, calls
<1>13. CASE BossDisconnects \/ BossReconnects \/ UNCHANGED gateVars
  BY <1>2, <1>13 DEF BossDisconnects, BossReconnects, gateVars, calls
<1> QED
  BY <1>3, <1>4, <1>5, <1>6, <1>7, <1>8, <1>9, <1>10, <1>11, <1>12, <1>13 DEF GateNext, Handles

\* The run of an executor is the one its click creates it for.
ExecMoves(k) == \/ exec'[k].run = exec[k].run
                \/ /\ click[k].pc = "approve" /\ click'[k].pc = "created"
                   /\ exec'[k].run = click[k].run

LEMMA ExecStep == ASSUME ExecT, ClickT, [GateNext]_(gateVars) PROVE ExecT' /\ \A k \in Clicks : ExecMoves(k)
<1> DEFINE P == ExecT' /\ \A k \in Clicks : ExecMoves(k)
<1>1. ASSUME NEW k \in Clicks, NEW entry \in ExecRec, entry.run = exec[k].run, exec' = [exec EXCEPT ![k] = entry] PROVE P
  BY <1>1 DEF ExecT, ExecMoves
<1>2. ASSUME UNCHANGED exec PROVE P
  BY <1>2 DEF ExecT, ExecMoves
<1>3. ASSUME NEW k \in Clicks PROVE Down(k) \in ExecRec /\ Down(k).run = exec[k].run
  BY DEF Down, NoExec, ExecT, ExecRec
<1>4. ASSUME NEW k \in Clicks, NEW e \in ExecRec, e.run = exec[k].run, Settle(k, e) PROVE P
  BY <1>1, <1>3, <1>4 DEF Settle
<1>5. ASSUME NEW k \in Clicks, CreatesExecutor(k) PROVE P
  <2> DEFINE entry == [NoExec EXCEPT !.st = "made", !.run = click[k].run]
  <2>1. entry \in ExecRec /\ entry.run = click[k].run
    BY DEF NoExec, ExecRec, ClickT, ClickRec
  <2>2. exec' = [exec EXCEPT ![k] = entry] /\ click[k].pc = "approve" /\ SetClick(k, "created", click[k].run)
    BY <1>5 DEF CreatesExecutor
  <2> HIDE DEF entry
  <2>3. click'[k].pc = "created"
    BY <2>2 DEF SetClick, ClickT
  <2> QED BY <2>1, <2>2, <2>3 DEF ExecT, ExecMoves
<1>6. ASSUME NEW k \in Clicks, Starts(k) PROVE P
  <2> DEFINE agent == IF managed THEN "running" ELSE None
             up == [exec[k] EXCEPT !.st = "up", !.agent = agent]
             down == [exec[k] EXCEPT !.st = "down"]
  <2>1. agent \in {None, "running", "ended"}
    OBVIOUS
  <2>2. exec' = [exec EXCEPT ![k].st = "up", ![k].agent = agent] \/ exec' = [exec EXCEPT ![k].st = "down"]
    BY <1>6 DEF Starts
  <2> HIDE DEF agent
  <2>3. up \in ExecRec /\ up.run = exec[k].run /\ down \in ExecRec /\ down.run = exec[k].run
    BY <2>1 DEF ExecT, ExecRec
  <2>4. exec' = [exec EXCEPT ![k] = up] \/ exec' = [exec EXCEPT ![k] = down]
    BY <2>2 DEF ExecT
  <2> QED BY <1>1, <2>3, <2>4
<1>7. ASSUME NEW k \in Clicks, RecorderStarts(k) PROVE P
  <2> DEFINE entry == [exec[k] EXCEPT !.recorder = "on"]
  <2>1. entry \in ExecRec /\ entry.run = exec[k].run
    BY DEF ExecT, ExecRec
  <2>2. exec' = [exec EXCEPT ![k] = entry]
    BY <1>7 DEF RecorderStarts
  <2> QED BY <1>1, <2>1, <2>2
<1>8. ASSUME NEW k \in Clicks, RecorderWrites(k) PROVE P
  <2> DEFINE entry == [exec[k] EXCEPT !.recorder = "wrote"]
  <2>1. entry \in ExecRec /\ entry.run = exec[k].run
    BY DEF ExecT, ExecRec
  <2>2. Settle(k, entry)
    BY <1>8 DEF RecorderWrites
  <2> QED BY <1>4, <2>1, <2>2
<1>9. ASSUME NEW k \in Clicks, AgentEnds(k) PROVE P
  <2> DEFINE entry == [exec[k] EXCEPT !.agent = "ended"]
  <2>1. entry \in ExecRec /\ entry.run = exec[k].run
    BY DEF ExecT, ExecRec
  <2>2. Settle(k, entry)
    BY <1>9 DEF AgentEnds
  <2> QED BY <1>4, <2>1, <2>2
<1>10. ASSUME NEW k \in Clicks, PodLost(k) PROVE P
  BY <1>1, <1>3, <1>10 DEF PodLost
<1>11. ASSUME NEW k \in Clicks, Approves(k) \/ Rejects(k) \/ WritesRejection(k) \/ MarksLaunched(k) \/ ClaimsManifest(k)
                                \/ Reconciles(k)
       PROVE  P
  BY <1>2, <1>11 DEF Approves, Rejects, WritesRejection, MarksLaunched, ClaimsManifest, Reconciles, ReadsDeployRun,
                     FailsDeployRun
<1>12. ASSUME NEW c \in Changes, Lands(c) \/ Proposes(c) PROVE P
  BY <1>2, <1>12 DEF Lands, Proposes, ChecksActive, Dedupes, InsertsRun, LaunchesTest, GateLaunched, ReviewsAtOnce
<1>13. ASSUME NEW b \in Batch, Tested(b) \/ TestPodLost(b) PROVE P
  BY <1>2, <1>13 DEF Tested, TestRuns, TestEnds, SweepsTest, TestPodLost
<1>14. ASSUME NEW v \in Reviewing, Produces(v) PROVE P
  BY <1>2, <1>14 DEF Produces, EvaluatesGate, ReadsForReview, WritesReview
<1>15. ASSUME NEW d \in Deploys, SweepsRun(d) PROVE P
  BY <1>2, <1>15 DEF SweepsRun
<1>16. CASE BossDisconnects \/ BossReconnects \/ BossRestarts \/ UNCHANGED gateVars
  BY <1>2, <1>16 DEF BossDisconnects, BossReconnects, BossRestarts, gateVars
<1> QED
  BY <1>5, <1>6, <1>7, <1>8, <1>9, <1>10, <1>11, <1>12, <1>13, <1>14, <1>15, <1>16 DEF GateNext, Handles, Executes

\* A claim is of a launch that is under way, and of what is merged.
ClaimMoves ==
    \/ UNCHANGED claimed
    \/ \E k \in Clicks : /\ click[k].pc = "launched" /\ UNCHANGED exec
                         /\ claimed' = [c \in Changes |-> IF c \in Unshipped THEN k ELSE claimed[c]]

LEMMA RestStep ==
    ASSUME RestT, [GateNext]_(gateVars)
    PROVE  RestT' /\ merged \subseteq merged' /\ ClaimMoves
<1> DEFINE P == RestT' /\ merged \subseteq merged' /\ ClaimMoves
<1> USE GateNumbers DEF RestT, ClaimMoves
<1>1. ASSUME GateFault PROVE gateFaults' \in 0..MaxGateFaults
  BY <1>1 DEF GateFault
<1>2. ASSUME NEW c \in Changes, Lands(c) PROVE P
  BY <1>2 DEF Lands
<1>3. ASSUME NEW c \in Changes, Proposes(c) PROVE P
  BY <1>1, <1>3 DEF Proposes, ChecksActive, Dedupes, InsertsRun, LaunchesTest, GateLaunched, ReviewsAtOnce
<1>4. ASSUME NEW b \in Batch, Tested(b) \/ TestPodLost(b) PROVE P
  BY <1>1, <1>4 DEF Tested, TestRuns, TestEnds, SweepsTest, TestPodLost, calls
<1>5. ASSUME NEW v \in Reviewing, Produces(v) PROVE P
  BY <1>5 DEF Produces, EvaluatesGate, ReadsForReview, WritesReview
<1>6. ASSUME NEW k \in Clicks, ClaimsManifest(k) PROVE P
  BY <1>6 DEF ClaimsManifest
<1>7. ASSUME NEW k \in Clicks, Approves(k) \/ Rejects(k) \/ WritesRejection(k) \/ CreatesExecutor(k)
                               \/ MarksLaunched(k) \/ Starts(k)
      PROVE  P
  BY <1>1, <1>7 DEF Approves, Rejects, WritesRejection, CreatesExecutor, MarksLaunched, Starts
<1>8. ASSUME NEW k \in Clicks, AgentEnds(k) \/ Reconciles(k) PROVE P
  BY <1>8 DEF AgentEnds, Reconciles, ReadsDeployRun, FailsDeployRun
<1>9. ASSUME NEW k \in Clicks, RecorderStarts(k) \/ RecorderWrites(k) \/ PodLost(k) PROVE P
  BY <1>1, <1>9 DEF RecorderStarts, RecorderWrites, PodLost, calls
<1>10. ASSUME NEW d \in Deploys, SweepsRun(d) PROVE P
  BY <1>10 DEF SweepsRun, calls
<1>11. ASSUME BossDisconnects \/ BossReconnects \/ UNCHANGED gateVars PROVE P
  BY <1>1, <1>11 DEF BossDisconnects, BossReconnects, gateVars, calls
<1>12. CASE BossRestarts
  BY <1>1, <1>12 DEF BossRestarts
<1> QED
  BY <1>2, <1>3, <1>4, <1>5, <1>6, <1>7, <1>8, <1>9, <1>10, <1>11, <1>12 DEF GateNext, Handles, Executes

LEMMA ClicksStep ==
    ASSUME GateTyped, ClicksOK, [GateNext]_(gateVars)
    PROVE  ClicksOK'
<1> SUFFICES ASSUME NEW k \in Clicks PROVE ClickOK(k)' /\ ExecOK(k)'
  BY DEF ClicksOK
<1>1. ClickMoves(k) /\ ExecMoves(k) /\ ClickOK(k) /\ ExecOK(k)
  BY ClickStep, ExecStep DEF GateTyped, ClicksOK
<1>2. \A d : Proposed(d) => Proposed(d)'
  BY RunStep, RunsKeep DEF GateTyped
<1>3. ExecOK(k)'
  BY <1>1, <1>2 DEF ExecMoves, ExecOK, ClickOK
<1>4. ClickOK(k)'
  <2>1. CASE click'[k] = click[k]
    <3>1. exec'[k].run = exec[k].run
      BY <1>1, <2>1 DEF ExecMoves
    <3> QED BY <1>1, <1>2, <2>1, <3>1 DEF ClickOK
  <2>2. CASE click'[k].pc \in {"idle", "over"}
    BY <2>2 DEF ClickOK
  <2>3. CASE click'[k].pc \in {"approve", "reject"} /\ Proposed(click'[k].run)
    BY <1>2, <2>3 DEF ClickOK
  <2>4. CASE /\ click[k].pc = "approve" /\ click'[k].pc = "created" /\ click'[k].run = click[k].run
             /\ exec'[k].run = click[k].run
    BY <1>1, <1>2, <2>4 DEF ClickOK
  <2>5. CASE /\ click[k].pc \in {"created", "launched"} /\ click'[k].pc \in {"launched", "claimed"}
             /\ click'[k].run = click[k].run /\ UNCHANGED exec
    BY <1>1, <1>2, <2>5 DEF ClickOK
  <2> QED BY <1>1, <2>1, <2>2, <2>3, <2>4, <2>5 DEF ClickMoves
<1> QED BY <1>3, <1>4

LEMMA ClaimsStep ==
    ASSUME GateTyped, ClicksOK, ClaimsOK, [GateNext]_(gateVars)
    PROVE  ClaimsOK'
<1>1. merged \subseteq merged' /\ ClaimMoves
  BY RestStep DEF GateTyped
<1>2. ASSUME NEW k \in Clicks, exec[k].run # NoOne PROVE exec'[k].run # NoOne
  <2>1. ExecMoves(k) /\ ClickOK(k)
    BY ExecStep DEF GateTyped, ClicksOK
  <2> QED BY <1>2, <2>1, GateNumbers DEF ExecMoves, ClickOK, Proposed
<1> SUFFICES ASSUME NEW c \in Changes, claimed'[c] # None
             PROVE  c \in merged' /\ claimed'[c] \in Clicks /\ exec'[claimed'[c]].run # NoOne
  BY DEF ClaimsOK, ClaimOK
<1>3. CASE claimed'[c] = claimed[c]
  BY <1>1, <1>2, <1>3 DEF ClaimsOK, ClaimOK
<1>4. ASSUME NEW k \in Clicks, click[k].pc = "launched", UNCHANGED exec, c \in Unshipped, claimed'[c] = k
      PROVE  c \in merged' /\ claimed'[c] \in Clicks /\ exec'[claimed'[c]].run # NoOne
  <2>1. exec[k].run # NoOne
    BY <1>4, GateNumbers DEF ClicksOK, ClickOK, Proposed
  <2> QED BY <1>1, <1>4, <2>1 DEF Unshipped
<1> QED BY <1>1, <1>3, <1>4 DEF ClaimMoves

-----------------------------------------------------------------------------
LEMMA GateInvInit == GateInit => GateInv
<1> SUFFICES ASSUME GateInit PROVE GateInv
  OBVIOUS
<1> USE DEF GateInit
<1>1. RunT
  BY DEF RunT, RunRec, NoRun, RunStatus
<1>2. TestT
  BY DEF TestT, TestRec, NoTest
<1>3. ProposalT
  BY DEF ProposalT, ProposalRec, NoProposal
<1>4. ReviewT
  BY DEF ReviewT, ReviewRec, NoReview
<1>5. ClickT
  BY DEF ClickT, ClickRec, NoClick
<1>6. ExecT
  BY DEF ExecT, ExecRec, NoExec
<1>7. RestT
  BY GateNumbers DEF RestT
<1>8. ClicksOK /\ ClaimsOK
  BY DEF ClicksOK, ClickOK, ExecOK, NoClick, NoExec, ClaimsOK, ClaimOK
<1> QED BY <1>1, <1>2, <1>3, <1>4, <1>5, <1>6, <1>7, <1>8 DEF GateInv, GateTyped

LEMMA GateInvStep == GateInv /\ [GateNext]_(gateVars) => GateInv'
<1> SUFFICES ASSUME GateInv, [GateNext]_(gateVars) PROVE GateInv'
  OBVIOUS
<1>1. RunT'
  BY RunStep, RunsKeep DEF GateInv, GateTyped
<1>2. TestT' /\ ProposalT' /\ ReviewT'
  BY TestStep, ProposalStep, ReviewStep DEF GateInv, GateTyped
<1>3. ClickT' /\ ExecT' /\ RestT'
  BY ClickStep, ExecStep, RestStep DEF GateInv, GateTyped
<1>4. ClicksOK' /\ ClaimsOK'
  BY ClicksStep, ClaimsStep DEF GateInv
<1> QED BY <1>1, <1>2, <1>3, <1>4 DEF GateInv, GateTyped

\* The runs, their gate tests, reviews, clicks and executors keep their types; nothing runs for a
\* deploy that nobody proposed, and a change is claimed only when merged, by a launch of a deploy.
THEOREM GateTypeCorrect == GateSpec => []GateTypeOK
<1>1. GateInv => GateTypeOK
  <2> SUFFICES ASSUME GateInv PROVE GateTypeOK
    OBVIOUS
  <2>1. /\ \A k \in Clicks : exec[k].run # NoOne => run[exec[k].run].status # None
        /\ \A c \in Changes : claimed[c] # None => c \in merged /\ exec[claimed[c]].run # NoOne
    BY DEF GateInv, ClicksOK, ExecOK, ClaimsOK, ClaimOK, Proposed
  <2>2. GateTyped
    BY DEF GateInv
  <2> QED BY <2>1, <2>2 DEF GateTypeOK, GateTyped, RunT, RunRec, RunStatus, TestT, TestRec, ProposalT, ProposalRec, ReviewT, ReviewRec,
                            ClickT, ClickRec, ExecT, ExecRec, RestT
<1> QED BY <1>1, GateInvInit, GateInvStep, PTL DEF GateSpec

\* A card that a human or a launch has decided never comes back for approval, and its recommendation
\* stands, whichever reviews, clicks, recorders and sweeps cross (completion.ts:76).
THEOREM DecidedHolds == GateSpec => DecidedStaysDecided
<1>1. GateInv /\ [GateNext]_(gateVars) =>
        [\A d \in Deploys : run[d].status \notin {None, "pending_review"} =>
             /\ run'[d].rec = run[d].rec
             /\ run'[d].status = "pending_approval" => run[d].status = "pending_approval"]_(gateVars)
  <2> SUFFICES ASSUME GateInv, [GateNext]_(gateVars), NEW d \in Deploys, run[d].status \notin {None, "pending_review"}
               PROVE  /\ run'[d].rec = run[d].rec
                      /\ run'[d].status = "pending_approval" => run[d].status = "pending_approval"
    OBVIOUS
  <2>1. RunMoves /\ RunT
    BY RunStep DEF GateInv, GateTyped
  <2>2. CASE run'[d] = run[d]
    BY <2>2
  <2>3. ASSUME NEW s \in {"pending", "running", "passed", "failed", "aborted"}, run' = [run EXCEPT ![d].status = s]
        PROVE  run'[d].rec = run[d].rec /\ run'[d].status = s
    BY <2>1, <2>3 DEF RunT, RunRec
  <2>4. \/ run'[d] = run[d]
        \/ \E s \in {"pending", "running", "passed", "failed", "aborted"} : run' = [run EXCEPT ![d].status = s]
    BY <2>1 DEF RunMoves, RunT
  <2> QED BY <2>2, <2>3, <2>4
<1> QED BY <1>1, GateInvInit, GateInvStep, PTL DEF GateSpec, DecidedStaysDecided

-----------------------------------------------------------------------------
(***************************************************************************)
(* What holds of MainWatch for any number of sweeps, phases, runs and      *)
(* commits.  GreenIsPassed needs to know what a sweep on its way to write  *)
(* green has seen: runs that have passed, which nothing changes afterwards.*)
(* NoRelaunch needs the sweeps to be one at a time: then the state that a  *)
(* sweep has read is still the saved one when it decides, and stays        *)
(* different from the head it launches until it records it.                *)
(***************************************************************************)

\* A run that has passed keeps its status, whatever step is taken.
LEMMA PassedIsFinal ==
    ASSUME Watch!TypeOK, [Watch!Next]_(Watch!vars), NEW r \in RunIds, runs[r].status = "passed"
    PROVE  runs'[r].status = "passed"
<1>1. CASE UNCHANGED runs BY <1>1
<1>2. ASSUME NEW s \in Sweeps, Watch!InsertsRun(s) PROVE runs'[r].status = "passed"
  <2>1. PICK q \in RunIds : runs[q].status = "none"
                /\ runs' = [runs EXCEPT ![q] = [status |-> "pending", for |-> sha[s], of |-> Watch!NoHead]]
    BY <1>2 DEF Watch!InsertsRun
  <2> QED BY <2>1 DEF Watch!TypeOK
<1>3. ASSUME NEW q \in RunIds, Watch!RunClones(q) PROVE runs'[r].status = "passed"
  BY <1>3 DEF Watch!RunClones, Watch!TypeOK
<1>4. ASSUME NEW q \in RunIds, Watch!RunEnds(q) PROVE runs'[r].status = "passed"
  <2>1. PICK o : runs' = [runs EXCEPT ![q].status = o] BY <1>4 DEF Watch!RunEnds
  <2> QED BY <1>4, <2>1 DEF Watch!RunEnds, Watch!TypeOK
<1>5. ASSUME NEW q \in RunIds, Watch!RunReaped(q) PROVE runs'[r].status = "passed"
  BY <1>5 DEF Watch!RunReaped, Watch!TypeOK
<1> QED
  BY <1>1, <1>2, <1>3, <1>4, <1>5
  DEF Watch!Next, Watch!vars, Watch!SweepAllRepos, Watch!ReadsHead, Watch!GetState, Watch!Decides,
      Watch!ListTestPhases, Watch!LaunchResolved,
      Watch!Records, Watch!SweepThrows, Watch!MainMoves, Watch!Restart

\* Every step keeps the types.
LEMMA WatchTypeHolds == Watch!TypeOK /\ [Watch!Next]_(Watch!vars) => Watch!TypeOK'
<1> SUFFICES ASSUME Watch!TypeOK, [Watch!Next]_(Watch!vars) PROVE Watch!TypeOK'
  OBVIOUS
<1> USE DEF Watch!TypeOK, Watch!Moves, Watch!Heads, Watch!NoHead
<1>1. ASSUME NEW s \in Sweeps, Watch!SweepAllRepos(s) PROVE Watch!TypeOK'
  BY <1>1 DEF Watch!SweepAllRepos
<1>2. ASSUME NEW s \in Sweeps, Watch!ReadsHead(s) PROVE Watch!TypeOK'
  BY <1>2 DEF Watch!ReadsHead
<1>3. ASSUME NEW s \in Sweeps, Watch!GetState(s) PROVE Watch!TypeOK'
  BY <1>3 DEF Watch!GetState
<1>4. ASSUME NEW s \in Sweeps, Watch!Decides(s) PROVE Watch!TypeOK'
  <2>1. \E p \in {"list", "green", "red", "idle"} : pc' = [pc EXCEPT ![s] = p]
    BY <1>4 DEF Watch!Decides
  <2> QED BY <1>4, <2>1 DEF Watch!Decides
<1>5. ASSUME NEW s \in Sweeps, Watch!ListTestPhases(s) PROVE Watch!TypeOK'
  BY <1>5 DEF Watch!ListTestPhases
<1>6. ASSUME NEW s \in Sweeps, Watch!InsertsRun(s) PROVE Watch!TypeOK'
  <2>1. PICK q \in RunIds :
          /\ runs' = [runs EXCEPT ![q] = [status |-> "pending", for |-> sha[s], of |-> Watch!NoHead]]
          /\ fresh' = [fresh EXCEPT ![s] = q]
    BY <1>6 DEF Watch!InsertsRun
  <2>2. [status |-> "pending", for |-> sha[s], of |-> Watch!NoHead] \in Watch!Runs BY DEF Watch!Runs
  <2>3. PICK p \in todo[s] : todo' = [todo EXCEPT ![s] = @ \ {p}] BY <1>6 DEF Watch!InsertsRun
  <2> QED BY <1>6, <2>1, <2>2, <2>3 DEF Watch!InsertsRun
<1>7. ASSUME NEW s \in Sweeps, Watch!LaunchResolved(s) PROVE Watch!TypeOK'
  BY <1>7 DEF Watch!LaunchResolved
<1>8. ASSUME NEW s \in Sweeps, Watch!Records(s) PROVE Watch!TypeOK'
  <2>1. watch' \in Watch!States
    <3>1. CASE pc[s] = "record" BY <1>8, <3>1 DEF Watch!Records, Watch!States
    <3>2. CASE pc[s] = "no-tests" BY <1>8, <3>2 DEF Watch!Records, Watch!States
    <3>3. CASE pc[s] \in {"green", "red"} BY <1>8, <3>3 DEF Watch!Records, Watch!States
    <3> QED BY <1>8, <3>1, <3>2, <3>3 DEF Watch!Records
  <2> QED BY <1>8, <2>1 DEF Watch!Records
<1>9. ASSUME NEW s \in Sweeps, Watch!SweepThrows(s) PROVE Watch!TypeOK'
  BY <1>9 DEF Watch!SweepThrows
<1>10. ASSUME NEW r \in RunIds, Watch!RunClones(r) \/ Watch!RunEnds(r)
      \/ Watch!RunReaped(r) PROVE Watch!TypeOK'
  <2>1. \E x \in Watch!Runs : runs' = [runs EXCEPT ![r] = x]
    <3>1. CASE Watch!RunClones(r) BY <3>1 DEF Watch!RunClones, Watch!Runs
    <3>2. CASE Watch!RunEnds(r)
      <4>1. PICK o \in {"passed", "failed", "error"} : runs' = [runs EXCEPT ![r].status = o]
        BY <3>2 DEF Watch!RunEnds
      <4> DEFINE x == [runs[r] EXCEPT !.status = o]
      <4>2. x \in Watch!Runs
        <5>1. runs[r] \in Watch!Runs /\ o \in Watch!Finished BY <4>1 DEF Watch!Finished
        <5> QED BY <5>1 DEF Watch!Runs
      <4>3. runs' = [runs EXCEPT ![r] = x] BY <4>1
      <4> QED BY <4>2, <4>3
    <3>3. CASE Watch!RunReaped(r) BY <3>3 DEF Watch!RunReaped, Watch!Runs, Watch!Finished
    <3> QED BY <1>10, <3>1, <3>2, <3>3
  <2>2. UNCHANGED <<head, watch, pc, sha, seen, todo, ids, fresh>>
    BY <1>10 DEF Watch!RunClones, Watch!RunEnds, Watch!RunReaped
  <2> QED BY <2>1, <2>2
<1>11. CASE Watch!MainMoves BY <1>11 DEF Watch!MainMoves
<1>12. CASE Watch!Restart BY <1>12 DEF Watch!Restart
<1>13. CASE UNCHANGED Watch!vars BY <1>13 DEF Watch!vars
<1> QED
  BY <1>1, <1>2, <1>3, <1>4, <1>5, <1>6, <1>7, <1>8, <1>9, <1>10, <1>11, <1>12, <1>13 DEF Watch!Next

\* A sweep is on its way to write green only if it was before, or has just judged the runs.
LEMMA TurnsGreen ==
    ASSUME Watch!TypeOK, [Watch!Next]_(Watch!vars), NEW s \in Sweeps, pc'[s] = "green"
    PROVE  (pc[s] = "green" /\ seen'[s] = seen[s]) \/ Watch!Decides(s)
<1> USE DEF Watch!TypeOK, Watch!Moves
<1>1. ASSUME NEW t \in Sweeps, Watch!SweepAllRepos(t) \/ Watch!ReadsHead(t)
      \/ Watch!LaunchResolved(t) \/ Watch!InsertsRun(t)
      PROVE  pc[s] = "green" /\ seen'[s] = seen[s]
  <2>1. \E p : p # "green" /\ pc' = [pc EXCEPT ![t] = p]
    BY <1>1 DEF Watch!SweepAllRepos, Watch!ReadsHead, Watch!LaunchResolved, Watch!InsertsRun
  <2>2. seen' = seen BY <1>1 DEF Watch!SweepAllRepos, Watch!ReadsHead, Watch!LaunchResolved,
                        Watch!InsertsRun
  <2> QED BY <2>1, <2>2
<1>2. ASSUME NEW t \in Sweeps, Watch!GetState(t) PROVE pc[s] = "green" /\ seen'[s] = seen[s]
  BY <1>2 DEF Watch!GetState
<1>3. ASSUME NEW t \in Sweeps, Watch!Decides(t), t # s PROVE pc[s] = "green" /\ seen'[s] = seen[s]
  <2>1. \E p : pc' = [pc EXCEPT ![t] = p] BY <1>3 DEF Watch!Decides
  <2> QED BY <2>1, <1>3 DEF Watch!Decides
<1>4. ASSUME NEW t \in Sweeps, Watch!ListTestPhases(t) \/ Watch!Records(t) \/ Watch!SweepThrows(t)
      PROVE  pc[s] = "green" /\ seen'[s] = seen[s]
  <2>1. \E p : p # "green" /\ pc' = [pc EXCEPT ![t] = p]
    BY <1>4 DEF Watch!ListTestPhases, Watch!Records, Watch!SweepThrows
  <2>2. seen' = seen BY <1>4 DEF Watch!ListTestPhases, Watch!Records, Watch!SweepThrows
  <2> QED BY <2>1, <2>2
<1>5. ASSUME NEW r \in RunIds, Watch!RunClones(r) \/ Watch!RunEnds(r) \/ Watch!RunReaped(r)
      PROVE  pc[s] = "green" /\ seen'[s] = seen[s]
  BY <1>5 DEF Watch!RunClones, Watch!RunEnds, Watch!RunReaped
<1>6. CASE Watch!MainMoves BY <1>6 DEF Watch!MainMoves
<1>7. CASE Watch!Restart BY <1>7 DEF Watch!Restart
<1>8. CASE UNCHANGED Watch!vars BY <1>8 DEF Watch!vars
<1> QED BY <1>1, <1>2, <1>3, <1>4, <1>5, <1>6, <1>7, <1>8 DEF Watch!Next

\* Who writes green has seen it, and what it has seen does not change.
LEMMA JudgedHolds == Watch!GInv /\ [Watch!Next]_(Watch!vars) => Watch!GInv'
<1> SUFFICES ASSUME Watch!GInv, [Watch!Next]_(Watch!vars) PROVE Watch!GInv'
  OBVIOUS
<1>1. Watch!TypeOK' BY WatchTypeHolds DEF Watch!GInv
<1>2. \A r \in RunIds : runs[r].status = "passed" => runs'[r].status = "passed"
  BY PassedIsFinal DEF Watch!GInv
<1>3. ASSUME NEW s \in Sweeps, pc'[s] = "green", NEW r \in seen'[s].runIds
      PROVE  runs'[r].status = "passed"
  <2>1. r \in RunIds BY <1>1, <1>3 DEF Watch!TypeOK, Watch!States
  <2>2. CASE pc[s] = "green" /\ seen'[s] = seen[s]
    BY <1>2, <1>3, <2>1, <2>2 DEF Watch!GInv, Watch!Judged
  <2>3. CASE Watch!Decides(s)
    <3>1. seen'[s] = seen[s] /\ seen[s].status = "testing" /\ UNCHANGED runs
          /\ \A q \in seen[s].runIds : runs[q].status = "passed"
      BY <1>3, <2>3 DEF Watch!Decides, Watch!Moves, Watch!NextWatchAction, Watch!GInv, Watch!TypeOK
    <3> QED BY <1>3, <3>1
  <2> QED BY <1>3, <2>2, <2>3, TurnsGreen DEF Watch!GInv
<1>4. Watch!GreenIsPassed'
  <2>1. CASE UNCHANGED watch
    BY <2>1, <1>2 DEF Watch!GInv, Watch!GreenIsPassed, Watch!TypeOK, Watch!States
  <2>2. ASSUME NEW s \in Sweeps, Watch!Records(s), watch'.status = "green"
        PROVE  \A r \in watch'.runIds : runs'[r].status = "passed"
    <3>1. pc[s] = "green" /\ watch'.runIds = seen[s].runIds /\ UNCHANGED runs
      BY <2>2 DEF Watch!Records
    <3> QED BY <3>1 DEF Watch!GInv, Watch!Judged
  <2> QED
    BY <2>1, <2>2 DEF Watch!GreenIsPassed, Watch!Next, Watch!vars, Watch!SweepAllRepos,
       Watch!ReadsHead, Watch!GetState,
       Watch!Decides, Watch!ListTestPhases, Watch!InsertsRun, Watch!LaunchResolved,
             Watch!SweepThrows, Watch!RunClones, Watch!RunEnds,
       Watch!RunReaped, Watch!MainMoves, Watch!Restart
<1> QED BY <1>1, <1>3, <1>4 DEF Watch!GInv, Watch!Judged

\* A main shown green had all of its runs pass, however the sweeps interleave.
THEOREM GreenWasPassed == Watch!Spec => []Watch!GreenIsPassed
<1>1. Watch!Init => Watch!GInv
  BY DEF Watch!Init, Watch!GInv, Watch!TypeOK, Watch!Judged, Watch!GreenIsPassed, Watch!NoState,
     Watch!States, Watch!Heads, Watch!NoHead, Watch!Runs
<1>2. Watch!GInv => Watch!GreenIsPassed BY DEF Watch!GInv
<1> QED BY <1>1, <1>2, JudgedHolds, PTL DEF Watch!Spec

\* A sweep alone decides on the state that is still saved when it does.
LEMMA AloneHolds ==
    ASSUME Overlap = FALSE, Watch!NInv, [Watch!Next]_(Watch!vars)
    PROVE  Watch!NInv'
<1>1. Watch!TypeOK' BY WatchTypeHolds DEF Watch!NInv
<1> USE DEF Watch!NInv, Watch!TypeOK, Watch!Alone, Watch!NoRelaunch, Watch!Moves
<1>2. ASSUME NEW s \in Sweeps, Watch!SweepAllRepos(s) PROVE Watch!NInv'
  BY <1>1, <1>2 DEF Watch!SweepAllRepos
<1>3. ASSUME NEW s \in Sweeps, Watch!ReadsHead(s) PROVE Watch!NInv'
  BY <1>1, <1>3 DEF Watch!ReadsHead
<1>4. ASSUME NEW s \in Sweeps, Watch!GetState(s) PROVE Watch!NInv'
  BY <1>1, <1>4 DEF Watch!GetState
<1>5. ASSUME NEW s \in Sweeps, Watch!Decides(s) PROVE Watch!NInv'
  <2>1. /\ \E p \in {"list", "green", "red", "idle"} : pc' = [pc EXCEPT ![s] = p]
        /\ pc'[s] = "list" => watch.sha # sha[s]
    BY <1>5 DEF Watch!Decides, Watch!NextWatchAction
  <2> QED BY <1>1, <1>5, <2>1 DEF Watch!Decides
<1>6. ASSUME NEW s \in Sweeps, Watch!ListTestPhases(s) PROVE Watch!NInv'
  BY <1>1, <1>6 DEF Watch!ListTestPhases
<1>7. ASSUME NEW s \in Sweeps, Watch!InsertsRun(s) PROVE Watch!NInv'
  BY <1>1, <1>7 DEF Watch!InsertsRun
<1>8. ASSUME NEW s \in Sweeps, Watch!LaunchResolved(s) PROVE Watch!NInv'
  BY <1>1, <1>8 DEF Watch!LaunchResolved
<1>9. ASSUME NEW s \in Sweeps, Watch!Records(s) PROVE Watch!NInv'
  BY <1>1, <1>9 DEF Watch!Records
<1>10. ASSUME NEW s \in Sweeps, Watch!SweepThrows(s) PROVE Watch!NInv'
  BY <1>1, <1>10 DEF Watch!SweepThrows
<1>11. ASSUME NEW r \in RunIds, Watch!RunClones(r) \/ Watch!RunEnds(r)
      \/ Watch!RunReaped(r) PROVE Watch!NInv'
  <2>1. UNCHANGED <<head, watch, pc, sha, seen, todo, ids, fresh>>
    BY <1>11 DEF Watch!RunClones, Watch!RunEnds, Watch!RunReaped
  <2> QED BY <1>1, <2>1
<1>12. CASE Watch!MainMoves BY <1>1, <1>12 DEF Watch!MainMoves
<1>13. CASE Watch!Restart BY <1>1, <1>13 DEF Watch!Restart
<1>14. CASE UNCHANGED Watch!vars BY <1>1, <1>14 DEF Watch!vars
<1> QED
  BY <1>2, <1>3, <1>4, <1>5, <1>6, <1>7, <1>8, <1>9, <1>10, <1>11, <1>12, <1>13,
     <1>14 DEF Watch!Next

\* With sweeps that end before the next begins, a head whose launch is recorded is never
\* launched again, wherever a restart or an error fell.
THEOREM RecordedIsNotRelaunched ==
    ASSUME Overlap = FALSE
    PROVE  Watch!Spec => []Watch!NoRelaunch
<1>1. Watch!Init => Watch!NInv
  BY DEF Watch!Init, Watch!NInv, Watch!TypeOK, Watch!Alone, Watch!NoRelaunch, Watch!NoState,
     Watch!States, Watch!Heads, Watch!NoHead, Watch!Runs
<1>2. Watch!NInv /\ [Watch!Next]_(Watch!vars) => Watch!NInv' BY AloneHolds
<1>3. Watch!NInv => Watch!NoRelaunch BY DEF Watch!NInv
<1> QED BY <1>1, <1>2, <1>3, PTL DEF Watch!Spec

-----------------------------------------------------------------------------
(* NightlySchedule.  What was launched is no later than what is recorded; a *)
(* sweep about to launch has recorded a time far enough from every earlier  *)
(* run.                                                                     *)

\* The restarts and the calls of one sweep at a time keep the invariant.
LEMMA NightStepHolds ==
    ASSUME Gap \in Nat, Overlap = FALSE, Nightly!IInv, [Nightly!Next]_(Nightly!vars)
    PROVE  Nightly!IInv'
<1> USE DEF Nightly!IInv
<1>1. ASSUME NEW s \in Sweeps, Nightly!SweepSchedules(s) PROVE Nightly!IInv'
  BY <1>1 DEF Nightly!SweepSchedules, Nightly!Moves, Nightly!TypeOK, Nightly!Alone, Nightly!Ahead,
     Nightly!NightlySpaced, Nightly!Clear
<1>2. ASSUME NEW s \in Sweeps, Nightly!Skips(s) \/ Nightly!RecordFails(s)
      \/ Nightly!LaunchFails(s) PROVE Nightly!IInv'
  BY <1>2 DEF Nightly!Skips, Nightly!RecordFails, Nightly!LaunchFails, Nightly!Moves,
     Nightly!TypeOK, Nightly!Alone, Nightly!Ahead, Nightly!NightlySpaced, Nightly!Clear
<1>3. ASSUME NEW s \in Sweeps, Nightly!ReadsSetting(s) PROVE Nightly!IInv'
  <2>1. Nightly!IsNightlyDue(lastRunAt, at[s]) =>
           \A i \in 1..Len(launched) : at[s] - launched[i] >= Gap
    BY <1>3 DEF Nightly!IsNightlyDue, Nightly!Ahead, Nightly!TypeOK, Nightly!Never
  <2> QED
    BY <1>3, <2>1 DEF Nightly!ReadsSetting, Nightly!Moves, Nightly!TypeOK, Nightly!Alone,
       Nightly!Ahead, Nightly!NightlySpaced, Nightly!Clear
<1>4. ASSUME NEW s \in Sweeps, Nightly!Records(s) PROVE Nightly!IInv'
  <2>1. \A i \in 1..Len(launched) : at[s] - launched[i] >= Gap /\ launched[i] \in Nat
    BY <1>4 DEF Nightly!Records, Nightly!Moves, Nightly!Clear, Nightly!TypeOK
  <2>2. Nightly!Ahead' BY <1>4, <2>1 DEF Nightly!Records, Nightly!Moves, Nightly!TypeOK,
                          Nightly!Ahead
  <2> QED
    BY <1>4, <2>1, <2>2 DEF Nightly!Records, Nightly!Moves, Nightly!TypeOK, Nightly!Alone,
       Nightly!NightlySpaced, Nightly!Clear
<1>5. ASSUME NEW s \in Sweeps, Nightly!Launches(s) PROVE Nightly!IInv'
  <2>1. /\ \A i \in 1..Len(launched) : at[s] - launched[i] >= Gap /\ launched[i] \in Nat
        /\ lastRunAt = at[s] /\ at[s] \in Nat
    BY <1>5 DEF Nightly!Launches, Nightly!Moves, Nightly!Clear, Nightly!TypeOK
  <2>2. /\ launched' \in Seq(Nat) /\ Len(launched') = Len(launched) + 1
        /\ \A i \in 1..Len(launched) : launched'[i] = launched[i]
        /\ launched'[Len(launched) + 1] = at[s]
    BY <1>5, <2>1 DEF Nightly!Launches, Nightly!TypeOK
  <2>3. Nightly!TypeOK' /\ Nightly!Alone' /\ \A r \in Sweeps : Nightly!Clear(r)'
    BY <1>5, <2>2 DEF Nightly!Launches, Nightly!Moves, Nightly!TypeOK, Nightly!Alone, Nightly!Clear
  <2>4. Nightly!Ahead' BY <1>5, <2>1, <2>2 DEF Nightly!Launches, Nightly!Ahead, Nightly!TypeOK
  <2>5. Nightly!NightlySpaced'
    <3>1. SUFFICES ASSUME NEW i \in 1..Len(launched'), NEW j \in 1..Len(launched'), i < j
                   PROVE  launched'[j] - launched'[i] >= Gap
      BY DEF Nightly!NightlySpaced
    <3>2. Len(launched) \in Nat BY DEF Nightly!TypeOK
    <3>3. CASE j = Len(launched) + 1
      <4>1. i \in 1..Len(launched)
        <5>1. i \in 1..(Len(launched) + 1) BY <3>1, <2>2
        <5> QED BY <5>1, <3>1, <3>2, <3>3
      <4> QED BY <2>1, <2>2, <3>2, <3>3, <4>1
    <3>4. CASE j \in 1..Len(launched)
      <4>1. i \in 1..Len(launched) BY <3>2, <3>4, <3>1
      <4>2. launched[j] - launched[i] >= Gap BY <3>1, <3>4, <4>1 DEF Nightly!NightlySpaced
      <4> QED BY <2>2, <3>4, <4>1, <4>2
    <3> QED BY <2>2, <3>2, <3>3, <3>4
  <2> QED BY <2>3, <2>4, <2>5
<1>6. CASE Nightly!Restart
  BY <1>6 DEF Nightly!Restart, Nightly!TypeOK, Nightly!Alone, Nightly!Ahead,
     Nightly!NightlySpaced, Nightly!Clear
<1>7. CASE Nightly!Tick
  BY <1>7 DEF Nightly!Tick, Nightly!TypeOK, Nightly!Alone, Nightly!Ahead, Nightly!NightlySpaced,
     Nightly!Clear
<1>8. CASE UNCHANGED Nightly!vars
  BY <1>8 DEF Nightly!vars, Nightly!TypeOK, Nightly!Alone, Nightly!Ahead, Nightly!NightlySpaced,
     Nightly!Clear
<1> QED BY <1>1, <1>2, <1>3, <1>4, <1>5, <1>6, <1>7, <1>8 DEF Nightly!Next

\* With sweeps that end before the next begins, however many restarts and failed calls, the
\* runs of a nightly phase are at least 22 hours apart, for any gap.
THEOREM NeverTwiceANight ==
    ASSUME Gap \in Nat, Overlap = FALSE, MaxNow \in Nat
    PROVE  Nightly!Spec => []Nightly!NightlySpaced
<1>1. Nightly!Init => Nightly!IInv
  BY DEF Nightly!Init, Nightly!IInv, Nightly!TypeOK, Nightly!Alone, Nightly!Ahead,
     Nightly!NightlySpaced, Nightly!Clear, Nightly!Never
<1>2. Nightly!IInv /\ [Nightly!Next]_(Nightly!vars) => Nightly!IInv' BY NightStepHolds
<1>3. Nightly!IInv => Nightly!NightlySpaced BY DEF Nightly!IInv
<1> QED BY <1>1, <1>2, <1>3, PTL DEF Nightly!Spec

-----------------------------------------------------------------------------
(***************************************************************************)
(* What holds of ImageBuilds for every set of callers and images.          *)
(*                                                                         *)
(* SingleFlight is not inductive by itself: it speaks of the callers, and  *)
(* what keeps them apart is the map.  Flight relates the two: an image is  *)
(* in the map exactly while one caller builds it, and who joined is waiting*)
(* for an image of the map.  ReadyIsPushed needs Pushed: every state on the*)
(* way from a pod that succeeded to a caller that is told so has the image *)
(* in the registry, and the registry only grows.                           *)
(***************************************************************************)

\* The invariant is strong enough.
LEMMA FlightIsSingle == Img!IInv => Img!SingleFlight /\ Img!ReadyIsPushed
BY DEF Img!IInv, Img!Flight, Img!Pushed, Img!SingleFlight, Img!ReadyIsPushed, Img!TypeOK

\* At the start nobody asks for anything.
LEMMA BuildInitHolds == Img!Init => Img!IInv
BY DEF Img!Init, Img!IInv, Img!TypeOK, Img!Flight, Img!Pushed, Img!Images, Img!AgentImageRef,
   Img!Callers, Img!Building, Img!Busy

-----------------------------------------------------------------------------
(* The steps that move only one caller, or none.                           *)

\* A caller that asks was not at work and is not yet.
LEMMA AskHolds ==
    ASSUME Img!IInv, NEW c \in Img!Callers,
           Img!RunsInBase(c) \/ Img!ResolveAgentImage(c) \/ Img!EnsurePipelineImages(c)
    PROVE  Img!IInv'
<1>1. pc[c] \in {"idle", "ready", "fallback", "failed"} /\ pc' = [pc EXCEPT ![c] = pc'[c]]
      /\ pc'[c] \in {"fallback", "check"}
  BY DEF Img!RunsInBase, Img!ResolveAgentImage, Img!EnsurePipelineImages, Img!IInv, Img!TypeOK
<1>2. /\ cur' \in [Img!Callers -> Img!Images] /\ todo' \in [Img!Callers -> SUBSET Img!Images]
      /\ \A d \in Img!Callers : d # c => cur'[d] = cur[d]
      /\ UNCHANGED <<base, decl, registry, baked, pod, inflight>>
  <2>1. CASE Img!RunsInBase(c) BY <2>1 DEF Img!RunsInBase, Img!IInv, Img!TypeOK
  <2>2. CASE Img!ResolveAgentImage(c)
    BY <2>2 DEF Img!ResolveAgentImage, Img!AgentImageRef, Img!Images, Img!IInv, Img!TypeOK
  <2>3. CASE Img!EnsurePipelineImages(c)
    <3>1. PICK wanted \in SUBSET Img!Images : \E first \in wanted :
             /\ cur' = [cur EXCEPT ![c] = first]
             /\ todo' = [todo EXCEPT ![c] = wanted \ {first}]
      BY <2>3 DEF Img!EnsurePipelineImages
    <3> QED BY <2>3, <3>1 DEF Img!EnsurePipelineImages, Img!IInv, Img!TypeOK
  <2> QED BY <2>1, <2>2, <2>3
<1>3. Img!TypeOK' BY <1>1, <1>2 DEF Img!IInv, Img!TypeOK, Img!Busy
<1>4. Img!Flight' BY <1>1, <1>2 DEF Img!IInv, Img!TypeOK, Img!Flight, Img!Building
<1>5. Img!Pushed' BY <1>1, <1>2 DEF Img!IInv, Img!TypeOK, Img!Pushed
<1> QED BY <1>3, <1>4, <1>5 DEF Img!IInv

\* The only step that adds to the map is taken for an image that nobody builds.
LEMMA StartHolds ==
    ASSUME Img!IInv, NEW c \in Img!Callers, Img!StartsBuild(c)
    PROVE  Img!IInv'
<1>1. Img!TypeOK' BY DEF Img!StartsBuild, Img!IInv, Img!TypeOK, Img!Busy, Img!Building
<1>2. Img!Flight' BY DEF Img!StartsBuild, Img!IInv, Img!TypeOK, Img!Flight, Img!Building
<1>3. Img!Pushed' BY DEF Img!StartsBuild, Img!IInv, Img!TypeOK, Img!Pushed
<1> QED BY <1>1, <1>2, <1>3 DEF Img!IInv

\* A caller joins only what is in the map.
LEMMA JoinHolds ==
    ASSUME Img!IInv, NEW c \in Img!Callers, Img!Joins(c)
    PROVE  Img!IInv'
<1>1. Img!TypeOK' BY DEF Img!Joins, Img!IInv, Img!TypeOK, Img!Busy
<1>2. Img!Flight' BY DEF Img!Joins, Img!IInv, Img!TypeOK, Img!Flight, Img!Building
<1>3. Img!Pushed' BY DEF Img!Joins, Img!IInv, Img!TypeOK, Img!Pushed
<1> QED BY <1>1, <1>2, <1>3 DEF Img!IInv

\* A builder's call to the cluster leaves it the builder.
LEMMA CallHolds ==
    ASSUME Img!IInv, NEW c \in Img!Callers,
           Img!CreatesPod(c) \/ Img!CreateConflicts(c) \/ Img!Adopts(c) \/ Img!Replaces(c) \/ Img!Recreates(c)
              \/ Img!PollSucceeds(c) \/ Img!PollFails(c)
    PROVE  Img!IInv'
<1>1. /\ pc[c] \in Img!Building
      /\ \E p \in Img!Building : pc' = [pc EXCEPT ![c] = p]
                             /\ (p = "clean-ok" => pod[cur[c]] = "Succeeded")
      /\ UNCHANGED <<base, decl, registry, baked, inflight, cur, todo>>
  BY DEF Img!CreatesPod, Img!CreateConflicts, Img!Adopts, Img!Replaces, Img!Recreates,
     Img!PollSucceeds, Img!PollFails, Img!Building
<1>2. cur[c] \in Img!Images /\ \E ph \in {"none", "Pending", pod[cur[c]]} :
          pod' = [pod EXCEPT ![cur[c]] = ph]
  <2>1. cur[c] \in Img!Images /\ pod = [pod EXCEPT ![cur[c]] = pod[cur[c]]]
    BY DEF Img!IInv, Img!TypeOK
  <2> QED BY <2>1 DEF Img!CreatesPod, Img!CreateConflicts, Img!Adopts, Img!Replaces,
             Img!Recreates, Img!PollSucceeds, Img!PollFails
<1>3. Img!TypeOK' BY <1>1, <1>2 DEF Img!IInv, Img!TypeOK, Img!Busy
<1>4. Img!Flight' BY <1>1 DEF Img!IInv, Img!TypeOK, Img!Flight, Img!Building
<1>5. Img!Pushed' BY <1>1, <1>2 DEF Img!IInv, Img!TypeOK, Img!Pushed, Img!Building
<1> QED BY <1>3, <1>4, <1>5 DEF Img!IInv

-----------------------------------------------------------------------------
(* The steps that settle a promise.                                        *)

\* A settled promise leaves no caller waiting on it, and no other caller without its own.
LEMMA SettleHolds ==
    ASSUME Img!IInv, NEW c \in Img!Callers, pc[c] \in Img!Building, Img!LeavesFlight(c),
           Img!TypeOK',
           \A d \in Img!Callers \ Img!Settles(c) : pc'[d] = pc[d] /\ cur'[d] = cur[d],
           \A d \in Img!Settles(c) : pc'[d] \in {"ready", "check", "fallback", "failed"}
    PROVE  Img!Flight'
<1>1. \A d \in Img!Callers : pc'[d] \in Img!Building \cup {"joined"} =>
         d \notin Img!Settles(c) /\ pc[d] = pc'[d] /\ cur[d] = cur'[d]
  BY DEF Img!Building, Img!Settles
<1>2. \A d \in Img!Callers : d \notin Img!Settles(c) /\ pc[d] \in Img!Building \cup {"joined"} => cur[d] # cur[c]
  BY DEF Img!Settles, Img!IInv, Img!Flight, Img!Building
<1>3. \A d \in Img!Callers : pc'[d] \in Img!Building \cup {"joined"} => cur'[d] \in inflight'
  BY <1>1, <1>2 DEF Img!LeavesFlight, Img!IInv, Img!Flight
<1>4. ASSUME NEW i \in inflight'
      PROVE  \E d \in Img!Callers : pc'[d] \in Img!Building /\ cur'[d] = i
  <2>1. i \in inflight /\ i # cur[c]
    BY <1>4 DEF Img!LeavesFlight
  <2>2. PICK d \in Img!Callers : pc[d] \in Img!Building /\ cur[d] = i
    BY <2>1 DEF Img!IInv, Img!Flight
  <2>3. d \notin Img!Settles(c)
    BY <2>1, <2>2 DEF Img!Settles, Img!Building
  <2> QED BY <2>2, <2>3
<1>5. \A d,
      e \in Img!Callers : pc'[d] \in Img!Building /\ pc'[e] \in Img!Building /\ cur'[d] = cur'[e] => d = e
  BY <1>1 DEF Img!IInv, Img!Flight
<1> QED BY <1>3, <1>4, <1>5 DEF Img!Flight

\* What Ensured does to the variables it sets.
LEMMA EnsuredSteps ==
    ASSUME Img!IInv, NEW S \in SUBSET Img!Callers, Img!Ensured(S)
    PROVE  /\ cur' \in [Img!Callers -> Img!Images] /\ todo' \in [Img!Callers -> SUBSET Img!Images]
           /\ pc' \in [Img!Callers -> Img!Busy \cup {"idle", "ready", "fallback", "failed"}]
           /\ \A d \in Img!Callers \ S : pc'[d] = pc[d] /\ cur'[d] = cur[d]
           /\ \A d \in S : /\ pc'[d] \in {"ready", "check"}
                           /\ pc'[d] = "ready" => cur'[d] = cur[d]
<1>1. PICK next \in [S -> Img!Images] :
         /\ \A c \in S : next[c] \in IF todo[c] = {} THEN {cur[c]} ELSE todo[c]
         /\ cur' = [c \in Img!Callers |-> IF c \in S THEN next[c] ELSE cur[c]]
         /\ todo' = [c \in Img!Callers |-> IF c \in S THEN todo[c] \ {next[c]} ELSE todo[c]]
  BY DEF Img!Ensured
<1>2. pc' = [c \in Img!Callers |-> IF c \notin S THEN pc[c]
                               ELSE IF todo[c] = {} THEN "ready" ELSE "check"]
  BY DEF Img!Ensured
<1>3. cur' \in [Img!Callers -> Img!Images] /\ todo' \in [Img!Callers -> SUBSET Img!Images]
  BY <1>1 DEF Img!IInv, Img!TypeOK
<1>4. pc' \in [Img!Callers -> Img!Busy \cup {"idle", "ready", "fallback", "failed"}]
  BY <1>2 DEF Img!IInv, Img!TypeOK, Img!Busy
<1> QED BY <1>1, <1>2, <1>3, <1>4

\* What Refused does to the variables it sets.
LEMMA RefusedSteps ==
    ASSUME Img!IInv, NEW S \in SUBSET Img!Callers, Img!Refused(S)
    PROVE  /\ UNCHANGED <<cur, todo>>
           /\ pc' \in [Img!Callers -> Img!Busy \cup {"idle", "ready", "fallback", "failed"}]
           /\ \A d \in Img!Callers \ S : pc'[d] = pc[d]
           /\ \A d \in S : pc'[d] \in {"fallback", "failed"}
BY DEF Img!Refused, Img!IInv, Img!TypeOK

\* A caller that finds its image in the registry goes on.
LEMMA ReuseHolds ==
    ASSUME Img!IInv, NEW c \in Img!Callers, Img!Reuses(c)
    PROVE  Img!IInv'
<1>1. Img!Ensured({c}) /\ {c} \in SUBSET Img!Callers BY DEF Img!Reuses
<1>2. Img!TypeOK' BY <1>1, EnsuredSteps DEF Img!Reuses, Img!IInv, Img!TypeOK
<1>3. Img!Flight'
  BY <1>1, EnsuredSteps DEF Img!Reuses, Img!IInv, Img!Flight, Img!Building
<1>4. Img!Pushed'
  BY <1>1, EnsuredSteps DEF Img!Reuses, Img!IInv, Img!Pushed
<1> QED BY <1>2, <1>3, <1>4 DEF Img!IInv

\* A build that ends takes its flight and everyone who joined it along, pushed or refused.
LEMMA EndHolds ==
    ASSUME Img!IInv, NEW c \in Img!Callers, Img!Finishes(c) \/ Img!RecreateFails(c)
    PROVE  Img!IInv'
<1>1. Img!Settles(c) \in SUBSET Img!Callers /\ pc[c] \in Img!Building
  BY DEF Img!Settles, Img!Finishes, Img!RecreateFails, Img!Building
<1>2. /\ Img!LeavesFlight(c) /\ UNCHANGED <<base, decl, registry, baked>>
      /\ pod' \in [Img!Images -> {"none", "Pending", "Running", "Succeeded", "Failed"}]
      /\ \A i \in Img!Images : pod'[i] = "Succeeded" => pod[i] = "Succeeded"
  BY DEF Img!Finishes, Img!RecreateFails, Img!IInv, Img!TypeOK
<1>3. inflight' \in SUBSET Img!Images
  BY <1>2 DEF Img!LeavesFlight, Img!IInv, Img!TypeOK
<1>4. CASE pc[c] = "clean-ok"
  <2>1. Img!Ensured(Img!Settles(c)) BY <1>4 DEF Img!Finishes, Img!RecreateFails
  <2>2. Img!TypeOK' BY <1>1, <1>2, <1>3, <2>1, EnsuredSteps DEF Img!IInv, Img!TypeOK
  <2>3. Img!Flight' BY <1>1, <1>2, <2>1, <2>2, EnsuredSteps, SettleHolds
  <2>4. \A d \in Img!Settles(c) : cur[d] \in registry
    BY <1>4 DEF Img!Settles, Img!IInv, Img!Pushed
  <2>5. Img!Pushed'
    BY <1>1, <1>2, <2>1, <2>4, EnsuredSteps DEF Img!IInv, Img!Pushed
  <2> QED BY <2>2, <2>3, <2>5 DEF Img!IInv
<1>5. CASE pc[c] # "clean-ok"
  <2>1. Img!Refused(Img!Settles(c)) BY <1>5 DEF Img!Finishes, Img!RecreateFails
  <2>2. Img!TypeOK' BY <1>1, <1>2, <1>3, <2>1, RefusedSteps DEF Img!IInv, Img!TypeOK
  <2>3. Img!Flight' BY <1>1, <1>2, <2>1, <2>2, RefusedSteps, SettleHolds
  <2>4. Img!Pushed'
    BY <1>1, <1>2, <2>1, RefusedSteps DEF Img!IInv, Img!Pushed
  <2> QED BY <2>2, <2>3, <2>4 DEF Img!IInv
<1> QED BY <1>4, <1>5

-----------------------------------------------------------------------------
(* Everything else, and the theorem.                                       *)

\* The pods, the repository and a restart.
LEMMA WorldHolds ==
    ASSUME Img!IInv, (\E i \in Img!Images : Img!PodStarts(i) \/ Img!PodPushes(i) \/ Img!PodEnds(i)) \/ Img!RepoMoves \/ Img!Restart
    PROVE  Img!IInv'
<1>1. CASE \E i \in Img!Images : Img!PodStarts(i) \/ Img!PodPushes(i) \/ Img!PodEnds(i)
  <2>1. PICK i \in Img!Images : Img!PodStarts(i) \/ Img!PodPushes(i) \/ Img!PodEnds(i) BY <1>1
  <2>2. UNCHANGED <<base, decl, inflight, pc, cur, todo>> /\ registry \subseteq registry'
    BY <2>1 DEF Img!PodStarts, Img!PodPushes, Img!PodEnds
  <2>3. Img!TypeOK' BY <2>1 DEF Img!PodStarts, Img!PodPushes, Img!PodEnds, Img!IInv, Img!TypeOK
  <2>4. Img!Flight' BY <2>2 DEF Img!IInv, Img!Flight
  <2>5. Img!Pushed' BY <2>1, <2>2 DEF Img!PodStarts, Img!PodPushes, Img!PodEnds, Img!IInv,
                       Img!TypeOK, Img!Pushed
  <2> QED BY <2>3, <2>4, <2>5 DEF Img!IInv
<1>2. CASE Img!RepoMoves
  BY <1>2 DEF Img!RepoMoves, Img!IInv, Img!TypeOK, Img!Flight, Img!Pushed
<1>3. CASE Img!Restart
  <2>1. Img!TypeOK' BY <1>3 DEF Img!Restart, Img!IInv, Img!TypeOK
  <2>2. Img!Flight' BY <1>3 DEF Img!Restart, Img!Flight, Img!Building
  <2>3. Img!Pushed' BY <1>3 DEF Img!Restart, Img!IInv, Img!Pushed
  <2> QED BY <2>1, <2>2, <2>3 DEF Img!IInv
<1> QED BY <1>1, <1>2, <1>3

\* Every step keeps the invariant.
LEMMA BuildStepHolds == Img!IInv /\ [Img!Next]_(Img!vars) => Img!IInv'
<1> SUFFICES ASSUME Img!IInv, [Img!Next]_(Img!vars) PROVE Img!IInv'
  OBVIOUS
<1>1. CASE \E a \in Agents : Img!RunsInBase(a) \/ Img!ResolveAgentImage(a)
  BY <1>1, AskHolds DEF Img!Callers
<1>2. CASE \E p \in Phases : Img!EnsurePipelineImages(p)
  BY <1>2, AskHolds DEF Img!Callers
<1>3. CASE \E c \in Img!Callers : \/ Img!Reuses(c) \/ Img!StartsBuild(c) \/ Img!Joins(c)
                              \/ Img!CreatesPod(c) \/ Img!CreateConflicts(c) \/ Img!Adopts(c) \/ Img!Replaces(c)
                              \/ Img!Recreates(c) \/ Img!RecreateFails(c)
                              \/ Img!PollSucceeds(c) \/ Img!PollFails(c) \/ Img!Finishes(c)
  BY <1>3, ReuseHolds, StartHolds, JoinHolds, CallHolds, EndHolds
<1>4. CASE (\E i \in Img!Images : Img!PodStarts(i) \/ Img!PodPushes(i) \/ Img!PodEnds(i)) \/ Img!RepoMoves \/ Img!Restart
  BY <1>4, WorldHolds
<1>5. CASE UNCHANGED Img!vars
  BY <1>5 DEF Img!vars, Img!IInv, Img!TypeOK, Img!Flight, Img!Pushed
<1> QED BY <1>1, <1>2, <1>3, <1>4, <1>5 DEF Img!Next

\* One build at a time per image, whatever fails and whenever the process restarts, and no
\* caller goes on with an image that is not in the registry.
THEOREM OneBuildPerImage == Img!Spec => [](Img!SingleFlight /\ Img!ReadyIsPushed)
<1>1. Img!Init => Img!IInv BY BuildInitHolds
<1>2. Img!IInv /\ [Img!Next]_(Img!vars) => Img!IInv' BY BuildStepHolds
<1>3. Img!IInv => Img!SingleFlight /\ Img!ReadyIsPushed BY FlightIsSingle
<1> QED BY <1>1, <1>2, <1>3, PTL DEF Img!Spec

-----------------------------------------------------------------------------
(* Offboarding: the order of offboardUser is what makes it true, and the  *)
(* references between the tables.                                           *)

\* A row that appears once the user is gone would need the user's row.
LEMMA OffStepHolds == Off!IInv /\ [Off!Next]_(Off!vars) => Off!IInv'
<1> SUFFICES ASSUME Off!IInv, [Off!Next]_(Off!vars) PROVE Off!IInv'
  OBVIOUS
<1> USE DEF Off!IInv, Off!TypeOK, Off!GoneLeavesNothing, Off!userVars, Off!agentVars
<1>1. ASSUME NEW a \in Agents, Off!CreateAgent(a) PROVE Off!IInv'
  BY <1>1 DEF Off!CreateAgent, Off!AgentStates
<1>2. ASSUME NEW a \in Agents, Off!StartAgent(a) \/ Off!Dispatches(a) \/ Off!Works(a)
      \/ Off!StartDevEnv(a) PROVE Off!IInv'
  <2>1. CASE Off!Dispatches(a) BY <2>1 DEF Off!Dispatches
  <2>2. CASE Off!Works(a)
    <3>1. PICK s \in Off!Active \cup {"paused", "completed"} :
            /\ state' = [state EXCEPT ![a] = s]
            /\ pod' = IF s \in Off!Active THEN pod ELSE pod \ {a}
      BY <2>2 DEF Off!Works
    <3>2. state' \in [Agents -> Off!AgentStates] /\ pod' \in SUBSET Agents BY <3>1 DEF Off!AgentStates
    <3>3. remote' \in SUBSET Branches BY <2>2 DEF Off!Works
    <3> QED BY <2>2, <3>2, <3>3 DEF Off!Works
  <2>3. CASE Off!StartDevEnv(a) BY <2>3 DEF Off!StartDevEnv
  <2>4. CASE Off!StartAgent(a) BY <2>4 DEF Off!StartAgent, Off!AgentStates
  <2> QED BY <1>2, <2>1, <2>2, <2>3, <2>4
<1>3. ASSUME NEW a \in Agents, Off!DeleteAgentHandler(a) \/ Off!OffboardsAgent(a) PROVE Off!IInv'
  BY <1>3 DEF Off!DeleteAgentHandler, Off!OffboardsAgent, Off!Steps
<1>4. ASSUME NEW a \in Agents, Off!Kills(a) \/ Off!KillFails(a) PROVE Off!IInv'
  BY <1>4 DEF Off!Kills, Off!KillFails, Off!Steps, Off!AgentStates
<1>5. ASSUME NEW a \in Agents, Off!StopsEnv(a) \/ Off!CountsSiblings(a)
      \/ Off!DeletesBranch(a) PROVE Off!IInv'
  BY <1>5 DEF Off!StopsEnv, Off!CountsSiblings, Off!DeletesBranch, Off!Steps
<1>6. ASSUME NEW a \in Agents, Off!DeleteAgent(a) PROVE Off!IInv'
  BY <1>6 DEF Off!DeleteAgent, Off!Steps
<1>7. CASE Off!WritesRow
  BY <1>7 DEF Off!WritesRow
<1>8. CASE Off!OffboardUser \/ Off!AgentsDone \/ Off!DeletesVolume \/ Off!DeletesCredential \/ Off!RecordsTombstone
           \/ Off!OffboardThrows
  <2>1. CASE Off!OffboardUser BY <2>1 DEF Off!OffboardUser
  <2>2. CASE Off!AgentsDone BY <2>2 DEF Off!AgentsDone, Off!Offs
  <2>3. CASE Off!DeletesVolume BY <2>3 DEF Off!DeletesVolume, Off!Offs
  <2>4. CASE Off!DeletesCredential BY <2>4 DEF Off!DeletesCredential, Off!Offs
  <2>5. CASE Off!RecordsTombstone BY <2>5 DEF Off!RecordsTombstone, Off!Offs
  <2>6. CASE Off!OffboardThrows BY <2>6 DEF Off!OffboardThrows, Off!Offs
  <2> QED BY <1>8, <2>1, <2>2, <2>3, <2>4, <2>5, <2>6
<1>9. CASE Off!DeleteUser
  BY <1>9 DEF Off!DeleteUser, Off!Offs
<1>10. CASE Off!Restart
  BY <1>10 DEF Off!Restart
<1>11. CASE UNCHANGED Off!vars
  BY <1>11 DEF Off!vars
<1> QED
  BY <1>1, <1>2, <1>3, <1>4, <1>5, <1>6, <1>7, <1>8, <1>9, <1>10, <1>11 DEF Off!Next

\* Whoever is gone has left nothing behind and stays remembered, for any number of agents.
THEOREM UserLeavesNothing == Off!Spec => []Off!GoneLeavesNothing
<1>1. Off!Init => Off!IInv
  BY DEF Off!Init, Off!IInv, Off!TypeOK, Off!GoneLeavesNothing, Off!AgentStates
<1>2. Off!IInv => Off!GoneLeavesNothing BY DEF Off!IInv
<1> QED BY <1>1, <1>2, OffStepHolds, PTL DEF Off!Spec

-----------------------------------------------------------------------------
(* Accounts: only a request that is past its check of the tombstone inserts.*)

\* The tombstone is read before anything is inserted, and stays.
LEMMA AcctStepHolds == Accts!IInv /\ [Accts!Next]_(Accts!vars) => Accts!IInv'
<1> SUFFICES ASSUME Accts!IInv, [Accts!Next]_(Accts!vars) PROVE Accts!IInv'
  OBVIOUS
<1> USE DEF Accts!IInv, Accts!TypeOK, Accts!OffboardSticks, Accts!OneRowPerSubject, Accts!tables,
            Accts!Goes
<1>1. ASSUME NEW r \in Requests, Accts!Authenticate(r) PROVE Accts!IInv'
  BY <1>1 DEF Accts!Authenticate, Accts!Found, Accts!NoRow
<1>2. ASSUME NEW r \in Requests, Accts!ChecksTombstone(r) PROVE Accts!IInv'
  BY <1>2 DEF Accts!ChecksTombstone
<1>3. ASSUME NEW r \in Requests, Accts!FindsBySubject(r) PROVE Accts!IInv'
  <2>1. linked \in Accts!Found
    <3>1. CASE linked = {} BY <3>1 DEF Accts!Found, Accts!NoRow
    <3>2. CASE linked # {}
      <4>1. PICK i : i \in linked BY <3>2
      <4>2. linked = {i} BY <4>1
      <4> QED BY <4>1, <4>2 DEF Accts!Found
    <3> QED BY <3>1, <3>2
  <2> QED BY <1>3, <2>1 DEF Accts!FindsBySubject
<1>4. ASSUME NEW r \in Requests, Accts!FindsByEmail(r) PROVE Accts!IInv'
  <2>1. found' \in [Requests -> Accts!Found]
    BY <1>4 DEF Accts!FindsByEmail, Accts!Found
  <2>2. pc[r] = "email" /\ \E p \in {"link", "gate"} : pc' = [pc EXCEPT ![r] = p]
    BY <1>4 DEF Accts!FindsByEmail
  <2> QED BY <1>4, <2>1, <2>2 DEF Accts!FindsByEmail
<1>5. ASSUME NEW r \in Requests, Accts!Adopts(r) PROVE Accts!IInv'
  <2>1. \A i, j \in found[r] : i = j
    <3>1. found[r] = {} \/ \E i \in RowIds : found[r] = {i} BY DEF Accts!Found, Accts!NoRow
    <3> QED BY <3>1
  <2> QED BY <1>5, <2>1 DEF Accts!Adopts
<1>6. ASSUME NEW r \in Requests, Accts!PassesGate(r) \/ Accts!StopsAtGate(r) PROVE Accts!IInv'
  <2>1. pc[r] = "gate" /\ \E p \in {"create", "role", "pending",
        "denied"} : pc' = [pc EXCEPT ![r] = p]
    BY <1>6 DEF Accts!PassesGate, Accts!StopsAtGate
  <2>2. UNCHANGED <<Accts!tables, qualifies, found, late>> BY <1>6 DEF Accts!PassesGate,
                                                              Accts!StopsAtGate
  <2> QED BY <2>1, <2>2
<1>7. ASSUME NEW r \in Requests, Accts!ProvisionsPending(r) \/ Accts!Provisions(r)
      \/ Accts!Registers(r) PROVE Accts!IInv'
  <2>1. PICK i \in RowIds, link \in BOOLEAN, newRole \in Accts!Roles : Accts!Inserts(r, i, link,
        newRole)
    BY <1>7 DEF Accts!ProvisionsPending, Accts!Provisions, Accts!Registers, Accts!DaBossRole,
       Accts!Roles
  <2>2. pc[r] \in {"pending", "create", "insert"}
        /\ \E p \in {"denied", "grant", "admitted"} : pc' = [pc EXCEPT ![r] = p]
    BY <1>7 DEF Accts!ProvisionsPending, Accts!Provisions, Accts!Registers
  <2>3. Accts!OneRowPerSubject' /\ rows' \in SUBSET RowIds /\ linked' \in SUBSET RowIds
    BY <2>1 DEF Accts!Inserts
  <2>4. role' \in [RowIds -> Accts!Roles] /\ found' \in [Requests -> Accts!Found]
        /\ UNCHANGED <<approved, tombstone, others, qualifies, late>>
    BY <2>1 DEF Accts!Inserts, Accts!Found
  <2>5. pc' \in [Requests -> {"idle", "check", "subject", "email", "link", "gate", "pending",
        "create",
                             "role", "grant", "offboarded", "count", "insert",
                             "admitted", "denied"}]
        /\ Accts!OffboardSticks'
    BY <2>2, <2>4
  <2> QED BY <2>3, <2>4, <2>5
<1>8. ASSUME NEW r \in Requests, Accts!AuthenticateThrows(r) PROVE Accts!IInv'
  BY <1>8 DEF Accts!AuthenticateThrows
<1>9. ASSUME NEW r \in Requests, Accts!SyncsRole(r) PROVE Accts!IInv'
  BY <1>9 DEF Accts!SyncsRole, Accts!DaBossRole, Accts!Roles
<1>10. ASSUME NEW r \in Requests, Accts!Grants(r) PROVE Accts!IInv'
  BY <1>10 DEF Accts!Grants
<1>11. ASSUME NEW r \in Requests, Accts!HandleRegister(r) PROVE Accts!IInv'
  BY <1>11 DEF Accts!HandleRegister, Accts!Found, Accts!NoRow
<1>12. ASSUME NEW r \in Requests, Accts!RegisterChecksTombstone(r) PROVE Accts!IInv'
  BY <1>12 DEF Accts!RegisterChecksTombstone
<1>13. ASSUME NEW r \in Requests, Accts!CountsUsers(r) PROVE Accts!IInv'
  BY <1>13 DEF Accts!CountsUsers
<1>14. ASSUME NEW r \in Requests, Accts!ResolvesRow(r) PROVE Accts!IInv'
  <2>1. /\ \E p \in {"admitted", "denied"} : pc' = [pc EXCEPT ![r] = p]
        /\ \E f \in Accts!Found : found' = [found EXCEPT ![r] = f]
        /\ late' = late \ {r} /\ UNCHANGED <<Accts!tables, qualifies>>
    BY <1>14 DEF Accts!ResolvesRow, Accts!Found
  <2> QED BY <2>1
<1>15. CASE Accts!SetsAccess
  BY <1>15 DEF Accts!SetsAccess
<1>16. CASE Accts!RecordsTombstone
  BY <1>16 DEF Accts!RecordsTombstone
<1>17. CASE Accts!DeletesUser
  BY <1>17 DEF Accts!DeletesUser
<1>18. CASE UNCHANGED Accts!vars
  BY <1>18 DEF Accts!vars
<1> QED
  BY <1>1, <1>2, <1>3, <1>4, <1>5, <1>6, <1>7, <1>8, <1>9, <1>10, <1>11, <1>12, <1>13, <1>14, <1>15,
     <1>16, <1>17, <1>18 DEF Accts!Next

\* No login or registration that begins after an offboard gets in, and logins that run at
\* once make one row, for any number of requests and rows.
THEOREM OffboardHolds == Accts!Spec => [](Accts!OffboardSticks /\ Accts!OneRowPerSubject)
<1>1. Accts!Init => Accts!IInv
  BY DEF Accts!Init, Accts!IInv, Accts!TypeOK, Accts!OffboardSticks, Accts!OneRowPerSubject,
     Accts!Found, Accts!NoRow
<1>2. Accts!IInv => Accts!OffboardSticks /\ Accts!OneRowPerSubject BY DEF Accts!IInv
<1> QED BY <1>1, <1>2, AcctStepHolds, PTL DEF Accts!Spec

-----------------------------------------------------------------------------
(* StagingMerge.                                                           *)

\* A passed deploy stays passed, and only a passed one validates a click: for any number of
\* reviews, deploys, commits and deaths, the guard lets no flagged change by without one.
THEOREM LandedWasDeployedHolds == ASSUME StagingDeploys \subseteq Nat, MaxCommits \in Nat
                                  PROVE  Staging!Spec => []Staging!LandedWasDeployed
<1>1. Staging!Init => Staging!IInv
  BY DEF Staging!Init, Staging!IInv, Staging!NoDeploy, Staging!NoClick, Staging!Cleanly,
     Staging!None
<1>2. Staging!IInv /\ [Staging!Next]_(Staging!vars) => Staging!IInv'
  <2> SUFFICES ASSUME Staging!IInv, [Staging!Next]_(Staging!vars) PROVE Staging!IInv'
    OBVIOUS
  <2>1. CASE UNCHANGED Staging!vars
    BY <2>1 DEF Staging!vars, Staging!IInv, Staging!Passed, Staging!Cleanly
  <2>2. ASSUME UNCHANGED <<deploy, click>>, now' \in Nat, head' \in Nat PROVE Staging!IInv'
    BY <2>2 DEF Staging!IInv, Staging!Passed, Staging!Cleanly
  <2>3. CASE Staging!Push
    BY <2>3, <2>2 DEF Staging!Push, Staging!IInv
  <2>4. CASE Staging!RequestChanges
    BY <2>4, <2>2 DEF Staging!RequestChanges, Staging!IInv
  <2>5. ASSUME NEW v \in Reviews,
               \/ Staging!Dispatch(v) \/ Staging!ReviewerDies(v) \/ Staging!ReviewerResumes(v)
               \/ \E is \in {"merge", "hold"} : Staging!Verdict(v, is)
        PROVE  Staging!IInv'
    BY <2>5, <2>2 DEF Staging!Dispatch, Staging!ReviewerDies, Staging!ReviewerResumes,
       Staging!Verdict, Staging!IInv
  <2>6. ASSUME NEW d \in StagingDeploys, Staging!DeployAgentBranch(d) PROVE Staging!IInv'
    <3>1. deploy[d].status = Staging!None
      BY <2>6 DEF Staging!DeployAgentBranch, Staging!IInv
    <3>2. Staging!Passed => Staging!Passed'
      BY <2>6, <3>1 DEF Staging!Passed, Staging!DeployAgentBranch, Staging!IInv, Staging!None
    <3> QED
      BY <2>6, <3>2 DEF Staging!DeployAgentBranch, Staging!IInv, Staging!Cleanly
  <2>7. ASSUME NEW d \in StagingDeploys, Staging!Clones(d) PROVE Staging!IInv'
    <3>1. Staging!Passed => Staging!Passed'
      BY <2>7 DEF Staging!Passed, Staging!Clones, Staging!IInv
    <3> QED
      BY <2>7, <3>1 DEF Staging!Clones, Staging!IInv, Staging!Cleanly
  <2>8. ASSUME NEW d \in StagingDeploys, NEW s \in {"passed", "failed"}, Staging!Ends(d,
        s) PROVE Staging!IInv'
    <3>1. Staging!Passed => Staging!Passed'
      BY <2>8 DEF Staging!Passed, Staging!Ends, Staging!IInv
    <3>2. now + 1 \in Nat
      BY DEF Staging!IInv
    <3>3. deploy' = [deploy EXCEPT ![d] = [@ EXCEPT !.status = s, !.at = now + 1]]
      BY <2>8 DEF Staging!Ends, Staging!IInv
    <3>4. deploy' \in [StagingDeploys -> [status : {Staging!None, "running", "passed", "failed"},
          commit : Nat, at : Nat]]
      BY <3>2, <3>3 DEF Staging!IInv
    <3> QED
      BY <2>8, <3>1, <3>2, <3>4 DEF Staging!Ends, Staging!IInv, Staging!Cleanly
  <2>9. ASSUME NEW override \in BOOLEAN, Staging!Clicks(override) PROVE Staging!IInv'
    BY <2>9 DEF Staging!Clicks, Staging!IInv, Staging!Passed, Staging!Cleanly, Staging!NoClick
  <2>10. CASE Staging!ReadsSince
    BY <2>10 DEF Staging!ReadsSince, Staging!IInv, Staging!Passed, Staging!Cleanly
  <2>11. CASE Staging!ReadsDeploys
    <3>1. Staging!HasPassedBranchDeploySince(click.since) => Staging!Passed
      BY DEF Staging!HasPassedBranchDeploySince, Staging!Passed
    <3> QED
      BY <2>11, <3>1 DEF Staging!ReadsDeploys, Staging!IInv, Staging!Passed, Staging!Cleanly
  <2>12. CASE Staging!Decides
    BY <2>12 DEF Staging!Decides, Staging!MayLand, Staging!IInv, Staging!Passed, Staging!Cleanly,
       Staging!NoClick
  <2>13. CASE Staging!Lands
    BY <2>13 DEF Staging!Lands, Staging!IInv, Staging!Passed, Staging!Cleanly, Staging!NoClick
  <2> QED
    BY <2>1, <2>3, <2>4, <2>5, <2>6, <2>7, <2>8, <2>9, <2>10, <2>11, <2>12, <2>13 DEF Staging!Next
<1>3. Staging!IInv => Staging!LandedWasDeployed
  BY DEF Staging!IInv, Staging!LandedWasDeployed, Staging!Passed
<1> QED
  BY <1>1, <1>2, <1>3, PTL DEF Staging!Spec

-----------------------------------------------------------------------------
(***************************************************************************)
(* ChangeBranch, for any number of agents, hand-backs, commits and pull    *)
(* requests. OnePullRequest needs whatever still names a pull request to   *)
(* name one that was opened (Opened), and follows from what a step may do   *)
(* to the pull requests (PrMoves). That a merged change carries the work   *)
(* its agent completed with needs what that work is on its way to the      *)
(* merge: on the branch, or on none that a pull request can be opened from *)
(* (WorkKept).                                                             *)
(***************************************************************************)

BrStates == {"none", "pending", "queued", "running", "paused", "completed", "verified"}
BrRowRec == [state : BrStates, pr : Br!Prs \cup {Br!None}]
BrPodRec == [pc : {"none", "clone", "turn", "pr", "set", "final"}, base : Br!Heads, head : Br!Heads,
             pr : Br!Prs \cup {Br!None}]
BrCallRec == [pc : {"none", "pr", "write", "checks", "review"}, agent : Agents \cup {"nobody"},
              state : BrStates, old : Br!Prs \cup {Br!None}, pr : Br!Prs \cup {Br!None}]

\* The parts of the type invariant.
BrHeadT == main \in Br!Heads /\ branch \in Br!Heads /\ landed \in Br!Heads /\ last \in 0..MaxCommits
BrPrT == pr \in [Br!Prs -> {"none", "open", "merged"}]
BrRowT == row \in [Agents -> BrRowRec] /\ found \in [Agents -> Br!Prs \cup {Br!None}]
BrPodT == w \in [Agents -> BrPodRec] /\ done \in [Agents -> Br!Heads]
BrCallT == hb \in [Handbacks -> BrCallRec] /\ reviewers \in [Agents -> Nat]
BrTyped == BrHeadT /\ BrPrT /\ BrRowT /\ BrPodT /\ BrCallT

\* n was opened, or names no pull request.
Opened(n) == n = Br!None \/ (n \in Br!Prs /\ pr[n] # "none")

\* Whoever still names a pull request names one that was opened.
BrRowOK == \A a \in Agents : Opened(row[a].pr) /\ Opened(found[a])
BrPodOK == \A a \in Agents : Opened(w[a].pr)
BrCallOK == \A c \in Handbacks : /\ Opened(hb[c].pr) /\ Opened(hb[c].old)
                                 /\ hb[c].pc # "none" => hb[c].agent \in Agents

OneOpen == \A m, n \in Br!OpenPrs : m = n

BrInv == BrTyped /\ BrRowOK /\ BrPodOK /\ BrCallOK /\ OneOpen

-----------------------------------------------------------------------------
LEMMA BrNumbers == Br!None \notin Br!Prs
  BY DEF Br!None, Br!Prs

\* What a step may do to the pull requests: open the only one, or merge the open one.
PrMoves ==
    \/ pr' = pr
    \/ \E n \in Br!Prs : Br!OpenPrs = {} /\ pr[n] = "none" /\ pr' = [pr EXCEPT ![n] = "open"]
    \/ \E n \in Br!OpenPrs : pr' = [pr EXCEPT ![n] = "merged"]

\* The answer of the forge is a pull request that is open from then on, or none.
LEMMA Ensured ==
    ASSUME BrPrT, NEW n \in Br!Prs \cup {Br!None}, Br!EnsurePullRequest(n)
    PROVE  /\ PrMoves
           /\ n = Br!None \/ (n \in Br!Prs /\ pr'[n] = "open")
           /\ n # Br!None \/ (branch \subseteq main /\ pr' = pr)
<1>1. CASE Br!OpenPrs # {} /\ n \in Br!OpenPrs /\ UNCHANGED pr
  BY <1>1, BrNumbers DEF PrMoves, Br!OpenPrs
<1>2. CASE Br!OpenPrs = {} /\ branch \subseteq main /\ n = Br!None /\ UNCHANGED pr
  BY <1>2 DEF PrMoves
<1>3. CASE Br!OpenPrs = {} /\ ~(branch \subseteq main) /\ n \in Br!Unused /\ pr' = [pr EXCEPT ![n] = "open"]
  BY <1>3, BrNumbers DEF PrMoves, Br!Unused, BrPrT
<1> QED BY <1>1, <1>2, <1>3 DEF Br!EnsurePullRequest

LEMMA PrStep ==
    ASSUME BrPrT, [Br!Next]_(Br!vars)
    PROVE  PrMoves
<1>1. ASSUME NEW a \in Agents, Br!MergePr(a) PROVE PrMoves
  BY <1>1 DEF Br!MergePr, PrMoves
<1>2. ASSUME NEW a \in Agents, Br!OpensPr(a) PROVE PrMoves
  BY <1>2, Ensured DEF Br!OpensPr
<1>3. ASSUME NEW c \in Handbacks, Br!HandbackOpensPr(c) PROVE PrMoves
  BY <1>3, Ensured DEF Br!HandbackOpensPr
<1>4. ASSUME UNCHANGED pr PROVE PrMoves
  BY <1>4 DEF PrMoves
<1>5. ASSUME NEW a \in Agents,
             \/ Br!CreateAgent(a) \/ Br!ResolveOpenPrByBranch(a) \/ Br!EnsureAdoptedPrNumber(a)
             \/ Br!SendInput(a) \/ Br!Dispatch(a) \/ Br!Clone(a) \/ Br!Works(a) \/ Br!Pushes(a)
             \/ Br!SetAgentPullRequest(a) \/ Br!Completes(a) \/ Br!PodDies(a)
             \/ Br!SyncMainClean(a) \/ Br!SyncMainByAgent(a) \/ Br!ReviewerEnds(a)
             \/ \E c \in Handbacks : Br!HandbackReads(c, a)
      PROVE  UNCHANGED pr
  BY <1>5 DEF Br!CreateAgent, Br!ResolveOpenPrByBranch, Br!EnsureAdoptedPrNumber, Br!SendInput, Br!Dispatch,
              Br!Clone, Br!Works, Br!Pushes, Br!SetAgentPullRequest, Br!Completes, Br!PodDies,
              Br!SyncMainClean, Br!SyncMainByAgent, Br!ReviewerEnds, Br!HandbackReads
<1>6. ASSUME \/ Br!MainMoves \/ Br!EnsureRemoteBranch \/ Br!PersonPushes \/ UNCHANGED Br!vars
             \/ \E c \in Handbacks : \/ Br!HandbackWrites(c) \/ Br!HandbackChecks(c)
                                     \/ Br!HandbackDispatchesReview(c)
      PROVE  UNCHANGED pr
  BY <1>6 DEF Br!MainMoves, Br!EnsureRemoteBranch, Br!PersonPushes, Br!vars, Br!HandbackWrites,
              Br!HandbackChecks, Br!HandbackDispatchesReview
<1> QED BY <1>1, <1>2, <1>3, <1>4, <1>5, <1>6 DEF Br!Next

\* What was opened stays so, and no second one is opened.
LEMMA PrsKeep ==
    ASSUME BrPrT, OneOpen, PrMoves
    PROVE  BrPrT' /\ OneOpen' /\ \A n : Opened(n) => Opened(n)'
<1>1. CASE pr' = pr
  BY <1>1 DEF BrPrT, OneOpen, Br!OpenPrs, Opened
<1>2. ASSUME NEW n \in Br!Prs, Br!OpenPrs = {}, pr' = [pr EXCEPT ![n] = "open"]
      PROVE  BrPrT' /\ OneOpen' /\ \A m : Opened(m) => Opened(m)'
  BY <1>2 DEF BrPrT, OneOpen, Br!OpenPrs, Opened
<1>3. ASSUME NEW n \in Br!OpenPrs, pr' = [pr EXCEPT ![n] = "merged"]
      PROVE  BrPrT' /\ OneOpen' /\ \A m : Opened(m) => Opened(m)'
  BY <1>3 DEF BrPrT, OneOpen, Br!OpenPrs, Opened
<1> QED BY <1>1, <1>2, <1>3 DEF PrMoves

LEMMA BrHeadStep ==
    ASSUME MaxCommits \in Nat, BrHeadT, BrPodT, [Br!Next]_(Br!vars)
    PROVE  BrHeadT'
<1> USE DEF BrHeadT
<1>1. ASSUME Br!Commit PROVE last' \in 0..MaxCommits /\ {last + 1} \in Br!Heads /\ last' = last + 1
  BY <1>1 DEF Br!Commit, Br!Heads, Br!Root
<1>2. \A G, H \in Br!Heads : G \cup H \in Br!Heads
  BY DEF Br!Heads
<1>3. CASE Br!MainMoves
  BY <1>1, <1>2, <1>3 DEF Br!MainMoves
<1>4. CASE Br!PersonPushes
  BY <1>1, <1>2, <1>4 DEF Br!PersonPushes
<1>5. ASSUME NEW a \in Agents, Br!MergePr(a) PROVE BrHeadT'
  BY <1>1, <1>2, <1>5 DEF Br!MergePr
<1>6. ASSUME NEW a \in Agents, Br!SyncMainClean(a) PROVE BrHeadT'
  <2>1. UNCHANGED <<main, landed>> /\ Br!UpdateBranch
    BY <1>6 DEF Br!SyncMainClean
  <2>2. CASE UNCHANGED <<branch, last>>
    BY <2>1, <2>2
  <2>3. CASE Br!Commit /\ branch' = branch \cup main \cup {last + 1}
    <3>1. branch \cup main \in Br!Heads
      BY <1>2
    <3> QED BY <1>1, <1>2, <2>1, <2>3, <3>1
  <2> QED BY <2>1, <2>2, <2>3 DEF Br!UpdateBranch
<1>7. ASSUME NEW a \in Agents, Br!Works(a) PROVE BrHeadT'
  BY <1>1, <1>7 DEF Br!Works
<1>8. ASSUME NEW a \in Agents, Br!Pushes(a) PROVE BrHeadT'
  <2>1. w[a].head \in Br!Heads
    BY DEF BrPodT, BrPodRec
  <2> QED BY <1>8, <2>1 DEF Br!Pushes
<1>9. CASE Br!EnsureRemoteBranch
  BY <1>9 DEF Br!EnsureRemoteBranch
<1>10. ASSUME NEW a \in Agents,
             \/ Br!CreateAgent(a) \/ Br!ResolveOpenPrByBranch(a) \/ Br!EnsureAdoptedPrNumber(a)
             \/ Br!SendInput(a) \/ Br!Dispatch(a) \/ Br!Clone(a) \/ Br!OpensPr(a)
             \/ Br!SetAgentPullRequest(a) \/ Br!Completes(a) \/ Br!PodDies(a)
             \/ Br!SyncMainByAgent(a) \/ Br!ReviewerEnds(a)
             \/ \E c \in Handbacks : Br!HandbackReads(c, a)
      PROVE  BrHeadT'
  BY <1>10 DEF Br!CreateAgent, Br!ResolveOpenPrByBranch, Br!EnsureAdoptedPrNumber, Br!SendInput, Br!Dispatch,
              Br!Clone, Br!OpensPr, Br!SetAgentPullRequest, Br!Completes, Br!PodDies,
              Br!SyncMainByAgent, Br!ReviewerEnds, Br!HandbackReads
<1>11. ASSUME \/ UNCHANGED Br!vars
              \/ \E c \in Handbacks : \/ Br!HandbackOpensPr(c) \/ Br!HandbackWrites(c)
                                      \/ Br!HandbackChecks(c) \/ Br!HandbackDispatchesReview(c)
      PROVE  BrHeadT'
  BY <1>11 DEF Br!vars, Br!HandbackOpensPr, Br!HandbackWrites, Br!HandbackChecks, Br!HandbackDispatchesReview
<1> QED BY <1>3, <1>4, <1>5, <1>6, <1>7, <1>8, <1>9, <1>10, <1>11 DEF Br!Next

\* What a step may do to the rows.
BrRowMoves ==
    \/ UNCHANGED row
    \/ \E a \in Agents, s \in BrStates \ {"completed", "verified"} :
          row[a].state # "verified" /\ row' = [row EXCEPT ![a].state = s]
    \/ \E a \in Agents : w[a].pc = "final" /\ row' = [row EXCEPT ![a].state = "completed"]
    \/ \E a \in Agents :
          row[a].state = "completed" /\ row[a].pr \in Br!OpenPrs /\ row' = [row EXCEPT ![a].state = "verified"]
    \/ \E a \in Agents : \E n \in {found[a], w[a].pr} : row' = [row EXCEPT ![a].pr = n]
    \/ \E c \in Handbacks, n \in BOOLEAN, s \in BOOLEAN :
          /\ hb[c].pc = "write"
          /\ row' = [row EXCEPT ![hb[c].agent].pr = IF n THEN hb[c].pr ELSE @,
                                ![hb[c].agent].state = IF s THEN "completed" ELSE @]

LEMMA BrRowStep ==
    ASSUME BrRowT, BrPodT, [Br!Next]_(Br!vars)
    PROVE  BrRowMoves
<1> USE DEF BrRowMoves
<1>1. ASSUME NEW a \in Agents, row[a].state # "verified",
             NEW s \in (BrStates \ {"completed", "verified"}) \cup {row[a].state},
             row' = [row EXCEPT ![a].state = s]
      PROVE  BrRowMoves
  <2>1. CASE s = row[a].state
    <3>1. row' = row
      BY <1>1, <2>1 DEF BrRowT, BrRowRec
    <3> QED BY <3>1
  <2> QED BY <1>1, <2>1
<1>2. ASSUME NEW a \in Agents, Br!CreateAgent(a) \/ Br!Dispatch(a) PROVE BrRowMoves
  BY <1>1, <1>2 DEF Br!CreateAgent, Br!Dispatch, Br!Exists, BrStates
<1>3. ASSUME NEW a \in Agents, Br!SendInput(a) \/ Br!SyncMainByAgent(a) PROVE BrRowMoves
  <2>1. row[a].state # "verified" /\ Br!Queues(a)
    BY <1>3 DEF Br!SendInput, Br!SyncMainByAgent
  <2>2. row' = [row EXCEPT ![a].state = IF row[a].state \in {"queued", "running"} THEN row[a].state ELSE "queued"]
    BY <2>1 DEF Br!Queues
  <2> QED BY <1>1, <2>1, <2>2 DEF BrStates
<1>4. ASSUME NEW a \in Agents, Br!PodDies(a) PROVE BrRowMoves
  <2>1. CASE row[a].state = "running"
    BY <1>1, <1>4, <2>1 DEF Br!PodDies, BrStates
  <2>2. CASE row[a].state # "running"
    <3>1. row' = row
      BY <1>4, <2>2 DEF Br!PodDies, BrRowT, BrRowRec
    <3> QED BY <3>1
  <2> QED BY <2>1, <2>2
<1>5. ASSUME NEW a \in Agents, Br!Completes(a) \/ Br!MergePr(a) PROVE BrRowMoves
  BY <1>5 DEF Br!Completes, Br!MergePr
<1>6. ASSUME NEW a \in Agents, Br!EnsureAdoptedPrNumber(a) \/ Br!SetAgentPullRequest(a) PROVE BrRowMoves
  BY <1>6 DEF Br!EnsureAdoptedPrNumber, Br!SetAgentPullRequest
<1>7. ASSUME NEW c \in Handbacks, Br!HandbackWrites(c) PROVE BrRowMoves
  <2>1. \E n \in BOOLEAN, s \in BOOLEAN :
          row' = [row EXCEPT ![hb[c].agent].pr = IF n THEN hb[c].pr ELSE @,
                             ![hb[c].agent].state = IF s THEN "completed" ELSE @]
    <3> WITNESS (hb[c].old # hb[c].pr) \in BOOLEAN, (hb[c].state \in {"pending", "paused", "queued"}) \in BOOLEAN
    <3> QED BY <1>7 DEF Br!HandbackWrites
  <2> QED BY <1>7, <2>1 DEF Br!HandbackWrites
<1>8. ASSUME NEW a \in Agents,
             \/ Br!ResolveOpenPrByBranch(a) \/ Br!Clone(a) \/ Br!Works(a) \/ Br!Pushes(a) \/ Br!OpensPr(a)
             \/ Br!SyncMainClean(a) \/ Br!ReviewerEnds(a) \/ \E c \in Handbacks : Br!HandbackReads(c, a)
      PROVE  UNCHANGED row
  BY <1>8 DEF Br!ResolveOpenPrByBranch, Br!Clone, Br!Works, Br!Pushes, Br!OpensPr, Br!SyncMainClean,
              Br!ReviewerEnds, Br!HandbackReads
<1>9. ASSUME \/ Br!MainMoves \/ Br!EnsureRemoteBranch \/ Br!PersonPushes \/ UNCHANGED Br!vars
             \/ \E c \in Handbacks : \/ Br!HandbackOpensPr(c) \/ Br!HandbackChecks(c)
                                     \/ Br!HandbackDispatchesReview(c)
      PROVE  UNCHANGED row
  BY <1>9 DEF Br!MainMoves, Br!EnsureRemoteBranch, Br!PersonPushes, Br!vars, Br!HandbackOpensPr,
              Br!HandbackChecks, Br!HandbackDispatchesReview
<1> QED BY <1>2, <1>3, <1>4, <1>5, <1>6, <1>7, <1>8, <1>9 DEF Br!Next

\* The rows keep their types, and name what was opened.
LEMMA BrRowsKeep ==
    ASSUME BrInv, [Br!Next]_(Br!vars)
    PROVE  BrRowT' /\ BrRowOK'
<1>1. \A n : Opened(n) => Opened(n)'
  BY PrStep, PrsKeep DEF BrInv, BrTyped
<1>2. /\ BrRowT /\ BrRowOK /\ BrPodT /\ BrPodOK /\ BrCallT /\ BrCallOK /\ BrRowMoves
      /\ \A n : Opened(n) => n \in Br!Prs \cup {Br!None}
  BY BrRowStep DEF BrInv, BrTyped, Opened
<1>3. row' \in [Agents -> BrRowRec] /\ \A a \in Agents : row'[a].pr = row[a].pr \/ Opened(row'[a].pr)
  <2>1. ASSUME NEW a \in Agents, NEW s \in BrStates, row' = [row EXCEPT ![a].state = s]
        PROVE  row' \in [Agents -> BrRowRec] /\ \A b \in Agents : row'[b].pr = row[b].pr
    BY <1>2, <2>1 DEF BrRowT, BrRowRec
  <2>2. ASSUME NEW a \in Agents, NEW n \in Br!Prs \cup {Br!None}, row' = [row EXCEPT ![a].pr = n]
        PROVE  row' \in [Agents -> BrRowRec] /\ \A b \in Agents : row'[b].pr = row[b].pr \/ row'[b].pr = n
    BY <1>2, <2>2 DEF BrRowT, BrRowRec
  <2>3. ASSUME NEW c \in Handbacks, hb[c].pc = "write", NEW n \in BOOLEAN, NEW s \in BOOLEAN,
               row' = [row EXCEPT ![hb[c].agent].pr = IF n THEN hb[c].pr ELSE @,
                                  ![hb[c].agent].state = IF s THEN "completed" ELSE @]
        PROVE  row' \in [Agents -> BrRowRec] /\ \A b \in Agents : row'[b].pr = row[b].pr \/ row'[b].pr = hb[c].pr
    <3>1. hb[c].agent \in Agents /\ hb[c].pr \in Br!Prs \cup {Br!None}
      BY <1>2, <2>3 DEF BrCallOK
    <3> QED BY <1>2, <2>3, <3>1 DEF BrRowT, BrRowRec, BrStates
  <2>4. CASE UNCHANGED row
    BY <1>2, <2>4 DEF BrRowT
  <2>5. ASSUME NEW a \in Agents, NEW n \in {found[a], w[a].pr}, row' = [row EXCEPT ![a].pr = n]
        PROVE  row' \in [Agents -> BrRowRec] /\ \A b \in Agents : row'[b].pr = row[b].pr \/ Opened(row'[b].pr)
    <3>1. Opened(n)
      BY <1>2, <2>5 DEF BrRowOK, BrPodOK
    <3>2. n \in Br!Prs \cup {Br!None}
      BY <1>2, <3>1
    <3>3. row' \in [Agents -> BrRowRec] /\ \A b \in Agents : row'[b].pr = row[b].pr \/ row'[b].pr = n
      BY <2>2, <2>5, <3>2
    <3> QED BY <3>1, <3>3
  <2>6. ASSUME NEW c \in Handbacks, NEW n \in BOOLEAN, NEW s \in BOOLEAN, hb[c].pc = "write",
               row' = [row EXCEPT ![hb[c].agent].pr = IF n THEN hb[c].pr ELSE @,
                                  ![hb[c].agent].state = IF s THEN "completed" ELSE @]
        PROVE  row' \in [Agents -> BrRowRec] /\ \A b \in Agents : row'[b].pr = row[b].pr \/ Opened(row'[b].pr)
    <3>1. row' \in [Agents -> BrRowRec] /\ \A b \in Agents : row'[b].pr = row[b].pr \/ row'[b].pr = hb[c].pr
      BY <2>3, <2>6
    <3>2. Opened(hb[c].pr)
      BY <1>2 DEF BrCallOK
    <3> QED BY <3>1, <3>2
  <2>7. ASSUME NEW a \in Agents, NEW s \in BrStates, row' = [row EXCEPT ![a].state = s]
        PROVE  row' \in [Agents -> BrRowRec] /\ \A b \in Agents : row'[b].pr = row[b].pr \/ Opened(row'[b].pr)
    BY <2>1, <2>7
  <2>8. "completed" \in BrStates /\ "verified" \in BrStates
    BY DEF BrStates
  <2> QED BY <1>2, <2>4, <2>5, <2>6, <2>7, <2>8 DEF BrRowMoves
<1>4. found' \in [Agents -> Br!Prs \cup {Br!None}] /\ \A a \in Agents : Opened(found'[a])
  <2>1. CASE UNCHANGED found
    BY <1>2, <2>1 DEF BrRowT, BrRowOK
  <2>2. ASSUME NEW a \in Agents, NEW n, Opened(n), found' = [found EXCEPT ![a] = n]
        PROVE  found' \in [Agents -> Br!Prs \cup {Br!None}] /\ \A b \in Agents : Opened(found'[b])
    BY <1>2, <2>2 DEF BrRowT, BrRowOK
  <2>3. ASSUME NEW a \in Agents, Br!ResolveOpenPrByBranch(a)
        PROVE  \E n : Opened(n) /\ found' = [found EXCEPT ![a] = n]
    BY <2>3 DEF Br!ResolveOpenPrByBranch, Br!OpenPrs, Opened
  <2>4. ASSUME NEW a \in Agents, Br!EnsureAdoptedPrNumber(a)
        PROVE  \E n : Opened(n) /\ found' = [found EXCEPT ![a] = n]
    BY <2>4 DEF Br!EnsureAdoptedPrNumber, Opened
  <2>5. ASSUME NEW a \in Agents,
               \/ Br!CreateAgent(a) \/ Br!SendInput(a) \/ Br!Dispatch(a) \/ Br!Clone(a) \/ Br!Works(a)
               \/ Br!Pushes(a) \/ Br!OpensPr(a) \/ Br!SetAgentPullRequest(a) \/ Br!Completes(a)
               \/ Br!PodDies(a) \/ Br!SyncMainClean(a) \/ Br!SyncMainByAgent(a) \/ Br!MergePr(a)
               \/ Br!ReviewerEnds(a) \/ \E c \in Handbacks : Br!HandbackReads(c, a)
        PROVE  UNCHANGED found
    BY <2>5 DEF Br!CreateAgent, Br!SendInput, Br!Dispatch, Br!Clone, Br!Works, Br!Pushes, Br!OpensPr,
                Br!SetAgentPullRequest, Br!Completes, Br!PodDies, Br!SyncMainClean, Br!SyncMainByAgent,
                Br!MergePr, Br!ReviewerEnds, Br!HandbackReads
  <2>6. ASSUME \/ Br!MainMoves \/ Br!EnsureRemoteBranch \/ Br!PersonPushes \/ UNCHANGED Br!vars
               \/ \E c \in Handbacks : \/ Br!HandbackOpensPr(c) \/ Br!HandbackWrites(c)
                                       \/ Br!HandbackChecks(c) \/ Br!HandbackDispatchesReview(c)
        PROVE  UNCHANGED found
    BY <2>6 DEF Br!MainMoves, Br!EnsureRemoteBranch, Br!PersonPushes, Br!vars, Br!HandbackOpensPr,
                Br!HandbackWrites, Br!HandbackChecks, Br!HandbackDispatchesReview
  <2> QED BY <2>1, <2>2, <2>3, <2>4, <2>5, <2>6 DEF Br!Next
<1>5. \A a \in Agents : Opened(row'[a].pr)
  BY <1>2, <1>3 DEF BrRowOK
<1> QED BY <1>1, <1>3, <1>4, <1>5 DEF BrRowT, BrRowOK, Opened

\* The pods keep their types, and name what was opened.
LEMMA BrPodsKeep ==
    ASSUME MaxCommits \in Nat, BrInv, [Br!Next]_(Br!vars)
    PROVE  BrPodT' /\ BrPodOK'
<1>1. \A n : Opened(n) => Opened(n)'
  BY PrStep, PrsKeep DEF BrInv, BrTyped
<1>2. BrHeadT /\ BrPrT /\ BrPodT /\ BrPodOK
  BY DEF BrInv, BrTyped
<1> DEFINE P == BrPodT' /\ BrPodOK'
<1>3. ASSUME UNCHANGED <<w, done>> PROVE P
  BY <1>1, <1>2, <1>3 DEF BrPodT, BrPodOK
<1>4. ASSUME NEW a \in Agents, NEW r \in BrPodRec, w' = [w EXCEPT ![a] = r], done' \in [Agents -> Br!Heads],
             r.pr = w[a].pr \/ Opened(r.pr)'
      PROVE  P
  <2>1. BrPodT'
    BY <1>2, <1>4 DEF BrPodT
  <2>2. ASSUME NEW b \in Agents PROVE Opened(w[b].pr)'
    <3>1. CASE b = a
      BY <1>1, <1>2, <1>4, <3>1 DEF BrPodT, BrPodOK, Opened
    <3>2. CASE b # a
      BY <1>1, <1>2, <1>4, <3>2 DEF BrPodT, BrPodOK, Opened
    <3> QED BY <3>1, <3>2
  <2> QED BY <2>1, <2>2 DEF BrPodOK
<1>5. Br!NoPod \in BrPodRec /\ Opened(Br!NoPod.pr)'
  BY DEF Br!NoPod, BrPodRec, Br!Heads, Opened
<1>6. \A a \in Agents : w[a] \in BrPodRec
  BY <1>2 DEF BrPodT
<1>7. ASSUME NEW a \in Agents, Br!Dispatch(a) PROVE P
  <2> DEFINE r == [Br!NoPod EXCEPT !.pc = "clone"]
  <2>1. r \in BrPodRec /\ Opened(r.pr)'
    BY DEF Br!NoPod, BrPodRec, Br!Heads, Opened
  <2>2. w' = [w EXCEPT ![a] = r] /\ done' \in [Agents -> Br!Heads]
    BY <1>2, <1>7 DEF Br!Dispatch, BrPodT
  <2> HIDE DEF r
  <2> QED BY <1>4, <2>1, <2>2
<1>8. ASSUME NEW a \in Agents, Br!Completes(a) \/ Br!PodDies(a) PROVE P
  <2>1. w[a].head \in Br!Heads
    BY <1>6 DEF BrPodRec
  <2>2. w' = [w EXCEPT ![a] = Br!NoPod] /\ done' \in [Agents -> Br!Heads]
    BY <1>2, <1>8, <2>1 DEF Br!Completes, Br!PodDies, BrPodT
  <2> QED BY <1>4, <1>5, <2>2
<1>9. ASSUME NEW a \in Agents, NEW p \in {"turn", "final", "pr", "set"}, NEW g \in Br!Heads, NEW h \in Br!Heads,
             NEW n \in Br!Prs \cup {Br!None}, n = w[a].pr \/ Opened(n)',
             w' = [w EXCEPT ![a] = [pc |-> p, base |-> g, head |-> h, pr |-> n]], UNCHANGED done
      PROVE  P
  <2> DEFINE r == [pc |-> p, base |-> g, head |-> h, pr |-> n]
  <2>1. r \in BrPodRec /\ r.pr = n
    BY DEF BrPodRec
  <2>2. w' = [w EXCEPT ![a] = r] /\ done' \in [Agents -> Br!Heads]
    BY <1>2, <1>9 DEF BrPodT
  <2> HIDE DEF r
  <2> QED BY <1>4, <1>9, <2>1, <2>2
<1>10. \A a \in Agents : /\ w[a].base \in Br!Heads /\ w[a].head \in Br!Heads /\ w[a].pr \in Br!Prs \cup {Br!None}
                         /\ w[a] = [pc |-> w[a].pc, base |-> w[a].base, head |-> w[a].head, pr |-> w[a].pr]
  BY <1>6 DEF BrPodRec
<1>11. ASSUME NEW a \in Agents, Br!Clone(a) PROVE P
  <2>1. PICK h \in {branch, main} : w' = [w EXCEPT ![a].pc = "turn", ![a].base = main, ![a].head = h]
    BY <1>11 DEF Br!Clone
  <2>2. UNCHANGED done /\ h \in Br!Heads /\ main \in Br!Heads
    BY <1>2, <1>11 DEF Br!Clone, BrHeadT
  <2> DEFINE r == [w[a] EXCEPT !.pc = "turn", !.base = main, !.head = h]
  <2>3. r \in BrPodRec /\ r.pr = w[a].pr
    BY <1>6, <2>2 DEF BrPodRec
  <2>4. w' = [w EXCEPT ![a] = r] /\ done' \in [Agents -> Br!Heads]
    BY <1>2, <2>1, <2>2 DEF BrPodT
  <2> HIDE DEF r
  <2> QED BY <1>4, <2>3, <2>4
<1>12. ASSUME NEW a \in Agents, Br!Works(a) PROVE P
  <2>1. {last + 1} \in Br!Heads /\ \A G, H \in Br!Heads : G \cup H \in Br!Heads
    BY <1>2, <1>12 DEF Br!Works, Br!Commit, Br!Heads, Br!Root, BrHeadT
  <2>2. \/ w' = [w EXCEPT ![a] = [pc |-> "turn", base |-> w[a].base, head |-> w[a].head \cup {last + 1}, pr |-> w[a].pr]]
        \/ w' = [w EXCEPT ![a] = [pc |-> "turn", base |-> main, head |-> w[a].head \cup main \cup {last + 1}, pr |-> w[a].pr]]
    BY <1>2, <1>10, <1>12 DEF Br!Works, BrPodT
  <2>3. UNCHANGED done
    BY <1>12 DEF Br!Works
  <2>4. w[a].head \cup {last + 1} \in Br!Heads /\ w[a].head \cup main \cup {last + 1} \in Br!Heads /\ main \in Br!Heads
    BY <1>2, <1>10, <2>1 DEF BrHeadT
  <2>5. CASE w' = [w EXCEPT ![a] = [pc |-> "turn", base |-> w[a].base, head |-> w[a].head \cup {last + 1}, pr |-> w[a].pr]]
    BY <1>9, <1>10, <2>3, <2>4, <2>5
  <2>6. CASE w' = [w EXCEPT ![a] = [pc |-> "turn", base |-> main, head |-> w[a].head \cup main \cup {last + 1}, pr |-> w[a].pr]]
    BY <1>9, <1>10, <2>3, <2>4, <2>6
  <2> QED BY <2>2, <2>5, <2>6
<1>13. ASSUME NEW a \in Agents, Br!Pushes(a) PROVE P
  <2>1. PICK p \in {"pr", "final"} : w' = [w EXCEPT ![a].pc = p]
    BY <1>13 DEF Br!Pushes
  <2>2. w' = [w EXCEPT ![a] = [pc |-> p, base |-> w[a].base, head |-> w[a].head, pr |-> w[a].pr]]
    <3>1. [w[a] EXCEPT !.pc = p] = [pc |-> p, base |-> w[a].base, head |-> w[a].head, pr |-> w[a].pr]
      BY <1>6 DEF BrPodRec
    <3> QED BY <2>1, <3>1
  <2>3. UNCHANGED done
    BY <1>13 DEF Br!Pushes
  <2> QED BY <1>9, <1>10, <2>2, <2>3
<1>14. ASSUME NEW a \in Agents, Br!OpensPr(a) PROVE P
  <2>1. PICK n \in Br!Prs \cup {Br!None} :
               Br!EnsurePullRequest(n) /\ w' = [w EXCEPT ![a].pr = n, ![a].pc = IF n = Br!None THEN "final" ELSE "set"]
    BY <1>14 DEF Br!OpensPr
  <2>2. Opened(n)'
    BY <1>2, <2>1, Ensured DEF Opened
  <2>3. w' = [w EXCEPT ![a] = [pc |-> IF n = Br!None THEN "final" ELSE "set", base |-> w[a].base, head |-> w[a].head,
                               pr |-> n]] /\ UNCHANGED done
    BY <1>2, <1>10, <1>14, <2>1 DEF Br!OpensPr, BrPodT
  <2>4. (IF n = Br!None THEN "final" ELSE "set") \in {"turn", "final", "pr", "set"}
    OBVIOUS
  <2> QED BY <1>9, <1>10, <2>2, <2>3, <2>4
<1>15. ASSUME NEW a \in Agents, Br!SetAgentPullRequest(a) PROVE P
  <2>1. UNCHANGED done
    BY <1>15 DEF Br!SetAgentPullRequest
  <2>2. PICK p \in {"turn", "final", "pr", "set"} : w' = [w EXCEPT ![a].pc = p]
    BY <1>15 DEF Br!SetAgentPullRequest
  <2>3. w' = [w EXCEPT ![a] = [pc |-> p, base |-> w[a].base, head |-> w[a].head, pr |-> w[a].pr]]
    <3>1. [w[a] EXCEPT !.pc = p] = [pc |-> p, base |-> w[a].base, head |-> w[a].head, pr |-> w[a].pr]
      BY <1>6 DEF BrPodRec
    <3> QED BY <2>2, <3>1
  <2> QED BY <1>9, <1>10, <2>1, <2>3
<1>16. ASSUME NEW a \in Agents,
              \/ Br!CreateAgent(a) \/ Br!ResolveOpenPrByBranch(a) \/ Br!EnsureAdoptedPrNumber(a) \/ Br!SendInput(a)
              \/ Br!SyncMainClean(a) \/ Br!SyncMainByAgent(a) \/ Br!MergePr(a) \/ Br!ReviewerEnds(a)
              \/ \E c \in Handbacks : Br!HandbackReads(c, a)
       PROVE  UNCHANGED <<w, done>>
  BY <1>16 DEF Br!CreateAgent, Br!ResolveOpenPrByBranch, Br!EnsureAdoptedPrNumber, Br!SendInput, Br!SyncMainClean,
               Br!SyncMainByAgent, Br!MergePr, Br!ReviewerEnds, Br!HandbackReads
<1>17. ASSUME \/ Br!MainMoves \/ Br!EnsureRemoteBranch \/ Br!PersonPushes \/ UNCHANGED Br!vars
              \/ \E c \in Handbacks : \/ Br!HandbackOpensPr(c) \/ Br!HandbackWrites(c)
                                      \/ Br!HandbackChecks(c) \/ Br!HandbackDispatchesReview(c)
       PROVE  UNCHANGED <<w, done>>
  BY <1>17 DEF Br!MainMoves, Br!EnsureRemoteBranch, Br!PersonPushes, Br!vars, Br!HandbackOpensPr,
               Br!HandbackWrites, Br!HandbackChecks, Br!HandbackDispatchesReview
<1> HIDE DEF P
<1> QED BY <1>3, <1>7, <1>8, <1>11, <1>12, <1>13, <1>14, <1>15, <1>16, <1>17 DEF Br!Next, P

\* So do the hand-backs.
LEMMA BrCallsKeep ==
    ASSUME BrInv, [Br!Next]_(Br!vars)
    PROVE  BrCallT' /\ BrCallOK'
<1>1. \A n : Opened(n) => Opened(n)'
  BY PrStep, PrsKeep DEF BrInv, BrTyped
<1>2. BrPrT /\ BrRowT /\ BrRowOK /\ BrCallT /\ BrCallOK
  BY DEF BrInv, BrTyped
<1> DEFINE P == BrCallT' /\ BrCallOK'
<1>3. ASSUME UNCHANGED hb, reviewers' \in [Agents -> Nat] PROVE P
  BY <1>1, <1>2, <1>3 DEF BrCallT, BrCallOK
<1>4. ASSUME NEW c \in Handbacks, NEW r \in BrCallRec, hb' = [hb EXCEPT ![c] = r], reviewers' \in [Agents -> Nat],
             r.pr = hb[c].pr \/ Opened(r.pr)', r.old = hb[c].old \/ Opened(r.old)',
             r.pc # "none" => r.agent \in Agents
      PROVE  P
  <2>1. BrCallT'
    BY <1>2, <1>4 DEF BrCallT
  <2>2. ASSUME NEW d \in Handbacks
        PROVE  Opened(hb[d].pr)' /\ Opened(hb[d].old)' /\ (hb'[d].pc # "none" => hb'[d].agent \in Agents)
    <3>1. CASE d = c
      BY <1>1, <1>2, <1>4, <3>1 DEF BrCallT, BrCallOK, Opened
    <3>2. CASE d # c
      BY <1>1, <1>2, <1>4, <3>2 DEF BrCallT, BrCallOK, Opened
    <3> QED BY <3>1, <3>2
  <2> QED BY <2>1, <2>2 DEF BrCallOK
<1>5. Br!NoHandback \in BrCallRec /\ Br!NoHandback.pc = "none" /\ Opened(Br!NoHandback.pr)' /\ Opened(Br!NoHandback.old)'
  BY DEF Br!NoHandback, BrCallRec, BrStates, Opened
<1>6. reviewers \in [Agents -> Nat] /\ \A c \in Handbacks : hb[c] \in BrCallRec
  BY <1>2 DEF BrCallT
<1>7. ASSUME NEW c \in Handbacks, NEW a \in Agents, Br!HandbackReads(c, a) PROVE P
  <2>1. PICK r : r = [pc |-> "pr", agent |-> a, state |-> row[a].state, old |-> row[a].pr, pr |-> Br!None]
    OBVIOUS
  <2>2. r \in BrCallRec /\ r.agent = a
    BY <1>2, <2>1 DEF BrRowT, BrRowRec, BrCallRec
  <2>3. hb' = [hb EXCEPT ![c] = r] /\ reviewers' = reviewers
    BY <1>7, <2>1 DEF Br!HandbackReads
  <2>4. Opened(r.pr)' /\ Opened(r.old)'
    <3>1. Opened(r.pr) /\ Opened(r.old)
      BY <1>2, <2>1 DEF BrRowOK, Opened
    <3> QED BY <1>1, <3>1
  <2> QED BY <1>4, <1>6, <2>2, <2>3, <2>4
<1>8. ASSUME NEW c \in Handbacks, NEW p \in {"pr", "write", "checks", "review"}, NEW n \in Br!Prs \cup {Br!None},
             n = hb[c].pr \/ Opened(n)', hb[c].pc # "none",
             hb' = [hb EXCEPT ![c].pc = p, ![c].pr = n], reviewers' \in [Agents -> Nat]
      PROVE  P
  <2> DEFINE r == [hb[c] EXCEPT !.pc = p, !.pr = n]
  <2>1. r \in BrCallRec /\ r.pr = n /\ r.old = hb[c].old /\ r.agent = hb[c].agent
    BY <1>6 DEF BrCallRec
  <2>2. hb' = [hb EXCEPT ![c] = r] /\ hb[c].agent \in Agents
    BY <1>2, <1>8 DEF BrCallT, BrCallOK
  <2> HIDE DEF r
  <2> QED BY <1>4, <1>8, <2>1, <2>2
<1>9. ASSUME NEW c \in Handbacks, Br!HandbackOpensPr(c) PROVE P
  <2>1. PICK n \in Br!Prs \cup {Br!None} :
          /\ Br!EnsurePullRequest(n)
          /\ hb' = [hb EXCEPT ![c] = IF n = Br!None THEN Br!NoHandback ELSE [hb[c] EXCEPT !.pc = "write", !.pr = n]]
    BY <1>9 DEF Br!HandbackOpensPr
  <2>2. Opened(n)' /\ hb[c].pc = "pr" /\ UNCHANGED reviewers
    BY <1>2, <1>9, <2>1, Ensured DEF Opened, Br!HandbackOpensPr
  <2>3. CASE n = Br!None
    BY <1>4, <1>5, <1>6, <2>1, <2>2, <2>3
  <2>4. CASE n # Br!None
    <3>1. hb' = [hb EXCEPT ![c].pc = "write", ![c].pr = n]
      BY <2>1, <2>4
    <3> QED BY <1>6, <1>8, <2>2, <3>1
  <2> QED BY <2>3, <2>4
<1>10. ASSUME NEW c \in Handbacks, NEW p \in {"checks", "review"}, hb[c].pc # "none",
              hb' = [hb EXCEPT ![c].pc = p], reviewers' \in [Agents -> Nat]
       PROVE  P
  <2>1. hb' = [hb EXCEPT ![c].pc = p, ![c].pr = hb[c].pr] /\ hb[c].pr \in Br!Prs \cup {Br!None}
    BY <1>2, <1>6, <1>10 DEF BrCallRec, BrCallT
  <2> QED BY <1>8, <1>10, <2>1
<1>11. ASSUME NEW c \in Handbacks, Br!HandbackWrites(c) PROVE P
  BY <1>6, <1>10, <1>11 DEF Br!HandbackWrites
<1>12. ASSUME NEW c \in Handbacks, hb' = [hb EXCEPT ![c] = Br!NoHandback], reviewers' \in [Agents -> Nat] PROVE P
  BY <1>4, <1>5, <1>12
<1>13. ASSUME NEW c \in Handbacks, Br!HandbackChecks(c) PROVE P
  <2>1. hb' = [hb EXCEPT ![c] = Br!NoHandback] \/ hb' = [hb EXCEPT ![c].pc = "review"]
    BY <1>13 DEF Br!HandbackChecks
  <2>2. hb[c].pc # "none" /\ reviewers' = reviewers
    BY <1>13 DEF Br!HandbackChecks
  <2> QED BY <1>6, <1>10, <1>12, <2>1, <2>2
<1>14. ASSUME NEW c \in Handbacks, Br!HandbackDispatchesReview(c) PROVE P
  <2>1. reviewers' \in [Agents -> Nat] /\ hb' = [hb EXCEPT ![c] = Br!NoHandback]
    BY <1>2, <1>6, <1>14 DEF Br!HandbackDispatchesReview, BrCallOK
  <2> QED BY <1>12, <2>1
<1>15. ASSUME NEW a \in Agents, Br!ReviewerEnds(a) PROVE P
  <2>1. reviewers' \in [Agents -> Nat] /\ UNCHANGED hb
    BY <1>6, <1>15 DEF Br!ReviewerEnds
  <2> QED BY <1>3, <2>1
<1>16. ASSUME NEW a \in Agents,
              \/ Br!CreateAgent(a) \/ Br!ResolveOpenPrByBranch(a) \/ Br!EnsureAdoptedPrNumber(a) \/ Br!SendInput(a)
              \/ Br!Dispatch(a) \/ Br!Clone(a) \/ Br!Works(a) \/ Br!Pushes(a) \/ Br!OpensPr(a)
              \/ Br!SetAgentPullRequest(a) \/ Br!Completes(a) \/ Br!PodDies(a)
              \/ Br!SyncMainClean(a) \/ Br!SyncMainByAgent(a) \/ Br!MergePr(a)
       PROVE  UNCHANGED <<hb, reviewers>>
  BY <1>16 DEF Br!CreateAgent, Br!ResolveOpenPrByBranch, Br!EnsureAdoptedPrNumber, Br!SendInput, Br!Dispatch,
               Br!Clone, Br!Works, Br!Pushes, Br!OpensPr, Br!SetAgentPullRequest, Br!Completes, Br!PodDies,
               Br!SyncMainClean, Br!SyncMainByAgent, Br!MergePr
<1>17. ASSUME Br!MainMoves \/ Br!EnsureRemoteBranch \/ Br!PersonPushes \/ UNCHANGED Br!vars
       PROVE  UNCHANGED <<hb, reviewers>>
  BY <1>17 DEF Br!MainMoves, Br!EnsureRemoteBranch, Br!PersonPushes, Br!vars
<1> HIDE DEF P
<1> QED BY <1>3, <1>6, <1>7, <1>9, <1>11, <1>13, <1>14, <1>15, <1>16, <1>17 DEF Br!Next, P

-----------------------------------------------------------------------------
LEMMA BrInvInit == ASSUME MaxCommits \in Nat PROVE Br!Init => BrInv
<1> SUFFICES ASSUME Br!Init PROVE BrInv
  OBVIOUS
<1> USE DEF Br!Init
<1>1. BrHeadT /\ BrPrT
  BY DEF BrHeadT, BrPrT, Br!Heads, Br!Root
<1>2. BrRowT /\ BrRowOK
  BY DEF BrRowT, BrRowRec, BrRowOK, BrStates, Opened
<1>3. BrPodT /\ BrPodOK
  BY DEF BrPodT, BrPodRec, BrPodOK, Opened, Br!NoPod, Br!Heads
<1>4. BrCallT /\ BrCallOK
  BY DEF BrCallT, BrCallRec, BrCallOK, BrStates, Opened, Br!NoHandback
<1>5. OneOpen
  BY DEF OneOpen, Br!OpenPrs
<1> QED BY <1>1, <1>2, <1>3, <1>4, <1>5 DEF BrInv, BrTyped

LEMMA BrInvStep == ASSUME MaxCommits \in Nat PROVE BrInv /\ [Br!Next]_(Br!vars) => BrInv'
<1> SUFFICES ASSUME BrInv, [Br!Next]_(Br!vars) PROVE BrInv'
  OBVIOUS
<1>1. BrHeadT' /\ BrPrT' /\ OneOpen'
  BY BrHeadStep, PrStep, PrsKeep DEF BrInv, BrTyped
<1> QED BY <1>1, BrRowsKeep, BrPodsKeep, BrCallsKeep DEF BrInv, BrTyped

\* No push, merge of the base or commit of a person leaves out what the branch had: for any
\* number of agents and people that write it (sync-branch.ts:8-9).
THEOREM BranchNotRewritten == Br!Spec => Br!NothingRewritten
<1>1. ASSUME [Br!Next]_(Br!vars) PROVE branch \subseteq branch'
  <2>1. ASSUME NEW a \in Agents, Br!Pushes(a) PROVE branch \subseteq branch'
    BY <2>1 DEF Br!Pushes
  <2>2. ASSUME NEW a \in Agents, Br!SyncMainClean(a) PROVE branch \subseteq branch'
    BY <2>2 DEF Br!SyncMainClean, Br!UpdateBranch
  <2>3. CASE Br!PersonPushes \/ Br!EnsureRemoteBranch
    BY <2>3 DEF Br!PersonPushes, Br!EnsureRemoteBranch
  <2>4. ASSUME NEW a \in Agents,
               \/ Br!CreateAgent(a) \/ Br!ResolveOpenPrByBranch(a) \/ Br!EnsureAdoptedPrNumber(a) \/ Br!SendInput(a)
               \/ Br!Dispatch(a) \/ Br!Clone(a) \/ Br!Works(a) \/ Br!OpensPr(a) \/ Br!SetAgentPullRequest(a)
               \/ Br!Completes(a) \/ Br!PodDies(a) \/ Br!SyncMainByAgent(a) \/ Br!MergePr(a) \/ Br!ReviewerEnds(a)
               \/ \E c \in Handbacks : Br!HandbackReads(c, a)
        PROVE  UNCHANGED branch
    BY <2>4 DEF Br!CreateAgent, Br!ResolveOpenPrByBranch, Br!EnsureAdoptedPrNumber, Br!SendInput, Br!Dispatch,
                Br!Clone, Br!Works, Br!OpensPr, Br!SetAgentPullRequest, Br!Completes, Br!PodDies,
                Br!SyncMainByAgent, Br!MergePr, Br!ReviewerEnds, Br!HandbackReads
  <2>5. ASSUME \/ Br!MainMoves \/ UNCHANGED Br!vars
               \/ \E c \in Handbacks : \/ Br!HandbackOpensPr(c) \/ Br!HandbackWrites(c)
                                       \/ Br!HandbackChecks(c) \/ Br!HandbackDispatchesReview(c)
        PROVE  UNCHANGED branch
    BY <2>5 DEF Br!MainMoves, Br!vars, Br!HandbackOpensPr, Br!HandbackWrites, Br!HandbackChecks,
                Br!HandbackDispatchesReview
  <2> QED BY <1>1, <2>1, <2>2, <2>3, <2>4, <2>5 DEF Br!Next
<1>2. [Br!Next]_(Br!vars) => [branch \subseteq branch']_(Br!vars)
  BY <1>1
<1> QED BY <1>2, PTL DEF Br!Spec, Br!NothingRewritten

\* Writers that both open the pull request of a branch get the same one, and no row names one
\* that was never opened: for any number of agents and hand-backs (github.ts:352-357).
THEOREM OneBranchPullRequest == ASSUME MaxCommits \in Nat PROVE Br!Spec => []Br!OnePullRequest
<1>1. BrInv => Br!OnePullRequest
  <2> SUFFICES ASSUME BrInv PROVE Br!OnePullRequest
    OBVIOUS
  <2>1. Br!OpenPrs = {} \/ \E n : Br!OpenPrs = {n}
    BY DEF BrInv, OneOpen
  <2>2. Cardinality(Br!OpenPrs) \in 0..1
    <3>1. CASE Br!OpenPrs = {}
      BY <3>1, FS_EmptySet
    <3>2. ASSUME NEW n, Br!OpenPrs = {n} PROVE Cardinality(Br!OpenPrs) = 1
      BY <3>2, FS_Singleton
    <3> QED BY <2>1, <3>1, <3>2
  <2>3. \A a \in Agents : row[a].pr = Br!None \/ pr[row[a].pr] # "none"
    BY DEF BrInv, BrRowOK, Opened
  <2>4. Br!Cardinality(Br!OpenPrs) = Cardinality(Br!OpenPrs)
    BY DEF Br!Cardinality, Cardinality
  <2> QED BY <2>2, <2>3, <2>4 DEF Br!OnePullRequest
<1> QED BY <1>1, BrInvInit, BrInvStep, PTL DEF Br!Spec

-----------------------------------------------------------------------------
\* Whose pod is there, is running.
AtWork == \A a \in Agents : w[a].pc # "none" => row[a].state = "running"

\* Without hand-backs nobody closes a change whose pod is at work, whoever else writes the
\* branch or sends it back to the queue (handback.ts:46-50 is the one that does).
LEMMA AtWorkStep ==
    ASSUME Handbacks = {}, BrRowT, BrPodT, AtWork, [Br!Next]_(Br!vars)
    PROVE  AtWork'
<1> SUFFICES ASSUME NEW a \in Agents, w'[a].pc # "none" PROVE row'[a].state = "running"
  BY DEF AtWork
<1> USE DEF BrRowT, BrRowRec, BrPodT, BrPodRec, AtWork
<1>1. ASSUME NEW b \in Agents, Br!CreateAgent(b) \/ Br!SendInput(b) \/ Br!Dispatch(b) \/ Br!SyncMainByAgent(b)
      PROVE  row'[a].state = "running"
  BY <1>1 DEF Br!CreateAgent, Br!SendInput, Br!Dispatch, Br!SyncMainByAgent, Br!Queues, Br!Exists
<1>2. ASSUME NEW b \in Agents, Br!Completes(b) \/ Br!PodDies(b) \/ Br!MergePr(b)
      PROVE  row'[a].state = "running"
  BY <1>2 DEF Br!Completes, Br!PodDies, Br!MergePr, Br!NoPod
<1>3. ASSUME NEW b \in Agents, Br!Clone(b) \/ Br!Works(b) \/ Br!Pushes(b) \/ Br!OpensPr(b)
      PROVE  row'[a].state = "running"
  <2>1. UNCHANGED row /\ w[a].pc # "none"
    BY <1>3 DEF Br!Clone, Br!Works, Br!Pushes, Br!OpensPr
  <2> QED BY <2>1
<1>4. ASSUME NEW b \in Agents, Br!SetAgentPullRequest(b) \/ Br!EnsureAdoptedPrNumber(b)
      PROVE  row'[a].state = "running"
  <2>1. row'[a].state = row[a].state /\ w[a].pc # "none"
    BY <1>4 DEF Br!SetAgentPullRequest, Br!EnsureAdoptedPrNumber
  <2> QED BY <2>1
<1>5. ASSUME NEW b \in Agents, Br!ResolveOpenPrByBranch(b) \/ Br!SyncMainClean(b) \/ Br!ReviewerEnds(b)
      PROVE  UNCHANGED <<row, w>>
  BY <1>5 DEF Br!ResolveOpenPrByBranch, Br!SyncMainClean, Br!ReviewerEnds
<1>6. ASSUME Br!MainMoves \/ Br!EnsureRemoteBranch \/ Br!PersonPushes \/ UNCHANGED Br!vars
      PROVE  UNCHANGED <<row, w>>
  BY <1>6 DEF Br!MainMoves, Br!EnsureRemoteBranch, Br!PersonPushes, Br!vars
<1> QED BY <1>1, <1>2, <1>3, <1>4, <1>5, <1>6 DEF Br!Next

\* Without hand-backs, a change whose pod is at work is not shown completed.
THEOREM AtWorkHolds ==
    ASSUME MaxCommits \in Nat, Handbacks = {} PROVE Br!Spec => []Br!AtWorkIsNotCompleted
<1>1. Br!Init => AtWork
  BY DEF Br!Init, AtWork, Br!NoPod
<1>2. BrInv /\ AtWork /\ [Br!Next]_(Br!vars) => AtWork'
  BY AtWorkStep DEF BrInv, BrTyped
<1>3. AtWork => Br!AtWorkIsNotCompleted
  BY DEF AtWork, Br!AtWorkIsNotCompleted
<1> QED BY <1>1, <1>2, <1>3, BrInvInit, BrInvStep, PTL DEF Br!Spec

\* A hand-back that is about to ask for a review has seen no reviewer, and there is no other.
ReviewedOnce ==
    /\ \A a \in Agents : reviewers[a] <= 1
    /\ \A c \in Handbacks : hb[c].pc = "review" => reviewers[hb[c].agent] = 0

\* When hand-backs come one at a time, a change has one reviewer (handback.ts:61): the check
\* and the dispatch are two steps, and two hand-backs may both pass the check.
THEOREM OneReviewerHolds ==
    ASSUME MaxCommits \in Nat, \A c, d \in Handbacks : c = d PROVE Br!Spec => []Br!OneReviewer
<1>1. Br!Init => ReviewedOnce
  BY DEF Br!Init, ReviewedOnce, Br!NoHandback
<1>2. BrInv /\ ReviewedOnce /\ [Br!Next]_(Br!vars) => ReviewedOnce'
  <2> SUFFICES ASSUME BrInv, ReviewedOnce, [Br!Next]_(Br!vars) PROVE ReviewedOnce'
    OBVIOUS
  <2>1. BrCallT /\ BrCallOK
    BY DEF BrInv, BrTyped
  <2> USE <2>1 DEF ReviewedOnce, BrCallT, BrCallRec, BrCallOK
  <2>2. ASSUME NEW c \in Handbacks, NEW a \in Agents, Br!HandbackReads(c, a) PROVE ReviewedOnce'
    BY <2>2 DEF Br!HandbackReads
  <2>3. ASSUME NEW c \in Handbacks, Br!HandbackOpensPr(c) \/ Br!HandbackWrites(c) PROVE ReviewedOnce'
    <3>1. UNCHANGED reviewers
      BY <2>3 DEF Br!HandbackOpensPr, Br!HandbackWrites
    <3>2. \E r : r.pc # "review" /\ hb' = [hb EXCEPT ![c] = r]
      <4>1. CASE Br!HandbackWrites(c)
        <5>1. hb' = [hb EXCEPT ![c] = [hb[c] EXCEPT !.pc = "checks"]]
          BY <4>1 DEF Br!HandbackWrites
        <5>2. hb[c] \in BrCallRec => [hb[c] EXCEPT !.pc = "checks"].pc = "checks"
          OBVIOUS
        <5> QED BY <5>1, <5>2
      <4>2. CASE Br!HandbackOpensPr(c)
        <5>1. PICK n : hb' = [hb EXCEPT ![c] = IF n = Br!None THEN Br!NoHandback
                                                ELSE [hb[c] EXCEPT !.pc = "write", !.pr = n]]
          BY <4>2 DEF Br!HandbackOpensPr
        <5>2. [hb[c] EXCEPT !.pc = "write", !.pr = n].pc = "write" /\ Br!NoHandback.pc = "none"
          BY DEF Br!NoHandback
        <5> QED BY <5>1, <5>2
      <4> QED BY <2>3, <4>1, <4>2
    <3> QED BY <3>1, <3>2
  <2>4. ASSUME NEW c \in Handbacks, Br!HandbackChecks(c) PROVE ReviewedOnce'
    BY <2>4 DEF Br!HandbackChecks, Br!NoHandback
  <2>5. ASSUME NEW c \in Handbacks, Br!HandbackDispatchesReview(c) PROVE ReviewedOnce'
    BY <2>5 DEF Br!HandbackDispatchesReview, Br!NoHandback
  <2>6. ASSUME NEW a \in Agents, Br!ReviewerEnds(a) PROVE ReviewedOnce'
    BY <2>6 DEF Br!ReviewerEnds
  <2>7. ASSUME NEW a \in Agents,
               \/ Br!CreateAgent(a) \/ Br!ResolveOpenPrByBranch(a) \/ Br!EnsureAdoptedPrNumber(a) \/ Br!SendInput(a)
               \/ Br!Dispatch(a) \/ Br!Clone(a) \/ Br!Works(a) \/ Br!Pushes(a) \/ Br!OpensPr(a)
               \/ Br!SetAgentPullRequest(a) \/ Br!Completes(a) \/ Br!PodDies(a)
               \/ Br!SyncMainClean(a) \/ Br!SyncMainByAgent(a) \/ Br!MergePr(a)
        PROVE  UNCHANGED <<hb, reviewers>>
    BY <2>7 DEF Br!CreateAgent, Br!ResolveOpenPrByBranch, Br!EnsureAdoptedPrNumber, Br!SendInput, Br!Dispatch,
                Br!Clone, Br!Works, Br!Pushes, Br!OpensPr, Br!SetAgentPullRequest, Br!Completes, Br!PodDies,
                Br!SyncMainClean, Br!SyncMainByAgent, Br!MergePr
  <2>8. ASSUME Br!MainMoves \/ Br!EnsureRemoteBranch \/ Br!PersonPushes \/ UNCHANGED Br!vars
        PROVE  UNCHANGED <<hb, reviewers>>
    BY <2>8 DEF Br!MainMoves, Br!EnsureRemoteBranch, Br!PersonPushes, Br!vars
  <2>9. ASSUME UNCHANGED <<hb, reviewers>> PROVE ReviewedOnce'
    BY <2>9
  <2> QED BY <2>2, <2>3, <2>4, <2>5, <2>6, <2>7, <2>8, <2>9 DEF Br!Next
<1>3. ReviewedOnce => Br!OneReviewer
  BY DEF ReviewedOnce, Br!OneReviewer
<1> QED BY <1>1, <1>2, <1>3, BrInvInit, BrInvStep, PTL DEF Br!Spec

-----------------------------------------------------------------------------
\* No head has a commit that was not made yet.
Made == /\ main \subseteq 0..last /\ branch \subseteq 0..last
        /\ \A a \in Agents : w[a].base \subseteq 0..last /\ w[a].head \subseteq 0..last

\* A pull request is open on what the base does not have.
OpenAhead == Br!OpenPrs # {} => ~(branch \subseteq main)

\* What a pod has: as it works, the branch, unless that has nothing for the base; and if it is
\* not ahead of its base it is on the branch, or the branch is not there yet. After its push it
\* is on the branch, unless that has nothing for the base.
PodKeeps(a) ==
    /\ w[a].pc = "turn" => /\ branch \subseteq w[a].head \/ branch \subseteq main
                           /\ w[a].head \subseteq w[a].base =>
                                w[a].head \subseteq branch \/ (branch = {} /\ w[a].head \subseteq main)
    /\ w[a].pc \in {"pr", "set", "final"} => w[a].head \subseteq branch \/ branch \subseteq main

\* What an agent completed with is on the branch, unless no pull request is open; once merged
\* it has landed.
DoneKept(a) ==
    /\ row[a].state = "completed" => done[a] \subseteq branch \/ Br!OpenPrs = {}
    /\ row[a].state = "verified" => done[a] \subseteq landed

WorkKept == Made /\ OpenAhead /\ \A a \in Agents : PodKeeps(a) /\ DoneKept(a)

LEMMA MadeStep ==
    ASSUME MaxCommits \in Nat, BrHeadT, BrPodT, Made, [Br!Next]_(Br!vars)
    PROVE  Made' /\ last' \in {last, last + 1} /\ (last' = last + 1 => last + 1 \notin 0..last)
<1> DEFINE P == Made' /\ last' \in {last, last + 1}
<1>1. last \in Nat /\ 0..last \subseteq 0..(last + 1) /\ last + 1 \in 0..(last + 1) /\ last + 1 \notin 0..last
  BY DEF BrHeadT
<1>2. ASSUME Br!Commit PROVE last' = last + 1
  BY <1>2 DEF Br!Commit
<1>3. w \in [Agents -> BrPodRec]
  BY DEF BrPodT
<1> USE DEF Made
<1>4. CASE Br!MainMoves \/ Br!PersonPushes
  BY <1>1, <1>2, <1>4 DEF Br!MainMoves, Br!PersonPushes
<1>5. ASSUME NEW a \in Agents, Br!MergePr(a) PROVE P
  BY <1>1, <1>2, <1>5 DEF Br!MergePr
<1>6. ASSUME NEW a \in Agents, Br!SyncMainClean(a) PROVE P
  <2>1. UNCHANGED <<main, w>> /\ Br!UpdateBranch
    BY <1>6 DEF Br!SyncMainClean
  <2>2. CASE UNCHANGED <<branch, last>>
    BY <2>1, <2>2
  <2>3. CASE Br!Commit /\ branch' = branch \cup main \cup {last + 1}
    <3>1. last' = last + 1 /\ branch' \subseteq 0..last'
      BY <1>1, <1>2, <2>3
    <3> QED BY <1>1, <2>1, <3>1
  <2> QED BY <2>1, <2>2, <2>3 DEF Br!UpdateBranch
<1>7. ASSUME NEW a \in Agents, NEW g, NEW h, g \subseteq 0..last', h \subseteq 0..last',
             w' = [w EXCEPT ![a].base = g, ![a].head = h], last' \in {last, last + 1}, UNCHANGED <<main, branch>>
      PROVE  P
  <2>1. \A b \in Agents : /\ w'[b].base = g \/ w'[b].base = w[b].base
                          /\ w'[b].head = h \/ w'[b].head = w[b].head
    BY <1>3, <1>7 DEF BrPodRec
  <2>2. 0..last \subseteq 0..last'
    BY <1>1, <1>7
  <2> QED BY <1>7, <2>1, <2>2
<1>8. ASSUME NEW a \in Agents, Br!Works(a) PROVE P
  <2>1. last' = last + 1 /\ UNCHANGED <<main, branch>>
    BY <1>2, <1>8 DEF Br!Works
  <2>2. \/ w' = [w EXCEPT ![a].base = w[a].base, ![a].head = w[a].head \cup {last + 1}]
        \/ w' = [w EXCEPT ![a].base = main, ![a].head = w[a].head \cup main \cup {last + 1}]
    BY <1>3, <1>8 DEF Br!Works, BrPodRec
  <2>3. w[a].base \subseteq 0..last' /\ w[a].head \cup {last + 1} \subseteq 0..last'
        /\ main \subseteq 0..last' /\ w[a].head \cup main \cup {last + 1} \subseteq 0..last'
    BY <1>1, <2>1
  <2>4. CASE w' = [w EXCEPT ![a].base = w[a].base, ![a].head = w[a].head \cup {last + 1}]
    BY <1>7, <2>1, <2>3, <2>4
  <2>5. CASE w' = [w EXCEPT ![a].base = main, ![a].head = w[a].head \cup main \cup {last + 1}]
    BY <1>7, <2>1, <2>3, <2>5
  <2> QED BY <2>2, <2>4, <2>5
<1>9. ASSUME NEW a \in Agents, Br!Clone(a) PROVE P
  <2>1. w' = [w EXCEPT ![a].pc = "turn", ![a].base = main, ![a].head = IF branch # {} THEN branch ELSE main]
        /\ UNCHANGED <<main, branch, last>>
    BY <1>9 DEF Br!Clone
  <2> QED BY <1>1, <1>3, <2>1 DEF BrPodRec
<1>10. ASSUME NEW a \in Agents, Br!Pushes(a) PROVE P
  BY <1>3, <1>10 DEF Br!Pushes, BrPodRec
<1>11. ASSUME NEW a \in Agents, Br!OpensPr(a) \/ Br!SetAgentPullRequest(a) PROVE P
  <2>1. UNCHANGED <<main, branch, last>>
    BY <1>11 DEF Br!OpensPr, Br!SetAgentPullRequest
  <2>2. \/ w' = [w EXCEPT ![a].pc = "final"]
        \/ \E n, p : w' = [w EXCEPT ![a].pr = n, ![a].pc = p]
    BY <1>11 DEF Br!OpensPr, Br!SetAgentPullRequest
  <2>3. ASSUME NEW n, NEW p, w' = [w EXCEPT ![a].pr = n, ![a].pc = p]
        PROVE  \A b \in Agents : w'[b].base = w[b].base /\ w'[b].head = w[b].head
    BY <1>3, <2>3 DEF BrPodRec
  <2>4. \A b \in Agents : w'[b].base = w[b].base /\ w'[b].head = w[b].head
    <3>1. CASE w' = [w EXCEPT ![a].pc = "final"]
      BY <1>3, <3>1 DEF BrPodRec
    <3> QED BY <2>2, <2>3, <3>1
  <2> QED BY <2>1, <2>4
<1>12. ASSUME NEW a \in Agents, Br!Completes(a) \/ Br!PodDies(a) \/ Br!Dispatch(a) PROVE P
  BY <1>3, <1>12 DEF Br!Completes, Br!PodDies, Br!Dispatch, Br!NoPod, BrPodRec
<1>13. ASSUME NEW a \in Agents,
              \/ Br!CreateAgent(a) \/ Br!ResolveOpenPrByBranch(a) \/ Br!EnsureAdoptedPrNumber(a) \/ Br!SendInput(a)
              \/ Br!SyncMainByAgent(a) \/ Br!ReviewerEnds(a) \/ \E c \in Handbacks : Br!HandbackReads(c, a)
       PROVE  P
  BY <1>13 DEF Br!CreateAgent, Br!ResolveOpenPrByBranch, Br!EnsureAdoptedPrNumber, Br!SendInput,
               Br!SyncMainByAgent, Br!ReviewerEnds, Br!HandbackReads
<1>14. ASSUME \/ Br!EnsureRemoteBranch \/ UNCHANGED Br!vars
              \/ \E c \in Handbacks : \/ Br!HandbackOpensPr(c) \/ Br!HandbackWrites(c)
                                      \/ Br!HandbackChecks(c) \/ Br!HandbackDispatchesReview(c)
       PROVE  P
  BY <1>14 DEF Br!EnsureRemoteBranch, Br!vars, Br!HandbackOpensPr, Br!HandbackWrites, Br!HandbackChecks,
               Br!HandbackDispatchesReview
<1> QED BY <1>1, <1>4, <1>5, <1>6, <1>8, <1>9, <1>10, <1>11, <1>12, <1>13, <1>14 DEF Br!Next

\* One agent, and nobody else that writes the branch while its pod has it.
LEMMA WorkStep ==
    ASSUME MaxCommits \in Nat, Handbacks = {}, Outsiders = FALSE, \A a, b \in Agents : a = b,
           BrHeadT, BrPrT, BrRowT, BrPodT, AtWork, WorkKept, [Br!Next]_(Br!vars)
    PROVE  WorkKept'
<1>1. Made /\ Made' /\ (last' = last + 1 => last + 1 \notin 0..last)
  BY MadeStep DEF WorkKept
<1>2. OpenAhead /\ \A a \in Agents : PodKeeps(a) /\ DoneKept(a)
  BY DEF WorkKept
<1> DEFINE P == OpenAhead' /\ \A a \in Agents : PodKeeps(a)' /\ DoneKept(a)'
<1>3. /\ w \in [Agents -> BrPodRec] /\ row \in [Agents -> BrRowRec] /\ done \in [Agents -> Br!Heads]
      /\ pr \in [Br!Prs -> {"none", "open", "merged"}]
  BY DEF BrPodT, BrRowT, BrPrT
<1> USE DEF PodKeeps, DoneKept, OpenAhead, Br!OpenPrs, BrPodRec, BrRowRec
<1>4. ASSUME Br!Commit PROVE last' = last + 1 /\ last + 1 \notin main /\ last + 1 \notin branch
  BY <1>1, <1>4 DEF Br!Commit, Made
<1>5. ASSUME Br!MainMoves PROVE P
  BY <1>2, <1>4, <1>5 DEF Br!MainMoves
<1>6. ASSUME Br!PersonPushes PROVE P
  <2>1. \A a \in Agents : w[a].pc = "none"
    BY <1>6 DEF Br!PersonPushes, Br!Undisturbed
  <2> QED BY <1>2, <1>4, <1>6, <2>1 DEF Br!PersonPushes
<1>7. ASSUME Br!EnsureRemoteBranch PROVE P
  BY <1>2, <1>7 DEF Br!EnsureRemoteBranch
<1>8. ASSUME NEW a \in Agents, Br!SyncMainClean(a) PROVE P
  <2>1. \A b \in Agents : w[b].pc = "none"
    BY <1>8 DEF Br!SyncMainClean, Br!Undisturbed
  <2>2. branch \subseteq branch'
    BY <1>8 DEF Br!SyncMainClean, Br!UpdateBranch
  <2>3. UNCHANGED <<main, pr, row, w, done, landed>>
    BY <1>8 DEF Br!SyncMainClean
  <2> QED BY <1>2, <2>1, <2>2, <2>3
<1>9. ASSUME NEW a \in Agents, Br!CreateAgent(a) \/ Br!SendInput(a) PROVE P
  <2>1. /\ row' = [row EXCEPT ![a].state = row'[a].state] /\ row'[a].state \in {"pending", "queued"}
        /\ UNCHANGED <<main, branch, pr, w, done, landed>>
    BY <1>3, <1>9 DEF Br!CreateAgent, Br!SendInput, Br!Queues
  <2> QED BY <1>2, <1>3, <2>1
<1>10. ASSUME NEW a \in Agents, Br!SyncMainByAgent(a) PROVE P
  <2>1. /\ row' = [row EXCEPT ![a].state = row'[a].state] /\ row'[a].state \in {"running", "queued"}
        /\ UNCHANGED <<main, branch, pr, w, done, landed>>
    BY <1>3, <1>10 DEF Br!SyncMainByAgent, Br!Queues
  <2> QED BY <1>2, <1>3, <2>1
<1>11. ASSUME NEW a \in Agents, Br!EnsureAdoptedPrNumber(a) \/ Br!SetAgentPullRequest(a) PROVE P
  <2>1. /\ \A b \in Agents : row'[b].state = row[b].state
        /\ UNCHANGED <<main, branch, pr, done, landed>>
        /\ \A b \in Agents : w'[b].head = w[b].head /\ w'[b].base = w[b].base
        /\ \A b \in Agents : w'[b].pc = w[b].pc \/ (w[b].pc = "set" /\ w'[b].pc = "final")
    BY <1>3, <1>11 DEF Br!EnsureAdoptedPrNumber, Br!SetAgentPullRequest
  <2> QED BY <1>2, <2>1
<1>12. ASSUME NEW a \in Agents, Br!Dispatch(a) PROVE P
  <2>1. /\ \A b \in Agents : row'[b].state = "running" \/ row'[b].state = row[b].state
        /\ UNCHANGED <<main, branch, pr, done, landed>>
        /\ \A b \in Agents : w'[b] = w[b] \/ w'[b].pc = "clone"
    BY <1>3, <1>12 DEF Br!Dispatch, Br!NoPod
  <2> QED BY <1>2, <2>1
<1>13. ASSUME NEW a \in Agents, Br!Clone(a) PROVE P
  <2>1. UNCHANGED <<main, branch, pr, row, done, landed>>
    BY <1>13 DEF Br!Clone
  <2>2. /\ w'[a].pc = "turn" /\ w'[a].base = main /\ w'[a].head = IF branch # {} THEN branch ELSE main
        /\ \A b \in Agents : b = a
    BY <1>3, <1>13 DEF Br!Clone
  <2> QED BY <1>2, <2>1, <2>2
<1>14. ASSUME NEW a \in Agents, Br!Works(a) PROVE P
  <2>1. UNCHANGED <<main, branch, pr, row, done, landed>> /\ w[a].pc = "turn"
    BY <1>14 DEF Br!Works
  <2>2. w'[a].pc = "turn" /\ \A b \in Agents : b = a
    BY <1>3, <1>14 DEF Br!Works
  <2>3. last + 1 \in w'[a].head /\ last + 1 \notin w'[a].base /\ w[a].head \subseteq w'[a].head
    <3>1. last + 1 \notin main /\ last + 1 \notin w[a].base
      BY <1>1, <1>4, <1>14 DEF Br!Works, Made
    <3>2. \/ w'[a].head = w[a].head \cup {last + 1} /\ w'[a].base = w[a].base
          \/ w'[a].head = w[a].head \cup main \cup {last + 1} /\ w'[a].base = main
      BY <1>3, <1>14 DEF Br!Works
    <3> QED BY <3>1, <3>2
  <2> QED BY <1>2, <2>1, <2>2, <2>3
<1>15. ASSUME NEW a \in Agents, Br!Pushes(a) PROVE P
  <2> DEFINE ahead == ~(w[a].head \subseteq w[a].base)
  <2>1. /\ UNCHANGED <<main, pr, row, done, landed>> /\ w[a].pc = "turn"
        /\ branch' = IF ahead /\ branch \subseteq w[a].head THEN w[a].head ELSE branch
    BY <1>15 DEF Br!Pushes
  <2>2. /\ w'[a].pc \in {"pr", "final"} /\ w'[a].head = w[a].head /\ \A b \in Agents : b = a
    BY <1>3, <1>15 DEF Br!Pushes
  <2>3. branch \subseteq branch'
    BY <2>1
  <2>4. w[a].head \subseteq branch' \/ branch' \subseteq main
    BY <1>2, <2>1
  <2>5. OpenAhead' /\ DoneKept(a)'
    BY <1>2, <2>1, <2>3
  <2> HIDE DEF ahead
  <2> QED BY <2>1, <2>2, <2>4, <2>5
<1>16. ASSUME NEW a \in Agents, Br!OpensPr(a) PROVE P
  <2>1. UNCHANGED <<main, branch, row, done, landed>> /\ w[a].pc = "pr"
    BY <1>16 DEF Br!OpensPr
  <2>2. w'[a].pc \in {"set", "final"} /\ w'[a].head = w[a].head /\ \A b \in Agents : b = a
    BY <1>3, <1>16 DEF Br!OpensPr
  <2>3. PICK n \in Br!Prs \cup {Br!None} : Br!EnsurePullRequest(n)
    BY <1>16 DEF Br!OpensPr
  <2>4. pr' = pr \/ ~(branch \subseteq main)
    BY <2>3 DEF Br!EnsurePullRequest
  <2>5. row[a].state = "running"
    BY <2>1 DEF AtWork
  <2> QED BY <1>2, <2>1, <2>2, <2>4, <2>5
<1>17. ASSUME NEW a \in Agents, Br!Completes(a) PROVE P
  <2>1. UNCHANGED <<main, branch, pr, landed>> /\ w[a].pc = "final"
    BY <1>17 DEF Br!Completes
  <2>2. w'[a].pc = "none" /\ done'[a] = w[a].head /\ row'[a].state = "completed" /\ \A b \in Agents : b = a
    BY <1>3, <1>17 DEF Br!Completes, Br!NoPod
  <2> QED BY <1>2, <2>1, <2>2
<1>18. ASSUME NEW a \in Agents, Br!PodDies(a) PROVE P
  <2>1. UNCHANGED <<main, branch, pr, done, landed>> /\ row[a].state = "running"
    BY <1>18 DEF Br!PodDies, AtWork
  <2>2. w'[a].pc = "none" /\ row'[a].state = "paused" /\ \A b \in Agents : b = a
    BY <1>3, <1>18, <2>1 DEF Br!PodDies, Br!NoPod
  <2> QED BY <1>2, <2>1, <2>2
<1>19. ASSUME NEW a \in Agents, Br!MergePr(a) PROVE P
  <2>1. /\ UNCHANGED <<branch, w, done>> /\ main' = main \cup {last + 1} /\ landed' = landed \cup branch
        /\ row[a].state = "completed" /\ row[a].pr \in Br!OpenPrs /\ pr' = [pr EXCEPT ![row[a].pr] = "merged"]
    BY <1>19 DEF Br!MergePr
  <2>2. row'[a].state = "verified" /\ (\A b \in Agents : b = a) /\ w[a].pc = "none"
    BY <1>3, <1>19, <2>1 DEF Br!MergePr, AtWork
  <2>3. Br!OpenPrs' \subseteq Br!OpenPrs /\ last + 1 \notin branch
    BY <1>3, <1>4, <1>19, <2>1 DEF Br!MergePr
  <2>4. OpenAhead'
    BY <1>2, <2>1, <2>3
  <2>5. PodKeeps(a)' /\ DoneKept(a)'
    BY <1>2, <2>1, <2>2
  <2> QED BY <2>2, <2>4, <2>5
<1>20. ASSUME NEW a \in Agents, Br!ResolveOpenPrByBranch(a) \/ Br!ReviewerEnds(a)
       PROVE  UNCHANGED <<main, branch, pr, row, w, done, landed>>
  BY <1>20 DEF Br!ResolveOpenPrByBranch, Br!ReviewerEnds
<1>21. ASSUME UNCHANGED <<main, branch, pr, row, w, done, landed>> PROVE P
  BY <1>2, <1>21
<1>22. UNCHANGED Br!vars => UNCHANGED <<main, branch, pr, row, w, done, landed>>
  BY DEF Br!vars
<1>23. P
  <2> HIDE DEF P
  <2> QED BY <1>5, <1>6, <1>7, <1>8, <1>9, <1>10, <1>11, <1>12, <1>13, <1>14, <1>15, <1>16, <1>17, <1>18, <1>19,
             <1>20, <1>21, <1>22 DEF Br!Next
<1> QED BY <1>1, <1>23 DEF WorkKept

\* When nobody else writes the branch, a change that was merged carries the work its agent
\* completed with, for any number of turns, deaths, commits and syncs
\* (worker/index.ts:845-847).
THEOREM WorkHasLanded ==
    ASSUME MaxCommits \in Nat, Handbacks = {}, Outsiders = FALSE, \A a, b \in Agents : a = b
    PROVE  Br!Spec => []Br!VerifiedHasLanded
<1>1. Br!Init => AtWork /\ WorkKept
  BY DEF Br!Init, AtWork, Br!NoPod, WorkKept, Made, OpenAhead, PodKeeps, DoneKept, Br!OpenPrs, Br!Root
<1>2. BrInv /\ AtWork /\ WorkKept /\ [Br!Next]_(Br!vars) => AtWork' /\ WorkKept'
  BY AtWorkStep, WorkStep DEF BrInv, BrTyped
<1>3. WorkKept => Br!VerifiedHasLanded
  BY DEF WorkKept, DoneKept, Br!VerifiedHasLanded
<1> QED BY <1>1, <1>2, <1>3, BrInvInit, BrInvStep, PTL DEF Br!Spec
================================================================================
