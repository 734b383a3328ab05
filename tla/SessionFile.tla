------------------------------ MODULE SessionFile ------------------------------
(***************************************************************************)
(* AGENT_EXECUTION=inprocess: the session of an agent - the transcript     *)
(* its turns append to, the trim that rewrites it, the fresh start that    *)
(* leaves it.                                                              *)
(***************************************************************************)
EXTENDS Naturals, Sequences, SequencesExt, FiniteSetsExt

CONSTANTS
    Keep,         \* the messages a trim keeps
    Kinds,        \* of lines: "msg" (user, assistant, result), "boundary" (a compaction), "other"
    MaxLines,     \* bound: lines ever written
    MaxTrims,     \* bound: trims
    MaxFresh,     \* bound: fresh starts
    Turns,        \* the turns that may run at once
    Quiet         \* trims and fresh starts come between turns: BOOLEAN

VARIABLES
    file, backup, \* the transcripts and their .backup files, by session
    row,          \* agents.state and agents.sdk_session_id
    turn,         \* the running turns: the session each appends to
    trim,         \* the trim in progress: what it has read
    lines, trims, fresh,
    left          \* history: sessions a fresh start has left

vars == <<file, backup, row, turn, trim, lines, trims, fresh, left>>

NoSession == 0
Sessions == 1..(MaxFresh + 1)
NoTrim == [pc |-> "none", session |-> NoSession, raw |-> <<>>]
Slack == 5
Transcript(s) == Len(s) <= MaxLines /\ \A i \in DOMAIN s : s[i].n \in 1..MaxLines /\ s[i].kind \in Kinds

TypeOK ==
    /\ \A s \in Sessions : Transcript(file[s]) /\ Transcript(backup[s])
    /\ row.state \in {"pending", "running", "waiting_input", "paused"}
    /\ row.session \in Sessions \cup {NoSession}
    /\ turn \in [Turns -> Sessions \cup {NoSession}]
    /\ trim.pc \in {"none", "backup", "write"} /\ trim.session \in Sessions \cup {NoSession}
    /\ lines \in 0..MaxLines /\ trims \in 0..MaxTrims /\ fresh \in 0..MaxFresh
    /\ left \subseteq Sessions

Init ==
    /\ file = [s \in Sessions |-> <<>>] /\ backup = [s \in Sessions |-> <<>>]
    /\ row = [state |-> "pending", session |-> NoSession]
    /\ turn = [t \in Turns |-> NoSession]
    /\ trim = NoTrim
    /\ lines = 0 /\ trims = 0 /\ fresh = 0 /\ left = {}

Running == {t \in Turns : turn[t] # NoSession}
Calm == ~Quiet \/ (Running = {} /\ trim = NoTrim)

-----------------------------------------------------------------------------
\* trimSession: the first line, the last compaction with a line before it and three after it,
\* the last Keep messages
Messages(s) == {i \in DOMAIN s : s[i].kind = "msg"}
LastMessages(s) == {i \in Messages(s) : Cardinality({j \in Messages(s) : j > i}) < Keep}
Boundaries(s) == {i \in DOMAIN s : s[i].kind = "boundary"}
AroundCompaction(s) ==
    IF Boundaries(s) = {} THEN {}
    ELSE LET c == Max(Boundaries(s)) IN {i \in DOMAIN s : c - 1 <= i /\ i <= c + 3}
TrimSession(s) ==
    IF Len(s) <= Keep + Slack THEN s
    ELSE LET kept == {s[i].n : i \in {1} \cup AroundCompaction(s) \cup LastMessages(s)}
         IN  SelectSeq(s, LAMBDA line : line.n \in kept)

-----------------------------------------------------------------------------
\* A turn resumes the row's session, or opens one; it is not started on a running agent
TurnStarts(t) ==
    /\ turn[t] = NoSession /\ row.state # "running"
    /\ trim = NoTrim \/ ~Quiet
    /\ LET s == IF row.session # NoSession THEN row.session
                ELSE CHOOSE n \in Sessions : n \notin left /\ \A m \in Sessions \ left : n <= m
       IN  turn' = [turn EXCEPT ![t] = s] /\ row' = [state |-> "running", session |-> s]
    /\ UNCHANGED <<file, backup, trim, lines, trims, fresh, left>>

Appends(t, kind) ==
    /\ t \in Running /\ lines < MaxLines
    /\ lines' = lines + 1
    /\ file' = [file EXCEPT ![turn[t]] = Append(@, [n |-> lines + 1, kind |-> kind])]
    /\ UNCHANGED <<backup, row, turn, trim, trims, fresh, left>>

\* The result writes the state and the session the turn began with
TurnEnds(t) ==
    /\ t \in Running
    /\ row' = [state |-> "waiting_input", session |-> turn[t]]
    /\ turn' = [turn EXCEPT ![t] = NoSession]
    /\ UNCHANGED <<file, backup, trim, lines, trims, fresh, left>>

\* POST fresh-start: no look at the state; startAgent follows
FreshStart ==
    /\ Calm /\ fresh < MaxFresh /\ row.session # NoSession
    /\ row' = [state |-> "pending", session |-> NoSession]
    /\ left' = left \cup {row.session}
    /\ fresh' = fresh + 1
    /\ UNCHANGED <<file, backup, turn, trim, lines, trims>>

\* POST trim: read, back up, write, and the agent is paused, whatever it was
Trims ==
    /\ Calm /\ trims < MaxTrims /\ row.session # NoSession /\ trim = NoTrim /\ file[row.session] # <<>>
    /\ trims' = trims + 1
    /\ IF Len(file[row.session]) <= Keep + Slack
          THEN row' = [row EXCEPT !.state = "paused"] /\ UNCHANGED trim
          ELSE /\ trim' = [pc |-> "backup", session |-> row.session, raw |-> file[row.session]]
               /\ UNCHANGED row
    /\ UNCHANGED <<file, backup, turn, lines, fresh, left>>

TrimBacksUp ==
    /\ trim.pc = "backup"
    /\ backup' = [backup EXCEPT ![trim.session] = trim.raw]
    /\ trim' = [trim EXCEPT !.pc = "write"]
    /\ UNCHANGED <<file, row, turn, lines, trims, fresh, left>>

TrimWrites ==
    /\ trim.pc = "write"
    /\ file' = [file EXCEPT ![trim.session] = TrimSession(trim.raw)]
    /\ row' = [row EXCEPT !.state = "paused"]
    /\ trim' = NoTrim
    /\ UNCHANGED <<backup, turn, lines, trims, fresh, left>>

Next ==
    \/ \E t \in Turns : TurnStarts(t) \/ TurnEnds(t) \/ \E kind \in Kinds : Appends(t, kind)
    \/ FreshStart \/ Trims \/ TrimBacksUp \/ TrimWrites

Spec == Init /\ [][Next]_vars

-----------------------------------------------------------------------------
\* session-trim.ts:4-7: what a trim leaves is a part of the session in its order, with its last
\* compaction and its last messages, within bounds, and a second trim finds nothing to take.
TrimKeepsContext ==
    \A s \in Sessions :
        LET f == file[s]
            t == TrimSession(f)
        IN  /\ \A i, j \in DOMAIN t : i < j => t[i].n < t[j].n
            /\ {f[i] : i \in LastMessages(f)} \subseteq ToSet(t)
            /\ Boundaries(f) # {} => f[Max(Boundaries(f))] \in ToSet(t)
            /\ Len(t) <= Keep + Slack + 1
            /\ TrimSession(t) = t

\* The lines of a session that are still somewhere.
Written(s) == {x.n : x \in ToSet(file[s]) \cup ToSet(backup[s])}

\* session-trim.ts:7 "Backs up the original file first": no line of a session is ever gone from
\* both its file and the backup.
NothingIsLost == UNION {Written(s) : s \in Sessions} = 1..lines

\* router.ts:927 "Clear the session ID so it starts fresh": the agent does not return to a
\* session that a fresh start has left.
FreshStays == row.session \notin left
=============================================================================
