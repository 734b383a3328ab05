---------------------------- MODULE WorkerTurnProofs ----------------------------
(***************************************************************************)
(* WorkerTurn: a worker that exits leaves nothing behind that it has not   *)
(* told of, and no query resumes a transcript its pod does not hold.       *)
(*                                                                         *)
(* WorkAccounted is about the last exit; what makes it hold is the way     *)
(* there. After its push a task has an empty tree or has told of it, and so*)
(* has whatever reached its end through the wip branch; only a task pushes *)
(* (WorkOK). ResumesWithTranscript is SessionOK, which the restore         *)
(* establishes and the first message of a query keeps. The bound on the    *)
(* notifications is NotesOK: each was sent for a command that is there.    *)
(***************************************************************************)
EXTENDS WorkerTurn, FiniteSetTheorems, TLAPS

WRec == [pc : {"none", "boot", "clone", "restore", "turn", "query", "save", "push", "pr", "wip", "final"},
         session : Sessions, local : SUBSET Sessions, steer : Steers \cup {0}, cut : BOOLEAN,
         output : BOOLEAN, err : BOOLEAN, tree : SUBSET {"dirty", "ahead"}, told : BOOLEAN]
RowRec == [state : {"queued", "running", "completed", "failed", "paused"}, session : Sessions]
DrainRec == [left : SUBSET Steers, cur : Steers \cup {0}]
ExitRec == [state : {"none", "completed", "failed"}, unsaved : BOOLEAN]

\* Only a query is interrupted, and by a steer that waits for its turn.
CutOK == w.cut => w.pc = "query" /\ w.steer # 0

\* From the restore on, the session of the worker is in its pod.
SessionOK == w.pc \in {"turn", "query"} /\ w.session # 0 => w.session \in w.local

\* Only a task pushes. After its push, or its wip branch, a worker has left nothing or has
\* told of it.
WorkOK ==
    /\ w.pc \in {"push", "pr"} => kind = "task"
    /\ w.pc \in {"pr", "final"} /\ kind = "task" /\ ~w.err => w.tree = {} \/ w.told
    /\ w.pc = "final" /\ kind \in {"review", "deploy"} => w.tree = {} \/ w.told

\* A transcript in a pod is of a session that some pod began.
LocalOK == 0 \notin w.local /\ (w.pc # "none" => pods # 0)

WorkerInv == w \in WRec /\ CutOK /\ SessionOK /\ WorkOK

RowT == row \in RowRec /\ shard \subseteq Sessions \ {0} /\ pods \in 0..MaxPods
ListenT == /\ listener \in {"off", "down", "on"} /\ drain \in [Drains -> DrainRec]
           /\ cmd \in [Steers -> {"none", "pending", "done"}] /\ given \subseteq Steers

\* A notification is of a command that was inserted.
Inserted == {i \in Steers : cmd[i] # "none"}
NotesOK == notes \in Nat /\ notes <= Cardinality(Inserted)

OthersT == kind \in Kinds /\ exit \in ExitRec /\ faults \in 0..MaxFaults

IInv == WorkerInv /\ LocalOK /\ RowT /\ ListenT /\ NotesOK /\ OthersT /\ WorkAccounted

-----------------------------------------------------------------------------
LEMMA Numbers == MaxPods \in Nat /\ MaxFaults \in Nat /\ Sessions \subseteq Nat /\ 0 \in Sessions
  BY BoundsNat DEF Sessions

LEMMA NoPodTyped ==
    /\ NoPod \in WRec /\ NoPod.pc = "none" /\ ~NoPod.cut
    /\ [NoPod EXCEPT !.pc = "boot"] \in WRec
    /\ [NoPod EXCEPT !.pc = "boot"].pc = "boot" /\ ~[NoPod EXCEPT !.pc = "boot"].cut
  BY Numbers DEF NoPod, WRec

LEMMA WorkerStep ==
    ASSUME WorkerInv, RowT, OthersT, ListenT, [Next]_vars
    PROVE  WorkerInv'
<1> USE DEF WorkerInv, CutOK, SessionOK, WorkOK
<1>1. CASE CreatePod
  BY <1>1, NoPodTyped DEF CreatePod
<1>2. CASE CloneFails \/ Exits \/ PodLost
  BY <1>2, NoPodTyped DEF CloneFails, Exits, PodLost, ForgetPod
<1>3. CASE Boots
  BY <1>3 DEF Boots, WRec, RowT, RowRec
<1>4. CASE Clones
  BY <1>4 DEF Clones, WRec
<1>41. CASE StartsQuery
  BY <1>41 DEF StartsQuery, WRec
<1>42. CASE EnsuresPullRequest
  BY <1>42 DEF EnsuresPullRequest, WRec
<1>5. CASE RestoresSession
  <2>1. PICK local \in SUBSET Sessions :
          w' = [w EXCEPT !.pc = "turn", !.local = local, !.session = FindSessionFile(w.session, local)]
    <3>1. PICK fails \in BOOLEAN :
            LET local == IF fails THEN {} ELSE shard \cap {w.session} IN
            w' = [w EXCEPT !.pc = "turn", !.local = local, !.session = FindSessionFile(w.session, local)]
      BY <1>5 DEF RestoresSession
    <3>2. shard \subseteq Sessions
      BY DEF RowT
    <3> QED BY <3>1, <3>2
  <2> DEFINE s == FindSessionFile(w.session, local)
  <2>2. s \in Sessions /\ (s # 0 => s \in local)
    BY Numbers DEF FindSessionFile, WRec
  <2> HIDE DEF s
  <2>3. w' = [w EXCEPT !.pc = "turn", !.local = local, !.session = s]
    BY <2>1 DEF s
  <2>4. w.pc = "restore"
    BY <1>5 DEF RestoresSession
  <2> QED BY <2>2, <2>3, <2>4 DEF WRec
<1>6. CASE RunScripted
  <2>1. PICK fails \in BOOLEAN : w' = [w EXCEPT !.pc = "save", !.tree = {"dirty"}, !.err = fails]
    BY <1>6 DEF RunScripted
  <2>2. w.pc = "turn"
    BY <1>6 DEF RunScripted
  <2> QED BY <2>1, <2>2 DEF WRec
<1>7. CASE SessionInit
  BY <1>7, Numbers DEF SessionInit, WRec, RowT, Sessions
<1>8. CASE Works
  <2>1. PICK change \in {"dirty", "ahead"} : w' = [w EXCEPT !.output = TRUE, !.tree = w.tree \cup {change}]
    BY <1>8 DEF Works
  <2>2. w.pc = "query" /\ w.tree \cup {change} \in SUBSET {"dirty", "ahead"}
    BY <1>8 DEF Works, WRec
  <2> QED BY <2>1, <2>2 DEF WRec
<1>9. ASSUME NEW failed \in BOOLEAN, NEW trailing \in BOOLEAN, QueryEnds(failed, trailing)
      PROVE  WorkerInv'
  <2>1. CASE w.steer # 0
    <3>1. w' = [w EXCEPT !.pc = "turn", !.steer = 0, !.cut = FALSE, !.err = FALSE] /\ w.pc = "query"
      BY <1>9, <2>1 DEF QueryEnds
    <3>2. w' \in WRec
      BY <3>1 DEF WRec
    <3>3. w'.pc = "turn" /\ w'.session = w.session /\ w'.local = w.local /\ ~w'.cut
      BY <3>1 DEF WRec
    <3> QED BY <3>1, <3>2, <3>3
  <2>2. CASE w.steer = 0
    <3>1. PICK b \in BOOLEAN : w' = [w EXCEPT !.pc = "save", !.err = b]
      BY <1>9, <2>2 DEF QueryEnds, Counts, WRec
    <3>2. w.pc = "query" /\ ~w.cut
      BY <1>9, <2>2 DEF QueryEnds
    <3> QED BY <3>1, <3>2 DEF WRec
  <2> QED BY <2>1, <2>2
<1>10. CASE SavesSession
  BY <1>10, KindsKnown DEF SavesSession, Pushes, KeepsWip, WRec, OthersT
<1>11. CASE CommitsAndPushes
  BY <1>11 DEF CommitsAndPushes, WRec
<1>12. CASE PreservesWip
  BY <1>12 DEF PreservesWip, WRec
<1>13. ASSUME NEW d \in Drains, OnSteer(d) PROVE WorkerInv'
  BY <1>13, SteersNat DEF OnSteer, Interrupts, WRec, ListenT, DrainRec
<1>14. ASSUME NEW d \in Drains, Connects(d) \/ Notified(d) \/ DrainCompletes(d) PROVE WorkerInv'
  BY <1>14 DEF Connects, Notified, DrainCompletes
<1>15. ASSUME NEW i \in Steers, InsertCommand(i) PROVE WorkerInv'
  BY <1>15 DEF InsertCommand
<1>16. CASE Disconnects \/ UNCHANGED vars
  BY <1>16 DEF Disconnects, vars
<1> QED
  BY <1>1, <1>2, <1>3, <1>4, <1>41, <1>42, <1>5, <1>6, <1>7, <1>8, <1>9, <1>10, <1>11, <1>12, <1>13, <1>14, <1>15, <1>16
  DEF Next, Worker, Query, Listener

LEMMA LocalStep ==
    ASSUME WorkerInv, LocalOK, RowT, [Next]_vars
    PROVE  LocalOK'
<1> USE DEF LocalOK
<1>0. w \in WRec /\ pods \in Nat /\ shard \subseteq Sessions \ {0}
  BY Numbers DEF WorkerInv, RowT
<1>1. CASE CreatePod
  <2>1. w' = [NoPod EXCEPT !.pc = "boot"] /\ pods' = pods + 1
    BY <1>1 DEF CreatePod
  <2>2. w'.local = {} /\ pods' # 0
    BY <1>0, <2>1 DEF NoPod
  <2> QED BY <2>2
<1>2. CASE CloneFails \/ Exits \/ PodLost
  <2>1. w' = NoPod
    BY <1>2 DEF CloneFails, Exits, PodLost, ForgetPod
  <2> QED BY <2>1 DEF NoPod
<1>3. CASE RestoresSession
  <2>1. w'.local \subseteq shard
    BY <1>0, <1>3 DEF RestoresSession, WRec
  <2>2. w.pc = "restore" /\ pods' = pods
    BY <1>3 DEF RestoresSession
  <2> QED BY <1>0, <2>1, <2>2
<1>4. CASE SessionInit
  <2> DEFINE id == IF w.session # 0 THEN w.session ELSE pods
  <2>1. w' = [w EXCEPT !.session = id, !.local = w.local \cup {id}] /\ w.pc = "query" /\ pods' = pods
    BY <1>4 DEF SessionInit
  <2>2. id # 0
    BY <2>1
  <2> HIDE DEF id
  <2>3. w'.local = w.local \cup {id}
    BY <1>0, <2>1 DEF WRec
  <2> QED BY <2>1, <2>2, <2>3
<1>6. CASE Boots \/ Clones \/ RunScripted \/ StartsQuery \/ Works \/ SavesSession \/ CommitsAndPushes
           \/ EnsuresPullRequest \/ PreservesWip
  <2>1. w.pc # "none" /\ pods' = pods
    BY <1>6 DEF Boots, Clones, RunScripted, StartsQuery, Works, SavesSession, CommitsAndPushes,
                EnsuresPullRequest, PreservesWip
  <2>2. w'.local = w.local
    BY <1>0, <1>6 DEF Boots, Clones, RunScripted, StartsQuery, Works, SavesSession, CommitsAndPushes,
                      EnsuresPullRequest, PreservesWip, WRec
  <2> QED BY <2>1, <2>2
<1>7. ASSUME NEW failed \in BOOLEAN, NEW trailing \in BOOLEAN, QueryEnds(failed, trailing)
      PROVE  LocalOK'
  BY <1>0, <1>7 DEF QueryEnds, WRec
<1>8. ASSUME NEW d \in Drains, OnSteer(d) PROVE LocalOK'
  BY <1>0, <1>8 DEF OnSteer, Interrupts, WRec
<1>9. ASSUME NEW d \in Drains, Connects(d) \/ Notified(d) \/ DrainCompletes(d) PROVE LocalOK'
  BY <1>9 DEF Connects, Notified, DrainCompletes
<1>10. ASSUME NEW i \in Steers, InsertCommand(i) PROVE LocalOK'
  BY <1>10 DEF InsertCommand
<1>11. CASE Disconnects \/ UNCHANGED vars
  BY <1>11 DEF Disconnects, vars
<1> QED
  BY <1>1, <1>2, <1>3, <1>4, <1>6, <1>7, <1>8, <1>9, <1>10, <1>11 DEF Next, Worker, Query, Listener

-----------------------------------------------------------------------------
(* The row, the listener and the rest.                                     *)

LEMMA RowStep ==
    ASSUME WorkerInv, LocalOK, RowT, [Next]_vars
    PROVE  RowT'
<1> USE DEF RowT
<1>0. w \in WRec /\ pods \in 0..MaxPods /\ row \in RowRec /\ shard \subseteq Sessions \ {0}
  BY DEF WorkerInv
<1>1. CASE CreatePod
  BY <1>0, <1>1, Numbers DEF CreatePod
<1>2. ASSUME NEW st \in {"queued", "running", "completed", "failed", "paused"}, NEW s \in Sessions,
             row' = [row EXCEPT !.state = st] \/ row' = [state |-> st, session |-> s] \/ row' = row
      PROVE  row' \in RowRec
  BY <1>0, <1>2 DEF RowRec
<1>3. row.session \in Sessions /\ w.session \in Sessions /\ pods \in Sessions
  BY <1>0 DEF RowRec, WRec, Sessions
<1>4. CASE Boots \/ CloneFails \/ PodLost
  <2>1. row' \in RowRec
    BY <1>2, <1>3, <1>4 DEF Boots, CloneFails, PodLost
  <2> QED BY <1>0, <1>4, <2>1 DEF Boots, CloneFails, PodLost
<1>5. CASE SessionInit \/ Exits
  <2>1. row' \in RowRec
    BY <1>2, <1>3, <1>5 DEF SessionInit, Exits
  <2> QED BY <1>0, <1>5, <2>1 DEF SessionInit, Exits
<1>6. CASE SavesSession
  <2>1. shard' = shard \/ shard' = shard \cup ({w.session} \cap w.local)
    BY <1>6 DEF SavesSession
  <2>2. w.local \subseteq Sessions \ {0}
    BY <1>0 DEF LocalOK, WRec
  <2> QED BY <1>0, <1>6, <2>1, <2>2 DEF SavesSession
<1>7. CASE Clones \/ RestoresSession \/ RunScripted \/ StartsQuery \/ Works \/ CommitsAndPushes
           \/ EnsuresPullRequest \/ PreservesWip
  BY <1>7 DEF Clones, RestoresSession, RunScripted, StartsQuery, Works, CommitsAndPushes, EnsuresPullRequest,
              PreservesWip
<1>8. ASSUME NEW failed \in BOOLEAN, NEW trailing \in BOOLEAN, QueryEnds(failed, trailing)
      PROVE  RowT'
  BY <1>8 DEF QueryEnds
<1>9. ASSUME NEW d \in Drains, Listener(d) PROVE RowT'
  BY <1>9 DEF Listener, Connects, Notified, DrainCompletes, OnSteer
<1>10. ASSUME NEW i \in Steers, InsertCommand(i) PROVE RowT'
  BY <1>10 DEF InsertCommand
<1>11. CASE Disconnects \/ UNCHANGED vars
  BY <1>11 DEF Disconnects, vars
<1> QED
  BY <1>1, <1>4, <1>5, <1>6, <1>7, <1>8, <1>9, <1>10, <1>11 DEF Next, Worker, Query

LEMMA InsertedFinite ==
    ASSUME NEW S \in SUBSET Steers
    PROVE  IsFiniteSet(S) /\ Cardinality(S) \in Nat /\ Cardinality(S) <= Cardinality(Steers)
  BY SteersNat, FS_Subset, FS_CardinalityType

\* What a step does to the commands and the notifications.
CommandMoves ==
    \/ cmd' = cmd /\ notes' \in {notes, 0}
    \/ cmd' = cmd /\ notes > 0 /\ notes' = notes - 1
    \/ \E i \in Steers : /\ cmd[i] = "none" /\ cmd' = [cmd EXCEPT ![i] = "pending"]
                         /\ notes' \in {notes, notes + 1}
    \/ \E i \in Steers : cmd' = [cmd EXCEPT ![i] = "done"] /\ notes' = notes

LEMMA NoDrainTyped == NoDrain \in DrainRec
  BY DEF NoDrain, DrainRec

LEMMA ListenStep ==
    ASSUME ListenT, [Next]_vars
    PROVE  ListenT' /\ CommandMoves
<1> USE NoDrainTyped DEF ListenT, CommandMoves
<1> DEFINE P == ListenT' /\ CommandMoves
<1>0. Pending \in SUBSET Steers
  BY DEF Pending
<1>1. ASSUME NEW d \in Drains, DrainReads(d) PROVE drain' \in [Drains -> DrainRec]
  <2> DEFINE rec == [drain[d] EXCEPT !.left = Pending]
  <2>1. rec \in DrainRec
    BY <1>0 DEF DrainRec
  <2>2. drain' = [drain EXCEPT ![d] = rec]
    BY <1>1 DEF DrainReads
  <2> HIDE DEF rec
  <2> QED BY <2>1, <2>2
<1>2. ASSUME NEW d \in Drains, Connects(d) \/ Notified(d) PROVE P
  <2>1. drain' \in [Drains -> DrainRec]
    BY <1>1, <1>2 DEF Connects, Notified, CatchUp
  <2> QED BY <1>2, <2>1 DEF Connects, Notified
<1>3. ASSUME NEW d \in Drains, DrainCompletes(d) PROVE P
  <2>1. PICK i \in drain[d].left :
          /\ drain' = [drain EXCEPT ![d] = [left |-> drain[d].left \ {i}, cur |-> i]]
          /\ cmd' = cmd \/ cmd' = [cmd EXCEPT ![i] = "done"]
    BY <1>3 DEF DrainCompletes
  <2>2. i \in Steers /\ drain[d].left \in SUBSET Steers
    BY DEF DrainRec
  <2>3. [left |-> drain[d].left \ {i}, cur |-> i] \in DrainRec
    BY <2>2 DEF DrainRec
  <2>4. drain' \in [Drains -> DrainRec]
    BY <2>1, <2>3
  <2> QED BY <1>3, <2>1, <2>2, <2>4 DEF DrainCompletes
<1>4. ASSUME NEW d \in Drains, OnSteer(d) PROVE P
  <2> DEFINE rec == [drain[d] EXCEPT !.cur = 0]
  <2>1. rec \in DrainRec
    BY DEF DrainRec
  <2>2. drain' = [drain EXCEPT ![d] = rec]
    BY <1>4 DEF OnSteer
  <2>3. drain[d].cur \in Steers
    BY <1>4 DEF OnSteer, DrainRec
  <2> HIDE DEF rec
  <2>4. drain' \in [Drains -> DrainRec]
    BY <2>1, <2>2
  <2> QED BY <1>4, <2>3, <2>4 DEF OnSteer
<1>5. ASSUME NEW i \in Steers, InsertCommand(i) PROVE P
  BY <1>5 DEF InsertCommand
<1>6. CASE CloneFails \/ Exits \/ PodLost
  BY <1>6 DEF CloneFails, Exits, PodLost, ForgetPod
<1>7. ASSUME NEW failed \in BOOLEAN, NEW trailing \in BOOLEAN, QueryEnds(failed, trailing)
      PROVE  P
  BY <1>7 DEF QueryEnds
<1>8. CASE RestoresSession
  BY <1>8 DEF RestoresSession
<1>9. CASE Disconnects
  BY <1>9 DEF Disconnects
<1>10. CASE CreatePod \/ Boots \/ Clones \/ RunScripted \/ StartsQuery \/ SessionInit \/ Works \/ SavesSession
            \/ CommitsAndPushes \/ EnsuresPullRequest \/ PreservesWip \/ UNCHANGED vars
  BY <1>10 DEF CreatePod, Boots, Clones, RunScripted, StartsQuery, SessionInit, Works, SavesSession,
               CommitsAndPushes, EnsuresPullRequest, PreservesWip, vars
<1> QED
  BY <1>2, <1>3, <1>4, <1>5, <1>6, <1>7, <1>8, <1>9, <1>10 DEF Next, Worker, Query, Listener

LEMMA NotesStep ==
    ASSUME ListenT, NotesOK, CommandMoves
    PROVE  NotesOK'
<1> DEFINE new == {i \in Steers : cmd'[i] # "none"}
<1>0. Inserted \in SUBSET Steers /\ new \in SUBSET Steers /\ Inserted' = new
  BY DEF Inserted
<1>1. /\ IsFiniteSet(Inserted) /\ IsFiniteSet(new)
      /\ Cardinality(Inserted) \in Nat /\ Cardinality(new) \in Nat
  BY <1>0, InsertedFinite
<1>2. CASE cmd' = cmd
  <2>1. new = Inserted
    BY <1>2 DEF Inserted
  <2>2. notes' \in Nat /\ notes' <= notes
    BY <1>2 DEF CommandMoves, NotesOK, ListenT
  <2> QED BY <1>0, <1>1, <2>1, <2>2 DEF NotesOK
<1>3. ASSUME NEW i \in Steers, cmd[i] = "none", cmd' = [cmd EXCEPT ![i] = "pending"],
             notes' \in {notes, notes + 1}
      PROVE  NotesOK'
  <2>1. new = Inserted \cup {i} /\ i \notin Inserted
    BY <1>3 DEF Inserted, ListenT
  <2>2. Cardinality(new) = Cardinality(Inserted) + 1
    BY <1>1, <2>1, FS_AddElement
  <2> QED BY <1>0, <1>1, <1>3, <2>2 DEF NotesOK
<1>4. ASSUME NEW i \in Steers, cmd' = [cmd EXCEPT ![i] = "done"], notes' = notes
      PROVE  NotesOK'
  <2>1. Inserted \in SUBSET new
    BY <1>4 DEF Inserted, ListenT
  <2>2. Cardinality(Inserted) <= Cardinality(new)
    BY <1>1, <2>1, FS_Subset
  <2> QED BY <1>0, <1>1, <1>4, <2>2 DEF NotesOK
<1> QED BY <1>2, <1>3, <1>4 DEF CommandMoves

LEMMA OthersStep ==
    ASSUME OthersT, [Next]_vars
    PROVE  OthersT' /\ kind' = kind
<1> USE DEF OthersT
<1> DEFINE P == OthersT' /\ kind' = kind
<1>1. ASSUME Fault PROVE faults' \in 0..MaxFaults
  BY <1>1, Numbers DEF Fault
<1>2. ASSUME NEW b \in BOOLEAN, MayFail(b) PROVE faults' \in 0..MaxFaults
  BY <1>1, <1>2 DEF MayFail
<1>3. CASE CloneFails
  BY <1>1, <1>3 DEF CloneFails, ExitRec
<1>4. CASE Exits
  <2>1. /\ Unsaved \in BOOLEAN
        /\ (IF w.err THEN "failed" ELSE "completed") \in {"none", "completed", "failed"}
    BY DEF Unsaved
  <2>2. exit' \in ExitRec
    BY <1>4, <2>1 DEF Exits, ExitRec
  <2> QED BY <1>4, <2>2 DEF Exits
<1>5. CASE PodLost \/ Disconnects
  BY <1>1, <1>5 DEF PodLost, Disconnects
<1>6. CASE RestoresSession \/ SavesSession \/ CommitsAndPushes \/ EnsuresPullRequest \/ PreservesWip
  BY <1>2, <1>6 DEF RestoresSession, SavesSession, CommitsAndPushes, EnsuresPullRequest, PreservesWip
<1>7. ASSUME NEW d \in Drains, Listener(d) PROVE P
  BY <1>2, <1>7 DEF Listener, Connects, Notified, DrainCompletes, OnSteer
<1>8. CASE CreatePod \/ Boots \/ Clones \/ RunScripted \/ StartsQuery \/ SessionInit \/ Works \/ UNCHANGED vars
  BY <1>8 DEF CreatePod, Boots, Clones, RunScripted, StartsQuery, SessionInit, Works, vars
<1>9. ASSUME NEW failed \in BOOLEAN, NEW trailing \in BOOLEAN, QueryEnds(failed, trailing)
      PROVE  P
  BY <1>9 DEF QueryEnds
<1>10. ASSUME NEW i \in Steers, InsertCommand(i) PROVE P
  BY <1>10 DEF InsertCommand
<1> QED
  BY <1>3, <1>4, <1>5, <1>6, <1>7, <1>8, <1>9, <1>10 DEF Next, Worker, Query

-----------------------------------------------------------------------------
(* What an exit leaves behind.                                             *)

LEMMA ExitAccounted ==
    ASSUME WorkerInv, OthersT, Exits
    PROVE  WorkAccounted'
<1> DEFINE end == IF w.err THEN "failed" ELSE "completed"
<1>1. exit' = [state |-> end, unsaved |-> Unsaved] /\ kind' = kind /\ w.pc = "final"
  BY DEF Exits
<1>2. exit'.unsaved = Unsaved /\ exit'.state = end
  BY <1>1
<1>3. kind \in {"task", "review", "deploy", "scripted"} /\ w.tree \subseteq {"dirty", "ahead"}
  BY KindsKnown DEF OthersT, WorkerInv, WRec
<1>4. CASE (kind = "task" /\ ~w.err) \/ kind \in {"review", "deploy"}
  <2>1. w.tree = {} \/ w.told
    BY <1>1, <1>4 DEF WorkerInv, WorkOK
  <2>2. ~Unsaved
    BY <2>1 DEF Unsaved
  <2> QED BY <1>2, <2>2 DEF WorkAccounted
<1>5. CASE kind = "task" /\ w.err
  BY <1>1, <1>2, <1>5 DEF WorkAccounted
<1>6. CASE kind = "scripted"
  BY <1>1, <1>6 DEF WorkAccounted
<1> QED BY <1>3, <1>4, <1>5, <1>6

LEMMA AccountedStep ==
    ASSUME WorkerInv, OthersT, WorkAccounted, [Next]_vars
    PROVE  WorkAccounted'
<1>1. CASE Exits
  BY <1>1, ExitAccounted
<1>2. CASE CloneFails
  BY <1>2 DEF CloneFails, WorkAccounted
<1>3. ASSUME UNCHANGED <<exit, kind>> PROVE WorkAccounted'
  BY <1>3 DEF WorkAccounted
<1>4. ASSUME ~Exits, ~CloneFails PROVE UNCHANGED <<exit, kind>>
  <2>1. CASE CreatePod \/ Works \/ Disconnects \/ PodLost \/ UNCHANGED vars
    BY <2>1 DEF CreatePod, Works, Disconnects, PodLost, vars
  <2>2. CASE Boots \/ Clones \/ RestoresSession \/ RunScripted \/ StartsQuery \/ SessionInit \/ SavesSession
             \/ CommitsAndPushes \/ EnsuresPullRequest \/ PreservesWip
    BY <2>2 DEF Boots, Clones, RestoresSession, RunScripted, StartsQuery, SessionInit, SavesSession,
                CommitsAndPushes, EnsuresPullRequest, PreservesWip
  <2>3. ASSUME NEW failed \in BOOLEAN, NEW trailing \in BOOLEAN, QueryEnds(failed, trailing)
        PROVE  UNCHANGED <<exit, kind>>
    BY <2>3 DEF QueryEnds
  <2>4. ASSUME NEW d \in Drains, Listener(d) PROVE UNCHANGED <<exit, kind>>
    BY <2>4 DEF Listener, Connects, Notified, DrainCompletes, OnSteer
  <2>5. ASSUME NEW i \in Steers, InsertCommand(i) PROVE UNCHANGED <<exit, kind>>
    BY <2>5 DEF InsertCommand
  <2> QED BY <1>4, <2>1, <2>2, <2>3, <2>4, <2>5 DEF Next, Worker, Query
<1> QED BY <1>1, <1>2, <1>3, <1>4

-----------------------------------------------------------------------------
LEMMA InvInit == Init => IInv
<1> SUFFICES ASSUME Init PROVE IInv
  OBVIOUS
<1> USE DEF Init
<1>1. WorkerInv /\ LocalOK
  BY NoPodTyped DEF WorkerInv, CutOK, SessionOK, WorkOK, LocalOK, NoPod
<1>2. RowT
  BY Numbers DEF RowT, RowRec, Sessions
<1>3. ListenT
  BY NoDrainTyped DEF ListenT
<1>4. NotesOK
  <2>1. Inserted \in SUBSET Steers
    BY DEF Inserted
  <2> QED BY <2>1, InsertedFinite DEF NotesOK
<1>5. OthersT /\ WorkAccounted
  BY Numbers DEF OthersT, ExitRec, NoExit, WorkAccounted
<1> QED BY <1>1, <1>2, <1>3, <1>4, <1>5 DEF IInv

LEMMA InvStep == IInv /\ [Next]_vars => IInv'
  BY WorkerStep, LocalStep, RowStep, ListenStep, NotesStep, OthersStep, AccountedStep DEF IInv

LEMMA InvIsInvariant == Spec => []IInv
  BY InvInit, InvStep, PTL DEF Spec

\* The worker, its row, its commands and its listener stay within their types: no query keeps the
\* interruption of an earlier one, and no more notifications are on their way than there are steers.
THEOREM TypeCorrect == Spec => []TypeOK
<1>1. IInv => TypeOK
  <2> SUFFICES ASSUME IInv PROVE TypeOK
    OBVIOUS
  <2>1. notes \in 0..Cardinality(Steers)
    <3>1. Inserted \in SUBSET Steers
      BY DEF Inserted
    <3>2. /\ Cardinality(Inserted) <= Cardinality(Steers)
          /\ Cardinality(Inserted) \in Nat /\ Cardinality(Steers) \in Nat
      BY <3>1, InsertedFinite, SteersNat, FS_CardinalityType
    <3> QED BY <3>2 DEF IInv, NotesOK
  <2>2. /\ w \in WRec /\ (w.pc = "query" \/ ~w.cut)
        /\ row \in RowRec /\ shard \subseteq Sessions \ {0} /\ pods \in 0..MaxPods
    BY DEF IInv, WorkerInv, CutOK, RowT
  <2>3. /\ listener \in {"off", "down", "on"} /\ drain \in [Drains -> DrainRec]
        /\ cmd \in [Steers -> {"none", "pending", "done"}] /\ given \subseteq Steers
        /\ kind \in Kinds /\ exit \in ExitRec /\ faults \in 0..MaxFaults
    BY DEF IInv, ListenT, OthersT
  <2> QED BY <2>1, <2>2, <2>3 DEF TypeOK, WRec, RowRec, DrainRec, ExitRec
<1> QED BY <1>1, InvIsInvariant, PTL

\* A run that completes, and a review or a deploy agent however it ends, leaves no work behind in its
\* pod without an event that says so, whichever call failed on the way (worker/index.ts, after the
\* turn: pushed, told of, or on the wip branch).
THEOREM WorkIsAccounted == Spec => []WorkAccounted
<1>1. IInv => WorkAccounted
  BY DEF IInv
<1> QED BY <1>1, InvIsInvariant, PTL

\* Whatever the row names, and whatever the restore found, no query resumes a session whose
\* transcript is not in its pod.
THEOREM ResumesInPod == Spec => []ResumesWithTranscript
<1>1. IInv => ResumesWithTranscript
  BY DEF IInv, WorkerInv, SessionOK, ResumesWithTranscript
<1> QED BY <1>1, InvIsInvariant, PTL

=============================================================================
