------------------------------ MODULE LivePage ------------------------------
(***************************************************************************)
(* The page of an agent (ui/src/pages/AgentDetail.tsx) kept up to date by  *)
(* two paths: requests to the boss, each answered by what the database     *)
(* said when it was served, and a WebSocket fed by the live relay          *)
(* (api/live-relay.ts), which LISTENs for the events workers write, reads  *)
(* each one and broadcasts it (api/websocket.ts).  Notifications sent      *)
(* while the relay is reconnecting are lost; so is what is broadcast while *)
(* the socket is down (ui/src/ws.ts reconnects after 3 s and bumps a       *)
(* generation, on which the page refetches).                               *)
(*                                                                         *)
(* One browser tab, whose component is reused when a link leads from one   *)
(* agent's page to another's.  A request that fails (its catch swallows    *)
(* it) is left out, as are error and usage events, and the sub-agents and  *)
(* the queue count, which are fetched and shown like the row.              *)
(***************************************************************************)
EXTENDS Naturals, Sequences, SequencesExt

CONSTANTS
    Agents, Home,     \* the agents, and the one whose page is opened first
    Asks,             \* permission requests
    Kinds,            \* of the events written: "assistant", "system", "state"
    MaxEvents,        \* bound on the events written
    MaxDrops,         \* bound on the relay's lost connections
    MaxCloses,        \* bound on the socket's closings
    MaxMoves,         \* bound on navigations
    MaxEdits,         \* bound on edits of the instructions
    MaxInFlight,      \* bound on requests in flight
    InOrder           \* requests are served and answered in the order sent

VARIABLES
    row,        \* the agents' rows: how many states so far, the instructions saved
    events,     \* agent_events, in order of id
    ask,        \* the permission requests' rows
    relay,      \* is the relay listening, and the notifications it is handling
    sock,       \* the tab's WebSocket
    commands,   \* commands queued until it opens, then on their way to the boss
    subs,       \* the subscriptions the boss holds for it
    down,       \* broadcasts on their way to the tab
    page,       \* what the tab shows
    reqs,       \* requests in flight, in the order they were sent
    used        \* how often each bounded thing has happened

vars == <<row, events, ask, relay, sock, commands, subs, down, page, reqs, used>>

None == "none"
NoRow == [ver |-> 0, text |-> None]
Notices == [type : {"event"}, id : 1..MaxEvents] \cup [type : {"asked", "resolved"}, id : Asks]
Requests == [kind : {"agent", "cards", "events"}, agent : Agents, dirty : BOOLEAN, served : BOOLEAN,
             row : [ver : 0..MaxEvents, text : Agents \cup {None}],
             list : Seq(1..MaxEvents), cards : SUBSET Asks]

Request(kind, a, dirty) ==
    [kind |-> kind, agent |-> a, dirty |-> dirty, served |-> FALSE,
     row |-> NoRow, list |-> <<>>, cards |-> {}]

\* refresh(), a callback made when the id changes: the instructionsDirty it tests
\* is the one of that moment (`sees`).
Refresh(p) == <<Request("agent", p.viewed, p.sees), Request("cards", p.viewed, p.sees)>>
Reload(p) == Refresh(p) \o <<Request("events", p.viewed, p.sees)>>

Room(more) == Len(reqs) + Len(more) <= MaxInFlight
Sends(more) == Room(more) /\ reqs' = reqs \o more

TypeOK ==
    /\ row \in [Agents -> [ver : 0..MaxEvents, text : Agents \cup {None}]]
    /\ events \in Seq([agent : Agents, kind : {"assistant", "system", "state"}])
    /\ Len(events) <= MaxEvents
    /\ ask \in [Asks -> [agent : Agents, status : {None, "pending", "resolved"}]]
    /\ relay.up \in BOOLEAN /\ relay.handling \subseteq Notices
    /\ sock \in {"connecting", "open", "closed"}
    /\ commands \in Seq([op : {"subscribe", "unsubscribe"}, agent : Agents])
    /\ subs \subseteq Agents
    /\ down \in Seq(Notices)
    /\ page.viewed \in Agents /\ page.data.agent \in Agents \cup {None}
    /\ page.msgs \in Seq(1..MaxEvents) /\ page.cards \subseteq Asks
    /\ page.text \in Agents \cup {None} /\ page.dirty \in BOOLEAN /\ page.sees \in BOOLEAN
    /\ reqs \in Seq(Requests) /\ Len(reqs) <= MaxInFlight

\* The page mounts: it fetches, opens its socket, and subscribes once that is open.
Init ==
    /\ row = [a \in Agents |-> NoRow]
    /\ events = <<>>
    /\ ask = [k \in Asks |-> [agent |-> Home, status |-> None]]
    /\ relay = [up |-> TRUE, handling |-> {}]
    /\ sock = "connecting"
    /\ commands = <<[op |-> "subscribe", agent |-> Home]>>
    /\ subs = {} /\ down = <<>>
    /\ page = [viewed |-> Home, gen |-> 0, floor |-> 0, data |-> [agent |-> None, ver |-> 0],
               msgs |-> <<>>, cards |-> {}, text |-> None, dirty |-> FALSE, sees |-> FALSE]
    /\ reqs = Reload(page)
    /\ used = [drops |-> 0, closes |-> 0, moves |-> 0, edits |-> 0]

-----------------------------------------------------------------------------
(* Workers write rows and events; the relay hears of them if it listens.   *)

Notified(notices) ==
    relay' = IF relay.up THEN [relay EXCEPT !.handling = @ \cup notices] ELSE relay

InsertAgentEvent(a, kind, others) ==
    /\ Len(events) < MaxEvents
    /\ events' = Append(events, [agent |-> a, kind |-> kind])
    /\ Notified({[type |-> "event", id |-> Len(events) + 1]} \cup others)

Writes(a, kind) ==
    /\ InsertAgentEvent(a, kind, {})
    /\ row' = IF kind = "state" THEN [row EXCEPT ![a].ver = @ + 1] ELSE row
    /\ UNCHANGED <<ask, sock, commands, subs, down, page, reqs, used>>

\* canUseTool: the request is inserted (and notified), then a system message says so.
Asked(k, a) ==
    /\ ask[k].status = None
    /\ ask' = [ask EXCEPT ![k] = [agent |-> a, status |-> "pending"]]
    /\ InsertAgentEvent(a, "system", {[type |-> "asked", id |-> k]})
    /\ UNCHANGED <<row, sock, commands, subs, down, page, reqs, used>>

\* The worker's wait ends without this page: it times out, or somebody else answered.
TimesOut(k) ==
    /\ ask[k].status = "pending"
    /\ ask' = [ask EXCEPT ![k].status = "resolved"]
    /\ InsertAgentEvent(ask[k].agent, "system", {})
    /\ UNCHANGED <<row, sock, commands, subs, down, page, reqs, used>>

RelayDrops ==
    /\ relay.up /\ used.drops < MaxDrops
    /\ relay' = [relay EXCEPT !.up = FALSE]
    /\ used' = [used EXCEPT !.drops = @ + 1]
    /\ UNCHANGED <<row, events, ask, sock, commands, subs, down, page, reqs>>

RelayListens ==
    /\ ~relay.up
    /\ relay' = [relay EXCEPT !.up = TRUE]
    /\ UNCHANGED <<row, events, ask, sock, commands, subs, down, page, reqs, used>>

\* websocket.ts: messages go to the agent's subscribers, the rest to every open socket.
Wanted(n) ==
    \/ n.type # "event"
    \/ events[n.id].kind = "state"
    \/ events[n.id].agent \in subs

Broadcast(n) == down' = IF sock = "open" /\ Wanted(n) THEN Append(down, n) ELSE down

\* Each notification is handled on its own: what it names is read, then broadcast.
Relays(n) ==
    /\ n \in relay.handling
    /\ relay' = [relay EXCEPT !.handling = @ \ {n}]
    /\ IF n.type = "asked" /\ ask[n.id].status # "pending" THEN down' = down ELSE Broadcast(n)
    /\ UNCHANGED <<row, events, ask, sock, commands, subs, page, reqs, used>>

-----------------------------------------------------------------------------
(* The socket (ui/src/ws.ts, api/websocket.ts).                            *)

\* onopen re-sends the remembered subscription; safeSend's queued commands follow.
\* From the second opening on, the page reloads.
Opens ==
    /\ sock = "connecting"
    /\ sock' = "open"
    /\ commands' = <<[op |-> "subscribe", agent |-> page.viewed]>> \o commands
    /\ page' = [page EXCEPT !.gen = @ + 1, !.floor = IF page.gen > 0 THEN Len(events) ELSE @]
    /\ Sends(IF page.gen > 0 THEN Reload(page) ELSE <<>>)
    /\ UNCHANGED <<row, events, ask, relay, subs, down, used>>

Closes ==
    /\ sock # "closed" /\ used.closes < MaxCloses
    /\ sock' = "closed"
    /\ commands' = <<>> /\ subs' = {} /\ down' = <<>>
    /\ used' = [used EXCEPT !.closes = @ + 1]
    /\ UNCHANGED <<row, events, ask, relay, page, reqs>>

Reconnects ==
    /\ sock = "closed"
    /\ sock' = "connecting"
    /\ UNCHANGED <<row, events, ask, relay, commands, subs, down, page, reqs, used>>

Subscribes ==
    /\ sock = "open" /\ commands # <<>>
    /\ LET c == Head(commands) IN
         subs' = IF c.op = "subscribe" THEN subs \cup {c.agent} ELSE subs \ {c.agent}
    /\ commands' = Tail(commands)
    /\ UNCHANGED <<row, events, ask, relay, sock, down, page, reqs, used>>

-----------------------------------------------------------------------------
(* The page.                                                               *)

\* A message is appended unless it repeats the last one.
Shows(msgs, e) == IF msgs # <<>> /\ Last(msgs) = e THEN msgs ELSE Append(msgs, e)

HandleMessage(e) ==
    /\ page' = [page EXCEPT !.msgs = Shows(@, e)]
    /\ Sends(IF events[e].kind = "system" THEN Refresh(page) ELSE <<>>)

HandleEvent(n) ==
    \/ /\ n.type = "event" /\ events[n.id].agent = page.viewed
       /\ IF events[n.id].kind = "state" THEN Sends(Refresh(page)) /\ page' = page
                                         ELSE HandleMessage(n.id)
    \/ /\ n.type = "event" /\ events[n.id].agent # page.viewed
       /\ UNCHANGED <<page, reqs>>
    \/ /\ n.type # "event"
       /\ Sends(<<Request("cards", page.viewed, page.sees)>>)
       /\ page' = page

Receives ==
    /\ down # <<>>
    /\ HandleEvent(Head(down))
    /\ down' = Tail(down)
    /\ UNCHANGED <<row, events, ask, relay, sock, commands, subs, used>>

Pending(a) == {k \in Asks : ask[k].agent = a /\ ask[k].status = "pending"}
Messages(a) == SelectSeq([i \in DOMAIN events |-> i],
                         LAMBDA i : events[i].agent = a /\ events[i].kind # "state")

\* The boss answers a request with what the rows say now.
Serves(i) ==
    /\ ~reqs[i].served
    /\ InOrder => \A j \in 1..(i - 1) : reqs[j].served
    /\ LET r == reqs[i] IN
         reqs' = [reqs EXCEPT
             ![i].served = TRUE,
             ![i].row = IF r.kind = "agent" THEN row[r.agent] ELSE NoRow,
             ![i].list = IF r.kind = "events" THEN Messages(r.agent) ELSE <<>>,
             ![i].cards = IF r.kind = "cards" THEN Pending(r.agent) ELSE {}]
    /\ UNCHANGED <<row, events, ask, relay, sock, commands, subs, down, page, used>>

\* Whatever arrives is shown, for whichever agent and however old.
Shown(p, r) ==
    CASE r.kind = "events" -> [p EXCEPT !.msgs = r.list]
      [] r.kind = "cards"  -> [p EXCEPT !.cards = r.cards]
      [] OTHER -> [p EXCEPT !.data = [agent |-> r.agent, ver |-> r.row.ver],      \* the row
                            !.text = IF r.dirty THEN @ ELSE r.row.text]

Arrives(i) ==
    /\ reqs[i].served
    /\ InOrder => i = 1
    /\ page' = Shown(page, reqs[i])
    /\ reqs' = RemoveAt(reqs, i)
    /\ UNCHANGED <<row, events, ask, relay, sock, commands, subs, down, used>>

\* A link to another agent's page: the subscription moves and the new agent is
\* fetched; what is shown stays until the answers arrive.
Navigates(a) ==
    /\ a # page.viewed /\ used.moves < MaxMoves
    /\ used' = [used EXCEPT !.moves = @ + 1]
    /\ page' = [page EXCEPT !.viewed = a, !.sees = page.dirty]
    /\ Sends(Reload(page'))
    /\ commands' = IF sock = "closed" THEN commands
                   ELSE commands \o <<[op |-> "unsubscribe", agent |-> page.viewed],
                                      [op |-> "subscribe", agent |-> a]>>
    /\ UNCHANGED <<row, events, ask, relay, sock, subs, down>>

\* The user types instructions for the agent shown.
Types ==
    /\ page.data.agent # None /\ used.edits < MaxEdits
    /\ used' = [used EXCEPT !.edits = @ + 1]
    /\ page' = [page EXCEPT !.text = page.data.agent, !.dirty = TRUE]
    /\ UNCHANGED <<row, events, ask, relay, sock, commands, subs, down, reqs>>

\* Save writes what the box holds to the agent shown.
Saves ==
    /\ page.data.agent # None /\ page.dirty
    /\ row' = [row EXCEPT ![page.data.agent].text = page.text]
    /\ page' = [page EXCEPT !.dirty = FALSE]
    /\ UNCHANGED <<events, ask, relay, sock, commands, subs, down, reqs, used>>

\* A card is answered: the boss resolves the row if it still waits, tells every tab,
\* and the page refreshes.  Otherwise it answers 404 and the card ignores that.
Answers(k) ==
    /\ k \in page.cards /\ page.data.agent # None
    /\ ask[k].status = "pending"
    /\ ask' = [ask EXCEPT ![k].status = "resolved"]
    /\ Broadcast([type |-> "resolved", id |-> k])
    /\ Sends(Refresh(page))
    /\ UNCHANGED <<row, events, relay, sock, commands, subs, page, used>>

-----------------------------------------------------------------------------
Next ==
    \/ \E a \in Agents :
          \/ \E kind \in Kinds : Writes(a, kind)
          \/ \E k \in Asks : Asked(k, a)
          \/ Navigates(a)
    \/ \E k \in Asks : TimesOut(k) \/ Answers(k)
    \/ RelayDrops \/ RelayListens \/ \E n \in Notices : Relays(n)
    \/ Opens \/ Closes \/ Reconnects \/ Subscribes \/ Receives
    \/ \E i \in DOMAIN reqs : Serves(i) \/ Arrives(i)
    \/ Types \/ Saves

\* Retries, deliveries and answers happen; what workers, users and the network do, may.
Fairness ==
    /\ WF_vars(Opens) /\ WF_vars(Reconnects) /\ WF_vars(Subscribes) /\ WF_vars(Receives)
    /\ WF_vars(RelayListens)
    /\ \A n \in Notices : WF_vars(Relays(n))
    /\ \A i \in 1..MaxInFlight :
          /\ WF_vars(i \in DOMAIN reqs /\ Serves(i))
          /\ WF_vars(i \in DOMAIN reqs /\ Arrives(i))

Spec == Init /\ [][Next]_vars /\ Fairness

-----------------------------------------------------------------------------
\* Nothing is on its way to the page.
Quiet == reqs = <<>> /\ down = <<>> /\ relay.handling = {} /\ sock = "open"

\* Once its commands are through, the boss sends an open socket the messages of the
\* agent it views and of no other, whatever links were followed while it was
\* connecting, open or closed (ws.ts: subsRef, safeSend).
SubscribedToViewed == sock = "open" /\ commands = <<>> => subs = {page.viewed}

\* A page that has reconnected and has nothing more to come shows its agent's
\* present state (AgentDetail.tsx: "refetch what we missed"): as long as answers
\* arrive in order and the relay keeps listening.
CurrentAfterReconnect ==
    Quiet /\ page.gen > 1 =>
        page.data = [agent |-> page.viewed, ver |-> row[page.viewed].ver]

\* ... and every message written before the socket was open again.
MissedAreReloaded ==
    Quiet /\ page.gen > 1 =>
        \A i \in 1..page.floor :
            events[i].agent = page.viewed /\ events[i].kind # "state" => i \in Range(page.msgs)

\* A socket that stops closing ends up open and subscribed.
Resubscribes == <>[](sock = "open" /\ subs = {page.viewed})

-----------------------------------------------------------------------------
(* Statements the code does not keep; the README gives the constants that  *)
(* refute each.                                                            *)

\* A quiet page shows its agent's present state, on its first socket too.
CurrentWhenQuiet ==
    Quiet => page.data = [agent |-> page.viewed, ver |-> row[page.viewed].ver]

\* A quiet page that has reconnected shows every message, those of the reload's own
\* time included.
NothingOverwritten ==
    Quiet /\ page.gen > 1 => Range(Messages(page.viewed)) \subseteq Range(page.msgs)

\* No message is shown twice (AgentDetail.tsx: "Deduplicate").
ShownOnce == IsInjective(page.msgs)

\* A quiet page shows its own agent's messages only.
OwnMessages == Quiet => \A i \in Range(page.msgs) : events[i].agent = page.viewed

\* An answer that arrives leaves an unsaved edit alone (AgentDetail.tsx: "if
\* (!instructionsDirty)").
EditSurvives ==
    [][page.dirty /\ (\E i \in DOMAIN reqs : Arrives(i)) => page'.text = page.text]_vars

\* Instructions are saved to the agent they were typed for.
SavesItsOwn == [][\A a \in Agents : row'[a].text # row[a].text => row'[a].text = a]_vars

\* A card whose request is resolved goes away (worker/index.ts: "so the UI stops
\* waiting too").
UiStopsWaiting ==
    \A k \in Asks : (k \in page.cards /\ ask[k].status = "resolved") ~> k \notin page.cards
=============================================================================
