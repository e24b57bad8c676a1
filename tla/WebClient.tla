------------------------------ MODULE WebClient ------------------------------
(***************************************************************************)
(* The conversation of the web client (web/src/App.tsx send, loadSession   *)
(* and newSession; web/src/reducer.ts; web/src/api.ts streamTurn) and what *)
(* the server keeps of it.  A message opens a stream of the turn's events; *)
(* when it ends, for whatever reason, the page loads the session and the   *)
(* events of its turns again, one request after the other, while the       *)
(* operator may already go on.  An event is its number: the first starts   *)
(* the turn, and what the page shows of a turn is the set of its events    *)
(* that were reduced.                                                      *)
(***************************************************************************)
EXTENDS Naturals, SequencesExt

CONSTANTS
    Sessions,   \* names of sessions
    First,      \* the session the page opens with
    MaxTurns,   \* bound: turns in all
    MaxEvents,  \* bound: events of a turn
    MaxRefresh, \* bound: times the page is reloaded
    MaxLoads,   \* bound: loads under way when the operator acts
    None

FirstAssumption ==
    First \in Sessions /\ None \notin Sessions /\ MaxTurns \in Nat /\ MaxEvents \in Nat \ {0}

VARIABLES
    turns,     \* server: [session, events, ended] of each turn
    sessionId, \* the session of the page
    busy,      \* a message was sent and its stream has not ended
    stream,    \* [session, stage, turn, got]: the stream of the message
    live,      \* [turn, seen]: what the reducer made of the events
    history,   \* [session, known]: the messages shown, by their turns
    records,   \* for each turn loaded, how many of its events
    loads,     \* calls of loadSession that go on: [session, stage, known, replay]
    refreshes,
    complete,  \* history: all turns of the session were over when its last load
               \* began, and no load failed since
    overtaken  \* history: "yes" since the operator acted while a load was under way,
               \* "mending" while a load that then began alone goes on

vars == <<turns, sessionId, busy, stream, live, history, records, loads, refreshes, complete,
          overtaken>>

Turn == [session : Sessions, events : 0..MaxEvents, ended : BOOLEAN]
Of(session) == {t \in DOMAIN turns : turns[t].session = session}
NoStream == [session |-> None, stage |-> "none", turn |-> None, got |-> 0]
NoLive == [turn |-> None, seen |-> {}]
NewLoad(session) == [session |-> session, stage |-> "asked", known |-> {}, replay |-> <<>>]

\* The page loads the session when it opens, and again when the configuration arrives.
Opening == <<NewLoad(sessionId), NewLoad(sessionId)>>

Init ==
    /\ turns = <<>>
    /\ sessionId = First
    /\ busy = FALSE /\ stream = NoStream
    /\ live = NoLive /\ history = [session |-> First, known |-> {}] /\ records = <<>>
    /\ loads = Opening
    /\ refreshes = 0 /\ complete = TRUE /\ overtaken = "no"

-----------------------------------------------------------------------------
(* reduceEvent *)

\* Events at or before the last one seen change nothing, nor do those of another turn
\* unless they start it.
Reduce(state, turn, event) ==
    IF \/ state.turn = turn /\ \E seen \in state.seen : event <= seen
       \/ state.turn \notin {None, turn} /\ event # 1
    THEN state
    ELSE [turn |-> turn, seen |-> (IF state.turn = turn THEN state.seen ELSE {}) \union {event}]

\* The events 1 to n of a turn, one after the other.
Replay(state, turn, n) ==
    LET after[i \in 0..n] == IF i = 0 THEN state ELSE Reduce(after[i - 1], turn, i)
    IN  after[n]

-----------------------------------------------------------------------------
(* The server *)

Running(t) == ~turns[t].ended

\* The request of a stream arrives: a session has one turn at a time.
Accept ==
    /\ stream.stage = "asked"
    /\ ~\E t \in Of(stream.session) : Running(t)
    /\ turns' = Append(turns, [session |-> stream.session, events |-> 0, ended |-> FALSE])
    /\ stream' = [stream EXCEPT !.stage = "open", !.turn = Len(turns')]
    /\ UNCHANGED <<sessionId, busy, live, history, records, loads, refreshes, complete, overtaken>>

\* An event is recorded and put on the stream; the last one ends the turn.
Emit(t) ==
    /\ Running(t) /\ turns[t].events < MaxEvents
    /\ \E ended \in BOOLEAN :
          /\ turns' = [turns EXCEPT ![t].events = @ + 1, ![t].ended = ended]
          /\ turns[t].events + 1 = MaxEvents => ended
    /\ UNCHANGED <<sessionId, busy, stream, live, history, records, loads, refreshes, complete, overtaken>>

\* A turn stops without a last event.
Stop(t) ==
    /\ Running(t)
    /\ turns' = [turns EXCEPT ![t].ended = TRUE]
    /\ UNCHANGED <<sessionId, busy, stream, live, history, records, loads, refreshes, complete, overtaken>>

-----------------------------------------------------------------------------
(* send *)

\* The page is free as soon as no message is under way, whatever it still loads.
MayAct == ~busy /\ Len(loads) < MaxLoads

Send ==
    /\ MayAct /\ Len(turns) < MaxTurns
    /\ busy' = TRUE
    /\ stream' = [session |-> sessionId, stage |-> "asked", turn |-> None, got |-> 0]
    /\ live' = NoLive
    /\ overtaken' = IF loads = <<>> THEN overtaken ELSE "yes"
    /\ UNCHANGED <<turns, sessionId, history, records, loads, refreshes, complete>>

\* The events that arrived are reduced, one after the other.
Deliver ==
    /\ stream.stage = "open" /\ stream.got < turns[stream.turn].events
    /\ stream' = [stream EXCEPT !.got = @ + 1]
    /\ live' = Reduce(live, stream.turn, stream.got + 1)
    /\ UNCHANGED <<turns, sessionId, busy, history, records, loads, refreshes, complete, overtaken>>

\* However the stream ends, the page is free again and then loads the session.
SendEnds(session) ==
    /\ busy' = FALSE
    /\ stream' = NoStream
    /\ loads' = Append(loads, NewLoad(session))
    /\ overtaken' = IF overtaken = "yes" /\ loads = <<>> THEN "mending" ELSE overtaken

\* The turn is over and all its events are here; or another turn is running and the
\* server answers with an error.
StreamOver ==
    \/ /\ stream.stage = "open" /\ turns[stream.turn].ended
       /\ stream.got = turns[stream.turn].events
    \/ stream.stage = "asked" /\ \E t \in Of(stream.session) : Running(t)

StreamEnds ==
    /\ StreamOver
    /\ SendEnds(stream.session)
    /\ complete' = ~\E t \in Of(stream.session) : Running(t)
    /\ UNCHANGED <<turns, sessionId, live, history, records, refreshes>>

\* The connection is lost, or the operator cancels.
StreamBreaks ==
    /\ busy
    /\ SendEnds(stream.session)
    /\ complete' = FALSE
    /\ UNCHANGED <<turns, sessionId, live, history, records, refreshes>>

-----------------------------------------------------------------------------
(* loadSession *)

Serve(i) ==
    /\ loads[i].stage = "asked"
    /\ loads' = [loads EXCEPT ![i].stage = "session", ![i].known = Of(loads[i].session)]
    /\ UNCHANGED <<turns, sessionId, busy, stream, live, history, records, refreshes, complete,
                   overtaken>>

\* A mutant: the reducer goes on from what a load that was overtaken left in it.
ResetNot == live

\* client.reset
Reset == NoLive

\* The session arrives: its messages are shown, and the reducer starts anew.
ShowMessages(i) ==
    /\ loads[i].stage = "session"
    /\ history' = [session |-> loads[i].session, known |-> loads[i].known]
    /\ live' = Reset
    /\ loads' = [loads EXCEPT ![i].stage = "events"]
    /\ UNCHANGED <<turns, sessionId, busy, stream, records, refreshes, complete, overtaken>>

\* The events of one turn are read, in any order.
ServeEvents(i) ==
    /\ loads[i].stage = "events"
    /\ \E t \in loads[i].known \ DOMAIN loads[i].replay :
          loads' = [loads EXCEPT ![i].replay =
                      [u \in DOMAIN @ \union {t} |-> IF u = t THEN turns[t].events ELSE @[u]]]
    /\ UNCHANGED <<turns, sessionId, busy, stream, live, history, records, refreshes, complete,
                   overtaken>>

Latest(known) == CHOOSE t \in known : \A u \in known : u <= t

\* The inspector shows the latest turn.
Replayed(load) ==
    IF load.known = {} THEN live
    ELSE Replay(live, Latest(load.known), load.replay[Latest(load.known)])

\* All events are here: the turns' records are set and the latest turn is replayed.
ShowTurns(i) ==
    /\ loads[i].stage = "events" /\ DOMAIN loads[i].replay = loads[i].known
    /\ records' = loads[i].replay
    /\ live' = Replayed(loads[i])
    /\ loads' = RemoveAt(loads, i)
    /\ overtaken' = IF overtaken = "mending" THEN "no" ELSE overtaken
    /\ UNCHANGED <<turns, sessionId, busy, stream, history, refreshes, complete>>

\* A request of the load fails.
LoadFails(i) ==
    /\ loads' = RemoveAt(loads, i)
    /\ complete' = FALSE
    /\ overtaken' = IF overtaken = "mending" THEN "yes" ELSE overtaken
    /\ UNCHANGED <<turns, sessionId, busy, stream, live, history, records, refreshes>>

Load(i) == Serve(i) \/ ShowMessages(i) \/ ServeEvents(i) \/ ShowTurns(i)

-----------------------------------------------------------------------------
(* newSession, and a reload of the page *)

NewHistory(session) == [session |-> session, known |-> {}]

\* A session with a new name starts empty, and is loaded.
NewSession(session) ==
    /\ MayAct
    /\ Of(session) = {} /\ session # sessionId
    /\ sessionId' = session
    /\ records' = <<>> /\ history' = NewHistory(session) /\ live' = NoLive
    /\ loads' = Append(loads, NewLoad(session))
    /\ complete' = TRUE
    /\ overtaken' = IF loads = <<>> THEN "no" ELSE "yes"
    /\ UNCHANGED <<turns, busy, stream, refreshes>>

\* The name of the session outlives the page, everything else is loaded again.
Refresh ==
    /\ refreshes < MaxRefresh
    /\ busy' = FALSE /\ stream' = NoStream
    /\ live' = NoLive /\ history' = [session |-> sessionId, known |-> {}] /\ records' = <<>>
    /\ loads' = Opening
    /\ refreshes' = refreshes + 1
    /\ complete' = ~\E t \in Of(sessionId) : Running(t)
    /\ overtaken' = "no"
    /\ UNCHANGED <<turns, sessionId>>

-----------------------------------------------------------------------------

Server == Accept \/ \E t \in DOMAIN turns : Emit(t) \/ Stop(t)

Next ==
    \/ Server
    \/ Send \/ Deliver \/ StreamEnds \/ StreamBreaks
    \/ \E i \in DOMAIN loads : Load(i) \/ LoadFails(i)
    \/ \E session \in Sessions : NewSession(session)
    \/ Refresh

Spec == Init /\ [][Next]_vars

\* Turns end, streams deliver and loads go on.
FairSpec ==
    /\ Spec
    /\ WF_vars(Server) /\ WF_vars(Deliver \/ StreamEnds)
    /\ WF_vars(\E i \in DOMAIN loads : Load(i))

-----------------------------------------------------------------------------

TypeOK ==
    /\ turns \in Seq(Turn) /\ Len(turns) <= MaxTurns
    /\ sessionId \in Sessions /\ busy \in BOOLEAN /\ complete \in BOOLEAN
    /\ overtaken \in {"no", "yes", "mending"}
    /\ stream.stage \in {"none", "asked", "open"} /\ (stream.stage # "none") = busy
    /\ live.turn \in DOMAIN turns \union {None} /\ live.seen \subseteq 1..MaxEvents
    /\ history.session \in Sessions /\ history.known \subseteq DOMAIN turns
    /\ DOMAIN records \subseteq DOMAIN turns
    /\ \A i \in DOMAIN loads : loads[i].stage \in {"asked", "session", "events"}

\* While the events of a turn arrive, the page shows exactly those that have
\* (docs/architecture.md:143); a load that is still going on must not reset the page or
\* put an older turn in its place (App.tsx:2769, 2798).
StreamShown ==
    busy /\ stream.got > 0 => live = [turn |-> stream.turn, seen |-> 1..stream.got]

\* A new session clears all cards: those of another session do not come back
\* (web/tests/reducer.spec.ts:27).
OwnCards == live.turn # None => live.turn \in Of(sessionId)

\* The page shows the messages and the cards of its own session (App.tsx:3112).
OwnSession == OwnCards /\ history.session = sessionId /\ history.known \subseteq Of(sessionId)

\* Once the page has loaded what followed the last turn, it shows every turn of the
\* session with all its events, and the latest one whole; after a broken stream a reload
\* of the page brings this about (api.ts:117).
AllIsShown ==
    LET mine == Of(sessionId)
    IN  ~busy /\ complete /\ loads = <<>> =>
            /\ history.known = mine
            /\ \A t \in mine : t \in DOMAIN records /\ records[t] = turns[t].events
            /\ mine # {} => live = Replay(NoLive, Latest(mine), turns[Latest(mine)].events)

\* Also when loads overlap, the page shows no event that the server did not record, and
\* the messages of one session only (App.tsx:2764).
Recorded ==
    /\ history.known \subseteq Of(history.session)
    /\ \A t \in DOMAIN records : records[t] \in 0..turns[t].events
    /\ live.turn # None => live.seen \subseteq 1..turns[live.turn].events

\* Whatever the operator does: as long as no message or new session overtakes a load, the
\* page shows what there is; once one did, it shows what was recorded, and shows what there
\* is again as soon as a load that began with no other under way is through, a session is
\* begun with none under way, or the page is reloaded (App.tsx:3079).
TrueToSession ==
    Recorded /\ (overtaken = "no" => StreamShown /\ OwnSession /\ AllIsShown)

\* The page becomes free again, also after a turn that stopped without its last event.
Returns == busy ~> ~busy
=============================================================================
