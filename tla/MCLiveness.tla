----------------------------- MODULE MCLiveness -----------------------------
(***************************************************************************)
(* What must come to an end, in one run: turns, their tool calls, requests *)
(* to the servers, starts, reads and operations.  The parts share no state *)
(* and are checked side by side, each as small as its question allows: a   *)
(* behaviour picks one instance in part and runs it alone, under the       *)
(* fairness of that component.                                             *)
(***************************************************************************)
EXTENDS Naturals, Sequences, TLC

CONSTANTS
    Parts,                    \* the instances that are explored
    None, a1, a2, a3, b1, x1, \* requests, calls, turns; sessions, states; advertisers
    d1, openrouter, owned, small, \* settings
    e1                        \* an entity

VARIABLES
    part,   \* the instance that runs
    \* AgentTurn
    session, lease, turn, call, feed, log, faults,
    \* TurnTools
    slot, provenance, reports, inFlight, cards, change, mutationMu, known, reads, taken, told,
    \* OAuthConnection
    now, intents, rows, listenerConn, redirect, listenerPc, carried, vault, exchanged, grants,
    crashes,
    \* SettingsGate
    readers, writer, gatePc, gateReq, began, app, settings, modelKey, openRouterKey,
    attempts, saved, budgets, gateLease, held, sent, used, restarts,
    \* OperatorKey
    path, bytes, keyPc, tries, handle, key, keyFaults, keyCrashes,
    \* WebClient
    shownTurns, sessionId, busy, stream, live, history, records, loads, refreshes, complete,
    overtaken,
    \* MemoryStore
    store, version, dbWriter, conn, mu, count, memoryPc, snapshot, found, promised,
    \* PlatformOperation
    kind, action, operationPc, step, attempt, stepsKnown, outcome, confirmed, edits, on, past,
    flight, answer, posts, newer, replied,
    \* PagedRead
    read, says, there, page, pageAttempt, got, end, start, changes, removed,
    \* ConversationPage
    turns, before, joined, shown, done

turnVars == <<session, lease, turn, call, feed, log, faults>>
toolVars == <<slot, provenance, reports, inFlight, cards, change, mutationMu, known, reads,
              taken, told>>
listener == <<now, intents, rows, listenerConn, redirect, listenerPc, carried, vault,
              exchanged, grants, crashes>>
gate == <<readers, writer, gatePc, gateReq, began, app, settings, modelKey, openRouterKey,
          attempts, saved, budgets, gateLease, held, sent, used, restarts>>
keyFile == <<path, bytes, keyPc, tries, handle, key, keyFaults, keyCrashes>>
browser == <<shownTurns, sessionId, busy, stream, live, history, records, loads, refreshes,
             complete, overtaken>>
memories == <<store, version, dbWriter, conn, mu, count, memoryPc, snapshot, found, promised>>
operation == <<kind, action, operationPc, step, attempt, stepsKnown, outcome, confirmed, edits,
               on, past, flight, answer, posts, newer, replied>>
reader == <<read, says, there, page, pageAttempt, got, end, start, changes, removed>>
paged == <<turns, before, joined, shown, done>>
everything == <<part, turnVars, toolVars, listener, gate, keyFile, browser, memories,
                operation, reader, paged>>

-----------------------------------------------------------------------------

\* One turn with two calls that mutate.
Turns == INSTANCE AgentTurn WITH
    Turn <- {a1}, Host <- {b1}, Binding <- {b1}, Call <- {a1, a2}, Mutation <- {a1, a2},
    Staging <- {a1}, Asks <- {a1}, Captures <- TRUE,
    LeaseTTL <- 4, TurnTimeout <- 1, MemoryTimeout <- 1, SaveTimeout <- 1,
    Slack <- 0, MaxFaults <- 1

\* Two calls at once, both of which may mutate, or wait for one place for a report.
Tools == INSTANCE TurnTools WITH
    Slot <- {a1, a2}, Entity <- {e1}, Level <- e1 :> 1, Query <- {b1}, Change <- {x1},
    Earlier <- {x1}, Tool <- {"list", "report", "discard"},
    MaxSeen <- 1, MaxListed <- 1, MaxReports <- 1, MaxCards <- 1, call <- slot

\* Two callbacks of one state, and a crash.
OAuth == INSTANCE OAuthConnection WITH
    State <- {b1}, Callback <- {a1, a2}, Advertiser <- {x1}, Code <- {d1},
    Advertisers <- d1 :> <<x1>>, Redirects <- {"u1"}, Ttl <- 1, MaxTime <- 1, MaxCrashes <- 1,
    conn <- listenerConn, pc <- listenerPc, req <- carried

\* Three requests: turns, settings and an OpenRouter authorization.
Initial == [connection |-> "http", dest |-> d1, web |-> FALSE, source |-> owned, budget |-> small]
Settings == INSTANCE SettingsGate WITH
    Request <- {a1, a2, a3}, Owner <- {b1}, Destination <- {d1, openrouter},
    OpenRouter <- openrouter, Source <- {owned}, SandboxSource <- {}, Budget <- {small},
    Kind <- {"turn", "save", "start", "complete"}, Value <- {Initial},
    Deployment <- [settings |-> Initial,
                   app |-> [source |-> owned, budget |-> small, writable |-> TRUE, live |-> TRUE]],
    Attempt <- {x1}, MaxAttempts <- 1, MaxCrashes <- 0,
    pc <- gatePc, req <- gateReq, seen <- began, lease <- gateLease, crashes <- restarts

Keys == INSTANCE OperatorKey WITH
    Start <- {a1, a2, a3}, MaxFaults <- 0, MaxCrashes <- 0,
    pc <- keyPc, attempt <- tries, faults <- keyFaults, crashes <- keyCrashes

Web == INSTANCE WebClient WITH
    Sessions <- {"one", "two"}, First <- "one", MaxTurns <- 2, MaxEvents <- 1,
    MaxRefresh <- 1, MaxLoads <- 1, turns <- shownTurns

\* Two extractions of one turn, and another process that deletes.
Memory == INSTANCE MemoryStore WITH
    Calls <- {a1, a2, a3}, Op <- (a1 :> "upsert") @@ (a2 :> "upsert") @@ (a3 :> "delete"),
    Key <- (a1 :> e1) @@ (a2 :> e1) @@ (a3 :> None),
    Process <- (a1 :> "server") @@ (a2 :> "server") @@ (a3 :> "cli"),
    Turn <- [c \in {a1, a2, a3} |-> b1], MaxFacts <- 1,
    writer <- dbWriter, pc <- memoryPc

Platform == INSTANCE PlatformOperation WITH
    Kinds <- {"bundle", "create", "update", "moderate", "write"}, Actions <- {"hide"},
    Window <- 1, MaxEdits <- 1, pc <- operationPc, known <- stepsKnown, held <- on

Reading == INSTANCE PagedRead WITH
    Item <- {a1, a2, a3}, Foreign <- {a3}, Reads <- {"list", "objects"},
    Totals <- {"pages", "nothing"}, Size <- 1, MaxPages <- 2, Tries <- 2,
    MaxEdits <- 2, attempt <- pageAttempt, outcome <- end, edits <- changes

Pages == INSTANCE ConversationPage WITH
    Texts <- {1, 5}, Rests <- {0, 5}, Limit <- 6, Frame <- 1, PageTurns <- 2, MaxTurns <- 3

-----------------------------------------------------------------------------

\* A part that does not run stands at one of its beginnings.
SideInit ==
    /\ part \in Parts
    /\ Turns!Init /\ Tools!Init /\ OAuth!Init /\ Settings!Init /\ Keys!Init /\ Web!Init
    /\ Memory!Init
    /\ Platform!Init /\ (part # "platform" => kind = "write")
    /\ Reading!Init /\ (part # "reading" => read = "list" /\ says = "pages" /\ there = <<>>)
    /\ Pages!Init /\ (part # "pages" => turns = <<>>)

SideNext ==
    \/ part = "turns" /\ Turns!Next
       /\ UNCHANGED <<part, toolVars, listener, gate, keyFile, browser, memories, operation, reader, paged>>
    \/ part = "tools" /\ Tools!Next
       /\ UNCHANGED <<part, turnVars, listener, gate, keyFile, browser, memories, operation, reader, paged>>
    \/ part = "oauth" /\ OAuth!Next
       /\ UNCHANGED <<part, turnVars, toolVars, gate, keyFile, browser, memories, operation, reader, paged>>
    \/ part = "settings" /\ Settings!Next
       /\ UNCHANGED <<part, turnVars, toolVars, listener, keyFile, browser, memories, operation, reader, paged>>
    \/ part = "keys" /\ Keys!Next
       /\ UNCHANGED <<part, turnVars, toolVars, listener, gate, browser, memories, operation, reader, paged>>
    \/ part = "web" /\ Web!Next
       /\ UNCHANGED <<part, turnVars, toolVars, listener, gate, keyFile, memories, operation, reader, paged>>
    \/ part = "memory" /\ Memory!Next
       /\ UNCHANGED <<part, turnVars, toolVars, listener, gate, keyFile, browser, operation, reader, paged>>
    \/ part = "platform" /\ Platform!Next
       /\ UNCHANGED <<part, turnVars, toolVars, listener, gate, keyFile, browser, memories, reader, paged>>
    \/ part = "reading" /\ Reading!Next
       /\ UNCHANGED <<part, turnVars, toolVars, listener, gate, keyFile, browser, memories, operation, paged>>
    \/ part = "pages" /\ Pages!Next
       /\ UNCHANGED <<part, turnVars, toolVars, listener, gate, keyFile, browser, memories, operation, reader>>

\* The fairness of each component.  Callbacks and requests are finitely many here, so
\* that weak fairness is enough where the components state a strong one.
SideFairness ==
    /\ WF_turnVars(part = "turns" /\ Turns!HostStep(a1))
    /\ WF_turnVars(part = "turns" /\ Turns!Judge(a1) /\ ~turn[a1].alive)
    /\ \A c \in {a1, a2} : WF_turnVars(part = "turns" /\ Turns!ToolStep(a1, c))
    /\ WF_turnVars(part = "turns" /\ Turns!Tick)
    /\ \A s \in {a1, a2} : WF_toolVars(part = "tools" /\ Tools!Run(s))
    /\ \A s \in {a1, a2} : SF_toolVars(part = "tools" /\ Tools!Lock(s))
    /\ \A c \in {a1, a2} : WF_listener(part = "oauth" /\ OAuth!Serve(c))
    /\ \A r \in {a1, a2, a3} : WF_gate(part = "settings" /\ Settings!Serve(r))
    /\ \A p \in {a1, a2, a3} : WF_keyFile(part = "keys" /\ Keys!Step(p))
    /\ WF_browser(part = "web" /\ Web!Server)
    /\ WF_browser(part = "web" /\ (Web!Deliver \/ Web!StreamEnds))
    /\ WF_browser(part = "web" /\ \E i \in DOMAIN loads : Web!Load(i))
    /\ \A c \in {a1, a2, a3} : WF_memories(part = "memory" /\ Memory!Step(c))
    /\ WF_operation(part = "platform" /\ Platform!Client)
    /\ WF_reader(part = "reading" /\ (Reading!Again \/ Reading!Fail \/ Reading!Page))
    /\ WF_paged(part = "pages" /\ Pages!ReadPage)

FairSideBySide == SideInit /\ [][SideNext]_everything /\ SideFairness

-----------------------------------------------------------------------------

\* Every turn that begins comes to an end, whatever fails, and however many tools wait
\* for the one that mutates (host.go:489); and the session is not blocked for ever by a
\* turn whose process died or whose lease could not be given back (store.go:179).
TurnsEnd == Turns!TurnsEnd /\ Turns!LeaseIsFreed

\* Whoever asks is answered: tool calls, though they wait for a mutex or a place among the
\* reports (host.go:489); callbacks, unless the listener dies under them (oauth.go:91);
\* requests that wait for the lock of the configuration (settings.go:234); calls of the
\* memories, whichever fail (memory.go:84); operations on the platform (client.go:164).
\* A start on a directory that has a key serves (server.go:104), and the page becomes free
\* after a stream without its last event (api.ts:116).  What reads page by page ends,
\* though every page may add to what is read (backend.go:253, conversation.go:163).
AskedIsAnswered ==
    /\ Tools!Answered
    /\ OAuth!Answered
    /\ Settings!Answered
    /\ Memory!CallsEnd
    /\ part = "platform" ~> outcome # None
    /\ Keys!RestartServes
    /\ Web!Returns
    /\ part = "reading" ~> end # None
    /\ part = "pages" ~> done
=============================================================================
