------------------------------ MODULE MCServer ------------------------------
(***************************************************************************)
(* The Web server and its neighbours in one run: the OAuth listener, the   *)
(* configuration gate, the operator key, a browser, and TikTok's reads and *)
(* operations.  They share no state and are checked side by side: a        *)
(* behaviour picks one instance in part and runs it alone.                 *)
(***************************************************************************)
EXTENDS OAuthConnection, TLC

CONSTANTS
    Parts, \* the instances that are explored
    a1, a2, a3, a4, \* callbacks, requests and starts of a server
    b1, b2,         \* random states, OpenRouter authorizations
    both, second, x1, x2, \* codes and advertisers
    owned, other, sandbox, d1, openrouter, small, large,
    r1, r2, r3, r4

VARIABLES
    part,   \* the instance that runs
    \* SettingsGate
    readers, writer, gatePc, gateReq, began, app, settings, modelKey, openRouterKey,
    attempts, saved, budgets, lease, held, sent, used, restarts,
    \* OperatorKey
    path, bytes, keyPc, tries, handle, key, faults, keyCrashes,
    \* WebClient
    turns, sessionId, busy, stream, live, history, records, loads, refreshes, complete,
    overtaken,
    \* PagedRead
    read, says, there, page, pageAttempt, got, end, start, changes, removed,
    \* PlatformOperation
    kind, action, operationPc, step, attempt, known, outcome, confirmed, edits, on, past,
    flight, answer, posts, newer, replied

gate == <<readers, writer, gatePc, gateReq, began, app, settings, modelKey, openRouterKey,
          attempts, saved, budgets, lease, held, sent, used, restarts>>
keyFile == <<path, bytes, keyPc, tries, handle, key, faults, keyCrashes>>
browser == <<turns, sessionId, busy, stream, live, history, records, loads, refreshes,
             complete, overtaken>>
reader == <<read, says, there, page, pageAttempt, got, end, start, changes, removed>>
operation == <<kind, action, operationPc, step, attempt, known, outcome, confirmed, edits,
               on, past, flight, answer, posts, newer, replied>>

-----------------------------------------------------------------------------
(* Codes grant two advertisers and one of them.                              *)

Granted == both :> <<x1, x2>> @@ second :> <<x2>>

-----------------------------------------------------------------------------
(* The gate: settings for several accounts, and for several providers.       *)

Form(connection, dest, web, source, budget) ==
    [connection |-> connection, dest |-> dest, web |-> web, source |-> source, budget |-> budget]
Initial == Form("http", d1, FALSE, owned, small)
Composed == [settings |-> Initial,
             app |-> [source |-> owned, budget |-> small, writable |-> TRUE, live |-> TRUE]]
Providers == {Initial, Form("http", d1, TRUE, owned, small),
              Form("openrouter", openrouter, TRUE, owned, small)}
AccountForms == {Initial, Form("http", d1, FALSE, sandbox, large),
                 Form("http", d1, FALSE, other, large)}

Accounts == INSTANCE SettingsGate WITH
    Request <- {a1, a2, a3}, Owner <- {b1}, Destination <- {d1, openrouter},
    OpenRouter <- openrouter, Source <- {owned, other, sandbox}, SandboxSource <- {sandbox},
    Budget <- {small, large}, Kind <- {"load", "turn", "save"}, Value <- AccountForms,
    Deployment <- Composed, Attempt <- {}, MaxAttempts <- 1, MaxCrashes <- 1,
    pc <- gatePc, req <- gateReq, seen <- began, crashes <- restarts
Keys == INSTANCE SettingsGate WITH
    Request <- {a1, a2, a3, a4}, Owner <- {b1}, Destination <- {d1, openrouter},
    OpenRouter <- openrouter, Source <- {owned}, SandboxSource <- {},
    Budget <- {small, large}, Kind <- {"save", "start", "complete"}, Value <- Providers,
    Deployment <- Composed, Attempt <- {x1}, MaxAttempts <- 1, MaxCrashes <- 0,
    pc <- gatePc, req <- gateReq, seen <- began, crashes <- restarts

ASSUME GatesAssumption ==
    /\ Accounts!GateAssumption /\ Accounts!NoneAssumption
    /\ Keys!GateAssumption /\ Keys!NoneAssumption

-----------------------------------------------------------------------------
(* The operator key: starts that die, and writes that fail.                  *)

Dying == INSTANCE OperatorKey WITH
    Start <- {a1, a2, a3, a4}, MaxFaults <- 0, MaxCrashes <- 2,
    pc <- keyPc, attempt <- tries, crashes <- keyCrashes
Failing == INSTANCE OperatorKey WITH
    Start <- {a1, a2, a3}, MaxFaults <- 2, MaxCrashes <- 1,
    pc <- keyPc, attempt <- tries, crashes <- keyCrashes

ASSUME KeysAssumption ==
    /\ Dying!FaultAssumption
    /\ Failing!FaultAssumption

-----------------------------------------------------------------------------
(* The browser of an operator who need not wait for a load, and TikTok.      *)

Web == INSTANCE WebClient WITH
    Sessions <- {"one", "two"}, First <- "one", MaxTurns <- 2, MaxEvents <- 2,
    MaxRefresh <- 1, MaxLoads <- 2

Paged == INSTANCE PagedRead WITH
    Item <- {r1, r2, r3, r4}, Foreign <- {r4}, Reads <- {"list", "report", "objects"},
    Totals <- {"pages", "number", "nothing"}, Size <- 2, MaxPages <- 2, Tries <- 2,
    MaxEdits <- 2, attempt <- pageAttempt, outcome <- end, edits <- changes

Platform == INSTANCE PlatformOperation WITH
    Kinds <- {"bundle", "create", "update", "moderate", "write"}, Actions <- {"hide", "delete", "reply"},
    Window <- 2, MaxEdits <- 1, pc <- operationPc, held <- on

ASSUME ClientsAssumption ==
    /\ Web!FirstAssumption
    /\ Paged!ReadAssumption /\ Paged!PageAssumption /\ Paged!NoneAssumption
    /\ Platform!KindAssumption /\ Platform!BoundAssumption /\ Platform!NoneAssumption

-----------------------------------------------------------------------------

\* A part that does not run stands at one of its beginnings.
SideInit ==
    /\ part \in Parts
    /\ Init /\ (part # "oauth" => redirect = CHOOSE url \in Redirects : TRUE)
    /\ IF part = "accounts" THEN Accounts!Init ELSE Keys!Init
    /\ IF part = "failing" THEN Failing!Init ELSE Dying!Init
    /\ Web!Init
    /\ Paged!Init /\ (part # "paged" => read = "list" /\ says = "pages" /\ there = <<>>)
    /\ Platform!Init /\ (part # "platform" => kind = "write")

SideNext ==
    \/ part = "oauth" /\ Next /\ UNCHANGED <<part, gate, keyFile, browser, reader, operation>>
    \/ /\ \/ part = "accounts" /\ Accounts!Next
          \/ part = "keys" /\ Keys!Next
       /\ UNCHANGED <<part, vars, keyFile, browser, reader, operation>>
    \/ /\ \/ part = "dying" /\ Dying!Next
          \/ part = "failing" /\ Failing!Next
       /\ UNCHANGED <<part, vars, gate, browser, reader, operation>>
    \/ part = "web" /\ Web!Next
       /\ UNCHANGED <<part, vars, gate, keyFile, reader, operation>>
    \/ part = "paged" /\ Paged!Next /\ UNCHANGED <<part, vars, gate, keyFile, browser, operation>>
    \/ part = "platform" /\ Platform!Next
       /\ UNCHANGED <<part, vars, gate, keyFile, browser, reader>>

SideBySide ==
    SideInit /\ [][SideNext]_<<part, vars, gate, keyFile, browser, reader, operation>>

\* Keys and accounts are tried apart: no key is entered while accounts change.
Apart == part = "accounts" =>
    \A r \in {a1, a2, a3} : gateReq[r] # None /\ gateReq[r].kind = "save" /\ gatePc[r] = "try"
        => ~gateReq[r].entered

-----------------------------------------------------------------------------

\* The types of the components.
TypesOK ==
    /\ TypeOK
    /\ part = "accounts" => Accounts!TypeOK
    /\ part = "keys" => Keys!TypeOK
    /\ part = "failing" => Failing!TypeOK
    /\ part = "web" => Web!TypeOK
    /\ part = "paged" => Paged!TypeOK
    /\ part = "platform" => Platform!TypeOK

\* A request works with one configuration although settings are saved while it runs;
\* between settings requests, and after a restart, services, settings and budgets agree,
\* and only the deployment's own account has live write authority; budgets do not change
\* under an apply.  Installed keys fit, and an OpenRouter authorization is exchanged once
\* (httpapi/settings.go:234).
SettingsHold ==
    /\ [](/\ part = "accounts" => Accounts!ConfigurationHolds
          /\ part = "keys" => Keys!ConfigurationHolds)
    /\ [][/\ part = "accounts" => Accounts!KeepsBudgets
          /\ part = "keys" => Keys!KeepsBudgets]_gate

\* Each server that serves accepts exactly the key in its operator-key file, however many
\* start at once and whichever of them die; one that made the key keeps it, whatever
\* other starts run into (httpapi/server.go:109).
KeyIsServed ==
    /\ part = "dying" => Dying!SignInPossible
    /\ part = "failing" => Failing!MakerKeepsKey

\* The page shows the events of a turn that have arrived, in its own session only, and
\* every turn whole once it has loaded what followed; an operator who sends or begins a
\* session while a load is under way spoils this no longer than until a load alone is
\* through (web/src/App.tsx:2769, 3079).
PageIsTrue == part = "web" => Web!TrueToSession

\* A read of a listing that stays as it is returns it whole and once, and a failed page
\* never leaves a shorter list; records added meanwhile hide none that was there; nothing
\* of another parent or account gets through (tiktokmapi/backend.go:253).
ReadsAreWhole ==
    part = "paged" => Paged!WholeWhenStill /\ Paged!AddedHideNothing /\ Paged!NothingForeign

\* No request of an operation is sent twice, whatever becomes of its answer; the outcome
\* tells what the platform may have done, also later; and an operation that can be read
\* back is confirmed only if the platform held what was submitted (tiktokmapi/client.go:164).
\* The Change Service gets one answer, of those it reckons with (agenthost/changes.go:250).
OperationsHold ==
    /\ [](part = "platform" => Platform!OperationsAreTrue)
    /\ part = "platform" => Platform!Write!Init
    /\ [][part = "platform" => Platform!Write!Next \/ UNCHANGED Platform!Write!vars]_operation

Alike == Permutations({a1, a2, a3}) \union Permutations({b1, b2})
=============================================================================
