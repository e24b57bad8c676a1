--------------------------- MODULE OAuthConnection ---------------------------
(***************************************************************************)
(* Connecting TikTok advertisers: the one-time states of                   *)
(* internal/store/oauth.go, the callback listener of                       *)
(* internal/oauthcallback/handler.go and the credential files of           *)
(* internal/tiktokmapi/vault.go.  Callbacks are served concurrently by one *)
(* listener (its port is fixed), while another process may offer states.   *)
(***************************************************************************)
EXTENDS Integers, Sequences, FiniteSets

CONSTANTS
    State,       \* random states, each offered at most once
    Callback,    \* requests the listener receives
    Advertiser,
    Code,        \* authorization codes; a code stands for its access token
    Advertisers, \* [Code -> the advertisers TikTok grants for it, in order]
    Redirects,   \* the values of --redirect-url
    Ttl,         \* of a state
    MaxTime,     \* bound on time
    MaxCrashes,  \* bound on restarts of the listener
    None

ASSUME ConnectionAssumption ==
    /\ Ttl \in Nat
    /\ MaxTime \in Nat
    /\ MaxCrashes \in Nat
    /\ Advertisers \in [Code -> Seq(Advertiser)]
    /\ None \notin State \cup Code \cup Callback

VARIABLES
    now,
    intents,   \* ghost: what each state was offered for, or None
    rows,      \* the states of table oauth_states
    conn,      \* who holds the one connection of the store, or None
    redirect,  \* the listener's redirect URL
    pc, req,   \* each callback's progress and its request
    vault,     \* [advertiser -> its credential file, or None]
    exchanged, \* ghost: how often each state led to an exchange
    grants,    \* ghost: what TikTok granted to which request
    crashes

vars == <<now, intents, rows, conn, redirect, pc, req, vault, exchanged,
          grants, crashes>>
listener == <<conn, redirect, pc, req>>

Intent == [expires : Nat, redirect : Redirects]
Request == [state : State, code : Code \cup {None}, at : Nat, next : Nat]
Credential == [token : Code, whole : BOOLEAN]

ASSUME NoneAssumption == None \notin Intent \cup Request \cup Credential

TypeOK ==
    /\ now \in Nat
    /\ intents \in [State -> Intent \cup {None}]
    /\ rows \subseteq State
    /\ conn \in Callback \cup {None}
    /\ redirect \in Redirects
    /\ pc \in [Callback -> {"idle", "begin", "delete", "intent", "exchange",
                            "check", "write", "rename", "success", "failure", "lost"}]
    /\ req \in [Callback -> Request \cup {None}]
    /\ vault \in [Advertiser -> Credential \cup {None}]
    /\ exchanged \in [State -> Nat]
    /\ grants \subseteq [request : Request, redirect : Redirects]
    /\ crashes \in 0..MaxCrashes

Init ==
    /\ now = 0
    /\ intents = [s \in State |-> None]
    /\ rows = {}
    /\ conn = None
    /\ redirect \in Redirects
    /\ pc = [c \in Callback |-> "idle"]
    /\ req = [c \in Callback |-> None]
    /\ vault = [a \in Advertiser |-> None]
    /\ exchanged = [s \in State |-> 0]
    /\ grants = {}
    /\ crashes = 0

Tick ==
    /\ now < MaxTime
    /\ now' = now + 1
    /\ UNCHANGED <<intents, rows, vault, exchanged, grants, crashes, listener>>

-----------------------------------------------------------------------------

(* The command oauth-start offers a state for 15 minutes.  Its row is one  *)
(* insert; a start that dies before it prints the state leaves the row.    *)
BeginOAuth(s, url) ==
    /\ intents[s] = None
    /\ intents' = [intents EXCEPT ![s] = [expires |-> now + Ttl, redirect |-> url]]
    /\ rows' = rows \cup {s}
    /\ UNCHANGED <<now, vault, exchanged, grants, crashes, listener>>

(* A well formed callback, whoever sent it: the browser, a reload of its   *)
(* page, or TikTok with an error and no code.  Its time is taken at once.  *)
Receive(c, s, code) ==
    /\ pc[c] = "idle"
    /\ pc' = [pc EXCEPT ![c] = "begin"]
    /\ req' = [req EXCEPT ![c] = [state |-> s, code |-> code, at |-> now, next |-> 1]]
    /\ UNCHANGED <<now, intents, rows, conn, redirect, vault, exchanged, grants, crashes>>

Answer(c, page) == pc' = [pc EXCEPT ![c] = page]

(* ConsumeOAuth: the transaction has the connection to itself.  Without  *)
(* a row, or when the store fails, the callback fails.                     *)
ReadState(c) ==
    /\ pc[c] = "begin"
    /\ conn = None
    /\ \/ req[c].state \in rows /\ Answer(c, "delete") /\ conn' = c
       \/ Answer(c, "failure") /\ UNCHANGED conn
    /\ UNCHANGED <<now, intents, rows, redirect, req, vault, exchanged, grants, crashes>>

DeleteState(c) ==
    /\ pc[c] = "delete"
    /\ rows' = rows \ {req[c].state}
    /\ Answer(c, "intent")
    /\ conn' = None
    /\ UNCHANGED <<now, intents, redirect, req, vault, exchanged, grants, crashes>>

\* The delete or the commit fails; an unclear commit may have happened.
DeleteFails(c) ==
    /\ pc[c] = "delete"
    /\ rows' \in {rows, rows \ {req[c].state}}
    /\ Answer(c, "failure")
    /\ conn' = None
    /\ UNCHANGED <<now, intents, redirect, req, vault, exchanged, grants, crashes>>

\* A mutant: expiry is left to the platform.
CheckIntentLate(c) ==
    /\ pc[c] = "intent"
    /\ Answer(c, IF /\ intents[req[c].state].redirect = redirect
                    /\ req[c].code # None
                 THEN "exchange" ELSE "failure")
    /\ UNCHANGED <<now, intents, rows, conn, redirect, req, vault, exchanged, grants, crashes>>

\* Expiry is judged after the delete, at the time the request came.
CheckIntent(c) ==
    /\ pc[c] = "intent"
    /\ LET intent == intents[req[c].state]
       IN  Answer(c, IF /\ req[c].at < intent.expires
                        /\ intent.redirect = redirect
                        /\ req[c].code # None
                     THEN "exchange" ELSE "failure")
    /\ UNCHANGED <<now, intents, rows, conn, redirect, req, vault, exchanged, grants, crashes>>

-----------------------------------------------------------------------------
(* Exchange: TikTok answers, or the answer is lost or refused. *)
Exchange(c) ==
    /\ pc[c] = "exchange"
    /\ exchanged' = [exchanged EXCEPT ![req[c].state] = @ + 1]
    /\ \/ /\ Answer(c, "check")
          /\ grants' = grants \cup {[request |-> req[c], redirect |-> redirect]}
       \/ Answer(c, "failure") /\ UNCHANGED grants
    /\ UNCHANGED <<now, intents, rows, conn, redirect, req, vault, crashes>>

\* Store refuses an empty or repeated list of advertisers before it writes.
CheckToken(c) ==
    /\ pc[c] = "check"
    /\ LET ads == Advertisers[req[c].code]
       IN  Answer(c, IF ads # <<>> /\ Cardinality({ads[i] : i \in 1..Len(ads)}) = Len(ads)
                     THEN "write" ELSE "failure")
    /\ UNCHANGED <<now, intents, rows, conn, redirect, req, vault, exchanged, grants, crashes>>

Target(c) == Advertisers[req[c].code][req[c].next]
Credentials(c) == [token |-> req[c].code, whole |-> TRUE]

\* A mutant: the record is written where it is read.
WriteInPlace(c) ==
    /\ pc[c] = "write"
    /\ vault' = [vault EXCEPT ![Target(c)] = [Credentials(c) EXCEPT !.whole = FALSE]]
    /\ \/ Answer(c, "rename")
       \/ Answer(c, "failure")
    /\ UNCHANGED <<now, intents, rows, conn, redirect, req, exchanged, grants, crashes>>

\* atomicWrite: a temporary file, written and synced, replaces the record.
WriteTemporary(c) ==
    /\ pc[c] = "write"
    /\ \/ Answer(c, "rename")
       \/ Answer(c, "failure")
    /\ UNCHANGED <<now, intents, rows, conn, redirect, req, vault, exchanged, grants, crashes>>

Rename(c) ==
    /\ pc[c] = "rename"
    /\ \/ /\ vault' = [vault EXCEPT ![Target(c)] = Credentials(c)]
          /\ req' = [req EXCEPT ![c].next = @ + 1]
          /\ Answer(c, IF req[c].next = Len(Advertisers[req[c].code])
                       THEN "success" ELSE "write")
       \/ Answer(c, "failure") /\ UNCHANGED <<vault, req>>
    /\ UNCHANGED <<now, intents, rows, conn, redirect, exchanged, grants, crashes>>

(* The listener dies: an open transaction is rolled back, requests are     *)
(* lost, files and rows stay.  It may come back with another URL.          *)
Crash ==
    /\ crashes < MaxCrashes
    /\ crashes' = crashes + 1
    /\ conn' = None
    /\ redirect' \in Redirects
    /\ pc' = [c \in Callback |-> IF pc[c] \in {"idle", "success", "failure"}
                                 THEN pc[c] ELSE "lost"]
    /\ UNCHANGED <<now, intents, rows, req, vault, exchanged, grants>>

Serve(c) ==
    \/ ReadState(c) \/ DeleteState(c) \/ DeleteFails(c) \/ CheckIntent(c)
    \/ Exchange(c) \/ CheckToken(c) \/ WriteTemporary(c) \/ Rename(c)

Next ==
    \/ Tick
    \/ \E s \in State, url \in Redirects : BeginOAuth(s, url)
    \/ \E c \in Callback, s \in State, code \in Code \cup {None} : Receive(c, s, code)
    \/ \E c \in Callback : Serve(c)
    \/ Crash

\* The server goes on with the requests it has; nothing makes them come.
Fairness == \A c \in Callback : SF_vars(ReadState(c)) /\ WF_vars(Serve(c))

Spec == Init /\ [][Next]_vars /\ Fairness

-----------------------------------------------------------------------------
(* A state is good for one exchange, whatever callbacks carry it at the    *)
(* same time, fail at the commit, or are cut off by a crash.               *)
StateUsedOnce == \A s \in State : exchanged[s] <= 1

(* A credential of an advertiser comes from a grant that names it, given   *)
(* to a request that carried a state offered for the listener's own        *)
(* redirect URL and came before that state expired.                        *)
AuthorizedRecords ==
    \A a \in Advertiser : vault[a] # None =>
        \E g \in grants :
            /\ g.request.code = vault[a].token
            /\ \E i \in 1..Len(Advertisers[g.request.code]) : Advertisers[g.request.code][i] = a
            /\ g.request.at < intents[g.request.state].expires
            /\ g.redirect = intents[g.request.state].redirect

\* What holds of every authorization, whatever callbacks race and wherever it stops.
AuthorizationsHold == StateUsedOnce /\ AuthorizedRecords

\* Resolve: a file that is missing or does not decode gives no token.
Resolves(a) == vault[a] # None /\ vault[a].whole

(* The page that says the authorization was saved is shown only when every *)
(* advertiser of the grant has a credential, of this or a later grant.     *)
SuccessIsResolvable ==
    \A c \in Callback : pc[c] = "success" =>
        \A i \in 1..Len(Advertisers[req[c].code]) : Resolves(Advertisers[req[c].code][i])

(* An advertiser that has a credential keeps one, through failing writes,  *)
(* crashes and authorizations that fail half way.                          *)
CredentialsSurvive == [][\A a \in Advertiser : Resolves(a) => Resolves(a)']_vars

(* The page that reports success speaks the truth, and no advertiser loses *)
(* the credential it had, through failing writes, crashes and half-done    *)
(* authorizations (vault.go:62).                                           *)
CredentialsKept == []SuccessIsResolvable /\ CredentialsSurvive

(* Every callback is answered, unless the listener dies under it. *)
Answered ==
    \A c \in Callback : pc[c] = "begin" ~> pc[c] \in {"success", "failure", "lost"}

=============================================================================
