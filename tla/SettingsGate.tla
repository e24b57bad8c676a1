----------------------------- MODULE SettingsGate -----------------------------
(***************************************************************************)
(* The Web server's configuration (internal/httpapi/settings.go,           *)
(* openrouter.go, server.go and internal/app/settings.go): requests run    *)
(* under a read lock, settings are replaced under the write lock, and the  *)
(* Change Service of another process works on the same state directory.    *)
(* A model key is named by the destination it was given for.               *)
(***************************************************************************)
EXTENDS Integers, FiniteSets

CONSTANTS
    Request,
    Owner,        \* login sessions, each a browser tab
    Destination,  \* model providers with their URL and protocol
    OpenRouter,   \* the destination of OpenRouter keys
    Source,       \* ad accounts
    SandboxSource,
    Budget,
    Kind,         \* of requests
    Value,        \* the settings that are submitted
    Deployment,   \* the services the command line composed, with settings
    Attempt,      \* OpenRouter authorizations, each started at most once
    MaxAttempts,  \* pending ones
    MaxCrashes,   \* bound on restarts
    None

WorkspaceSettings ==
    [connection : STRING, dest : Destination, web : BOOLEAN, source : Source,
     budget : Budget \cup {None}]
Services == [source : Source, budget : Budget \cup {None}, writable : BOOLEAN, live : BOOLEAN]

\* The settings of the deployment are read off the services it composed.
GateAssumption ==
    /\ OpenRouter \in Destination
    /\ SandboxSource \subseteq Source
    /\ Value \subseteq WorkspaceSettings
    /\ Deployment.settings \in Value
    /\ Deployment.app \in Services
    /\ Deployment.app.source = Deployment.settings.source
    /\ Deployment.app.budget = Deployment.settings.budget
    /\ MaxAttempts \in Nat /\ MaxCrashes \in Nat

VARIABLES
    readers, writer,   \* appMu; a request that waits in Lock has pc "lock"
    pc, req, seen,     \* each request, its input and ghost: what it began with
    app, settings, modelKey, openRouterKey,
    attempts,          \* oauthAttempts, each with its owner
    saved, budgets,    \* the tables workspace_settings and budget_policies
    lease,             \* of an account, by its holder; "dead": not yet lapsed
    held,              \* the model each tab shows and sends with a turn
    sent,              \* ghost: the destinations and keys turns went out with
    used,              \* ghost: how often each attempt was exchanged
    crashes

lock == <<readers, writer>>
memory == <<app, settings, modelKey, openRouterKey>>
disk == <<saved, budgets, lease>>
ghosts == <<sent, used>>
vars == <<lock, pc, req, seen, memory, attempts, disk, held, ghosts, crashes>>

Model(v) == [dest |-> v.dest, web |-> v.web]
Configuration == <<app, settings, modelKey>>

(* configuredRuntime, DecodeSettings, Guardrails: what a value must meet. *)
Valid(v) ==
    /\ v.connection = "openrouter" => v.dest = OpenRouter
    /\ v.budget # None

(* Reconfigure: services of another account start without live authority,  *)
(* and only those of a Sandbox can write.                                  *)
Reconfigure(a, v) ==
    LET same == a.source = v.source
    IN  [source |-> v.source, budget |-> v.budget,
         writable |-> IF same THEN a.writable ELSE v.source \in SandboxSource,
         live |-> same /\ a.live]

\* initSettings: the deployment's services, replaced by what was saved.
Started(old) == IF old = None
                THEN [app |-> Deployment.app, settings |-> Deployment.settings]
                ELSE [app |-> Reconfigure(Deployment.app, old), settings |-> old]

Init ==
    /\ readers = {} /\ writer = None
    /\ pc = [r \in Request |-> "idle"]
    /\ req = [r \in Request |-> None]
    /\ seen = [r \in Request |-> None]
    /\ app = Deployment.app /\ settings = Deployment.settings
    /\ modelKey = None /\ openRouterKey = None
    /\ attempts = [t \in Attempt |-> [status |-> "new", owner |-> None]]
    /\ saved = None
    /\ budgets = [s \in Source |-> None]
    /\ lease = [s \in Source |-> "free"]
    /\ held = [o \in Owner |-> Model(Deployment.settings)]
    /\ sent = {}
    /\ used = [t \in Attempt |-> 0]
    /\ crashes = 0

\* What a request asks, and what a save has become once it is validated.
TabInput == [kind : {"load", "turn", "start"}, owner : Owner]
SaveInput == [kind : {"save"}, value : Value, entered : BOOLEAN]
CompleteInput == [kind : {"complete"}, owner : Owner, attempt : Attempt]
Input == {input \in TabInput \cup SaveInput \cup CompleteInput : input.kind \in Kind}
Prepared == [kind : {"save"}, value : WorkspaceSettings, key : Destination \cup {None},
             app : Services]

NoneAssumption ==
    None \notin Request \cup Destination \cup WorkspaceSettings \cup Input \cup Prepared

TypeOK ==
    /\ readers \subseteq Request /\ writer \in Request \cup {None}
    /\ pc \in [Request -> {"idle", "gate", "serving", "running", "try", "lock", "consume",
                           "validate", "lease", "persist", "install", "start", "exchange",
                           "relock", "key", "done", "lost"}]
    /\ req \in [Request -> Input \cup Prepared \cup {None}]
    /\ seen \in [Request -> (Services \X WorkspaceSettings \X (Destination \cup {None})) \cup {None}]
    /\ settings \in WorkspaceSettings /\ saved \in WorkspaceSettings \cup {None}
    /\ app \in Services
    /\ modelKey \in Destination \cup {None} /\ openRouterKey \in {OpenRouter, None}
    /\ attempts \in [Attempt -> [status : {"new", "pending", "expired", "gone"},
                                 owner : Owner \cup {None}]]
    /\ budgets \in [Source -> Budget \cup {None}]
    /\ lease \in [Source -> {"free", "cli", "settings", "dead"}]
    /\ held \in [Owner -> [dest : Destination, web : BOOLEAN]]
    /\ used \in [Attempt -> Nat]

-----------------------------------------------------------------------------
(* appMu.  Go's RWMutex lets nobody in behind a request that waits in Lock. *)
Waiting == {r \in Request : pc[r] \in {"lock", "relock"}}
Goto(r, label) == pc' = [pc EXCEPT ![r] = label]

Finish(r) ==
    /\ Goto(r, "done")
    /\ readers' = readers \ {r}
    /\ writer' = IF writer = r THEN None ELSE writer
    /\ req' = [req EXCEPT ![r] = None]
    /\ seen' = [seen EXCEPT ![r] = None]
Going == UNCHANGED <<readers, writer, req, seen>>

\* configurationGate: services are used under the read lock.
Arrive(r, input) ==
    /\ pc[r] = "idle"
    /\ req' = [req EXCEPT ![r] = input]
    /\ Goto(r, CASE input.kind \in {"load", "turn"} -> "gate"
                 [] input.kind \in {"save", "start"} -> "try"
                 [] input.kind = "complete" -> "lock")
    /\ UNCHANGED <<lock, seen, memory, attempts, disk, held, ghosts, crashes>>

Enter(r) ==
    /\ pc[r] = "gate"
    /\ writer = None /\ Waiting = {}
    /\ readers' = readers \cup {r}
    /\ seen' = [seen EXCEPT ![r] = Configuration]
    /\ Goto(r, "serving")
    /\ UNCHANGED <<writer, req, memory, attempts, disk, held, ghosts, crashes>>

\* A mutant: the services are replaced under the read lock of a request.
TryLockShared(r) ==
    /\ pc[r] = "try"
    /\ writer = None /\ Waiting = {}
    /\ writer' = r
    /\ Goto(r, IF req[r].kind = "save" THEN "validate" ELSE "start")
    /\ UNCHANGED <<readers, req, seen, memory, attempts, disk, held, ghosts, crashes>>

(* lockSettings: TryLock for a while, then the request is refused. *)
TryLock(r) ==
    /\ pc[r] = "try"
    /\ readers = {} /\ writer = None /\ Waiting = {}
    /\ writer' = r
    /\ Goto(r, IF req[r].kind = "save" THEN "validate" ELSE "start")
    /\ UNCHANGED <<readers, req, seen, memory, attempts, disk, held, ghosts, crashes>>

Busy(r) ==
    /\ pc[r] = "try"
    /\ Finish(r)
    /\ UNCHANGED <<memory, attempts, disk, held, ghosts, crashes>>

\* completeOpenRouter waits in Lock, before and after its exchange.
Lock(r) ==
    /\ r \in Waiting
    /\ readers = {} /\ writer = None
    /\ writer' = r
    /\ Goto(r, IF pc[r] = "lock" THEN "consume" ELSE "key")
    /\ UNCHANGED <<readers, req, seen, memory, attempts, disk, held, ghosts, crashes>>

-----------------------------------------------------------------------------
(* Requests under the read lock: a page loads its configuration, or sends  *)
(* a turn with the model it shows.                                         *)
Load(r) ==
    /\ pc[r] = "serving" /\ req[r].kind = "load"
    /\ held' = [held EXCEPT ![req[r].owner] = Model(settings)]
    /\ Finish(r)
    /\ UNCHANGED <<memory, attempts, disk, ghosts, crashes>>

StartTurn(r) ==
    /\ pc[r] = "serving" /\ req[r].kind = "turn"
    /\ IF modelKey = None /\ held[req[r].owner].web
       THEN Finish(r)
       ELSE Goto(r, "running") /\ Going
    /\ UNCHANGED <<memory, attempts, disk, held, ghosts, crashes>>

\* CredentialRuntime: the key goes to a model that names the web key.
RunTurn(r) ==
    /\ pc[r] = "running"
    /\ LET m == held[req[r].owner]
       IN  sent' = sent \cup {[dest |-> m.dest, key |-> IF m.web THEN modelKey ELSE None]}
    /\ Finish(r)
    /\ UNCHANGED <<memory, attempts, disk, held, used, crashes>>

-----------------------------------------------------------------------------
(* saveSettings under the write lock. *)

KeyFor(v, entered) ==
    CASE v.connection = "openrouter" -> openRouterKey
      [] entered -> v.dest
      [] OTHER -> IF v.web /\ v.dest = settings.dest THEN modelKey ELSE None

\* An entered key, and OpenRouter, make the model use the server's key.
Normal(v, entered) == [v EXCEPT !.web = @ \/ entered \/ v.connection = "openrouter"]

Validate(r) ==
    /\ pc[r] = "validate"
    /\ LET v == req[r].value
           refused == v.connection = "openrouter" /\ (req[r].entered \/ openRouterKey = None)
           next == Normal(v, req[r].entered)
       IN  \/ /\ ~refused /\ Valid(next)
              /\ Goto(r, "lease") /\ UNCHANGED <<lock, seen>>
              /\ req' = [req EXCEPT ![r] = [kind |-> "save", value |-> next,
                            key |-> KeyFor(v, req[r].entered),
                            app |-> Reconfigure(app, next)]]
           \/ Finish(r)
    /\ UNCHANGED <<memory, attempts, disk, held, ghosts, crashes>>

LeaseAccount(r) ==
    /\ pc[r] = "lease"
    /\ LET s == req[r].value.source
       IN  IF lease[s] = "free"
           THEN Goto(r, "persist") /\ lease' = [lease EXCEPT ![s] = "settings"] /\ Going
           ELSE Finish(r) /\ UNCHANGED lease
    /\ UNCHANGED <<memory, attempts, saved, budgets, held, ghosts, crashes>>

\* SaveWorkspaceConfiguration: both tables in one transaction, or neither.
Persist(r) ==
    /\ pc[r] = "persist"
    /\ LET v == req[r].value
       IN  \/ /\ saved' = v
              /\ budgets' = [budgets EXCEPT ![v.source] = v.budget]
              /\ Goto(r, "install") /\ Going /\ UNCHANGED lease
           \/ /\ lease' = [lease EXCEPT ![v.source] = "free"]
              /\ Finish(r) /\ UNCHANGED <<saved, budgets>>
    /\ UNCHANGED <<memory, attempts, held, ghosts, crashes>>

Install(r) ==
    /\ pc[r] = "install"
    /\ app' = req[r].app
    /\ settings' = req[r].value
    /\ modelKey' = req[r].key
    /\ lease' = [lease EXCEPT ![req[r].value.source] = "free"]
    /\ Finish(r)
    /\ UNCHANGED <<openRouterKey, attempts, saved, budgets, held, ghosts, crashes>>

-----------------------------------------------------------------------------
(* OpenRouter: an attempt of a login session is completed with a code. *)
Pending == {t \in Attempt : attempts[t].status = "pending"}

StartOpenRouter(r) ==
    /\ pc[r] = "start"
    /\ LET pruned == [t \in Attempt |-> IF attempts[t].status = "expired"
                                       THEN [attempts[t] EXCEPT !.status = "gone"]
                                       ELSE attempts[t]]
       IN  \/ /\ Cardinality(Pending) < MaxAttempts
              /\ \E t \in Attempt :
                    /\ attempts[t].status = "new"
                    /\ attempts' = [pruned EXCEPT ![t] = [status |-> "pending", owner |-> req[r].owner]]
              /\ Finish(r)
           \/ attempts' = pruned /\ Finish(r)
    /\ UNCHANGED <<memory, disk, held, ghosts, crashes>>

Expire(t) ==
    /\ t \in Pending
    /\ attempts' = [attempts EXCEPT ![t].status = "expired"]
    /\ UNCHANGED <<lock, pc, req, seen, memory, disk, held, ghosts, crashes>>

Consume(r) ==
    /\ pc[r] = "consume"
    /\ LET t == req[r].attempt
       IN  IF t \in Pending /\ attempts[t].owner = req[r].owner
           THEN /\ attempts' = [attempts EXCEPT ![t].status = "gone"]
                /\ Goto(r, "exchange") /\ writer' = None /\ UNCHANGED <<readers, req, seen>>
           ELSE Finish(r) /\ UNCHANGED attempts
    /\ UNCHANGED <<memory, disk, held, ghosts, crashes>>

Exchange(r) ==
    /\ pc[r] = "exchange"
    /\ used' = [used EXCEPT ![req[r].attempt] = @ + 1]
    /\ \/ Goto(r, "relock") /\ Going
       \/ Finish(r)
    /\ UNCHANGED <<memory, attempts, disk, held, sent, crashes>>

\* A mutant: the key is kept for the provider in use.
StoreKeyInUse(r) ==
    /\ pc[r] = "key"
    /\ openRouterKey' = settings.dest
    /\ Finish(r)
    /\ UNCHANGED <<app, settings, modelKey, attempts, disk, held, ghosts, crashes>>

StoreKey(r) ==
    /\ pc[r] = "key"
    /\ openRouterKey' = OpenRouter
    /\ Finish(r)
    /\ UNCHANGED <<app, settings, modelKey, attempts, disk, held, ghosts, crashes>>

-----------------------------------------------------------------------------
(* Another process applies changes under the account's lease.  The lease   *)
(* of a server that died lapses in a minute.                               *)
Apply(s) ==
    /\ lease[s] = "free"
    /\ lease' = [lease EXCEPT ![s] = "cli"]
    /\ UNCHANGED <<lock, pc, req, seen, memory, attempts, saved, budgets, held, ghosts, crashes>>

Release(s) ==
    /\ lease[s] \in {"cli", "dead"}
    /\ lease' = [lease EXCEPT ![s] = "free"]
    /\ UNCHANGED <<lock, pc, req, seen, memory, attempts, saved, budgets, held, ghosts, crashes>>

(* The server dies and starts from what it saved, without any entered key. *)
Restart ==
    /\ crashes < MaxCrashes
    /\ crashes' = crashes + 1
    /\ readers' = {} /\ writer' = None
    /\ pc' = [r \in Request |-> IF pc[r] \in {"idle", "done"} THEN pc[r] ELSE "lost"]
    /\ app' = Started(saved).app /\ settings' = Started(saved).settings
    /\ modelKey' = None /\ openRouterKey' = None
    /\ attempts' = [t \in Attempt |-> IF attempts[t].status = "new" THEN attempts[t]
                                      ELSE [attempts[t] EXCEPT !.status = "gone"]]
    /\ lease' = [s \in Source |-> IF lease[s] = "settings" THEN "dead" ELSE lease[s]]
    /\ req' = [r \in Request |-> None] /\ seen' = req'
    /\ UNCHANGED <<saved, budgets, held, ghosts>>

Serve(r) ==
    \/ Enter(r) \/ TryLock(r) \/ Busy(r) \/ Lock(r)
    \/ Load(r) \/ StartTurn(r) \/ RunTurn(r)
    \/ Validate(r) \/ LeaseAccount(r) \/ Persist(r) \/ Install(r)
    \/ StartOpenRouter(r) \/ Consume(r) \/ Exchange(r) \/ StoreKey(r)

Next ==
    \/ \E r \in Request, input \in Input : Arrive(r, input)
    \/ \E r \in Request : Serve(r)
    \/ \E t \in Attempt : Expire(t)
    \/ \E s \in Source : Apply(s) \/ Release(s)
    \/ Restart

(* Handlers go on by themselves; a runtime ends its turn in time, and who  *)
(* waits for the lock gets it when it keeps coming free.                   *)
Fairness == \A r \in Request : WF_vars(Serve(r)) /\ SF_vars(Enter(r)) /\ SF_vars(Lock(r))

Spec == Init /\ [][Next]_vars /\ Fairness

-----------------------------------------------------------------------------
(* A request works with one configuration from its start to its end. *)
OneConfiguration ==
    \A r \in Request : pc[r] \in {"serving", "running"} => seen[r] = Configuration

(* When no settings request is at work, the services, the settings shown,  *)
(* the settings saved and the budgets other processes read say the same.   *)
ConfigurationAgrees ==
    writer = None =>
        /\ app.source = settings.source /\ app.budget = settings.budget
        /\ saved # None => settings = saved /\ budgets[app.source] = app.budget

(* The UI cannot grant live write authority: services that have it, or     *)
(* write outside the Sandbox, are the deployment's own account.            *)
AuthorityFromDeployment ==
    app.live \/ (app.writable /\ app.source \notin SandboxSource)
        => app.source = Deployment.app.source

(* The key the server installs was given for the destination it is for. *)
InstalledKeyFits == writer = None /\ modelKey # None => modelKey = settings.dest

(* An OpenRouter authorization is exchanged once, by the tab it began in,  *)
(* though the lock is free while it is exchanged.                          *)
AttemptUsedOnce == \A t \in Attempt : used[t] <= 1

(* Budgets do not change under a process that applies a change with them. *)
KeepsBudgets == \A s \in Source : lease[s] = "cli" => budgets'[s] = budgets[s]
BudgetsKeptDuringApply == [][KeepsBudgets]_vars

\* A request works with one configuration although settings are saved while it runs;
\* whenever no settings request is at work, and after a restart, services, settings and
\* budgets agree, and only the deployment's own account has live write authority.  A
\* key that is installed was given for its destination, and an OpenRouter authorization
\* is exchanged once (settings.go:234).
ConfigurationHolds ==
    /\ OneConfiguration
    /\ ConfigurationAgrees
    /\ AuthorityFromDeployment
    /\ InstalledKeyFits
    /\ AttemptUsedOnce

\* All of it, and no budget changes under an apply.
SettingsHold == []ConfigurationHolds /\ BudgetsKeptDuringApply

(* A request is answered, unless the server dies under it. *)
Answered ==
    \A r \in Request : pc[r] \in {"gate", "try", "lock", "relock"}
        ~> pc[r] \in {"done", "lost"}

(* What docs/model-connections.md says of execution after a change of the  *)
(* model: a provider does not receive another provider's credentials.      *)
KeyForItsProvider == \A turn \in sent : turn.key \in {None, turn.dest}

(* What settings.go says of its gate: updates are rejected rather than     *)
(* queued while a turn is active.                                          *)
RejectedNotQueued == \A r \in readers : pc[r] = "running" => Waiting = {}

=============================================================================
