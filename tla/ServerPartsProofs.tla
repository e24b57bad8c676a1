-------------------------- MODULE ServerPartsProofs --------------------------
(***************************************************************************)
(* Whatever requests arrive, wherever the server dies and whoever applies  *)
(* changes meanwhile: the configuration is one, it is what was saved, and  *)
(* it has no more authority than the deployment.  And whatever crashes and *)
(* faults the starts meet, the key that serves is the one in the file; and *)
(* a page whose operator waits for its loads shows its session as it is.   *)
(* The parts are about SettingsGate, OperatorKey and WebClient.            *)
(***************************************************************************)
EXTENDS SettingsGate, Integers, Sequences, WellFoundedInduction, TLAPS

\* The values the constants may have; every run checks them.
Assumptions == GateAssumption /\ NoneAssumption

Reading(r) == pc[r] \in {"serving", "running"}
Writing(r) == pc[r] \in {"validate", "lease", "persist", "install", "start", "consume", "key"}
Saving(r) == pc[r] \in {"lease", "persist", "install"}

\* The lock is where the requests are, and excludes.
Locked ==
    /\ \A r \in Request : Reading(r) <=> r \in readers
    /\ \A r \in Request : Writing(r) <=> r = writer
    /\ writer # None => readers = {}

\* Services with live authority, or writing outside the Sandbox, are the deployment's.
Authorized(a) ==
    a.live \/ (a.writable /\ a.source \notin SandboxSource) => a.source = Deployment.app.source

\* What a save is about to install belongs together.
Fits(q) ==
    /\ q.app.source = q.value.source /\ q.app.budget = q.value.budget
    /\ Authorized(q.app)
    /\ q.key \in {None, q.value.dest}

\* Every request carries what its next step uses.
AskedOf(r) ==
    /\ pc[r] \in {"gate", "serving", "running", "start"} => req[r] \in TabInput
    /\ pc[r] = "try" => req[r] \in TabInput \cup SaveInput
    /\ pc[r] = "validate" => req[r] \in SaveInput
    /\ Saving(r) => req[r] \in Prepared /\ Fits(req[r])
    /\ pc[r] \in {"lock", "consume", "exchange", "relock", "key"} => req[r] \in CompleteInput
Asked == \A r \in Request : AskedOf(r)

\* What is installed belongs together, and is what was saved, except between the
\* two steps of a save.
Installing(r) == pc[r] = "install"
Consistent ==
    /\ app.source = settings.source /\ app.budget = settings.budget
    /\ Authorized(app)
    /\ modelKey \in {None, settings.dest}
    /\ saved # None => budgets[saved.source] = saved.budget
    /\ saved # None /\ (\A r \in Request : ~Installing(r)) => settings = saved
    /\ \A r \in Request : Installing(r) => saved = req[r].value

\* A save that writes holds the lease of its account.
Leased ==
    \A r \in Request :
        pc[r] \in {"persist", "install"} => lease[req[r].value.source] = "settings"

\* An attempt is exchanged by the one request that took it, and then no more.
Exchanging(r) == pc[r] = "exchange"
Attempted ==
    /\ \A t \in Attempt : attempts[t].status # "gone" => used[t] = 0
    /\ \A r \in Request : Exchanging(r) =>
          attempts[req[r].attempt].status = "gone" /\ used[req[r].attempt] = 0
    /\ \A r, q \in Request :
          Exchanging(r) /\ Exchanging(q) /\ req[r].attempt = req[q].attempt => r = q
    /\ AttemptUsedOnce

IInv ==
    /\ TypeOK
    /\ Locked
    /\ Asked
    /\ OneConfiguration
    /\ Consistent
    /\ Leased
    /\ Attempted

-----------------------------------------------------------------------------
(* Types                                                                   *)

LEMMA NormalForm ==
    ASSUME NEW v \in WorkspaceSettings, NEW entered \in BOOLEAN
    PROVE  /\ Normal(v, entered) \in WorkspaceSettings
           /\ Normal(v, entered).source = v.source /\ Normal(v, entered).budget = v.budget
           /\ Normal(v, entered).dest = v.dest /\ Normal(v, entered).connection = v.connection
<1> DEFINE web == v.web \/ entered \/ v.connection = "openrouter"
<1>1. Normal(v, entered) = [v EXCEPT !.web = web]
  BY DEF Normal
<1>2. web \in BOOLEAN
  BY DEF WorkspaceSettings
<1> HIDE DEF web
<1> QED
  BY <1>1, <1>2 DEF WorkspaceSettings

LEMMA ReconfigureForm ==
    ASSUME Assumptions, NEW a \in Services, NEW v \in WorkspaceSettings, Authorized(a)
    PROVE  /\ Reconfigure(a, v) \in Services
           /\ Reconfigure(a, v).source = v.source /\ Reconfigure(a, v).budget = v.budget
           /\ Authorized(Reconfigure(a, v))
<1> DEFINE same == a.source = v.source
           writable == IF same THEN a.writable ELSE v.source \in SandboxSource
           live == same /\ a.live
<1>1. Reconfigure(a, v) = [source |-> v.source, budget |-> v.budget,
                           writable |-> writable, live |-> live]
  BY DEF Reconfigure
<1>2. writable \in BOOLEAN /\ live \in BOOLEAN
  <2>1. a.writable \in BOOLEAN
    BY DEF Services
  <2>2. CASE same
    BY <2>1, <2>2
  <2>3. CASE ~same
    BY <2>3
  <2> QED
    BY <2>2, <2>3
<1>3. live => same /\ a.live
  OBVIOUS
<1>4. writable /\ v.source \notin SandboxSource => same /\ a.writable
  OBVIOUS
<1>5. same /\ (a.live \/ (a.writable /\ v.source \notin SandboxSource)) => v.source = Deployment.app.source
  BY DEF Authorized
<1> HIDE DEF writable, live, same
<1> QED
  BY <1>1, <1>2, <1>3, <1>4, <1>5 DEF Services, WorkspaceSettings, Authorized

LEMMA StartedForm ==
    ASSUME Assumptions, NEW old \in WorkspaceSettings \cup {None}
    PROVE  /\ Started(old).app \in Services /\ Started(old).settings \in WorkspaceSettings
           /\ Started(old).app.source = Started(old).settings.source
           /\ Started(old).app.budget = Started(old).settings.budget
           /\ Authorized(Started(old).app)
           /\ old # None => Started(old).settings = old
<1>1. Deployment.app \in Services /\ Authorized(Deployment.app) /\ Deployment.settings \in WorkspaceSettings
  BY DEF Assumptions, GateAssumption, Authorized
<1>2. CASE old = None
  BY <1>1, <1>2 DEF Started, Assumptions, GateAssumption
<1>3. CASE old # None
  <2>1. Started(old) = [app |-> Reconfigure(Deployment.app, old), settings |-> old]
    BY <1>3 DEF Started
  <2> QED
    BY <1>1, <1>3, <2>1, ReconfigureForm
<1> QED
  BY <1>2, <1>3

Labels == {"idle", "gate", "serving", "running", "try", "lock", "consume", "validate", "lease",
           "persist", "install", "start", "exchange", "relock", "key", "done", "lost"}

\* A request moves on, and no other.
LEMMA GotoMoves ==
    ASSUME TypeOK, NEW r \in Request, NEW l \in Labels, Goto(r, l)
    PROVE  /\ pc' \in [Request -> Labels]
           /\ pc'[r] = l /\ \A q \in Request \ {r} : pc'[q] = pc[q]
  BY DEF Goto, TypeOK, Labels

LEMMA FinishMoves ==
    ASSUME TypeOK, NEW r \in Request, Finish(r)
    PROVE  /\ pc' \in [Request -> Labels]
           /\ pc'[r] = "done" /\ \A q \in Request \ {r} : pc'[q] = pc[q] /\ req'[q] = req[q] /\ seen'[q] = seen[q]
           /\ req' \in [Request -> Input \cup Prepared \cup {None}]
           /\ seen' \in [Request -> (Services \X WorkspaceSettings \X (Destination \cup {None})) \cup {None}]
           /\ readers' = readers \ {r} /\ readers' \subseteq Request
           /\ writer' = (IF writer = r THEN None ELSE writer) /\ writer' \in Request \cup {None}
<1>1. /\ pc' \in [Request -> Labels]
      /\ pc'[r] = "done" /\ \A q \in Request \ {r} : pc'[q] = pc[q]
  BY GotoMoves DEF Finish, Labels
<1>2. /\ req' = [req EXCEPT ![r] = None] /\ req \in [Request -> Input \cup Prepared \cup {None}]
      /\ seen' = [seen EXCEPT ![r] = None]
      /\ seen \in [Request -> (Services \X WorkspaceSettings \X (Destination \cup {None})) \cup {None}]
  BY DEF Finish, TypeOK
<1>3. readers' = readers \ {r} /\ readers' \subseteq Request
      /\ writer' = (IF writer = r THEN None ELSE writer) /\ writer' \in Request \cup {None}
  BY DEF Finish, TypeOK
<1> QED
  BY <1>1, <1>2, <1>3

\* Only request r moves.
OnlyMoves(r) ==
    \A q \in Request \ {r} : pc'[q] = pc[q] /\ req'[q] = req[q] /\ seen'[q] = seen[q]

LEMMA GoingMoves ==
    ASSUME TypeOK, NEW r \in Request, NEW l \in Labels, Goto(r, l), UNCHANGED <<req, seen>>
    PROVE  OnlyMoves(r) /\ pc'[r] = l /\ pc' \in [Request -> Labels]
  BY GotoMoves DEF OnlyMoves

-----------------------------------------------------------------------------
(* The lock                                                                *)

LEMMA LockedStays ==
    ASSUME Locked, NEW r \in Request, OnlyMoves(r), UNCHANGED lock,
           Reading(r)' <=> Reading(r), Writing(r)' <=> Writing(r)
    PROVE  Locked'
  BY DEF Locked, OnlyMoves, Reading, Writing, lock

LEMMA LockedEnds ==
    ASSUME Assumptions, TypeOK, Locked, NEW r \in Request, Finish(r)
    PROVE  Locked'
<1>1. /\ pc'[r] = "done" /\ \A q \in Request \ {r} : pc'[q] = pc[q]
      /\ readers' = readers \ {r} /\ writer' = (IF writer = r THEN None ELSE writer)
  BY FinishMoves
<1>2. None \notin Request
  BY DEF Assumptions, NoneAssumption
<1> QED
  BY <1>1, <1>2 DEF Locked, Reading, Writing

LEMMA LockedTaken ==
    ASSUME Assumptions, Locked, NEW r \in Request, OnlyMoves(r),
           readers = {}, writer = None, readers' = readers, writer' = r,
           Writing(r)', ~Reading(r)'
    PROVE  Locked'
<1>1. None \notin Request
  BY DEF Assumptions, NoneAssumption
<1> QED
  BY <1>1 DEF Locked, Reading, Writing, OnlyMoves

\* Who writes is alone.
LEMMA WritesAlone ==
    ASSUME Assumptions, Locked, NEW r \in Request, Writing(r)
    PROVE  /\ writer = r /\ readers = {}
           /\ \A q \in Request : ~Reading(q) /\ (q # r => ~Writing(q))
<1>1. None \notin Request
  BY DEF Assumptions, NoneAssumption
<1> QED
  BY <1>1 DEF Locked

-----------------------------------------------------------------------------
(* Steps that leave the configuration, the leases and the attempts alone.  *)

LEMMA AskedMoves ==
    ASSUME Asked, NEW r \in Request, OnlyMoves(r), AskedOf(r)'
    PROVE  Asked'
<1> SUFFICES ASSUME NEW q \in Request, q # r PROVE AskedOf(q)'
  BY DEF Asked
<1> QED
  BY DEF Asked, AskedOf, OnlyMoves, Saving, Fits, Authorized

LEMMA ConsistentStays ==
    ASSUME Consistent, NEW r \in Request, OnlyMoves(r),
           UNCHANGED <<app, settings, modelKey, saved, budgets>>,
           ~Installing(r), ~Installing(r)'
    PROVE  Consistent'
<1>1. \A q \in Request : Installing(q)' <=> Installing(q)
  BY DEF Installing, OnlyMoves
<1>2. \A q \in Request : Installing(q) => q # r /\ req'[q] = req[q]
  BY DEF OnlyMoves
<1> QED
  BY <1>1, <1>2 DEF Consistent, Authorized

LEMMA AttemptedStays ==
    ASSUME Attempted, NEW r \in Request, OnlyMoves(r),
           UNCHANGED <<attempts, used>>, ~Exchanging(r)'
    PROVE  Attempted'
<1>1. \A q \in Request : Exchanging(q)' => Exchanging(q) /\ req'[q] = req[q]
  BY DEF Exchanging, OnlyMoves
<1> QED
  BY <1>1 DEF Attempted, AttemptUsedOnce

LEMMA QuietStep ==
    ASSUME IInv, TypeOK', NEW r \in Request, OnlyMoves(r), Locked', AskedOf(r)',
           UNCHANGED <<app, settings, modelKey, saved, budgets, lease, attempts, used>>,
           pc[r] \notin {"persist", "install"}, pc'[r] \notin {"persist", "install", "exchange"},
           Reading(r)' => seen'[r] = Configuration
    PROVE  IInv'
<1>1. Asked' /\ Consistent' /\ Attempted'
  BY AskedMoves, ConsistentStays, AttemptedStays DEF IInv, Installing, Exchanging
<1>2. OneConfiguration'
  BY DEF IInv, OneConfiguration, OnlyMoves, Reading, Configuration
<1>3. Leased'
  BY DEF IInv, Leased, OnlyMoves
<1> QED
  BY <1>1, <1>2, <1>3 DEF IInv

LEMMA FinishQuietly ==
    ASSUME Assumptions, IInv, TypeOK', NEW r \in Request, Finish(r),
           UNCHANGED <<app, settings, modelKey, saved, budgets, lease, attempts, used>>,
           pc[r] \notin {"persist", "install"}
    PROVE  IInv'
<1>1. OnlyMoves(r) /\ pc'[r] = "done"
  BY FinishMoves DEF OnlyMoves, IInv
<1>2. Locked'
  BY LockedEnds DEF IInv
<1>3. AskedOf(r)' /\ ~Reading(r)'
  BY <1>1 DEF AskedOf, Saving, Reading
<1> QED
  BY <1>1, <1>2, <1>3, QuietStep

\* What finishing changes keeps its type.
LEMMA FinishTyped ==
    ASSUME TypeOK, NEW r \in Request, Finish(r),
           UNCHANGED <<app, settings, saved, budgets>>,
           modelKey' \in Destination \cup {None}, openRouterKey' \in {OpenRouter, None},
           attempts' \in [Attempt -> [status : {"new", "pending", "expired", "gone"},
                                      owner : Owner \cup {None}]],
           lease' \in [Source -> {"free", "cli", "settings", "dead"}],
           held' \in [Owner -> [dest : Destination, web : BOOLEAN]],
           used' \in [Attempt -> Nat]
    PROVE  TypeOK'
  BY FinishMoves DEF TypeOK, Labels

LEMMA ArriveHolds ==
    ASSUME Assumptions, IInv, NEW r \in Request, NEW input \in Input, Arrive(r, input)
    PROVE  IInv'
<1> DEFINE l == CASE input.kind \in {"load", "turn"} -> "gate"
                  [] input.kind \in {"save", "start"} -> "try"
                  [] input.kind = "complete" -> "lock"
<1>1. /\ pc[r] = "idle" /\ Goto(r, l) /\ req' = [req EXCEPT ![r] = input]
      /\ UNCHANGED <<lock, seen, memory, attempts, disk, held, ghosts, crashes>>
  BY DEF Arrive
<1>2. /\ input \in TabInput \cup SaveInput \cup CompleteInput
      /\ input \in TabInput => input.kind \in {"load", "turn", "start"}
      /\ input \in SaveInput => input.kind = "save"
      /\ input \in CompleteInput => input.kind = "complete"
  BY DEF Input, TabInput, SaveInput, CompleteInput
<1>3. \/ l = "gate" /\ input \in TabInput
      \/ l = "try" /\ input \in TabInput \cup SaveInput
      \/ l = "lock" /\ input \in CompleteInput
  BY <1>2
<1> HIDE DEF l
<1>4. /\ pc' \in [Request -> Labels]
      /\ pc'[r] = l /\ \A q \in Request \ {r} : pc'[q] = pc[q]
  BY <1>1, <1>3, GotoMoves DEF IInv, Labels
<1>5. req'[r] = input /\ (\A q \in Request \ {r} : req'[q] = req[q])
      /\ req' \in [Request -> Input \cup Prepared \cup {None}]
  BY <1>1 DEF IInv, TypeOK
<1>6. TypeOK'
  BY <1>1, <1>4, <1>5 DEF IInv, TypeOK, lock, memory, disk, ghosts, Labels
<1>7. OnlyMoves(r)
  BY <1>1, <1>4, <1>5 DEF OnlyMoves
<1>8. Locked' /\ ~Reading(r)'
  BY <1>1, <1>3, <1>4, <1>7, LockedStays DEF IInv, Reading, Writing
<1>9. AskedOf(r)'
  BY <1>3, <1>4, <1>5 DEF AskedOf, Saving
<1> QED
  BY <1>1, <1>3, <1>4, <1>6, <1>7, <1>8, <1>9, QuietStep DEF memory, disk, ghosts

LEMMA EnterHolds ==
    ASSUME Assumptions, IInv, NEW r \in Request, Enter(r)
    PROVE  IInv'
<1>1. /\ pc[r] = "gate" /\ writer = None /\ readers' = readers \cup {r} /\ writer' = writer
      /\ seen' = [seen EXCEPT ![r] = Configuration] /\ Goto(r, "serving")
      /\ UNCHANGED <<req, memory, attempts, disk, held, ghosts, crashes>>
  BY DEF Enter
<1>2. /\ pc' \in [Request -> Labels]
      /\ pc'[r] = "serving" /\ \A q \in Request \ {r} : pc'[q] = pc[q]
  BY <1>1, GotoMoves DEF IInv, Labels
<1>3. Configuration \in Services \X WorkspaceSettings \X (Destination \cup {None})
  BY DEF IInv, TypeOK, Configuration
<1>4. /\ seen' \in [Request -> (Services \X WorkspaceSettings \X (Destination \cup {None})) \cup {None}]
      /\ seen'[r] = Configuration /\ \A q \in Request \ {r} : seen'[q] = seen[q]
  BY <1>1, <1>3 DEF IInv, TypeOK
<1>5. TypeOK'
  BY <1>1, <1>2, <1>4 DEF IInv, TypeOK, memory, disk, ghosts, Labels
<1>6. OnlyMoves(r)
  BY <1>1, <1>2, <1>4 DEF OnlyMoves
<1>7. Locked'
  BY <1>1, <1>2, <1>6 DEF IInv, Locked, Reading, Writing, OnlyMoves
<1>8. AskedOf(r)'
  BY <1>1, <1>2 DEF IInv, Asked, AskedOf, Saving
<1> QED
  BY <1>1, <1>2, <1>4, <1>5, <1>6, <1>7, <1>8, QuietStep DEF memory, disk, ghosts

LEMMA TryLockHolds ==
    ASSUME Assumptions, IInv, NEW r \in Request, TryLock(r)
    PROVE  IInv'
<1> DEFINE l == IF req[r].kind = "save" THEN "validate" ELSE "start"
<1>1. /\ pc[r] = "try" /\ readers = {} /\ writer = None /\ writer' = r /\ Goto(r, l)
      /\ UNCHANGED <<readers, req, seen, memory, attempts, disk, held, ghosts, crashes>>
  BY DEF TryLock
<1>2. \/ l = "validate" /\ req[r] \in SaveInput
      \/ l = "start" /\ req[r] \in TabInput
  <2>1. req[r] \in TabInput \cup SaveInput
    BY <1>1 DEF IInv, Asked, AskedOf
  <2>2. /\ req[r] \in TabInput => req[r].kind # "save"
        /\ req[r] \in SaveInput => req[r].kind = "save"
    BY DEF TabInput, SaveInput
  <2> QED
    BY <2>1, <2>2
<1> HIDE DEF l
<1>3. OnlyMoves(r) /\ pc'[r] = l /\ pc' \in [Request -> Labels]
  BY <1>1, <1>2, GoingMoves DEF IInv, Labels
<1>4. TypeOK'
  BY <1>1, <1>3 DEF IInv, TypeOK, memory, disk, ghosts, Labels
<1>5. Locked' /\ ~Reading(r)'
  BY <1>1, <1>2, <1>3, LockedTaken DEF IInv, Reading, Writing
<1>6. AskedOf(r)'
  BY <1>1, <1>2, <1>3 DEF AskedOf, Saving
<1> QED
  BY <1>1, <1>2, <1>3, <1>4, <1>5, <1>6, QuietStep DEF memory, disk, ghosts

LEMMA LockHolds ==
    ASSUME Assumptions, IInv, NEW r \in Request, Lock(r)
    PROVE  IInv'
<1> DEFINE l == IF pc[r] = "lock" THEN "consume" ELSE "key"
<1>1. /\ pc[r] \in {"lock", "relock"} /\ readers = {} /\ writer = None /\ writer' = r /\ Goto(r, l)
      /\ UNCHANGED <<readers, req, seen, memory, attempts, disk, held, ghosts, crashes>>
  BY DEF Lock, Waiting
<1>2. l \in {"consume", "key"}
  OBVIOUS
<1> HIDE DEF l
<1>3. OnlyMoves(r) /\ pc'[r] = l /\ pc' \in [Request -> Labels]
  BY <1>1, <1>2, GoingMoves DEF IInv, Labels
<1>4. TypeOK'
  BY <1>1, <1>3 DEF IInv, TypeOK, memory, disk, ghosts, Labels
<1>5. Locked' /\ ~Reading(r)'
  BY <1>1, <1>2, <1>3, LockedTaken DEF IInv, Reading, Writing
<1>6. AskedOf(r)'
  BY <1>1, <1>2, <1>3 DEF IInv, Asked, AskedOf, Saving
<1> QED
  BY <1>1, <1>2, <1>3, <1>4, <1>5, <1>6, QuietStep DEF memory, disk, ghosts

LEMMA BusyHolds ==
    ASSUME Assumptions, IInv, NEW r \in Request, Busy(r)
    PROVE  IInv'
<1>1. pc[r] = "try" /\ Finish(r) /\ UNCHANGED <<memory, attempts, disk, held, ghosts, crashes>>
  BY DEF Busy
<1>2. TypeOK'
  BY <1>1, FinishTyped DEF IInv, TypeOK, memory, disk, ghosts
<1> QED
  BY <1>1, <1>2, FinishQuietly DEF memory, disk, ghosts

-----------------------------------------------------------------------------
(* Requests under the read lock                                            *)

LEMMA LoadHolds ==
    ASSUME Assumptions, IInv, NEW r \in Request, Load(r)
    PROVE  IInv'
<1>1. /\ pc[r] = "serving" /\ held' = [held EXCEPT ![req[r].owner] = Model(settings)]
      /\ Finish(r) /\ UNCHANGED <<memory, attempts, disk, ghosts, crashes>>
  BY DEF Load
<1>2. Model(settings) \in [dest : Destination, web : BOOLEAN]
  BY DEF IInv, TypeOK, Model, WorkspaceSettings
<1>3. held' \in [Owner -> [dest : Destination, web : BOOLEAN]]
  BY <1>1, <1>2 DEF IInv, TypeOK
<1>4. TypeOK'
  BY <1>1, <1>3, FinishTyped DEF IInv, TypeOK, memory, disk, ghosts
<1> QED
  BY <1>1, <1>4, FinishQuietly DEF memory, disk, ghosts

LEMMA StartTurnHolds ==
    ASSUME Assumptions, IInv, NEW r \in Request, StartTurn(r)
    PROVE  IInv'
<1>1. /\ pc[r] = "serving" /\ UNCHANGED <<memory, attempts, disk, held, ghosts, crashes>>
      /\ Finish(r) \/ (Goto(r, "running") /\ Going)
  BY DEF StartTurn
<1>2. CASE Finish(r)
  <2>1. TypeOK'
    BY <1>1, <1>2, FinishTyped DEF IInv, TypeOK, memory, disk, ghosts
  <2> QED
    BY <1>1, <1>2, <2>1, FinishQuietly DEF memory, disk, ghosts
<1>3. CASE Goto(r, "running") /\ Going
  <2>1. OnlyMoves(r) /\ pc'[r] = "running" /\ pc' \in [Request -> Labels]
    BY <1>3, GoingMoves DEF IInv, Labels, Going
  <2>2. TypeOK'
    BY <1>1, <1>3, <2>1 DEF IInv, TypeOK, memory, disk, ghosts, Labels, Going
  <2>3. Locked'
    BY <1>1, <1>3, <2>1, LockedStays DEF IInv, Reading, Writing, Going, lock
  <2>4. AskedOf(r)'
    BY <1>1, <1>3, <2>1 DEF IInv, Asked, AskedOf, Saving, Going
  <2>5. seen'[r] = Configuration
    BY <1>1, <1>3 DEF IInv, OneConfiguration, Going
  <2> QED
    BY <1>1, <2>1, <2>2, <2>3, <2>4, <2>5, QuietStep DEF memory, disk, ghosts
<1> QED
  BY <1>1, <1>2, <1>3

LEMMA RunTurnHolds ==
    ASSUME Assumptions, IInv, NEW r \in Request, RunTurn(r)
    PROVE  IInv'
<1>1. pc[r] = "running" /\ Finish(r) /\ UNCHANGED <<memory, attempts, disk, held, used, crashes>>
  BY DEF RunTurn
<1>2. TypeOK'
  BY <1>1, FinishTyped DEF IInv, TypeOK, memory, disk
<1> QED
  BY <1>1, <1>2, FinishQuietly DEF memory, disk

-----------------------------------------------------------------------------
(* A save                                                                  *)

\* Who writes finds nobody reading, and leaves nobody.
LEMMA WriterAlone ==
    ASSUME Assumptions, Locked, NEW r \in Request, Writing(r), OnlyMoves(r), ~Reading(r)'
    PROVE  OneConfiguration'
  BY WritesAlone DEF OneConfiguration, OnlyMoves, Reading

LEMMA LeasedAlone ==
    ASSUME Assumptions, Locked, NEW r \in Request, Writing(r), OnlyMoves(r),
           pc'[r] \in {"persist", "install"} => lease'[req'[r].value.source] = "settings"
    PROVE  Leased'
  BY WritesAlone DEF Leased, OnlyMoves, Writing

\* The key a save prepares is one given for its destination.
LEMMA KeyForFits ==
    ASSUME TypeOK, Consistent, NEW v \in WorkspaceSettings, NEW entered \in BOOLEAN,
           Valid(v) \/ v.connection # "openrouter"
    PROVE  KeyFor(v, entered) \in {None, v.dest} /\ KeyFor(v, entered) \in Destination \cup {None}
<1>0. v.dest \in Destination
  BY DEF WorkspaceSettings
<1>1. CASE v.connection = "openrouter"
  BY <1>0, <1>1 DEF KeyFor, Valid, TypeOK
<1>2. CASE v.connection # "openrouter" /\ entered
  BY <1>0, <1>2 DEF KeyFor
<1>3. CASE v.connection # "openrouter" /\ ~entered
  <2>1. KeyFor(v, entered) = IF v.web /\ v.dest = settings.dest THEN modelKey ELSE None
    BY <1>3 DEF KeyFor
  <2>2. CASE v.web /\ v.dest = settings.dest
    BY <2>1, <2>2 DEF Consistent, TypeOK
  <2>3. CASE ~(v.web /\ v.dest = settings.dest)
    BY <2>1, <2>3
  <2> QED
    BY <2>2, <2>3
<1> QED
  BY <1>1, <1>2, <1>3

LEMMA ValidateHolds ==
    ASSUME Assumptions, IInv, NEW r \in Request, Validate(r)
    PROVE  IInv'
<1> DEFINE v == req[r].value
           entered == req[r].entered
           next == Normal(v, entered)
           prepared == [kind |-> "save", value |-> next, key |-> KeyFor(v, entered),
                        app |-> Reconfigure(app, next)]
<1>1. /\ pc[r] = "validate" /\ UNCHANGED <<memory, attempts, disk, held, ghosts, crashes>>
      /\ \/ /\ Valid(next) /\ Goto(r, "lease") /\ UNCHANGED <<lock, seen>>
            /\ req' = [req EXCEPT ![r] = prepared]
         \/ Finish(r)
  BY DEF Validate
<1>2. v \in WorkspaceSettings /\ entered \in BOOLEAN
  <2>1. req[r] \in SaveInput
    BY <1>1 DEF IInv, Asked, AskedOf
  <2> QED
    BY <2>1 DEF SaveInput, Assumptions, GateAssumption
<1>3. /\ next \in WorkspaceSettings /\ next.dest = v.dest /\ next.connection = v.connection
      /\ Valid(next) => Valid(v) \/ v.connection # "openrouter"
  BY <1>2, NormalForm DEF Valid
<1>4. CASE Finish(r)
  <2>1. TypeOK'
    BY <1>1, <1>4, FinishTyped DEF IInv, TypeOK, memory, disk, ghosts
  <2> QED
    BY <1>1, <1>4, <2>1, FinishQuietly DEF memory, disk, ghosts
<1>5. CASE /\ Valid(next) /\ Goto(r, "lease") /\ UNCHANGED <<lock, seen>>
           /\ req' = [req EXCEPT ![r] = prepared]
  <2>1. KeyFor(v, entered) \in {None, next.dest} /\ KeyFor(v, entered) \in Destination \cup {None}
    BY <1>2, <1>3, <1>5, KeyForFits DEF IInv
  <2>2. /\ Reconfigure(app, next) \in Services /\ Authorized(Reconfigure(app, next))
        /\ Reconfigure(app, next).source = next.source /\ Reconfigure(app, next).budget = next.budget
    BY <1>3, ReconfigureForm DEF IInv, TypeOK, Consistent
  <2>3. prepared \in Prepared /\ Fits(prepared)
    BY <1>3, <2>1, <2>2 DEF Prepared, Fits
  <2> HIDE DEF prepared, next, entered, v
  <2>4. /\ req'[r] = prepared /\ (\A q \in Request \ {r} : req'[q] = req[q])
        /\ req' \in [Request -> Input \cup Prepared \cup {None}]
    BY <1>5, <2>3 DEF IInv, TypeOK
  <2>5. /\ pc' \in [Request -> Labels]
        /\ pc'[r] = "lease" /\ \A q \in Request \ {r} : pc'[q] = pc[q]
    BY <1>5, GotoMoves DEF IInv, Labels
  <2>6. TypeOK'
    BY <1>1, <1>5, <2>4, <2>5 DEF IInv, TypeOK, lock, memory, disk, ghosts, Labels
  <2>7. OnlyMoves(r)
    BY <1>5, <2>4, <2>5 DEF OnlyMoves
  <2>8. Locked' /\ ~Reading(r)'
    BY <1>1, <1>5, <2>5, <2>7, LockedStays DEF IInv, Reading, Writing
  <2>9. AskedOf(r)'
    BY <2>3, <2>4, <2>5 DEF AskedOf, Saving, Fits, Authorized
  <2> QED
    BY <1>1, <2>5, <2>6, <2>7, <2>8, <2>9, QuietStep DEF memory, disk, ghosts
<1> QED
  BY <1>1, <1>4, <1>5

LEMMA LeaseAccountHolds ==
    ASSUME Assumptions, IInv, NEW r \in Request, LeaseAccount(r)
    PROVE  IInv'
<1> DEFINE s == req[r].value.source
<1>1. /\ pc[r] = "lease" /\ UNCHANGED <<memory, attempts, saved, budgets, held, ghosts, crashes>>
      /\ \/ Goto(r, "persist") /\ lease' = [lease EXCEPT ![s] = "settings"] /\ Going
         \/ Finish(r) /\ UNCHANGED lease
  BY DEF LeaseAccount
<1>2. req[r] \in Prepared /\ Fits(req[r])
  BY <1>1 DEF IInv, Asked, AskedOf, Saving
<1>3. s \in Source
  BY <1>2 DEF Prepared, WorkspaceSettings
<1>4. CASE Finish(r) /\ UNCHANGED lease
  <2>1. TypeOK'
    BY <1>1, <1>4, FinishTyped DEF IInv, TypeOK, memory, ghosts
  <2> QED
    BY <1>1, <1>4, <2>1, FinishQuietly DEF memory, ghosts
<1>5. CASE Goto(r, "persist") /\ lease' = [lease EXCEPT ![s] = "settings"] /\ Going
  <2>1. OnlyMoves(r) /\ pc'[r] = "persist" /\ pc' \in [Request -> Labels]
    BY <1>5, GoingMoves DEF IInv, Labels, Going
  <2>2. lease'[s] = "settings" /\ lease' \in [Source -> {"free", "cli", "settings", "dead"}]
    BY <1>3, <1>5 DEF IInv, TypeOK
  <2>3. TypeOK'
    BY <1>1, <1>5, <2>1, <2>2 DEF IInv, TypeOK, memory, ghosts, Labels, Going
  <2>4. Locked' /\ Writing(r) /\ ~Reading(r)'
    BY <1>1, <1>5, <2>1, LockedStays DEF IInv, Reading, Writing, Going, lock
  <2>5. AskedOf(r)'
    BY <1>2, <1>5, <2>1 DEF AskedOf, Saving, Going, Fits, Authorized
  <2>6. Leased'
    BY <1>5, <2>1, <2>2, <2>4, LeasedAlone DEF IInv, Going
  <2>7. Consistent' /\ Attempted'
    BY <1>1, <2>1, ConsistentStays, AttemptedStays DEF IInv, Installing, Exchanging, memory, ghosts
  <2> QED
    BY <2>1, <2>3, <2>4, <2>5, <2>6, <2>7, AskedMoves, WriterAlone DEF IInv
<1> QED
  BY <1>1, <1>4, <1>5

LEMMA PersistHolds ==
    ASSUME Assumptions, IInv, NEW r \in Request, Persist(r)
    PROVE  IInv'
<1> DEFINE v == req[r].value
<1>1. /\ pc[r] = "persist" /\ UNCHANGED <<memory, attempts, held, ghosts, crashes>>
      /\ \/ /\ saved' = v /\ budgets' = [budgets EXCEPT ![v.source] = v.budget]
            /\ Goto(r, "install") /\ Going /\ UNCHANGED lease
         \/ /\ lease' = [lease EXCEPT ![v.source] = "free"]
            /\ Finish(r) /\ UNCHANGED <<saved, budgets>>
  BY DEF Persist
<1>2. req[r] \in Prepared /\ Fits(req[r]) /\ Writing(r)
  BY <1>1 DEF IInv, Asked, AskedOf, Saving, Writing
<1>3. v \in WorkspaceSettings /\ v.source \in Source /\ v.budget \in Budget \cup {None}
  BY <1>2 DEF Prepared, WorkspaceSettings
<1>4. CASE /\ saved' = v /\ budgets' = [budgets EXCEPT ![v.source] = v.budget]
           /\ Goto(r, "install") /\ Going /\ UNCHANGED lease
  <2>1. OnlyMoves(r) /\ pc'[r] = "install" /\ pc' \in [Request -> Labels]
    BY <1>4, GoingMoves DEF IInv, Labels, Going
  <2>2. budgets'[v.source] = v.budget /\ budgets' \in [Source -> Budget \cup {None}]
    BY <1>3, <1>4 DEF IInv, TypeOK
  <2>3. TypeOK'
    BY <1>1, <1>3, <1>4, <2>1, <2>2 DEF IInv, TypeOK, memory, ghosts, Labels, Going
  <2>4. Locked' /\ ~Reading(r)'
    BY <1>1, <1>4, <2>1, LockedStays DEF IInv, Reading, Writing, Going, lock
  <2>5. AskedOf(r)'
    BY <1>2, <1>4, <2>1 DEF AskedOf, Saving, Going, Fits, Authorized
  <2>6. Leased'
    BY <1>1, <1>2, <1>4, <2>1, LeasedAlone DEF IInv, Going, Leased
  <2>7. \A q \in Request : Installing(q)' => q = r
    BY <1>2, <2>1, WritesAlone DEF IInv, Installing, OnlyMoves, Writing
  <2>8. Consistent'
    <3>1. UNCHANGED <<app, settings, modelKey>>
      BY <1>1 DEF memory
    <3>2. Installing(r)' /\ saved' = v /\ req'[r] = req[r]
      BY <1>4, <2>1 DEF Installing, Going
    <3> QED
      BY <2>2, <2>7, <3>1, <3>2 DEF IInv, Consistent, Authorized
  <2>9. Attempted'
    BY <1>1, <2>1, AttemptedStays DEF IInv, Exchanging, ghosts
  <2> QED
    BY <1>2, <2>1, <2>3, <2>4, <2>5, <2>6, <2>8, <2>9, AskedMoves, WriterAlone DEF IInv
<1>5. CASE /\ lease' = [lease EXCEPT ![v.source] = "free"]
           /\ Finish(r) /\ UNCHANGED <<saved, budgets>>
  <2>1. OnlyMoves(r) /\ pc'[r] = "done"
    BY <1>5, FinishMoves DEF OnlyMoves, IInv
  <2>2. TypeOK'
    <3>1. lease' \in [Source -> {"free", "cli", "settings", "dead"}]
      BY <1>3, <1>5 DEF IInv, TypeOK
    <3> QED
      BY <1>1, <1>5, <3>1, FinishTyped DEF IInv, TypeOK, memory, ghosts
  <2>3. Locked' /\ ~Reading(r)' /\ AskedOf(r)'
    BY <1>5, <2>1, LockedEnds DEF IInv, Reading, AskedOf, Saving
  <2>4. Leased'
    BY <1>2, <2>1, LeasedAlone DEF IInv
  <2>5. Consistent' /\ Attempted'
    BY <1>1, <1>5, <2>1, ConsistentStays, AttemptedStays DEF IInv, Installing, Exchanging, memory, ghosts
  <2> QED
    BY <1>2, <2>1, <2>2, <2>3, <2>4, <2>5, AskedMoves, WriterAlone DEF IInv
<1> QED
  BY <1>1, <1>4, <1>5

LEMMA InstallHolds ==
    ASSUME Assumptions, IInv, NEW r \in Request, Install(r)
    PROVE  IInv'
<1> DEFINE q == req[r]
<1>1. /\ pc[r] = "install" /\ app' = q.app /\ settings' = q.value /\ modelKey' = q.key
      /\ lease' = [lease EXCEPT ![q.value.source] = "free"] /\ Finish(r)
      /\ UNCHANGED <<openRouterKey, attempts, saved, budgets, held, ghosts, crashes>>
  BY DEF Install
<1>2. q \in Prepared /\ Fits(q) /\ Writing(r) /\ saved = q.value
  BY <1>1 DEF IInv, Asked, AskedOf, Saving, Writing, Consistent, Installing
<1>3. /\ q.value \in WorkspaceSettings /\ q.value.source \in Source /\ q.app \in Services
      /\ q.key \in Destination \cup {None}
  BY <1>2 DEF Prepared, WorkspaceSettings
<1>4. OnlyMoves(r) /\ pc'[r] = "done"
  BY <1>1, FinishMoves DEF OnlyMoves, IInv
<1>5. TypeOK'
  <2>1. lease' \in [Source -> {"free", "cli", "settings", "dead"}]
    BY <1>1, <1>3 DEF IInv, TypeOK
  <2> QED
    BY <1>1, <1>3, <2>1, FinishMoves DEF IInv, TypeOK, ghosts, Labels
<1>6. Locked' /\ ~Reading(r)' /\ AskedOf(r)'
  BY <1>1, <1>4, LockedEnds DEF IInv, Reading, AskedOf, Saving
<1>7. Leased'
  BY <1>2, <1>4, LeasedAlone DEF IInv
<1>8. Attempted'
  BY <1>1, <1>4, AttemptedStays DEF IInv, Exchanging, ghosts
<1>9. Consistent'
  <2>1. \A p \in Request : ~Installing(p)'
    BY <1>2, <1>4, WritesAlone DEF IInv, Installing, OnlyMoves, Writing
  <2>2. budgets'[saved'.source] = saved'.budget /\ settings' = saved'
    BY <1>1, <1>2, <1>3 DEF IInv, Consistent, Assumptions, NoneAssumption
  <2>3. /\ app'.source = settings'.source /\ app'.budget = settings'.budget
        /\ Authorized(app)' /\ modelKey' \in {None, settings'.dest}
    BY <1>1, <1>2 DEF Fits, Authorized
  <2> QED
    BY <2>1, <2>2, <2>3 DEF Consistent
<1> QED
  BY <1>2, <1>4, <1>5, <1>6, <1>7, <1>8, <1>9, AskedMoves, WriterAlone DEF IInv

-----------------------------------------------------------------------------
(* OpenRouter                                                              *)

Attempts == [Attempt -> [status : {"new", "pending", "expired", "gone"}, owner : Owner \cup {None}]]

\* A step of a request that changes at most the attempts.
LEMMA AttemptStep ==
    ASSUME IInv, TypeOK', NEW r \in Request, OnlyMoves(r), Locked', AskedOf(r)', Attempted',
           UNCHANGED <<app, settings, modelKey, saved, budgets, lease>>,
           pc[r] \notin {"persist", "install"}, pc'[r] \notin {"persist", "install"},
           ~Reading(r)'
    PROVE  IInv'
<1>1. Asked' /\ Consistent'
  BY AskedMoves, ConsistentStays DEF IInv, Installing
<1>2. OneConfiguration'
  BY DEF IInv, OneConfiguration, OnlyMoves, Reading, Configuration
<1>3. Leased'
  BY DEF IInv, Leased, OnlyMoves
<1> QED
  BY <1>1, <1>2, <1>3 DEF IInv

LEMMA AttemptFinish ==
    ASSUME Assumptions, IInv, NEW r \in Request, Finish(r), attempts' \in Attempts,
           used' \in [Attempt -> Nat], Attempted',
           UNCHANGED <<memory, disk, held>>, pc[r] \notin {"persist", "install"}
    PROVE  IInv'
<1>1. OnlyMoves(r) /\ pc'[r] = "done"
  BY FinishMoves DEF OnlyMoves, IInv
<1>2. TypeOK'
  BY FinishTyped DEF IInv, TypeOK, Attempts, memory, disk
<1>3. Locked' /\ ~Reading(r)' /\ AskedOf(r)'
  BY <1>1, LockedEnds DEF IInv, Reading, AskedOf, Saving
<1> QED
  BY <1>1, <1>2, <1>3, AttemptStep DEF memory, disk

LEMMA StartOpenRouterHolds ==
    ASSUME Assumptions, IInv, NEW r \in Request, StartOpenRouter(r)
    PROVE  IInv'
<1> DEFINE prune(t) == IF attempts[t].status = "expired"
                       THEN [attempts[t] EXCEPT !.status = "gone"] ELSE attempts[t]
           pruned == [t \in Attempt |-> prune(t)]
           begun == [status |-> "pending", owner |-> req[r].owner]
<1>1. /\ pc[r] = "start" /\ Finish(r) /\ UNCHANGED <<memory, disk, held, ghosts, crashes>>
      /\ \/ attempts' = pruned
         \/ \E t \in Attempt : attempts[t].status = "new" /\ attempts' = [pruned EXCEPT ![t] = begun]
  BY DEF StartOpenRouter
<1>2. begun \in [status : {"new", "pending", "expired", "gone"}, owner : Owner \cup {None}]
  BY <1>1 DEF IInv, Asked, AskedOf, TabInput
<1>3. ASSUME NEW t \in Attempt
      PROVE  /\ prune(t) \in [status : {"new", "pending", "expired", "gone"}, owner : Owner \cup {None}]
             /\ attempts[t].status = "gone" <=> prune(t).status = "gone" /\ attempts[t].status # "expired"
  BY DEF IInv, TypeOK
<1>4. pruned \in Attempts /\ \A t \in Attempt : pruned[t] = prune(t)
  BY <1>3 DEF Attempts
<1> HIDE DEF pruned, prune, begun
<1>5. attempts' \in Attempts
  BY <1>1, <1>2, <1>4 DEF Attempts
<1>6. \A t \in Attempt :
        /\ attempts'[t].status # "gone" => attempts[t].status # "gone"
        /\ attempts[t].status = "gone" => attempts'[t].status = "gone"
  BY <1>1, <1>3, <1>4 DEF Attempts, begun
<1>7. OnlyMoves(r) /\ pc'[r] = "done"
  BY <1>1, FinishMoves DEF OnlyMoves, IInv
<1>8. \A q \in Request : Exchanging(q)' =>
        Exchanging(q) /\ req'[q] = req[q] /\ req[q].attempt \in Attempt
  BY <1>7 DEF Exchanging, OnlyMoves, IInv, Asked, AskedOf, CompleteInput
<1>9. Attempted'
  BY <1>1, <1>6, <1>8 DEF IInv, Attempted, AttemptUsedOnce, ghosts
<1> QED
  BY <1>1, <1>5, <1>9, AttemptFinish DEF IInv, TypeOK, ghosts

LEMMA ConsumeHolds ==
    ASSUME Assumptions, IInv, NEW r \in Request, Consume(r)
    PROVE  IInv'
<1> DEFINE t == req[r].attempt
<1>1. /\ pc[r] = "consume" /\ UNCHANGED <<memory, disk, held, ghosts, crashes>>
      /\ \/ /\ attempts[t].status = "pending" /\ attempts' = [attempts EXCEPT ![t].status = "gone"]
            /\ Goto(r, "exchange") /\ writer' = None /\ UNCHANGED <<readers, req, seen>>
         \/ Finish(r) /\ UNCHANGED attempts
  BY DEF Consume, Pending
<1>2. req[r] \in CompleteInput /\ t \in Attempt /\ Writing(r)
  BY <1>1 DEF IInv, Asked, AskedOf, CompleteInput, Writing
<1>3. CASE Finish(r) /\ UNCHANGED attempts
  <2>1. TypeOK'
    BY <1>1, <1>3, FinishTyped DEF IInv, TypeOK, memory, disk, ghosts
  <2> QED
    BY <1>1, <1>3, <2>1, FinishQuietly DEF memory, disk, ghosts
<1>4. CASE /\ attempts[t].status = "pending" /\ attempts' = [attempts EXCEPT ![t].status = "gone"]
           /\ Goto(r, "exchange") /\ writer' = None /\ UNCHANGED <<readers, req, seen>>
  <2>1. OnlyMoves(r) /\ pc'[r] = "exchange" /\ pc' \in [Request -> Labels]
    BY <1>4, GoingMoves DEF IInv, Labels
  <2>2. /\ attempts' \in Attempts /\ attempts'[t].status = "gone"
        /\ \A u \in Attempt \ {t} : attempts'[u] = attempts[u]
    BY <1>2, <1>4 DEF IInv, TypeOK, Attempts
  <2>3. TypeOK'
    BY <1>1, <1>4, <2>1, <2>2 DEF IInv, TypeOK, memory, disk, ghosts, Labels, Attempts
  <2>4. Locked' /\ ~Reading(r)'
    <3>1. writer = r /\ None \notin Request /\ readers = {}
      BY <1>2, WritesAlone DEF IInv, Assumptions, NoneAssumption
    <3> QED
      BY <1>4, <2>1, <3>1 DEF IInv, Locked, Reading, Writing, OnlyMoves
  <2>5. AskedOf(r)'
    BY <1>2, <1>4, <2>1 DEF AskedOf, Saving
  <2>6. \A q \in Request : q # r /\ Exchanging(q)' =>
          Exchanging(q) /\ req'[q] = req[q] /\ req[q].attempt \in Attempt /\ req[q].attempt # t
    BY <1>4, <2>1 DEF Exchanging, OnlyMoves, IInv, Asked, AskedOf, CompleteInput, Attempted
  <2>7. used[t] = 0 /\ used' = used /\ req'[r] = req[r]
    BY <1>1, <1>2, <1>4 DEF IInv, Attempted, ghosts
  <2>8. Attempted'
    BY <2>2, <2>6, <2>7 DEF IInv, Attempted, AttemptUsedOnce
  <2> QED
    BY <1>1, <2>1, <2>3, <2>4, <2>5, <2>8, AttemptStep DEF memory, disk
<1> QED
  BY <1>1, <1>3, <1>4

LEMMA ExchangeHolds ==
    ASSUME Assumptions, IInv, NEW r \in Request, Exchange(r)
    PROVE  IInv'
<1> DEFINE t == req[r].attempt
<1>1. /\ pc[r] = "exchange" /\ used' = [used EXCEPT ![t] = @ + 1]
      /\ (Goto(r, "relock") /\ Going) \/ Finish(r)
      /\ UNCHANGED <<memory, attempts, disk, held, sent, crashes>>
  BY DEF Exchange
<1>2. req[r] \in CompleteInput /\ t \in Attempt /\ attempts[t].status = "gone" /\ used[t] = 0
  BY <1>1 DEF IInv, Asked, AskedOf, CompleteInput, Attempted, Exchanging
<1>3. used' \in [Attempt -> Nat] /\ used'[t] = 1 /\ \A u \in Attempt \ {t} : used'[u] = used[u]
  BY <1>1, <1>2 DEF IInv, TypeOK
<1>4. OnlyMoves(r) /\ pc'[r] \in {"done", "relock"} /\ pc' \in [Request -> Labels]
  BY <1>1, FinishMoves, GoingMoves DEF IInv, OnlyMoves, Labels, Going
<1>5. Attempted'
  <2>1. \A q \in Request : Exchanging(q)' =>
          Exchanging(q) /\ req'[q] = req[q] /\ req[q].attempt \in Attempt \ {t}
    BY <1>1, <1>4 DEF Exchanging, OnlyMoves, IInv, Asked, AskedOf, CompleteInput, Attempted
  <2> QED
    BY <1>1, <1>2, <1>3, <2>1 DEF IInv, Attempted, AttemptUsedOnce
<1>6. CASE Finish(r)
  BY <1>1, <1>3, <1>5, <1>6, AttemptFinish DEF IInv, TypeOK, Attempts
<1>7. CASE Goto(r, "relock") /\ Going
  <2>1. OnlyMoves(r) /\ pc'[r] = "relock"
    BY <1>7, GoingMoves DEF IInv, Labels, Going
  <2>2. TypeOK'
    BY <1>1, <1>3, <1>4, <1>7 DEF IInv, TypeOK, memory, disk, Labels, Going
  <2>3. Locked' /\ ~Reading(r)'
    BY <1>1, <1>7, <2>1, LockedStays DEF IInv, Reading, Writing, Going, lock
  <2>4. AskedOf(r)'
    BY <1>2, <1>7, <2>1 DEF AskedOf, Saving, Going
  <2> QED
    BY <1>1, <1>5, <2>1, <2>2, <2>3, <2>4, AttemptStep DEF memory, disk
<1> QED
  BY <1>1, <1>6, <1>7

LEMMA StoreKeyHolds ==
    ASSUME Assumptions, IInv, NEW r \in Request, StoreKey(r)
    PROVE  IInv'
<1>1. /\ pc[r] = "key" /\ openRouterKey' = OpenRouter /\ Finish(r)
      /\ UNCHANGED <<app, settings, modelKey, attempts, disk, held, ghosts, crashes>>
  BY DEF StoreKey
<1>2. TypeOK'
  BY <1>1, FinishTyped DEF IInv, TypeOK, disk, ghosts
<1> QED
  BY <1>1, <1>2, FinishQuietly DEF disk, ghosts

-----------------------------------------------------------------------------
(* Everything else: time, the other process, a crash                       *)

\* What does not speak of attempts or leases stays when only they change.
LEMMA RequestsStay ==
    ASSUME IInv, UNCHANGED <<lock, pc, req, seen, memory, saved, budgets>>
    PROVE  Locked' /\ Asked' /\ OneConfiguration' /\ Consistent'
<1>1. UNCHANGED <<readers, writer, pc, req, seen, app, settings, modelKey, saved, budgets>>
  BY DEF lock, memory
<1>2. Locked' /\ OneConfiguration'
  BY <1>1 DEF IInv, Locked, Reading, Writing, OneConfiguration, Configuration
<1>3. Asked'
  BY <1>1 DEF IInv, Asked, AskedOf, Saving, Fits, Authorized
<1>4. Consistent'
  BY <1>1 DEF IInv, Consistent, Authorized, Installing
<1> QED
  BY <1>2, <1>3, <1>4

LEMMA ExpireHolds ==
    ASSUME IInv, NEW t \in Attempt, Expire(t)
    PROVE  IInv'
<1>1. /\ attempts[t].status = "pending" /\ attempts' = [attempts EXCEPT ![t].status = "expired"]
      /\ UNCHANGED <<lock, pc, req, seen, memory, disk, held, ghosts, crashes>>
  BY DEF Expire, Pending
<1>2. /\ attempts' \in Attempts /\ attempts'[t].status = "expired"
      /\ \A u \in Attempt \ {t} : attempts'[u] = attempts[u]
  BY <1>1 DEF IInv, TypeOK, Attempts
<1>3. TypeOK' /\ Leased'
  BY <1>1, <1>2 DEF IInv, TypeOK, Attempts, Leased, lock, memory, disk, ghosts
<1>4. \A q \in Request : Exchanging(q)' => Exchanging(q) /\ req' = req /\ req[q].attempt \in Attempt \ {t}
  BY <1>1 DEF Exchanging, IInv, Asked, AskedOf, CompleteInput, Attempted
<1>5. Attempted'
  BY <1>1, <1>2, <1>4 DEF IInv, Attempted, AttemptUsedOnce, ghosts
<1> QED
  BY <1>1, <1>3, <1>5, RequestsStay DEF IInv, disk

LEMMA AccountHolds ==
    ASSUME IInv, NEW s \in Source, Apply(s) \/ Release(s)
    PROVE  IInv'
<1>1. /\ lease[s] # "settings"
      /\ lease' = [lease EXCEPT ![s] = "cli"] \/ lease' = [lease EXCEPT ![s] = "free"]
      /\ UNCHANGED <<lock, pc, req, seen, memory, attempts, saved, budgets, held, ghosts, crashes>>
  BY DEF Apply, Release
<1>2. /\ lease' \in [Source -> {"free", "cli", "settings", "dead"}]
      /\ \A u \in Source \ {s} : lease'[u] = lease[u]
  BY <1>1 DEF IInv, TypeOK
<1>3. TypeOK'
  BY <1>1, <1>2 DEF IInv, TypeOK, lock, memory, ghosts
<1>4. \A r \in Request : pc[r] \in {"persist", "install"} => req[r].value.source \in Source \ {s}
  BY <1>1 DEF IInv, Asked, AskedOf, Saving, Prepared, WorkspaceSettings, Leased
<1>5. Leased'
  BY <1>1, <1>2, <1>4 DEF IInv, Leased
<1>6. Attempted'
  BY <1>1 DEF IInv, Attempted, AttemptUsedOnce, Exchanging, ghosts
<1> QED
  BY <1>1, <1>3, <1>5, <1>6, RequestsStay DEF IInv

LEMMA RestartHolds ==
    ASSUME Assumptions, IInv, Restart
    PROVE  IInv'
<1>1. /\ readers' = {} /\ writer' = None
      /\ pc' = [r \in Request |-> IF pc[r] \in {"idle", "done"} THEN pc[r] ELSE "lost"]
      /\ app' = Started(saved).app /\ settings' = Started(saved).settings
      /\ modelKey' = None /\ openRouterKey' = None
      /\ attempts' = [t \in Attempt |-> IF attempts[t].status = "new" THEN attempts[t]
                                        ELSE [attempts[t] EXCEPT !.status = "gone"]]
      /\ lease' = [s \in Source |-> IF lease[s] = "settings" THEN "dead" ELSE lease[s]]
      /\ req' = [r \in Request |-> None] /\ seen' = req'
      /\ UNCHANGED <<saved, budgets, held, used>>
  BY DEF Restart, ghosts
<1>2. pc' \in [Request -> {"idle", "done", "lost"}]
  BY <1>1 DEF IInv, TypeOK
<1>3. /\ attempts' \in Attempts
      /\ \A t \in Attempt : attempts'[t].status # "gone" => attempts[t].status # "gone"
  BY <1>1 DEF IInv, TypeOK, Attempts
<1>4. lease' \in [Source -> {"free", "cli", "settings", "dead"}]
  BY <1>1 DEF IInv, TypeOK
<1>5. saved \in WorkspaceSettings \cup {None}
  BY DEF IInv, TypeOK
<1>6. /\ app' \in Services /\ settings' \in WorkspaceSettings
      /\ app'.source = settings'.source /\ app'.budget = settings'.budget
      /\ Authorized(Started(saved).app) /\ (saved # None => settings' = saved)
  BY <1>1, <1>5, StartedForm
<1>7. TypeOK'
  BY <1>1, <1>2, <1>3, <1>4, <1>6 DEF IInv, TypeOK, Attempts
<1>8. \A r \in Request : pc'[r] \in {"idle", "done", "lost"}
  BY <1>2
<1>9. Locked' /\ Asked' /\ OneConfiguration' /\ Leased'
  <2>1. None \notin Request
    BY DEF Assumptions, NoneAssumption
  <2> QED
    BY <1>1, <1>8, <2>1 DEF Locked, Reading, Writing, Asked, AskedOf, Saving, OneConfiguration, Leased
<1>10. Consistent'
  BY <1>1, <1>6, <1>8 DEF IInv, Consistent, Authorized, Installing
<1>11. Attempted'
  BY <1>1, <1>3, <1>8 DEF IInv, Attempted, AttemptUsedOnce, Exchanging
<1> QED
  BY <1>7, <1>9, <1>10, <1>11 DEF IInv

LEMMA InitHolds ==
    ASSUME Assumptions, Init
    PROVE  IInv
<1>1. TypeOK
  BY DEF Init, TypeOK, Assumptions, GateAssumption, Model, WorkspaceSettings
<1>2. Locked
  BY DEF Init, Locked, Reading, Writing, Assumptions, NoneAssumption
<1>3. Asked /\ OneConfiguration /\ Leased
  BY DEF Init, Asked, AskedOf, Saving, OneConfiguration, Leased
<1>4. Consistent
  BY DEF Init, Consistent, Authorized, Installing, Assumptions, GateAssumption
<1>5. Attempted
  BY DEF Init, Attempted, AttemptUsedOnce, Exchanging
<1> QED
  BY <1>1, <1>2, <1>3, <1>4, <1>5 DEF IInv

LEMMA StutterHolds ==
    ASSUME IInv, UNCHANGED vars
    PROVE  IInv'
<1>1. TypeOK' /\ Leased' /\ Attempted'
  BY DEF vars, lock, memory, disk, ghosts, IInv, TypeOK, Leased, Attempted, AttemptUsedOnce, Exchanging
<1> QED
  BY <1>1, RequestsStay DEF IInv, vars, disk

LEMMA NextHolds ==
    ASSUME Assumptions, IInv, [Next]_vars
    PROVE  IInv'
<1>1. ASSUME NEW r \in Request, Serve(r) PROVE IInv'
  BY <1>1, EnterHolds, TryLockHolds, BusyHolds, LockHolds, LoadHolds, StartTurnHolds, RunTurnHolds,
     ValidateHolds, LeaseAccountHolds, PersistHolds, InstallHolds, StartOpenRouterHolds,
     ConsumeHolds, ExchangeHolds, StoreKeyHolds DEF Serve
<1> QED
  BY <1>1, ArriveHolds, ExpireHolds, AccountHolds, RestartHolds, StutterHolds DEF Next

-----------------------------------------------------------------------------
(* What follows from it                                                    *)

LEMMA ConfigurationFollows ==
    ASSUME Assumptions, IInv
    PROVE  ConfigurationHolds
<1>1. writer = None => \A r \in Request : ~Installing(r)
  BY DEF Assumptions, NoneAssumption, IInv, Locked, Writing, Installing
<1>2. ConfigurationAgrees
  BY <1>1 DEF IInv, Consistent, ConfigurationAgrees
<1>3. AuthorityFromDeployment
  BY DEF IInv, Consistent, Authorized, AuthorityFromDeployment
<1>4. InstalledKeyFits
  BY DEF IInv, Consistent, InstalledKeyFits
<1> QED
  BY <1>2, <1>3, <1>4 DEF IInv, Attempted, ConfigurationHolds

LEMMA BudgetsFollow ==
    ASSUME IInv, [Next]_vars
    PROVE  [KeepsBudgets]_vars
<1>1. ASSUME NEW r \in Request, Persist(r) PROVE KeepsBudgets
  <2>1. lease[req[r].value.source] = "settings" /\ budgets \in [Source -> Budget \cup {None}]
    BY <1>1 DEF Persist, IInv, Leased, TypeOK
  <2>2. \/ budgets' = budgets
        \/ budgets' = [budgets EXCEPT ![req[r].value.source] = req[r].value.budget]
    BY <1>1 DEF Persist
  <2> QED
    BY <2>1, <2>2 DEF KeepsBudgets
<1>2. ASSUME NEW r \in Request, Serve(r), ~Persist(r) PROVE budgets' = budgets
  BY <1>2 DEF Serve, Enter, TryLock, Busy, Lock, Load, StartTurn, RunTurn, Validate, LeaseAccount,
     Install, StartOpenRouter, Consume, Exchange, StoreKey, disk
<1>3. ASSUME \/ \E r \in Request, input \in Input : Arrive(r, input)
             \/ \E t \in Attempt : Expire(t)
             \/ \E s \in Source : Apply(s) \/ Release(s)
             \/ Restart
      PROVE  budgets' = budgets
  BY <1>3 DEF Arrive, Expire, Apply, Release, Restart, disk
<1> QED
  BY <1>1, <1>2, <1>3 DEF Next, KeepsBudgets

\* Lock, requests, configuration, leases and attempts fit each other in every run of the
\* server, for any number of requests (httpapi/settings.go, openrouter.go).
THEOREM Invariance == ASSUME Assumptions PROVE Spec => []IInv
<1>1. Init => IInv
  BY InitHolds
<1>2. IInv /\ [Next]_vars => IInv'
  BY NextHolds
<1> QED
  BY <1>1, <1>2, PTL DEF Spec

\* Requests, configuration, leases and attempts keep their types.
THEOREM TypeCorrect == ASSUME Assumptions PROVE Spec => []TypeOK
<1>1. IInv => TypeOK
  BY DEF IInv
<1> QED
  BY <1>1, Invariance, PTL

\* Whatever is saved, authorized and applied, and wherever the server dies: a request
\* works with one configuration, which is what was saved and has no more authority than
\* the deployment; keys fit their destination, an authorization is exchanged once, and
\* no budget changes under an apply (saveSettings, completeOpenRouter, initSettings).
THEOREM SettingsAreSound == ASSUME Assumptions PROVE Spec => SettingsHold
<1>1. IInv => ConfigurationHolds
  BY ConfigurationFollows
<1>2. IInv /\ [Next]_vars => [KeepsBudgets]_vars
  BY BudgetsFollow
<1> QED
  BY <1>1, <1>2, Invariance, PTL DEF Spec, SettingsHold, BudgetsKeptDuringApply

-----------------------------------------------------------------------------
(* The operator key (httpapi/server.go).  It shares nothing with the gate.  *)

CONSTANTS Start, MaxFaults
VARIABLES path, bytes, keyPc, tries, handle, key, faults, keyCrashes

Key == INSTANCE OperatorKey WITH pc <- keyPc, attempt <- tries, crashes <- keyCrashes

Contents == {"none", "empty", "part", "whole"}
KeyPoints == {"off", "look", "create", "write", "sync", "close", "remove", "open", "read",
              "serving", "failed", "dead"}

KeyTyped ==
    /\ path \in Start \union {None}
    /\ bytes \in [Start -> Contents]
    /\ keyPc \in [Start -> KeyPoints]
    /\ tries \in [Start -> 1..3]
    /\ handle \in [Start -> Start \union {None}]
    /\ key \in [Start -> [file : Start \union {None}, whole : BOOLEAN]]
    /\ faults \in 0..MaxFaults /\ keyCrashes \in 0..MaxCrashes

\* A start that looks, or reads a key, has made none; one that writes has the path, as
\* has one that serves with a key it made.
MadeBy(p) ==
    /\ keyPc[p] \in {"off", "look", "create", "open", "read"} => path # p /\ tries[p] <= 2
    /\ keyPc[p] = "read" => handle[p] \notin {None, p}
    /\ keyPc[p] \in {"write", "sync", "close", "remove"} => path = p
    /\ keyPc[p] \in {"sync", "close"} => bytes[p] = "whole"
    /\ keyPc[p] = "serving" /\ key[p].file = p => path = p /\ bytes[p] = "whole"

KeyInv == KeyTyped /\ \A p \in Start : MadeBy(p)

LEMMA KeyInit == ASSUME Key!FaultAssumption PROVE Key!Init => KeyInv
  BY DEF Key!FaultAssumption, Key!Init, Key!NoKey, KeyInv, KeyTyped, MadeBy, Contents, KeyPoints

LEMMA KeyStep ==
    ASSUME Key!FaultAssumption, KeyInv, NEW p \in Start,
           Key!Begin(p) \/ Key!Step(p) \/ Key!Crash(p) \/ Key!Stop(p)
    PROVE  KeyInv'
<1> USE DEF Key!FaultAssumption, Key!Go, Key!Fault, KeyInv, KeyTyped, MadeBy, Contents, KeyPoints
<1>1. CASE Key!Begin(p)
  BY <1>1 DEF Key!Begin
<1>2. CASE Key!Look(p)
  BY <1>2 DEF Key!Look
<1>3. CASE Key!Create(p)
  BY SMTT(60), <1>3 DEF Key!Create
<1>4. CASE Key!Write(p)
  BY <1>4 DEF Key!Write
<1>5. CASE Key!Sync(p)
  BY <1>5 DEF Key!Sync
<1>6. CASE Key!Close(p)
  <2> DEFINE new == [file |-> p, whole |-> TRUE]
  <2>1. /\ keyPc[p] = "close" /\ UNCHANGED <<path, bytes, tries, handle, keyCrashes>>
        /\ \/ keyPc' = [keyPc EXCEPT ![p] = "serving"] /\ key' = [key EXCEPT ![p] = new] /\ UNCHANGED faults
           \/ keyPc' = [keyPc EXCEPT ![p] = "failed"] /\ UNCHANGED key /\ faults < MaxFaults /\ faults' = faults + 1
    BY <1>6 DEF Key!Close
  <2>2. new \in [file : Start \union {None}, whole : BOOLEAN]
    OBVIOUS
  <2> HIDE DEF new
  <2> QED
    BY <2>1, <2>2
<1>7. CASE Key!RemoveKey(p)
  BY <1>7 DEF Key!RemoveKey
<1>8. CASE Key!Open(p)
  BY <1>8 DEF Key!Open
<1>9. CASE Key!Read(p)
  <2> DEFINE new == [file |-> handle[p], whole |-> bytes[handle[p]] = "whole"]
  <2>1. /\ keyPc[p] = "read" /\ UNCHANGED <<path, bytes, tries, handle, faults, keyCrashes>>
        /\ \/ keyPc' = [keyPc EXCEPT ![p] = "serving"] /\ key' = [key EXCEPT ![p] = new]
           \/ keyPc' = [keyPc EXCEPT ![p] = "failed"] /\ UNCHANGED key
    BY <1>9 DEF Key!Read
  <2>2. new \in [file : Start \union {None}, whole : BOOLEAN] /\ new.file = handle[p]
    BY DEF KeyInv
  <2>3. new.file # p
    BY <2>1, <2>2
  <2> HIDE DEF new
  <2> QED
    BY <2>1, <2>2, <2>3
<1>10. CASE Key!Crash(p)
  BY <1>10 DEF Key!Crash
<1>11. CASE Key!Stop(p)
  BY <1>11 DEF Key!Stop
<1> QED
  BY <1>1, <1>2, <1>3, <1>4, <1>5, <1>6, <1>7, <1>8, <1>9, <1>10, <1>11 DEF Key!Step

LEMMA KeyNext ==
    ASSUME Key!FaultAssumption, KeyInv, [Key!Next]_(Key!vars)
    PROVE  KeyInv'
<1>1. CASE UNCHANGED Key!vars
  BY <1>1 DEF Key!vars, KeyInv, KeyTyped, MadeBy
<1>2. CASE Key!Next
  BY <1>2, KeyStep DEF Key!Next
<1> QED
  BY <1>1, <1>2

LEMMA KeyAlways == ASSUME Key!FaultAssumption PROVE Key!Spec => []KeyInv
<1>1. Key!Init => KeyInv
  BY KeyInit
<1>2. KeyInv /\ [Key!Next]_(Key!vars) => KeyInv'
  BY KeyNext
<1> QED
  BY <1>1, <1>2, PTL DEF Key!Spec

LEMMA KeyTypes == ASSUME KeyInv PROVE Key!TypeOK
  BY DEF KeyInv, KeyTyped, Contents, KeyPoints, Key!TypeOK

LEMMA KeyFollows == ASSUME KeyInv PROVE Key!MakerKeepsKey
  BY DEF KeyInv, MadeBy, Key!MakerKeepsKey

\* A server that made the key keeps it, whatever other starts run into, however many
\* they are (loadOrCreateOperatorKey).
THEOREM MakersKeepKeys == ASSUME Key!FaultAssumption PROVE Key!Spec => []Key!MakerKeepsKey
<1>1. KeyInv => Key!MakerKeepsKey
  BY KeyFollows
<1> QED
  BY <1>1, KeyAlways, PTL

\* As long as no write of a key fails, a key that is there stays, and is served whole.
ServedBy(p) ==
    /\ keyPc[p] # "remove" /\ bytes[p] # "part"
    /\ keyPc[p] = "read" => handle[p] = path
    /\ keyPc[p] = "serving" =>
          path \in Start /\ key[p].whole /\ path = key[p].file /\ bytes[path] = "whole"
Served == \A p \in Start : ServedBy(p)

LEMMA ServedStep ==
    ASSUME Key!FaultAssumption, MaxFaults = 0, KeyInv, Served, NEW p \in Start,
           Key!Begin(p) \/ Key!Step(p) \/ Key!Crash(p) \/ Key!Stop(p)
    PROVE  Served'
<1>1. ~(faults < MaxFaults)
  BY DEF KeyInv, KeyTyped
<1> USE <1>1 DEF Key!FaultAssumption, Key!Go, Key!Fault, KeyInv, KeyTyped, MadeBy, Contents, KeyPoints,
                 Served, ServedBy
<1>2. CASE Key!Begin(p) \/ Key!Look(p) \/ Key!RemoveKey(p) \/ Key!Crash(p) \/ Key!Stop(p)
  BY <1>2 DEF Key!Begin, Key!Look, Key!RemoveKey, Key!Crash, Key!Stop
<1>3. CASE Key!Create(p)
  BY <1>3 DEF Key!Create
<1>4. CASE Key!Write(p) \/ Key!Sync(p)
  BY <1>4 DEF Key!Write, Key!Sync
<1>5. CASE Key!Close(p)
  BY <1>5 DEF Key!Close
<1>6. CASE Key!Open(p)
  BY <1>6 DEF Key!Open
<1>7. CASE Key!Read(p)
  <2> DEFINE new == [file |-> handle[p], whole |-> bytes[handle[p]] = "whole"]
  <2>1. /\ keyPc[p] = "read" /\ UNCHANGED <<path, bytes, tries, handle, faults, keyCrashes>>
        /\ \/ /\ bytes[handle[p]] \in {"part", "whole"}
              /\ keyPc' = [keyPc EXCEPT ![p] = "serving"] /\ key' = [key EXCEPT ![p] = new]
           \/ keyPc' = [keyPc EXCEPT ![p] = "failed"] /\ UNCHANGED key
    BY <1>7 DEF Key!Read, Key!Acceptable
  <2>2. handle[p] \in Start /\ handle[p] = path
    BY <2>1
  <2>3. new.file = path /\ (bytes[path] = "whole" => new.whole)
    BY <2>2
  <2> HIDE DEF new
  <2> QED
    BY <2>1, <2>2, <2>3
<1> QED
  BY <1>2, <1>3, <1>4, <1>5, <1>6, <1>7 DEF Key!Step

LEMMA ServedInit == ASSUME Key!FaultAssumption, Key!Init PROVE Served
  BY DEF Key!FaultAssumption, Key!Init, Served, ServedBy

LEMMA ServedNext ==
    ASSUME Key!FaultAssumption, MaxFaults = 0, KeyInv, Served, [Key!Next]_(Key!vars)
    PROVE  Served'
<1>1. CASE UNCHANGED Key!vars
  BY <1>1 DEF Key!vars, Served, ServedBy
<1>2. CASE Key!Next
  BY <1>2, ServedStep DEF Key!Next
<1> QED
  BY <1>1, <1>2

LEMMA ServedFollows == ASSUME Served PROVE Key!SignInPossible
  BY DEF Served, ServedBy, Key!SignInPossible

\* However many servers start at once on a directory and whichever of them die: as long
\* as no write fails, each that serves accepts exactly the key in its operator-key file
\* (loadOrCreateOperatorKey).
THEOREM SignInIsPossible ==
    ASSUME Key!FaultAssumption, MaxFaults = 0 PROVE Key!Spec => []Key!SignInPossible
<1>1. Key!Init => Served
  BY ServedInit
<1>2. KeyInv /\ Served /\ [Key!Next]_(Key!vars) => Served'
  BY ServedNext
<1>3. Served => Key!SignInPossible
  BY ServedFollows
<1> QED
  BY <1>1, <1>2, <1>3, KeyAlways, PTL DEF Key!Spec

-----------------------------------------------------------------------------
(* The page (WebClient). *)

CONSTANTS Sessions, First, MaxTurns, MaxEvents, MaxRefresh, MaxLoads
VARIABLES
    turns, sessionId, busy, stream, live, history, records, loads, refreshes, complete, overtaken

Web == INSTANCE WebClient

\* A set of numbers has a least one.
LEMMA LeastOf ==
    ASSUME NEW S, S \subseteq Nat, S # {}
    PROVE  \E m \in S : \A n \in S : m <= n
<1> DEFINE R == {p \in Nat \X Nat : p[1] < p[2]}
<1>1. IsWellFoundedOn(R, Nat)
  BY NatLessThanWellFounded DEF OpToRel
<1>2. \A n, m \in Nat : n < m => <<n, m>> \in R
  OBVIOUS
<1> HIDE DEF R
<1>3. PICK m \in S : \A n \in S : <<n, m>> \notin R
  BY <1>1, WFMin
<1>4. ASSUME NEW n \in S PROVE m <= n
  <2>1. n \in Nat /\ m \in Nat
    OBVIOUS
  <2>2. ~(n < m)
    BY <1>2, <1>3, <2>1
  <2> QED
    BY ONLY <2>1, <2>2
<1> QED
  BY <1>4


\* The latest of the turns known is one of them.
LEMMA LatestIsKnown ==
    ASSUME NEW n \in Nat, NEW known, known \subseteq 1..n, known # {}
    PROVE  Web!Latest(known) \in known /\ \A t \in known : t <= Web!Latest(known)
<1> DEFINE Above == {m \in Nat : \A t \in known : t <= m}
<1>1. n \in Above
  OBVIOUS
<1>2. PICK m \in Above : \A x \in Above : m <= x
  <2> HIDE DEF Above
  <2>1. Above # {}
    BY <1>1
  <2>2. Above \subseteq Nat
    BY DEF Above
  <2> QED
    BY <2>1, <2>2, LeastOf
<1>3. m \in known
  <2> SUFFICES ASSUME m \notin known PROVE FALSE
    OBVIOUS
  <2>1. m # 0 /\ m \in Nat
    <3>1. PICK t \in known : t \in 1..n
      OBVIOUS
    <3>2. t <= m /\ m \in Nat /\ t \in Nat /\ 1 <= t
      BY <3>1
    <3> QED
      BY ONLY <3>2
  <2>2. m - 1 \in Nat /\ \A t \in known : t <= m - 1
    BY <2>1
  <2> QED
    BY <1>2, <2>1, <2>2
<1> QED
  BY <1>2, <1>3 DEF Web!Latest

-----------------------------------------------------------------------------
(* What the reducer makes of a turn's events, one after the other. *)

\* f is what the page shows after each of the first n events.
Shows(f, state, t, n) ==
    f = [i \in 0..n |-> IF i = 0 THEN state ELSE Web!Reduce(f[i - 1], t, i)]

LEMMA ShowsExist ==
    ASSUME NEW state, NEW t, NEW n \in Nat
    PROVE  \E f : Shows(f, state, t, n)
<1> DEFINE S == {m \in Nat : ~\E f : Shows(f, state, t, m)}
<1>1. SUFFICES ASSUME S # {} PROVE FALSE
  OBVIOUS
<1>2. PICK m \in S : \A x \in S : m <= x
  BY <1>1, LeastOf
<1>3. CASE m = 0
  <2>1. Shows([i \in 0..0 |-> state], state, t, 0)
    BY DEF Shows
  <2> QED
    BY <1>3, <2>1
<1>4. CASE m # 0
  <2>1. m - 1 \in Nat /\ ~(m <= m - 1)
    BY <1>4
  <2>2. PICK f : Shows(f, state, t, m - 1)
    BY <1>2, <2>1
  <2> DEFINE g == [i \in 0..m |-> IF i = m THEN Web!Reduce(f[m - 1], t, m) ELSE f[i]]
  <2>3. \A i \in 0..(m - 1) : f[i] = IF i = 0 THEN state ELSE Web!Reduce(f[i - 1], t, i)
    BY <2>2 DEF Shows
  <2>4. ASSUME NEW i \in 0..m
        PROVE  g[i] = IF i = 0 THEN state ELSE Web!Reduce(g[i - 1], t, i)
    <3>1. CASE i = m
      BY <3>1, <1>4
    <3>2. CASE i # m
      BY <3>2, <2>3
    <3> QED
      BY <3>1, <3>2
  <2>5. g = [i \in 0..m |-> IF i = 0 THEN state ELSE Web!Reduce(g[i - 1], t, i)]
    BY <2>4
  <2>6. Shows(g, state, t, m)
    BY <2>5 DEF Shows
  <2> QED
    BY <2>6
<1> QED
  BY <1>3, <1>4

LEMMA ReplayShows ==
    ASSUME NEW state, NEW t, NEW n \in Nat
    PROVE  \E f : /\ Web!Replay(state, t, n) = f[n] /\ f[0] = state
                  /\ \A i \in 1..n : f[i] = Web!Reduce(f[i - 1], t, i)
<1> DEFINE F == CHOOSE f : f = [i \in 0..n |-> IF i = 0 THEN state ELSE Web!Reduce(f[i - 1], t, i)]
<1>1. Web!Replay(state, t, n) = F[n]
  BY DEF Web!Replay
<1>2. PICK f : Shows(f, state, t, n)
  BY ShowsExist
<1>3. f = [i \in 0..n |-> IF i = 0 THEN state ELSE Web!Reduce(f[i - 1], t, i)]
  BY <1>2 DEF Shows
<1>4. F = [i \in 0..n |-> IF i = 0 THEN state ELSE Web!Reduce(F[i - 1], t, i)]
  BY <1>3
<1> HIDE DEF F
<1>5. F[0] = state /\ \A i \in 1..n : F[i] = Web!Reduce(F[i - 1], t, i)
  BY <1>4
<1> QED
  BY <1>1, <1>5

\* A state of the reducer, of one of the turns in known.
IsShown(state, known) ==
    /\ state = [turn |-> state.turn, seen |-> state.seen]
    /\ state.turn \in known \union {None} /\ state.seen \subseteq 1..MaxEvents

LEMMA ReduceShows ==
    ASSUME NEW known, NEW state, IsShown(state, known), NEW t \in known, NEW i \in 1..MaxEvents
    PROVE  IsShown(Web!Reduce(state, t, i), known)
  BY DEF IsShown, Web!Reduce

LEMMA ReplayIsShown ==
    ASSUME MaxEvents \in Nat, NEW known, NEW state, IsShown(state, known), NEW t \in known,
           NEW n \in 0..MaxEvents
    PROVE  IsShown(Web!Replay(state, t, n), known)
<1>1. PICK f : /\ Web!Replay(state, t, n) = f[n] /\ f[0] = state
               /\ \A i \in 1..n : f[i] = Web!Reduce(f[i - 1], t, i)
  BY ReplayShows
<1> DEFINE S == {i \in 0..n : ~IsShown(f[i], known)}
<1>2. SUFFICES ASSUME S # {} PROVE FALSE
  <2>1. n \in 0..n
    OBVIOUS
  <2> QED
    BY <1>1, <2>1
<1>3. PICK m \in S : \A x \in S : m <= x
  <2>1. S \subseteq Nat
    OBVIOUS
  <2> QED
    BY <1>2, <2>1, LeastOf
<1>4. m # 0
  BY <1>1
<1>5. m - 1 \in 0..n /\ m - 1 \notin S /\ m \in 1..n /\ m \in 1..MaxEvents
  BY <1>3, <1>4
<1>6. IsShown(f[m - 1], known)
  BY <1>5
<1>7. f[m] = Web!Reduce(f[m - 1], t, m)
  BY <1>1, <1>5
<1> QED
  BY <1>5, <1>6, <1>7, ReduceShows

\* Of which turn the page shows something.
LEMMA ReplayTurn ==
    ASSUME NEW state, NEW t, NEW n \in Nat
    PROVE  Web!Replay(state, t, n).turn \in {state.turn, t}
<1>1. PICK f : /\ Web!Replay(state, t, n) = f[n] /\ f[0] = state
               /\ \A i \in 1..n : f[i] = Web!Reduce(f[i - 1], t, i)
  BY ReplayShows, SMTT(30)
<1> DEFINE S == {i \in 0..n : f[i].turn \notin {state.turn, t}}
<1>2. SUFFICES ASSUME S # {} PROVE FALSE
  <2>1. n \in 0..n
    OBVIOUS
  <2> QED
    BY <1>1, <2>1
<1>3. PICK m \in S : \A x \in S : m <= x
  <2>1. S \subseteq Nat
    OBVIOUS
  <2> QED
    BY <1>2, <2>1, LeastOf
<1>4. m # 0
  BY <1>1
<1>5. m - 1 \in 0..n /\ m - 1 \notin S /\ m \in 1..n
  BY <1>3, <1>4
<1>6. f[m - 1].turn \in {state.turn, t}
  BY <1>5
<1>7. f[m] = Web!Reduce(f[m - 1], t, m)
  BY <1>1, <1>5
<1>8. Web!Reduce(f[m - 1], t, m).turn \in {f[m - 1].turn, t}
  BY DEF Web!Reduce
<1> QED
  BY <1>3, <1>6, <1>7, <1>8

\* The first events of a turn, and nothing else.
Events(t, n) == IF n = 0 THEN Web!NoLive ELSE [turn |-> t, seen |-> 1..n]

LEMMA NextEvent ==
    ASSUME NEW t, NEW n \in Nat
    PROVE  Web!Reduce(Events(t, n), t, n + 1) = Events(t, n + 1)
<1>1. CASE n = 0
  <2>1. (1..1) = {1}
    OBVIOUS
  <2> QED
    BY <1>1, <2>1 DEF Events, Web!Reduce, Web!NoLive
<1>2. CASE n # 0
  <2>1. 1..(n + 1) = (1..n) \union {n + 1} /\ n + 1 # 0
    OBVIOUS
  <2>2. ~\E event \in 1..n : n + 1 <= event
    OBVIOUS
  <2>3. Events(t, n) = [turn |-> t, seen |-> 1..n]
    BY <1>2 DEF Events
  <2>4. Web!Reduce(Events(t, n), t, n + 1) = [turn |-> t, seen |-> (1..n) \union {n + 1}]
    BY <2>2, <2>3 DEF Web!Reduce
  <2> QED
    BY <2>1, <2>4 DEF Events
<1> QED
  BY <1>1, <1>2

\* A replay shows the turn whole, of an empty page and of one that already does.
LEMMA ReplayIsWhole ==
    ASSUME NEW t, NEW n \in Nat, NEW state, state \in {Web!NoLive, Events(t, n)}
    PROVE  Web!Replay(state, t, n) = Events(t, n)
<1>1. PICK f : /\ Web!Replay(state, t, n) = f[n] /\ f[0] = state
               /\ \A i \in 1..n : f[i] = Web!Reduce(f[i - 1], t, i)
  BY ReplayShows
<1> DEFINE Right(i) == f[i] \in {Events(t, i), Events(t, n)}
           S == {i \in 0..n : ~Right(i)}
<1>2. S = {}
  <2> SUFFICES ASSUME S # {} PROVE FALSE
    OBVIOUS
  <2>1. PICK m \in S : \A x \in S : m <= x
    <3>1. S \subseteq Nat
      OBVIOUS
    <3> QED
      BY <3>1, LeastOf
  <2>2. m # 0
    <3>1. Events(t, 0) = Web!NoLive
      BY DEF Events
    <3>2. Right(0)
      BY <1>1, <3>1
    <3> QED
      BY <3>2
  <2>3. m - 1 \in 0..n /\ m - 1 \notin S /\ m \in 1..n
    BY <2>1, <2>2
  <2>4. f[m - 1] \in {Events(t, m - 1), Events(t, n)}
    BY <2>3
  <2>5. f[m] = Web!Reduce(f[m - 1], t, m)
    BY <1>1, <2>3
  <2>6. f[m - 1] = Events(t, m - 1) => Right(m)
    <3>1. m - 1 \in Nat /\ (m - 1) + 1 = m
      BY <2>3
    <3>2. Web!Reduce(Events(t, m - 1), t, (m - 1) + 1) = Events(t, (m - 1) + 1)
      BY <3>1, NextEvent
    <3>3. f[m - 1] = Events(t, m - 1) => f[m] = Events(t, m)
      BY <2>5, <3>1, <3>2
    <3> QED
      BY <3>3
  <2>7. f[m - 1] = Events(t, n) => Right(m)
    <3>1. Events(t, n).turn = t /\ Events(t, n).seen = 1..n /\ n \in 1..n /\ m <= n
      BY <2>3 DEF Events
    <3> HIDE DEF S
    <3>2. Web!Reduce(Events(t, n), t, m) = Events(t, n)
      BY ONLY <3>1 DEF Web!Reduce
    <3> QED
      BY <2>5, <3>2
  <2>8. Right(m)
    BY <2>4, <2>6, <2>7
  <2> QED
    BY <2>8
<1>3. n \in 0..n /\ n \notin S
  <2> HIDE DEF S
  <2> QED BY <1>2
<1> QED
  BY <1>1, <1>3

-----------------------------------------------------------------------------
(* Types: what a load has read is of its session, and turns only grow.  *)

LoadRecord ==
    [session : Sessions, stage : {"asked", "session", "events"}, known : SUBSET Nat,
     replay : UNION {[known -> Nat] : known \in SUBSET Nat}]

\* What a load knows are turns of its session, and events that were there when it read them.
LoadFits(x, rows) ==
    /\ x.known \subseteq DOMAIN rows /\ \A t \in x.known : rows[t].session = x.session
    /\ x.replay \in [DOMAIN x.replay -> Nat] /\ DOMAIN x.replay \subseteq x.known
    /\ \A t \in DOMAIN x.replay : x.replay[t] <= rows[t].events
    /\ x.stage = "asked" => x.known = {}

StreamFits(x, rows) ==
    /\ x = [session |-> x.session, stage |-> x.stage, turn |-> x.turn, got |-> x.got]
    /\ x.stage \in {"none", "asked", "open"} /\ x.got \in Nat
    /\ x.stage # "none" => x.session \in Sessions
    /\ x.stage # "open" => x.got = 0
    /\ x.stage = "open" => /\ x.turn \in DOMAIN rows /\ x.got <= rows[x.turn].events
                           /\ rows[x.turn].session = x.session

LoadsFit(all, rows) == all \in Seq(LoadRecord) /\ \A i \in DOMAIN all : LoadFits(all[i], rows)

Typed ==
    /\ turns \in Seq(Web!Turn) /\ Len(turns) <= MaxTurns
    /\ sessionId \in Sessions /\ busy \in BOOLEAN /\ complete \in BOOLEAN
    /\ StreamFits(stream, turns) /\ (stream.stage # "none") = busy
    /\ stream.stage = "asked" => Len(turns) < MaxTurns
    /\ IsShown(live, DOMAIN turns)
    /\ history.session \in Sessions /\ history.known \subseteq DOMAIN turns
    /\ DOMAIN records \subseteq DOMAIN turns
    /\ LoadsFit(loads, turns)

\* Turns are added and go on until they end.
Grown(rows, now) ==
    /\ rows \in Seq(Web!Turn) /\ now \in Seq(Web!Turn) /\ Len(rows) <= Len(now)
    /\ \A t \in DOMAIN rows : /\ now[t].session = rows[t].session
                              /\ rows[t].events <= now[t].events
                              /\ rows[t].ended => now[t] = rows[t]

LEMMA GrownDomain ==
    ASSUME NEW rows, NEW now, Grown(rows, now) PROVE DOMAIN rows \subseteq DOMAIN now
<1>1. DOMAIN rows = 1..Len(rows) /\ DOMAIN now = 1..Len(now) /\ Len(rows) <= Len(now)
      /\ Len(rows) \in Nat /\ Len(now) \in Nat
  BY DEF Grown
<1> QED
  BY ONLY <1>1

LEMMA LoadsGrown ==
    ASSUME MaxEvents \in Nat, NEW rows, NEW now, Grown(rows, now), NEW x, LoadFits(x, rows)
    PROVE  LoadFits(x, now)
<1>1. DOMAIN rows \subseteq DOMAIN now
  BY GrownDomain
<1>2. \A t \in DOMAIN rows : rows[t].events \in Nat /\ now[t].events \in Nat
                             /\ rows[t].events <= now[t].events
  <2>1. \A t \in DOMAIN rows : rows[t] \in Web!Turn /\ now[t] \in Web!Turn
    BY <1>1 DEF Grown
  <2> QED
    BY <2>1 DEF Web!Turn, Grown
<1>3. \A t \in DOMAIN x.replay : x.replay[t] <= now[t].events
  <2> SUFFICES ASSUME NEW t \in DOMAIN x.replay PROVE x.replay[t] <= now[t].events
    OBVIOUS
  <2>1. x.replay[t] \in Nat /\ x.replay[t] <= rows[t].events /\ t \in DOMAIN rows
    BY DEF LoadFits
  <2> QED
    BY <1>2, <2>1
<1>4. \A t \in x.known : now[t].session = x.session
  BY DEF LoadFits, Grown
<1> QED
  BY <1>1, <1>3, <1>4 DEF LoadFits

LEMMA StreamGrown ==
    ASSUME MaxEvents \in Nat, NEW rows, NEW now, Grown(rows, now), NEW x, StreamFits(x, rows)
    PROVE  StreamFits(x, now)
<1>1. DOMAIN rows \subseteq DOMAIN now
  BY GrownDomain
<1>2. CASE x.stage # "open"
  BY <1>2 DEF StreamFits
<1>3. CASE x.stage = "open"
  <2>1. x.turn \in DOMAIN rows /\ x.got <= rows[x.turn].events /\ x.got \in Nat
    BY <1>3 DEF StreamFits
  <2>2. rows[x.turn] \in Web!Turn /\ now[x.turn] \in Web!Turn
        /\ rows[x.turn].events <= now[x.turn].events
    BY <1>1, <2>1 DEF Grown
  <2>3. rows[x.turn].events \in Nat /\ now[x.turn].events \in Nat
    BY <2>2 DEF Web!Turn
  <2>4. x.got <= now[x.turn].events
    BY ONLY <2>1, <2>2, <2>3
  <2> QED
    BY <1>1, <1>3, <2>1, <2>4 DEF StreamFits, Grown
<1> QED
  BY <1>2, <1>3

LEMMA NewLoadFits ==
    ASSUME NEW session \in Sessions, NEW rows
    PROVE  /\ Web!NewLoad(session) \in LoadRecord /\ LoadFits(Web!NewLoad(session), rows)
           /\ Web!NewLoad(session).session = session /\ Web!NewLoad(session).stage = "asked"
<1>1. DOMAIN <<>> = {} /\ <<>> \in [{} -> Nat]
  OBVIOUS
<1>2. <<>> \in UNION {[known -> Nat] : known \in SUBSET Nat}
  BY <1>1
<1> QED
  BY <1>1, <1>2 DEF Web!NewLoad, LoadRecord, LoadFits

LEMMA LoadAdded ==
    ASSUME NEW all, NEW rows, LoadsFit(all, rows), NEW session \in Sessions
    PROVE  /\ LoadsFit(Append(all, Web!NewLoad(session)), rows)
           /\ Len(Append(all, Web!NewLoad(session))) = Len(all) + 1
           /\ \A i \in DOMAIN Append(all, Web!NewLoad(session)) :
                 LET x == Append(all, Web!NewLoad(session))[i]
                 IN  x = Web!NewLoad(session) \/ \E j \in DOMAIN all : x = all[j]
<1> DEFINE new == Web!NewLoad(session)
<1>1. new \in LoadRecord /\ LoadFits(new, rows) /\ all \in Seq(LoadRecord)
  BY NewLoadFits DEF LoadsFit
<1> HIDE DEF new
<1>2. /\ Append(all, new) \in Seq(LoadRecord) /\ Len(Append(all, new)) = Len(all) + 1
      /\ \A i \in DOMAIN Append(all, new) :
            Append(all, new)[i] = new \/ \E j \in DOMAIN all : Append(all, new)[i] = all[j]
  BY <1>1
<1>3. \A i \in DOMAIN Append(all, new) : LoadFits(Append(all, new)[i], rows)
  BY <1>1, <1>2 DEF LoadsFit
<1> QED
  BY <1>2, <1>3 DEF LoadsFit, new

LEMMA OpeningFits ==
    ASSUME sessionId \in Sessions, NEW rows
    PROVE  /\ LoadsFit(Web!Opening, rows) /\ Len(Web!Opening) = 2
           /\ \A i \in DOMAIN Web!Opening : Web!Opening[i] = Web!NewLoad(sessionId)
<1> DEFINE new == Web!NewLoad(sessionId)
<1>1. new \in LoadRecord /\ LoadFits(new, rows) /\ Web!Opening = <<new, new>>
  BY NewLoadFits DEF Web!Opening
<1> HIDE DEF new
<1>2. /\ <<new, new>> \in Seq(LoadRecord) /\ Len(<<new, new>>) = 2
      /\ \A i \in DOMAIN <<new, new>> : <<new, new>>[i] = new
  BY <1>1
<1> QED
  BY <1>1, <1>2 DEF LoadsFit, new

\* One load goes on.
LEMMA LoadMoved ==
    ASSUME NEW all, NEW rows, LoadsFit(all, rows), NEW i \in DOMAIN all,
           NEW x \in LoadRecord, LoadFits(x, rows), NEW now, now = [all EXCEPT ![i] = x]
    PROVE  /\ LoadsFit(now, rows) /\ DOMAIN now = DOMAIN all /\ now[i] = x
           /\ \A j \in DOMAIN all : j # i => now[j] = all[j]
<1>1. all \in Seq(LoadRecord) /\ now \in Seq(LoadRecord)
  BY DEF LoadsFit
<1>2. DOMAIN now = DOMAIN all /\ now[i] = x /\ \A j \in DOMAIN all : j # i => now[j] = all[j]
  BY <1>1
<1> QED
  BY <1>1, <1>2 DEF LoadsFit

\* One load is over.
LEMMA LoadLeft ==
    ASSUME NEW all, NEW rows, LoadsFit(all, rows), NEW i \in DOMAIN all,
           NEW now, now = Web!RemoveAt(all, i)
    PROVE  /\ LoadsFit(now, rows)
           /\ \A j \in DOMAIN now : \E k \in DOMAIN all : k # i /\ now[j] = all[k]
<1>1. all \in Seq(LoadRecord) /\ Len(all) \in Nat /\ i \in 1..Len(all)
  BY DEF LoadsFit
<1> DEFINE front == SubSeq(all, 1, i - 1)
           back == SubSeq(all, i + 1, Len(all))
<1>2. /\ front \in Seq(LoadRecord) /\ Len(front) = i - 1
      /\ \A j \in 1..(i - 1) : front[j] = all[j]
  BY <1>1
<1>3. /\ back \in Seq(LoadRecord) /\ Len(back) = Len(all) - i
      /\ \A j \in 1..(Len(all) - i) : back[j] = all[i + j]
  BY <1>1
<1>4. now = front \o back
  BY DEF Web!RemoveAt
<1> HIDE DEF front, back
<1>5. now \in Seq(LoadRecord) /\ Len(now) = Len(all) - 1
  BY <1>1, <1>2, <1>3, <1>4
<1>6. ASSUME NEW j \in DOMAIN now PROVE \E k \in DOMAIN all : k # i /\ now[j] = all[k]
  <2>1. j \in 1..(Len(all) - 1)
    BY <1>1, <1>5
  <2>2. CASE j <= i - 1
    <3>1. now[j] = all[j] /\ j \in DOMAIN all /\ j # i
      BY <1>1, <1>2, <1>3, <1>4, <2>1, <2>2
    <3> QED
      BY <3>1
  <2>3. CASE j > i - 1
    <3>1. j - (i - 1) \in 1..(Len(all) - i)
      BY <1>1, <2>1, <2>3
    <3>2. now[j] = back[j - (i - 1)]
      BY <1>1, <1>2, <1>3, <1>4, <2>1, <2>3
    <3>3. i + (j - (i - 1)) = j + 1 /\ j + 1 \in DOMAIN all /\ j + 1 # i
      BY <1>1, <2>1, <2>3
    <3>4. back[j - (i - 1)] = all[j + 1]
      BY <1>3, <3>1, <3>3
    <3> QED
      BY <3>2, <3>3, <3>4
  <2> QED
    BY <1>1, <2>1, <2>2, <2>3
<1> QED
  BY <1>5, <1>6 DEF LoadsFit

LEMMA TurnFits ==
    ASSUME MaxEvents \in Nat, NEW x, x \in Web!Turn
    PROVE  /\ x = [session |-> x.session, events |-> x.events, ended |-> x.ended]
           /\ x.session \in Sessions /\ x.events \in Nat /\ x.events <= MaxEvents
           /\ x.ended \in BOOLEAN /\ x.events <= x.events
<1>1. /\ x = [session |-> x.session, events |-> x.events, ended |-> x.ended]
      /\ x.session \in Sessions /\ x.events \in 0..MaxEvents /\ x.ended \in BOOLEAN
  BY DEF Web!Turn
<1> QED
  BY ONLY <1>1, MaxEvents \in Nat

\* What an EXCEPT makes of a turn, and of a stream.
LEMMA TurnChanged ==
    ASSUME NEW x, x = [session |-> x.session, events |-> x.events, ended |-> x.ended],
           NEW n, NEW ended, NEW y,
           \/ y = [[x EXCEPT !.events = n] EXCEPT !.ended = ended]
           \/ y = [x EXCEPT !.ended = ended] /\ n = x.events
    PROVE  /\ y = [session |-> x.session, events |-> n, ended |-> ended]
           /\ y.session = x.session /\ y.events = n /\ y.ended = ended
  OBVIOUS

LEMMA StreamChanged ==
    ASSUME NEW x, x = [session |-> x.session, stage |-> x.stage, turn |-> x.turn, got |-> x.got],
           NEW stage, NEW t, NEW n, NEW y,
           \/ y = [x EXCEPT !.stage = stage, !.turn = t] /\ n = x.got
           \/ y = [x EXCEPT !.got = n] /\ stage = x.stage /\ t = x.turn
    PROVE  y = [session |-> x.session, stage |-> stage, turn |-> t, got |-> n]
  OBVIOUS

LEMMA TurnsFit ==
    ASSUME MaxEvents \in Nat, NEW rows, rows \in Seq(Web!Turn), NEW t \in DOMAIN rows
    PROVE  /\ rows[t] \in Web!Turn /\ rows[t].session \in Sessions /\ rows[t].events \in Nat
           /\ rows[t].events <= MaxEvents /\ rows[t].events <= rows[t].events
           /\ rows[t].ended \in BOOLEAN
<1>1. rows[t] \in Web!Turn
  OBVIOUS
<1> QED
  BY <1>1, TurnFits

LEMMA TypedInit == ASSUME Web!FirstAssumption, Web!Init PROVE Typed
<1>1. LoadsFit(loads, turns)
  BY OpeningFits DEF Web!Init, Web!FirstAssumption
<1>2. IsShown(live, DOMAIN turns)
  BY DEF IsShown, Web!Init, Web!NoLive
<1>3. StreamFits(stream, turns)
  BY DEF StreamFits, Web!Init, Web!NoStream
<1>4. turns \in Seq(Web!Turn) /\ Len(turns) = 0 /\ DOMAIN records \subseteq DOMAIN turns
  BY DEF Web!Init
<1>5. Len(turns) <= MaxTurns
  BY <1>4 DEF Web!FirstAssumption
<1>6. stream.stage = "none" /\ busy = FALSE /\ complete = TRUE /\ sessionId \in Sessions
  BY DEF Web!Init, Web!NoStream, Web!FirstAssumption
<1>7. history.session \in Sessions /\ history.known \subseteq DOMAIN turns
  BY DEF Web!Init, Web!FirstAssumption
<1> QED
  BY <1>1, <1>2, <1>3, <1>4, <1>5, <1>6, <1>7 DEF Typed

\* When the server goes on, what the page has still is of its turns.
LEMMA GrownTyped ==
    ASSUME MaxEvents \in Nat, Typed, Grown(turns, turns'), Len(turns') <= MaxTurns,
           StreamFits(stream', turns'), (stream'.stage # "none") = busy',
           stream'.stage = "asked" => Len(turns') < MaxTurns,
           UNCHANGED <<sessionId, busy, live, history, records, loads, complete>>
    PROVE  Typed'
<1>1. DOMAIN turns \subseteq DOMAIN turns'
  BY GrownDomain
<1>2. LoadsFit(loads', turns')
  BY LoadsGrown DEF Typed, LoadsFit
<1>3. IsShown(live', DOMAIN turns')
  BY <1>1 DEF Typed, IsShown
<1> QED
  BY <1>1, <1>2, <1>3 DEF Typed, Grown

LEMMA AcceptTyped ==
    ASSUME Web!FirstAssumption, Typed, Web!Accept
    PROVE  /\ Typed' /\ Grown(turns, turns')
           /\ Web!Of(sessionId)' \ {Len(turns')} = Web!Of(sessionId)
           /\ turns' = Append(turns, [session |-> stream.session, events |-> 0, ended |-> FALSE])
           /\ Len(turns') \in DOMAIN turns' /\ turns'[Len(turns')].session = stream.session
           /\ stream' = [session |-> stream.session, stage |-> "open", turn |-> Len(turns'), got |-> 0]
<1> DEFINE new == [session |-> stream.session, events |-> 0, ended |-> FALSE]
<1>0. MaxEvents \in Nat /\ MaxTurns \in Nat
  BY DEF Web!FirstAssumption
<1>1. turns' = Append(turns, new)
  BY DEF Web!Accept
<1>2. new \in Web!Turn /\ new.session = stream.session /\ new.events = 0
  BY <1>0 DEF Web!Turn, Typed, StreamFits, Web!Accept
<1> HIDE DEF new
<1>3. turns \in Seq(Web!Turn) /\ Len(turns) \in Nat
  BY DEF Typed
<1>4. /\ turns' \in Seq(Web!Turn) /\ Len(turns') = Len(turns) + 1
      /\ turns'[Len(turns) + 1] = new /\ \A t \in 1..Len(turns) : turns'[t] = turns[t]
      /\ DOMAIN turns = 1..Len(turns) /\ DOMAIN turns' = 1..(Len(turns) + 1)
  BY <1>1, <1>2, <1>3
<1>5. Grown(turns, turns')
  <2>1. \A t \in 1..Len(turns) : turns[t].events <= turns[t].events
    BY <1>3, <1>4, <1>0, TurnsFit
  <2> QED
    BY <1>3, <1>4, <2>1 DEF Grown
<1>6. stream' = [session |-> stream.session, stage |-> "open", turn |-> Len(turns'), got |-> 0]
  <2> DEFINE n == Len(turns')
             after == stream'
  <2>2. after = [stream EXCEPT !.stage = "open", !.turn = n]
    BY DEF Web!Accept
  <2>3. /\ stream.got = 0
        /\ stream = [session |-> stream.session, stage |-> stream.stage, turn |-> stream.turn,
                     got |-> stream.got]
    BY DEF Typed, StreamFits, Web!Accept
  <2> HIDE DEF n, after
  <2>4. after = [session |-> stream.session, stage |-> "open", turn |-> n, got |-> 0]
    BY ONLY <2>2, <2>3, StreamChanged
  <2> QED
    BY <2>4 DEF n, after
<1>7. StreamFits(stream', turns')
  <2>1. turns'[Len(turns')] = new /\ Len(turns') \in DOMAIN turns'
    BY <1>3, <1>4
  <2>2. stream.session \in Sessions
    BY DEF Typed, StreamFits, Web!Accept
  <2>3. /\ stream'.session = stream.session /\ stream'.stage = "open"
        /\ stream'.turn = Len(turns') /\ stream'.got = 0
    BY <1>6
  <2>4. stream' = [session |-> stream'.session, stage |-> stream'.stage, turn |-> stream'.turn,
                   got |-> stream'.got]
    BY <1>6, <2>3
  <2>5. 0 <= turns'[Len(turns')].events /\ turns'[Len(turns')].session = stream.session
    BY <1>2, <2>1
  <2> QED
    BY ONLY <2>1, <2>2, <2>3, <2>4, <2>5 DEF StreamFits
<1>8. Len(turns') <= MaxTurns
  BY <1>0, <1>3, <1>4 DEF Typed, Web!Accept
<1>9. Typed'
  BY <1>0, <1>5, <1>6, <1>7, <1>8, GrownTyped DEF Typed, Web!Accept
<1>10. Web!Of(sessionId)' \ {Len(turns')} = Web!Of(sessionId)
  <2>1. sessionId' = sessionId
    BY DEF Web!Accept
  <2> QED
    BY <1>3, <1>4, <2>1 DEF Web!Of
<1> QED
  BY <1>2, <1>3, <1>4, <1>5, <1>6, <1>9, <1>10 DEF new

LEMMA ServerTyped ==
    ASSUME Web!FirstAssumption, Typed, NEW t \in DOMAIN turns, Web!Emit(t) \/ Web!Stop(t)
    PROVE  /\ Typed' /\ Grown(turns, turns') /\ DOMAIN turns' = DOMAIN turns
           /\ ~turns[t].ended /\ \A u \in DOMAIN turns : u # t => turns'[u] = turns[u]
<1>0. MaxEvents \in Nat /\ MaxTurns \in Nat
  BY DEF Web!FirstAssumption
<1>1. /\ turns \in Seq(Web!Turn) /\ turns[t] \in Web!Turn /\ turns[t].events \in Nat
      /\ turns[t].session \in Sessions /\ turns[t].events <= MaxEvents
      /\ turns[t] = [session |-> turns[t].session, events |-> turns[t].events,
                     ended |-> turns[t].ended]
  BY <1>0, TurnsFit, TurnFits DEF Typed
<1>2. ~turns[t].ended
  BY DEF Web!Emit, Web!Stop, Web!Running
<1>3. PICK x : /\ turns' = [turns EXCEPT ![t] = x] /\ x \in Web!Turn
               /\ x.session = turns[t].session /\ turns[t].events <= x.events
  <2> DEFINE old == turns[t]
             n == old.events
  <2>1. CASE Web!Emit(t)
    <3>1. PICK ended \in BOOLEAN :
             turns' = [turns EXCEPT ![t] = [[old EXCEPT !.events = n + 1] EXCEPT !.ended = ended]]
      BY <1>1, <2>1 DEF Web!Emit
    <3> DEFINE x == [[old EXCEPT !.events = n + 1] EXCEPT !.ended = ended]
    <3>2. turns' = [turns EXCEPT ![t] = x]
      BY <3>1
    <3>3. n < MaxEvents /\ n \in Nat /\ old.session \in Sessions
      BY <1>1, <2>1 DEF Web!Emit
    <3>4. old = [session |-> old.session, events |-> old.events, ended |-> old.ended]
      BY <1>1
    <3>5. n + 1 \in 0..MaxEvents /\ n <= n + 1
      BY <1>0, <3>3
    <3>6. x = [[old EXCEPT !.events = n + 1] EXCEPT !.ended = ended]
      OBVIOUS
    <3> DEFINE m == n + 1
    <3>7. x = [[old EXCEPT !.events = m] EXCEPT !.ended = ended]
      BY <3>6
    <3> HIDE DEF old, x, m
    <3>8. /\ x = [session |-> old.session, events |-> m, ended |-> ended]
          /\ x.session = old.session /\ x.events = m
      BY ONLY <3>4, <3>7, TurnChanged
    <3>9. x \in Web!Turn /\ x.session = old.session /\ n <= x.events
      BY <3>3, <3>5, <3>8 DEF Web!Turn, m
    <3> QED
      BY <3>2, <3>9 DEF old
  <2>2. CASE Web!Stop(t)
    <3> DEFINE x == [old EXCEPT !.ended = TRUE]
    <3>1. turns' = [turns EXCEPT ![t] = x]
      BY <2>2 DEF Web!Stop
    <3>2. old = [session |-> old.session, events |-> old.events, ended |-> old.ended]
      BY <1>1
    <3>3. n \in 0..MaxEvents /\ n <= n /\ old.session \in Sessions
      BY <1>0, <1>1
    <3>4. x = [old EXCEPT !.ended = TRUE]
      OBVIOUS
    <3> HIDE DEF old, x
    <3>5. /\ x = [session |-> old.session, events |-> n, ended |-> TRUE]
          /\ x.session = old.session /\ x.events = n
      BY ONLY <3>2, <3>4, TurnChanged
    <3>6. x \in Web!Turn /\ n <= x.events
      BY <3>3, <3>5 DEF Web!Turn
    <3> QED
      BY <3>1, <3>5, <3>6 DEF old
  <2> QED
    BY <2>1, <2>2
<1>4. /\ turns' \in Seq(Web!Turn) /\ Len(turns') = Len(turns) /\ DOMAIN turns' = DOMAIN turns
      /\ turns'[t] = x /\ \A u \in DOMAIN turns : u # t => turns'[u] = turns[u]
  BY <1>1, <1>3
<1>5. \A u \in DOMAIN turns : turns[u].events <= turns[u].events
  BY <1>0, <1>1, TurnsFit
<1>6. Grown(turns, turns')
  <2>1. Len(turns) <= Len(turns')
    BY <1>1, <1>4
  <2>2. ASSUME NEW u \in DOMAIN turns
        PROVE  /\ turns'[u].session = turns[u].session /\ turns[u].events <= turns'[u].events
               /\ turns[u].ended => turns'[u] = turns[u]
    BY <1>2, <1>3, <1>4, <1>5
  <2> QED
    BY <1>1, <1>4, <2>1, <2>2 DEF Grown
<1>7. UNCHANGED <<sessionId, busy, stream, live, history, records, loads, complete>>
  BY DEF Web!Emit, Web!Stop
<1>8. StreamFits(stream, turns')
  BY <1>0, <1>6, StreamGrown DEF Typed
<1>9. Typed'
  BY <1>0, <1>4, <1>6, <1>7, <1>8, GrownTyped DEF Typed
<1> QED
  BY <1>2, <1>4, <1>6, <1>9

LEMMA SendTyped ==
    ASSUME Web!FirstAssumption, Typed, Web!Send \/ Web!StreamEnds \/ Web!StreamBreaks PROVE Typed'
<1>1. CASE Web!Send
  <2>1. StreamFits(stream', turns') /\ stream'.stage = "asked" /\ busy' = TRUE
    BY <1>1 DEF StreamFits, Typed, Web!Send
  <2>2. IsShown(live', DOMAIN turns')
    BY <1>1 DEF IsShown, Web!Send, Web!NoLive
  <2> QED
    BY <1>1, <2>1, <2>2 DEF Typed, Web!Send
<1>2. CASE Web!StreamEnds \/ Web!StreamBreaks
  <2>1. stream.session \in Sessions
    <3>1. stream.stage # "none"
      BY <1>2 DEF Typed, Web!StreamEnds, Web!StreamOver, Web!StreamBreaks
    <3> QED
      BY <3>1 DEF Typed, StreamFits
  <2>2. LoadsFit(loads', turns')
    <3>1. loads' = Append(loads, Web!NewLoad(stream.session)) /\ turns' = turns
      BY <1>2 DEF Web!StreamEnds, Web!StreamBreaks, Web!SendEnds
    <3>2. LoadsFit(Append(loads, Web!NewLoad(stream.session)), turns)
      BY <2>1, LoadAdded DEF Typed
    <3> QED
      BY <3>1, <3>2
  <2>3. StreamFits(stream', turns') /\ stream'.stage = "none" /\ busy' = FALSE
    BY <1>2 DEF StreamFits, Web!StreamEnds, Web!StreamBreaks, Web!SendEnds, Web!NoStream
  <2>4. complete' \in BOOLEAN
    BY <1>2 DEF Web!StreamEnds, Web!StreamBreaks
  <2>5. UNCHANGED <<turns, sessionId, live, history, records>>
    BY <1>2 DEF Web!StreamEnds, Web!StreamBreaks
  <2> QED
    BY <2>2, <2>3, <2>4, <2>5 DEF Typed
<1> QED
  BY <1>1, <1>2

LEMMA DeliverTyped ==
    ASSUME Web!FirstAssumption, Typed, Web!Deliver
    PROVE  /\ Typed' /\ stream'.got = stream.got + 1
           /\ stream'.stage = "open" /\ stream'.turn = stream.turn
           /\ stream'.session = stream.session
<1>0. MaxEvents \in Nat
  BY DEF Web!FirstAssumption
<1> DEFINE n == stream.got + 1
           after == stream'
           known == DOMAIN turns
<1>1. /\ stream = [session |-> stream.session, stage |-> stream.stage, turn |-> stream.turn,
                   got |-> stream.got]
      /\ after = [stream EXCEPT !.got = n] /\ stream.got \in Nat
      /\ stream.stage = "open" /\ stream.turn \in known /\ stream.session \in Sessions
      /\ turns[stream.turn].session = stream.session /\ stream.got < turns[stream.turn].events
  BY DEF Typed, StreamFits, Web!Deliver
<1>2. turns[stream.turn].events \in Nat /\ turns[stream.turn].events <= MaxEvents
  BY <1>0, <1>1, TurnsFit DEF Typed
<1>3. n \in 1..MaxEvents /\ n <= turns[stream.turn].events /\ n \in Nat
  BY <1>0, <1>1, <1>2
<1>4. /\ live' = Web!Reduce(live, stream.turn, n) /\ turns' = turns
      /\ UNCHANGED <<turns, sessionId, busy, history, records, loads, complete>>
  BY DEF Web!Deliver
<1> HIDE DEF n, after
<1>5. after = [session |-> stream.session, stage |-> stream.stage, turn |-> stream.turn, got |-> n]
  BY ONLY <1>1, StreamChanged
<1>6. /\ after.session = stream.session /\ after.stage = "open" /\ after.turn = stream.turn
      /\ after.got = n
      /\ after = [session |-> after.session, stage |-> after.stage, turn |-> after.turn,
                  got |-> after.got]
  BY <1>1, <1>5
<1>7. StreamFits(after, turns)
  BY ONLY <1>1, <1>3, <1>6 DEF StreamFits, known
<1>8. IsShown(live', known)
  <2> HIDE DEF known
  <2>1. IsShown(live, known)
    BY DEF Typed, known
  <2> QED
    BY <1>1, <1>3, <1>4, <2>1, ReduceShows
<1>9. Typed'
  <2>1. StreamFits(stream', turns') /\ IsShown(live', DOMAIN turns')
        /\ stream'.stage = stream.stage /\ stream.stage = "open"
    BY <1>1, <1>4, <1>6, <1>7, <1>8 DEF after, known
  <2> HIDE DEF known
  <2> QED
    BY ONLY <1>4, <2>1, Typed DEF Typed
<1> QED
  BY <1>6, <1>9 DEF after, n

\* What an EXCEPT makes of a load.
LEMMA LoadChanged ==
    ASSUME NEW x, x = [session |-> x.session, stage |-> x.stage, known |-> x.known,
                       replay |-> x.replay],
           NEW stage, NEW known, NEW replay, NEW y,
           \/ y = [[x EXCEPT !.stage = stage] EXCEPT !.known = known] /\ replay = x.replay
           \/ y = [x EXCEPT !.stage = stage] /\ known = x.known /\ replay = x.replay
           \/ y = [x EXCEPT !.replay = replay] /\ known = x.known /\ stage = x.stage
    PROVE  y = [session |-> x.session, stage |-> stage, known |-> known, replay |-> replay]
  OBVIOUS

LEMMA LoadIsRecord ==
    ASSUME NEW x \in LoadRecord
    PROVE  /\ x = [session |-> x.session, stage |-> x.stage, known |-> x.known,
                   replay |-> x.replay]
           /\ x.session \in Sessions /\ x.known \subseteq Nat
           /\ x.stage \in {"asked", "session", "events"}
           /\ x.replay \in UNION {[known -> Nat] : known \in SUBSET Nat}
  BY DEF LoadRecord

\* One load goes on: it is of the same session and has read more.
LoadStep(i, stage, known, replay) ==
    \E x \in LoadRecord :
       /\ x = [session |-> loads[i].session, stage |-> stage, known |-> known, replay |-> replay]
       /\ x.session = loads[i].session /\ x.stage = stage /\ x.known = known /\ x.replay = replay
       /\ LoadFits(x, turns) /\ loads' = [loads EXCEPT ![i] = x]

LEMMA LoadStepFits ==
    ASSUME LoadsFit(loads, turns), turns' = turns, NEW i \in DOMAIN loads, NEW stage, NEW known,
           NEW replay, LoadStep(i, stage, known, replay)
    PROVE  /\ LoadsFit(loads', turns') /\ DOMAIN loads' = DOMAIN loads
           /\ loads'[i].session = loads[i].session /\ loads'[i].stage = stage
           /\ loads'[i].known = known /\ loads'[i].replay = replay
           /\ \A j \in DOMAIN loads : j # i => loads'[j] = loads[j]
<1>1. PICK x \in LoadRecord :
         /\ x.session = loads[i].session /\ x.stage = stage /\ x.known = known
         /\ x.replay = replay /\ LoadFits(x, turns) /\ loads' = [loads EXCEPT ![i] = x]
  BY DEF LoadStep
<1> DEFINE now == loads'
<1>2. now = [loads EXCEPT ![i] = x]
  BY <1>1
<1> HIDE DEF now
<1>3. /\ LoadsFit(now, turns) /\ DOMAIN now = DOMAIN loads /\ now[i] = x
      /\ \A j \in DOMAIN loads : j # i => now[j] = loads[j]
  BY <1>1, <1>2, LoadMoved
<1> QED
  BY <1>1, <1>3 DEF now

LEMMA ServeSteps ==
    ASSUME Typed, NEW i \in DOMAIN loads, Web!Serve(i)
    PROVE  LoadStep(i, "session", Web!Of(loads[i].session), loads[i].replay)
<1> DEFINE x == loads[i]
           mine == Web!Of(x.session)
           y == [[x EXCEPT !.stage = "session"] EXCEPT !.known = mine]
<1>1. x \in LoadRecord /\ LoadFits(x, turns) /\ x.stage = "asked"
  BY DEF Typed, LoadsFit, Web!Serve
<1>2. mine \subseteq DOMAIN turns /\ \A t \in mine : turns[t].session = x.session
      /\ mine \subseteq Nat
  BY DEF Web!Of, Typed
<1>3. loads' = [loads EXCEPT ![i] = y]
  BY DEF Web!Serve
<1>4. y = [[x EXCEPT !.stage = "session"] EXCEPT !.known = mine]
  OBVIOUS
<1> HIDE DEF x, mine, y
<1>5. y = [session |-> x.session, stage |-> "session", known |-> mine, replay |-> x.replay]
  <2>1. x = [session |-> x.session, stage |-> x.stage, known |-> x.known, replay |-> x.replay]
    BY <1>1, LoadIsRecord
  <2> QED
    BY ONLY <1>4, <2>1, LoadChanged
<1>6. /\ y.session = x.session /\ y.stage = "session" /\ y.known = mine /\ y.replay = x.replay
      /\ y \in LoadRecord
  BY <1>1, <1>2, <1>5, LoadIsRecord DEF LoadRecord
<1>7. LoadFits(y, turns)
  BY <1>1, <1>2, <1>6 DEF LoadFits
<1> QED
  BY <1>3, <1>5, <1>6, <1>7 DEF LoadStep, x, mine

LEMMA ShowSteps ==
    ASSUME Typed, NEW i \in DOMAIN loads, Web!ShowMessages(i)
    PROVE  LoadStep(i, "events", loads[i].known, loads[i].replay)
<1> DEFINE x == loads[i]
           y == [x EXCEPT !.stage = "events"]
<1>1. x \in LoadRecord /\ LoadFits(x, turns)
  BY DEF Typed, LoadsFit
<1>2. loads' = [loads EXCEPT ![i] = y]
  BY DEF Web!ShowMessages
<1>3. y = [x EXCEPT !.stage = "events"]
  OBVIOUS
<1> HIDE DEF x, y
<1>4. y = [session |-> x.session, stage |-> "events", known |-> x.known, replay |-> x.replay]
  <2>1. x = [session |-> x.session, stage |-> x.stage, known |-> x.known, replay |-> x.replay]
    BY <1>1, LoadIsRecord
  <2> QED
    BY ONLY <1>3, <2>1, LoadChanged
<1>5. /\ y.session = x.session /\ y.stage = "events" /\ y.known = x.known /\ y.replay = x.replay
      /\ y \in LoadRecord
  BY <1>1, <1>4, LoadIsRecord DEF LoadRecord
<1>6. LoadFits(y, turns)
  BY <1>1, <1>5 DEF LoadFits
<1> QED
  BY <1>2, <1>4, <1>5, <1>6 DEF LoadStep, x

LEMMA ReadSteps ==
    ASSUME Web!FirstAssumption, Typed, NEW i \in DOMAIN loads, Web!ServeEvents(i)
    PROVE  \E t \in loads[i].known : \E replay :
              /\ DOMAIN replay = DOMAIN loads[i].replay \union {t} /\ replay[t] = turns[t].events
              /\ \A u \in DOMAIN loads[i].replay : u # t => replay[u] = loads[i].replay[u]
              /\ LoadStep(i, "events", loads[i].known, replay)
<1> DEFINE x == loads[i]
<1>0. MaxEvents \in Nat
  BY DEF Web!FirstAssumption
<1>1. x \in LoadRecord /\ LoadFits(x, turns) /\ x.stage = "events"
  BY DEF Typed, LoadsFit, Web!ServeEvents
<1>2. PICK t \in x.known \ DOMAIN x.replay :
         loads' = [loads EXCEPT ![i].replay =
                     [u \in DOMAIN @ \union {t} |-> IF u = t THEN turns[t].events ELSE @[u]]]
  BY DEF Web!ServeEvents
<1> DEFINE replay == [u \in DOMAIN x.replay \union {t} |->
                         IF u = t THEN turns[t].events ELSE x.replay[u]]
           y == [x EXCEPT !.replay = replay]
<1>3. loads' = [loads EXCEPT ![i] = y]
  BY <1>2
<1>4. y = [x EXCEPT !.replay = replay]
  OBVIOUS
<1>5. t \in DOMAIN turns /\ turns[t].events \in Nat /\ turns[t].events <= turns[t].events
  BY <1>0, <1>1, <1>2, TurnsFit DEF LoadFits, Typed
<1>6. /\ DOMAIN replay = DOMAIN x.replay \union {t} /\ replay[t] = turns[t].events
      /\ \A u \in DOMAIN x.replay : u # t => replay[u] = x.replay[u]
  OBVIOUS
<1>7. replay \in [DOMAIN replay -> Nat] /\ DOMAIN replay \subseteq x.known
  <2>1. \A u \in DOMAIN replay : replay[u] \in Nat
    BY <1>1, <1>5, <1>6 DEF LoadFits
  <2> QED
    BY <1>1, <1>2, <2>1 DEF LoadFits
<1>8. x.known \subseteq Nat
  BY <1>1, LoadIsRecord
<1> HIDE DEF x, y, replay
<1>9. y = [session |-> x.session, stage |-> x.stage, known |-> x.known, replay |-> replay]
  <2>1. x = [session |-> x.session, stage |-> x.stage, known |-> x.known, replay |-> x.replay]
    BY <1>1, LoadIsRecord
  <2> QED
    BY ONLY <1>4, <2>1, LoadChanged
<1>10. /\ y.session = x.session /\ y.stage = "events" /\ y.known = x.known /\ y.replay = replay
       /\ y \in LoadRecord
  <2>1. DOMAIN replay \in SUBSET Nat
    BY <1>7, <1>8
  <2>2. replay \in UNION {[known -> Nat] : known \in SUBSET Nat}
    BY <1>7, <2>1
  <2> QED
    BY <1>1, <1>9, <2>2, LoadIsRecord DEF LoadRecord
<1>11. LoadFits(y, turns)
  <2>1. \A u \in DOMAIN replay : replay[u] <= turns[u].events
    BY <1>1, <1>5, <1>6 DEF LoadFits
  <2> QED
    BY <1>1, <1>7, <1>10, <2>1 DEF LoadFits
<1>12. LoadStep(i, "events", x.known, replay)
  BY <1>1, <1>3, <1>9, <1>10, <1>11 DEF LoadStep, x
<1> QED
  BY <1>2, <1>6, <1>12 DEF x

\* What the page shows of a load that is over.
LEMMA ReplayedFits ==
    ASSUME Web!FirstAssumption, Typed, NEW i \in DOMAIN loads, Web!ShowTurns(i)
    PROVE  /\ IsShown(live', DOMAIN turns)
           /\ loads[i].known = {} => live' = live
           /\ loads[i].known # {} =>
                 LET t == Web!Latest(loads[i].known)
                 IN  /\ t \in loads[i].known /\ \A u \in loads[i].known : u <= t
                     /\ loads[i].replay[t] \in Nat
                     /\ live' = Web!Replay(live, t, loads[i].replay[t])
<1> DEFINE x == loads[i]
           t == Web!Latest(x.known)
<1>0. MaxEvents \in Nat
  BY DEF Web!FirstAssumption
<1>1. LoadFits(x, turns) /\ DOMAIN x.replay = x.known /\ live' = Web!Replayed(x)
      /\ IsShown(live, DOMAIN turns)
  BY DEF Typed, LoadsFit, Web!ShowTurns
<1> HIDE DEF x
<1>2. CASE x.known = {}
  BY <1>1, <1>2 DEF Web!Replayed, x
<1>3. CASE x.known # {}
  <2>1. /\ DOMAIN turns = 1..Len(turns) /\ Len(turns) \in Nat
        /\ x.known \subseteq DOMAIN turns
    BY <1>1 DEF Typed, LoadFits
  <2>2. t \in x.known /\ \A u \in x.known : u <= t
    BY <1>3, <2>1, LatestIsKnown
  <2>3. t \in DOMAIN turns /\ x.replay[t] \in Nat /\ x.replay[t] <= turns[t].events
    BY <1>1, <2>1, <2>2 DEF LoadFits
  <2>4. turns[t].events \in Nat /\ turns[t].events <= MaxEvents
    BY <1>0, <2>3, TurnsFit DEF Typed
  <2>5. x.replay[t] \in 0..MaxEvents
    BY ONLY <1>0, <2>3, <2>4
  <2>6. live' = Web!Replay(live, t, x.replay[t])
    BY <1>1, <1>3 DEF Web!Replayed
  <2> HIDE DEF t
  <2>7. IsShown(live', DOMAIN turns)
    BY <1>0, <1>1, <2>3, <2>5, <2>6, ReplayIsShown
  <2> QED
    BY <1>3, <2>2, <2>3, <2>6, <2>7 DEF x, t
<1> QED
  BY <1>2, <1>3

LEMMA LoadTyped ==
    ASSUME Web!FirstAssumption, Typed, NEW i \in DOMAIN loads, Web!Load(i) \/ Web!LoadFails(i)
    PROVE  Typed'
<1>1. CASE Web!Serve(i)
  <2>1. turns' = turns /\ UNCHANGED <<sessionId, busy, stream, live, history, records, complete>>
    BY <1>1 DEF Web!Serve
  <2>2. LoadsFit(loads', turns')
    BY <1>1, <2>1, ServeSteps, LoadStepFits DEF Typed
  <2> QED
    BY <2>1, <2>2 DEF Typed
<1>2. CASE Web!ShowMessages(i)
  <2>1. /\ turns' = turns /\ live' = Web!NoLive
        /\ history' = [session |-> loads[i].session, known |-> loads[i].known]
        /\ UNCHANGED <<sessionId, busy, stream, records, complete>>
    BY <1>2 DEF Web!ShowMessages, Web!Reset
  <2>2. LoadsFit(loads', turns')
    BY <1>2, <2>1, ShowSteps, LoadStepFits DEF Typed
  <2>3. loads[i] \in LoadRecord /\ LoadFits(loads[i], turns)
    BY DEF Typed, LoadsFit
  <2>4. history'.session \in Sessions /\ history'.known \subseteq DOMAIN turns
    BY <2>1, <2>3, LoadIsRecord DEF LoadFits
  <2>5. IsShown(live', DOMAIN turns)
    BY <2>1 DEF IsShown, Web!NoLive
  <2> QED
    BY <2>1, <2>2, <2>4, <2>5 DEF Typed
<1>3. CASE Web!ServeEvents(i)
  <2>1. turns' = turns /\ UNCHANGED <<sessionId, busy, stream, live, history, records, complete>>
    BY <1>3 DEF Web!ServeEvents
  <2>2. PICK t, replay : LoadStep(i, "events", loads[i].known, replay)
    BY <1>3, ReadSteps
  <2>3. LoadsFit(loads', turns')
    BY <2>1, <2>2, LoadStepFits DEF Typed
  <2> QED
    BY <2>1, <2>3 DEF Typed
<1>4. CASE Web!ShowTurns(i)
  <2>1. /\ turns' = turns /\ records' = loads[i].replay /\ loads' = Web!RemoveAt(loads, i)
        /\ DOMAIN loads[i].replay = loads[i].known
        /\ UNCHANGED <<sessionId, busy, stream, history, complete>>
    BY <1>4 DEF Web!ShowTurns
  <2>2. LoadsFit(loads', turns')
    BY <2>1, LoadLeft DEF Typed
  <2>3. DOMAIN records' \subseteq DOMAIN turns
    BY <2>1 DEF Typed, LoadsFit, LoadFits
  <2>4. IsShown(live', DOMAIN turns)
    BY <1>4, ReplayedFits
  <2> QED
    BY <2>1, <2>2, <2>3, <2>4 DEF Typed
<1>5. CASE Web!LoadFails(i)
  <2>1. /\ turns' = turns /\ loads' = Web!RemoveAt(loads, i) /\ complete' = FALSE
        /\ UNCHANGED <<sessionId, busy, stream, live, history, records>>
    BY <1>5 DEF Web!LoadFails
  <2>2. LoadsFit(loads', turns')
    BY <2>1, LoadLeft DEF Typed
  <2> QED
    BY <2>1, <2>2 DEF Typed
<1> QED
  BY <1>1, <1>2, <1>3, <1>4, <1>5 DEF Web!Load

LEMMA NewTyped ==
    ASSUME Web!FirstAssumption, Typed,
           (\E session \in Sessions : Web!NewSession(session)) \/ Web!Refresh
    PROVE  Typed'
<1>1. ASSUME NEW session \in Sessions, Web!NewSession(session) PROVE Typed'
  <2>1. /\ turns' = turns /\ sessionId' = session /\ records' = <<>> /\ complete' = TRUE
        /\ history' = [session |-> session, known |-> {}] /\ live' = Web!NoLive
        /\ loads' = Append(loads, Web!NewLoad(session)) /\ UNCHANGED <<busy, stream>>
    BY <1>1 DEF Web!NewSession, Web!NewHistory
  <2>2. LoadsFit(loads', turns')
    BY <2>1, LoadAdded DEF Typed
  <2>3. IsShown(live', DOMAIN turns)
    BY <2>1 DEF IsShown, Web!NoLive
  <2>4. DOMAIN records' \subseteq DOMAIN turns
    BY <2>1
  <2>5. history'.session \in Sessions /\ history'.known \subseteq DOMAIN turns
    BY <2>1
  <2> QED
    BY <2>1, <2>2, <2>3, <2>4, <2>5 DEF Typed
<1>2. CASE Web!Refresh
  <2>1. /\ turns' = turns /\ sessionId' = sessionId /\ records' = <<>> /\ complete' \in BOOLEAN
        /\ history' = [session |-> sessionId, known |-> {}] /\ live' = Web!NoLive
        /\ loads' = Web!Opening /\ busy' = FALSE /\ stream' = Web!NoStream
    BY <1>2 DEF Web!Refresh
  <2>2. LoadsFit(loads', turns')
    BY <2>1, OpeningFits DEF Typed
  <2>3. IsShown(live', DOMAIN turns)
    BY <2>1 DEF IsShown, Web!NoLive
  <2>4. DOMAIN records' \subseteq DOMAIN turns
    BY <2>1
  <2>5. history'.session \in Sessions /\ history'.known \subseteq DOMAIN turns
    BY <2>1 DEF Typed
  <2>6. StreamFits(stream', turns') /\ stream'.stage = "none"
    BY <2>1 DEF StreamFits, Web!NoStream
  <2> QED
    BY <2>1, <2>2, <2>3, <2>4, <2>5, <2>6 DEF Typed
<1> QED
  BY <1>1, <1>2

LEMMA TypedNext == ASSUME Web!FirstAssumption, Typed, [Web!Next]_(Web!vars) PROVE Typed'
<1>1. CASE Web!Server
  BY <1>1, AcceptTyped, ServerTyped DEF Web!Server
<1>2. CASE Web!Send \/ Web!StreamEnds \/ Web!StreamBreaks
  BY <1>2, SendTyped
<1>3. CASE Web!Deliver
  BY <1>3, DeliverTyped
<1>4. CASE \E i \in DOMAIN loads : Web!Load(i) \/ Web!LoadFails(i)
  BY <1>4, LoadTyped
<1>5. CASE (\E session \in Sessions : Web!NewSession(session)) \/ Web!Refresh
  BY <1>5, NewTyped
<1>6. CASE UNCHANGED Web!vars
  BY <1>6 DEF Web!vars, Typed
<1> QED
  BY <1>1, <1>2, <1>3, <1>4, <1>5, <1>6 DEF Web!Next

Phased == overtaken \in {"no", "yes", "mending"}

LEMMA PhasedNext == ASSUME Phased, [Web!Next]_(Web!vars) PROVE Phased'
<1>1. CASE Web!Server \/ Web!Deliver
  BY <1>1 DEF Phased, Web!Server, Web!Accept, Web!Emit, Web!Stop, Web!Deliver
<1>2. CASE Web!Send \/ Web!StreamEnds \/ Web!StreamBreaks
  BY <1>2 DEF Phased, Web!Send, Web!StreamEnds, Web!StreamBreaks, Web!SendEnds
<1>3. ASSUME NEW i, Web!Load(i) \/ Web!LoadFails(i) PROVE Phased'
  BY <1>3 DEF Phased, Web!Load, Web!Serve, Web!ShowMessages, Web!ServeEvents, Web!ShowTurns,
     Web!LoadFails
<1>4. CASE (\E session \in Sessions : Web!NewSession(session)) \/ Web!Refresh
  BY <1>4 DEF Phased, Web!NewSession, Web!Refresh
<1>5. CASE UNCHANGED Web!vars
  BY <1>5 DEF Phased, Web!vars
<1> QED
  BY <1>1, <1>2, <1>3, <1>4, <1>5 DEF Web!Next

LEMMA PageTypes == ASSUME Typed, Phased PROVE Web!TypeOK
<1>1. \A i \in DOMAIN loads : loads[i].stage \in {"asked", "session", "events"}
  BY LoadIsRecord DEF Typed, LoadsFit
<1> QED
  BY <1>1 DEF Typed, Phased, StreamFits, IsShown, Web!TypeOK

\* Turns, the stream, what is shown and what is being loaded keep their types, also when the
\* operator acts while loads are under way (web/src/App.tsx, web/src/reducer.ts).
THEOREM PageTypeCorrect == Web!FirstAssumption => (Web!Spec => []Web!TypeOK)
<1> SUFFICES ASSUME Web!FirstAssumption PROVE Web!Spec => []Web!TypeOK
  OBVIOUS
<1>1. Web!Init => Typed /\ Phased
  BY TypedInit DEF Web!Init, Phased
<1>2. Typed /\ Phased /\ [Web!Next]_(Web!vars) => (Typed /\ Phased)'
  BY TypedNext, PhasedNext
<1>3. Typed /\ Phased => Web!TypeOK
  BY PageTypes
<1> QED
  BY <1>1, <1>2, <1>3, PTL DEF Web!Spec

-----------------------------------------------------------------------------
(* What a page shows, also when loads overlap, was recorded.                 *)

\* A state of the reducer holds events that there are.
IsRecorded(state, rows) == state.turn # None => state.seen \subseteq 1..rows[state.turn].events

LEMMA ReduceRecords ==
    ASSUME NEW rows, NEW state, IsRecorded(state, rows), NEW t, NEW i \in 1..rows[t].events
    PROVE  IsRecorded(Web!Reduce(state, t, i), rows)
<1>1. CASE Web!Reduce(state, t, i) = state
  BY <1>1
<1>2. CASE Web!Reduce(state, t, i) =
             [turn |-> t, seen |-> (IF state.turn = t THEN state.seen ELSE {}) \union {i}]
  <2>1. Web!Reduce(state, t, i).turn = t
        /\ Web!Reduce(state, t, i).seen \subseteq
              (IF state.turn = t THEN state.seen ELSE {}) \union {i}
    BY <1>2
  <2>2. t # None /\ state.turn = t => state.seen \subseteq 1..rows[t].events
    BY DEF IsRecorded
  <2>3. t # None => Web!Reduce(state, t, i).seen \subseteq 1..rows[t].events
    BY <2>1, <2>2
  <2> QED
    BY <2>1, <2>3 DEF IsRecorded
<1> QED
  BY <1>1, <1>2 DEF Web!Reduce

LEMMA ReplayRecords ==
    ASSUME NEW rows, NEW state, IsRecorded(state, rows), NEW t, rows[t].events \in Nat,
           NEW n \in 0..rows[t].events
    PROVE  IsRecorded(Web!Replay(state, t, n), rows)
<1>1. PICK f : /\ Web!Replay(state, t, n) = f[n] /\ f[0] = state
               /\ \A i \in 1..n : f[i] = Web!Reduce(f[i - 1], t, i)
  BY ReplayShows
<1> DEFINE S == {i \in 0..n : ~IsRecorded(f[i], rows)}
<1>2. SUFFICES ASSUME S # {} PROVE FALSE
  <2>1. n \in 0..n
    OBVIOUS
  <2> QED
    BY <1>1, <2>1
<1>3. PICK m \in S : \A x \in S : m <= x
  <2>1. S \subseteq Nat
    OBVIOUS
  <2> QED
    BY <1>2, <2>1, LeastOf
<1>4. m # 0
  BY <1>1
<1>5. m - 1 \in 0..n /\ m - 1 \notin S /\ m \in 1..n /\ m \in 1..rows[t].events
  BY <1>3, <1>4
<1>6. IsRecorded(f[m - 1], rows)
  BY <1>5
<1>7. f[m] = Web!Reduce(f[m - 1], t, m)
  BY <1>1, <1>5
<1> QED
  BY <1>5, <1>6, <1>7, ReduceRecords

\* What was recorded stays so while turns grow.
LEMMA RecordedGrows ==
    ASSUME MaxEvents \in Nat, Typed, Web!Recorded, Grown(turns, turns'),
           UNCHANGED <<history, records>>, live' \in {live, Web!NoLive}
    PROVE  Web!Recorded'
<1>1. DOMAIN turns \subseteq DOMAIN turns'
  BY GrownDomain
<1>2. \A t \in DOMAIN turns : /\ turns[t].events \in Nat /\ turns'[t].events \in Nat
                              /\ turns[t].events <= turns'[t].events
                              /\ turns'[t].session = turns[t].session
  <2>1. \A t \in DOMAIN turns : turns[t] \in Web!Turn /\ turns'[t] \in Web!Turn
    BY <1>1 DEF Grown
  <2> QED
    BY <2>1 DEF Web!Turn, Grown
<1>3. history'.known \subseteq Web!Of(history.session)'
  BY <1>1, <1>2 DEF Web!Recorded, Web!Of
<1>4. \A t \in DOMAIN records' : records'[t] \in 0..turns'[t].events
  <2> SUFFICES ASSUME NEW t \in DOMAIN records PROVE records[t] \in 0..turns'[t].events
    OBVIOUS
  <2>1. t \in DOMAIN turns /\ records[t] \in 0..turns[t].events
    BY DEF Typed, Web!Recorded
  <2> QED
    BY <1>2, <2>1
<1>5. live'.turn # None => live'.seen \subseteq 1..turns'[live'.turn].events
  <2> SUFFICES ASSUME live' = live, live.turn # None
               PROVE  live.seen \subseteq 1..turns'[live.turn].events
    BY DEF Web!NoLive
  <2>1. live.turn \in DOMAIN turns /\ live.seen \subseteq 1..turns[live.turn].events
    BY DEF Typed, IsShown, Web!Recorded
  <2>2. 1..turns[live.turn].events \subseteq 1..turns'[live.turn].events
    BY <1>2, <2>1
  <2> QED
    BY <2>1, <2>2
<1> QED
  BY <1>3, <1>4, <1>5 DEF Web!Recorded

LEMMA GrownSame ==
    ASSUME MaxEvents \in Nat, Typed, turns' = turns PROVE Grown(turns, turns')
<1>1. \A t \in DOMAIN turns : turns[t].events <= turns[t].events
  BY TurnsFit DEF Typed
<1> QED
  BY <1>1 DEF Typed, Grown

LEMMA RecordedInit == ASSUME Web!Init PROVE Web!Recorded
  BY DEF Web!Init, Web!NoLive, Web!Recorded

LEMMA LoadRecords ==
    ASSUME Web!FirstAssumption, Typed, Web!Recorded, NEW i \in DOMAIN loads,
           Web!Load(i) \/ Web!LoadFails(i)
    PROVE  Web!Recorded'
<1> DEFINE x == loads[i]
<1>0. MaxEvents \in Nat
  BY DEF Web!FirstAssumption
<1>1. turns' = turns
  BY DEF Web!Load, Web!Serve, Web!ShowMessages, Web!ServeEvents, Web!ShowTurns, Web!LoadFails
<1>2. Grown(turns, turns')
  BY <1>0, <1>1, GrownSame
<1>3. LoadFits(x, turns)
  BY DEF Typed, LoadsFit
<1>4. CASE Web!Serve(i) \/ Web!ServeEvents(i) \/ Web!LoadFails(i)
  <2>1. UNCHANGED <<history, records, live>>
    BY <1>4 DEF Web!Serve, Web!ServeEvents, Web!LoadFails
  <2> QED
    BY <1>0, <1>2, <2>1, RecordedGrows
<1>5. CASE Web!ShowMessages(i)
  <2>1. /\ history' = [session |-> x.session, known |-> x.known]
        /\ live'.turn = None /\ UNCHANGED records
    BY <1>5 DEF Web!ShowMessages, Web!Reset, Web!NoLive
  <2>2. history'.known \subseteq Web!Of(history.session)'
    BY <1>1, <1>3, <2>1 DEF LoadFits, Web!Of
  <2> QED
    BY <1>1, <2>1, <2>2 DEF Web!Recorded
<1>6. CASE Web!ShowTurns(i)
  <2>1. records' = x.replay /\ UNCHANGED history
    BY <1>6 DEF Web!ShowTurns
  <2>2. \A t \in DOMAIN x.replay : /\ x.replay[t] \in Nat /\ t \in DOMAIN turns
                                   /\ x.replay[t] <= turns[t].events
    BY <1>3 DEF LoadFits
  <2>3. \A t \in DOMAIN turns : turns[t].events \in Nat
    BY <1>0, TurnsFit DEF Typed
  <2>4. \A t \in DOMAIN x.replay : x.replay[t] \in 0..turns[t].events
    BY <2>2, <2>3
  <2>5. IsRecorded(live, turns)
    BY DEF Web!Recorded, IsRecorded
  <2>6. IsRecorded(live', turns)
    <3>1. CASE x.known = {}
      BY <1>6, <2>5, <3>1, ReplayedFits
    <3>2. CASE x.known # {}
      <4> DEFINE t == Web!Latest(x.known)
                 n == x.replay[t]
      <4>1. t \in x.known /\ live' = Web!Replay(live, t, n) /\ DOMAIN x.replay = x.known
        BY <1>6, <3>2, ReplayedFits DEF Web!ShowTurns
      <4> HIDE DEF t
      <4>2. turns[t].events \in Nat /\ n \in 0..turns[t].events
        BY <2>2, <2>3, <2>4, <4>1
      <4> HIDE DEF n
      <4> QED
        BY <2>5, <4>1, <4>2, ReplayRecords
    <3> QED
      BY <3>1, <3>2
  <2> HIDE DEF x
  <2> QED
    BY <1>1, <2>1, <2>4, <2>6 DEF Web!Recorded, IsRecorded, Web!Of
<1> QED
  BY <1>4, <1>5, <1>6 DEF Web!Load

LEMMA RecordedNext ==
    ASSUME Web!FirstAssumption, Typed, Web!Recorded, [Web!Next]_(Web!vars) PROVE Web!Recorded'
<1>0. MaxEvents \in Nat
  BY DEF Web!FirstAssumption
<1>1. CASE Web!Server
  <2>1. Grown(turns, turns')
    BY <1>1, AcceptTyped, ServerTyped DEF Web!Server
  <2>2. UNCHANGED <<history, records, live>>
    BY <1>1 DEF Web!Server, Web!Accept, Web!Emit, Web!Stop
  <2> QED
    BY <1>0, <2>1, <2>2, RecordedGrows
<1>2. CASE Web!Send \/ Web!StreamEnds \/ Web!StreamBreaks
  <2>1. turns' = turns /\ UNCHANGED <<history, records>> /\ live' \in {live, Web!NoLive}
    BY <1>2 DEF Web!Send, Web!StreamEnds, Web!StreamBreaks
  <2> QED
    BY <1>0, <2>1, GrownSame, RecordedGrows
<1>3. CASE Web!Deliver
  <2> DEFINE t == stream.turn
             n == stream.got + 1
  <2>1. /\ turns' = turns /\ UNCHANGED <<history, records>> /\ live' = Web!Reduce(live, t, n)
        /\ stream.stage = "open" /\ stream.got < turns[t].events
    BY <1>3 DEF Web!Deliver
  <2>2. t \in DOMAIN turns /\ stream.got \in Nat
    BY <2>1 DEF Typed, StreamFits
  <2>3. turns[t].events \in Nat
    BY <1>0, <2>2, TurnsFit DEF Typed
  <2> HIDE DEF t
  <2>4. n \in 1..turns[t].events
    BY <2>1, <2>2, <2>3
  <2> HIDE DEF n
  <2>5. IsRecorded(live, turns)
    BY DEF Web!Recorded, IsRecorded
  <2>6. IsRecorded(live', turns)
    BY <2>1, <2>4, <2>5, ReduceRecords
  <2> QED
    BY <2>1, <2>6 DEF Web!Recorded, IsRecorded, Web!Of
<1>4. CASE \E i \in DOMAIN loads : Web!Load(i) \/ Web!LoadFails(i)
  BY <1>4, LoadRecords
<1>5. CASE (\E session \in Sessions : Web!NewSession(session)) \/ Web!Refresh
  <2>1. live'.turn = None /\ history'.known = {} /\ records' = <<>>
    BY <1>5 DEF Web!NewSession, Web!Refresh, Web!NewHistory, Web!NoLive
  <2>2. DOMAIN <<>> = {}
    OBVIOUS
  <2> QED
    BY <2>1, <2>2 DEF Web!Recorded
<1>6. CASE UNCHANGED Web!vars
  BY <1>6 DEF Web!vars, Web!Recorded, Web!Of
<1> QED
  BY <1>1, <1>2, <1>3, <1>4, <1>5, <1>6 DEF Web!Next

-----------------------------------------------------------------------------
(* What a page shows while no load is overtaken.                             *)

Mine == Web!Of(sessionId)
Over(t) == turns[t].ended
Whole == IF Mine = {} THEN Web!NoLive ELSE Events(Web!Latest(Mine), turns[Web!Latest(Mine)].events)
AllRead(read) == \A t \in DOMAIN read : read[t] = turns[t].events

\* The stream and every load are of the page's session, and never go on together.
Alone ==
    /\ busy => loads = <<>> /\ stream.session = sessionId
    /\ \A i \in DOMAIN loads : loads[i].session = sessionId
    /\ stream.stage = "asked" => live = Web!NoLive
    /\ stream.stage = "open" => live = Events(stream.turn, stream.got)

\* A load that began when the turns were over has read what there is.
ReadsWhole(x) == x.stage # "asked" => x.known = Mine /\ AllRead(x.replay)

\* The first load that shows its messages starts the reducer anew, and none puts anything
\* but the latest turn in its place.
Restarted ==
    (\E i \in DOMAIN loads : loads[i].stage = "events") =>
        history.known = Mine /\ live \in {Web!NoLive, Whole}

Shown ==
    loads = <<>> => /\ history.known = Mine /\ live = Whole
                    /\ DOMAIN records = Mine /\ AllRead(records)

CaughtUp ==
    complete /\ ~busy =>
        /\ \A t \in Mine : Over(t)
        /\ \A i \in DOMAIN loads : ReadsWhole(loads[i])
        /\ Restarted
        /\ Shown

Settled == Typed /\ Web!OwnSession /\ Alone /\ CaughtUp

\* Events of a turn of the session, of which there are some.
LEMMA EventsOfTurn ==
    ASSUME NEW t, NEW n
    PROVE  /\ Events(t, 0) = Web!NoLive /\ Web!NoLive.turn = None
           /\ Events(t, n).turn \in {None, t}
  BY DEF Events, Web!NoLive

LEMMA WholeIsOwn == ASSUME Typed PROVE Whole.turn \in Mine \union {None}
<1>1. CASE Mine = {}
  BY <1>1 DEF Whole, Web!NoLive
<1>2. CASE Mine # {}
  <2>1. Mine \subseteq 1..Len(turns) /\ Len(turns) \in Nat
    BY DEF Mine, Web!Of, Typed
  <2>2. Web!Latest(Mine) \in Mine
    BY <1>2, <2>1, LatestIsKnown
  <2> QED
    BY <1>2, <2>2, EventsOfTurn DEF Whole
<1> QED
  BY <1>1, <1>2

LEMMA SettledInit == ASSUME Web!FirstAssumption, Web!Init PROVE Settled
<1>1. Typed
  BY TypedInit
<1>2. /\ turns = <<>> /\ sessionId = First /\ busy = FALSE /\ stream.stage = "none"
      /\ live.turn = None /\ history = [session |-> First, known |-> {}] /\ loads = Web!Opening
  BY DEF Web!Init, Web!NoStream, Web!NoLive
<1>3. Mine = {}
  BY <1>2 DEF Mine, Web!Of
<1>4. /\ Len(loads) = 2
      /\ \A i \in DOMAIN loads : loads[i].session = sessionId /\ loads[i].stage = "asked"
  BY <1>1, <1>2, OpeningFits, NewLoadFits DEF Typed
<1>5. loads # <<>>
  BY <1>4
<1>6. Web!OwnSession /\ Alone
  BY <1>2, <1>4 DEF Web!OwnSession, Web!OwnCards, Alone
<1>7. CaughtUp
  BY <1>3, <1>4, <1>5 DEF CaughtUp, ReadsWhole, Restarted, Shown
<1> QED
  BY <1>1, <1>6, <1>7 DEF Settled

LEMMA AcceptKeeps ==
    ASSUME Web!FirstAssumption, Settled, Web!Accept PROVE Settled'
<1>1. /\ Typed /\ Typed' /\ Web!Of(sessionId)' \ {Len(turns')} = Web!Of(sessionId)
      /\ stream' = [stream EXCEPT !.stage = "open", !.turn = Len(turns')]
      /\ stream'.session = stream.session /\ stream'.stage = "open" /\ stream'.got = 0
  BY AcceptTyped DEF Settled, Web!Accept
<1>2. UNCHANGED <<sessionId, busy, live, history, records, loads>> /\ stream.stage = "asked"
  BY DEF Web!Accept
<1>3. busy = TRUE
  BY <1>1, <1>2 DEF Typed
<1>4. live = Web!NoLive
  BY <1>2 DEF Settled, Alone
<1>5. Alone'
  <2>1. live' = Events(stream'.turn, stream'.got)
    BY <1>1, <1>2, <1>4, EventsOfTurn
  <2> QED
    BY <1>1, <1>2, <2>1 DEF Settled, Alone
<1>6. Web!OwnSession'
  BY <1>1, <1>2 DEF Settled, Web!OwnSession, Web!OwnCards
<1>7. CaughtUp'
  BY <1>2, <1>3 DEF CaughtUp
<1> QED
  BY <1>1, <1>5, <1>6, <1>7 DEF Settled

LEMMA ServerKeeps ==
    ASSUME Web!FirstAssumption, Settled, NEW t \in DOMAIN turns, Web!Emit(t) \/ Web!Stop(t)
    PROVE  Settled'
<1>1. /\ Typed /\ Typed' /\ Grown(turns, turns') /\ DOMAIN turns' = DOMAIN turns
      /\ ~turns[t].ended /\ \A u \in DOMAIN turns : u # t => turns'[u] = turns[u]
  BY ServerTyped DEF Settled
<1>2. UNCHANGED <<sessionId, busy, stream, live, history, records, loads, complete>>
  BY DEF Web!Emit, Web!Stop
<1>3. Mine' = Mine /\ Web!Of(sessionId)' = Web!Of(sessionId) /\ Mine \subseteq DOMAIN turns
  BY <1>1, <1>2 DEF Mine, Web!Of, Grown
<1>4. Alone' /\ Web!OwnSession'
  BY <1>2, <1>3 DEF Settled, Alone, Web!OwnSession, Web!OwnCards
<1>5. CaughtUp'
  <2> SUFFICES ASSUME complete, ~busy
               PROVE  /\ \A u \in Mine : Over(u)'
                      /\ \A i \in DOMAIN loads : ReadsWhole(loads[i])'
                      /\ Restarted' /\ Shown'
    BY <1>2, <1>3 DEF CaughtUp
  <2>1. (\A u \in Mine : Over(u)) /\ (\A i \in DOMAIN loads : ReadsWhole(loads[i]))
        /\ Restarted /\ Shown
    BY DEF Settled, CaughtUp
  <2>2. \A u \in Mine : turns'[u] = turns[u]
    BY <1>1, <1>3, <2>1 DEF Over
  <2>3. Whole' = Whole
    <3>1. CASE Mine = {}
      BY <1>3, <3>1 DEF Whole
    <3>2. CASE Mine # {}
      <4>1. Mine \subseteq 1..Len(turns) /\ Len(turns) \in Nat
        BY <1>1, <1>3 DEF Typed
      <4>2. Web!Latest(Mine) \in Mine
        BY <3>2, <4>1, LatestIsKnown
      <4> QED
        BY <1>3, <2>2, <4>2 DEF Whole
    <3> QED
      BY <3>1, <3>2
  <2>4. ASSUME NEW i \in DOMAIN loads PROVE ReadsWhole(loads[i])'
    <3>1. DOMAIN loads[i].replay \subseteq loads[i].known
      BY <1>1 DEF Typed, LoadsFit, LoadFits
    <3> QED
      BY <1>2, <1>3, <2>1, <2>2, <3>1 DEF ReadsWhole, AllRead
  <2>5. Restarted'
    BY <1>2, <1>3, <2>1, <2>3 DEF Restarted
  <2>6. Shown'
    BY <1>2, <1>3, <2>1, <2>2, <2>3 DEF Shown, AllRead
  <2> QED
    BY <2>1, <2>2, <2>4, <2>5, <2>6 DEF Over
<1> QED
  BY <1>1, <1>4, <1>5 DEF Settled

LEMMA SendKeeps ==
    ASSUME Web!FirstAssumption, Settled, Web!Send \/ Web!StreamEnds \/ Web!StreamBreaks,
           Web!Send => loads = <<>>
    PROVE  Settled'
<1>1. Typed /\ Typed'
  BY SendTyped DEF Settled
<1>2. CASE Web!Send
  <2>1. /\ busy' = TRUE /\ loads = <<>> /\ live' = Web!NoLive
        /\ stream'.session = sessionId /\ stream'.stage = "asked"
        /\ UNCHANGED <<turns, sessionId, history, records, loads>>
    BY <1>2 DEF Web!Send
  <2>2. Mine' = Mine /\ Web!Of(sessionId)' = Web!Of(sessionId)
    BY <2>1 DEF Mine, Web!Of
  <2>3. Alone'
    BY <2>1 DEF Settled, Alone
  <2>4. Web!OwnSession'
    BY <2>1, <2>2, EventsOfTurn DEF Settled, Web!OwnSession, Web!OwnCards
  <2>5. CaughtUp'
    BY <2>1 DEF CaughtUp
  <2> QED
    BY <1>1, <2>3, <2>4, <2>5 DEF Settled
<1>3. CASE Web!StreamEnds \/ Web!StreamBreaks
  <2>1. /\ busy' = FALSE /\ stream' = Web!NoStream
        /\ loads' = Append(loads, Web!NewLoad(stream.session))
        /\ complete' => ~\E t \in Web!Of(stream.session) : Web!Running(t)
        /\ UNCHANGED <<turns, sessionId, live, history, records>>
    BY <1>3 DEF Web!StreamEnds, Web!StreamBreaks, Web!SendEnds
  <2>2. busy /\ stream.stage # "none"
    BY <1>1, <1>3 DEF Web!StreamEnds, Web!StreamBreaks, Web!StreamOver, Typed
  <2>3. loads = <<>> /\ stream.session = sessionId
    BY <2>2 DEF Settled, Alone
  <2>4. Mine' = Mine /\ Web!Of(sessionId)' = Web!Of(sessionId)
    BY <2>1 DEF Mine, Web!Of
  <2>5. /\ loads' # <<>>
        /\ \A i \in DOMAIN loads' : loads'[i].session = sessionId /\ loads'[i].stage = "asked"
    <3> DEFINE new == Web!NewLoad(sessionId)
    <3>1. new.session = sessionId /\ new.stage = "asked"
      BY <1>1, NewLoadFits DEF Typed
    <3> HIDE DEF new
    <3>2. loads' = <<new>>
      <4>1. loads' = Append(<<>>, new)
        BY <2>1, <2>3 DEF new
      <4> QED
        BY <4>1
    <3> QED
      BY <3>1, <3>2
  <2>6. Alone'
    BY <2>1, <2>5 DEF Alone, Web!NoStream
  <2>7. Web!OwnSession'
    BY <2>1, <2>4 DEF Settled, Web!OwnSession, Web!OwnCards
  <2>8. CaughtUp'
    <3> SUFFICES ASSUME complete' PROVE CaughtUp'
      BY DEF CaughtUp
    <3>1. \A t \in Mine' : Over(t)'
      BY <2>1, <2>3, <2>4 DEF Mine, Over, Web!Running
    <3> QED
      BY <2>5, <3>1 DEF CaughtUp, ReadsWhole, Restarted, Shown
  <2> QED
    BY <1>1, <2>6, <2>7, <2>8 DEF Settled
<1> QED
  BY <1>2, <1>3

LEMMA DeliverKeeps ==
    ASSUME Web!FirstAssumption, Settled, Web!Deliver PROVE Settled'
<1>1. /\ Typed /\ Typed' /\ stream'.got = stream.got + 1 /\ stream'.stage = "open"
      /\ stream'.turn = stream.turn /\ stream'.session = stream.session
  BY DeliverTyped DEF Settled
<1>2. /\ stream.stage = "open" /\ live' = Web!Reduce(live, stream.turn, stream.got + 1)
      /\ UNCHANGED <<turns, sessionId, busy, history, records, loads>>
  BY DEF Web!Deliver
<1>3. busy = TRUE /\ stream.got \in Nat /\ stream.turn \in Web!Of(stream.session)
  BY <1>1, <1>2 DEF Typed, StreamFits, Web!Of
<1>4. live = Events(stream.turn, stream.got) /\ stream.session = sessionId
  BY <1>2, <1>3 DEF Settled, Alone
<1>5. live' = Events(stream'.turn, stream'.got)
  BY <1>1, <1>2, <1>3, <1>4, NextEvent
<1>6. Mine' = Mine /\ Web!Of(sessionId)' = Web!Of(sessionId)
  BY <1>2 DEF Mine, Web!Of
<1>7. Alone'
  BY <1>1, <1>2, <1>5 DEF Settled, Alone
<1>8. Web!OwnSession'
  <2>1. live'.turn \in {None, stream.turn}
    BY <1>1, <1>5, EventsOfTurn
  <2> QED
    BY <1>2, <1>3, <1>4, <1>6, <2>1 DEF Settled, Web!OwnSession, Web!OwnCards
<1>9. CaughtUp'
  BY <1>2, <1>3 DEF CaughtUp
<1> QED
  BY <1>1, <1>7, <1>8, <1>9 DEF Settled

LEMMA NewKeeps ==
    ASSUME Web!FirstAssumption, Typed,
           (\E session \in Sessions : Web!NewSession(session) /\ loads = <<>>) \/ Web!Refresh
    PROVE  Settled'
<1>1. Typed /\ Typed'
  BY NewTyped
<1> DEFINE Fresh ==
             /\ turns' = turns /\ live' = Web!NoLive /\ busy' = FALSE /\ stream'.stage = "none"
             /\ history' = [session |-> sessionId', known |-> {}]
             /\ complete' => \A t \in Mine' : Over(t)'
             /\ loads' # <<>>
             /\ \A i \in DOMAIN loads' :
                   loads'[i].session = sessionId' /\ loads'[i].stage = "asked"
<1>2. Fresh
  <2>1. ASSUME NEW session \in Sessions, Web!NewSession(session), loads = <<>> PROVE Fresh
    <3>1. /\ turns' = turns /\ live' = Web!NoLive /\ busy = FALSE /\ loads = <<>>
          /\ UNCHANGED <<busy, stream>> /\ sessionId' = session /\ Web!Of(session) = {}
          /\ history' = [session |-> session, known |-> {}]
          /\ loads' = Append(loads, Web!NewLoad(session))
      BY <1>1, <2>1 DEF Web!NewSession, Web!NewHistory, Web!MayAct, Typed
    <3>2. Mine' = {}
      BY <3>1 DEF Mine, Web!Of
    <3>3. stream.stage = "none"
      BY <1>1, <3>1 DEF Typed
    <3> DEFINE new == Web!NewLoad(session)
    <3>4. new.session = session /\ new.stage = "asked"
      BY NewLoadFits
    <3> HIDE DEF new
    <3>5. loads' = <<new>>
      <4>1. loads' = Append(<<>>, new)
        BY <3>1 DEF new
      <4> QED
        BY <4>1
    <3>6. /\ loads' # <<>>
          /\ \A i \in DOMAIN loads' : loads'[i].session = sessionId' /\ loads'[i].stage = "asked"
      BY <3>1, <3>4, <3>5
    <3> QED
      BY <3>1, <3>2, <3>3, <3>6
  <2>2. CASE Web!Refresh
    <3>1. /\ turns' = turns /\ live' = Web!NoLive /\ busy' = FALSE /\ stream' = Web!NoStream
          /\ sessionId' = sessionId /\ history' = [session |-> sessionId, known |-> {}]
          /\ loads' = Web!Opening
          /\ complete' => ~\E t \in Web!Of(sessionId) : Web!Running(t)
      BY <2>2 DEF Web!Refresh
    <3>2. Mine' = Web!Of(sessionId)
      BY <3>1 DEF Mine, Web!Of
    <3>3. complete' => \A t \in Mine' : Over(t)'
      BY <3>1, <3>2 DEF Over, Web!Running
    <3>4. Len(loads') = 2 /\ \A i \in DOMAIN loads' : loads'[i] = Web!NewLoad(sessionId)
      BY <1>1, <3>1, OpeningFits DEF Typed
    <3>5. Web!NewLoad(sessionId).session = sessionId /\ Web!NewLoad(sessionId).stage = "asked"
      BY <1>1, NewLoadFits DEF Typed
    <3>6. /\ loads' # <<>>
          /\ \A i \in DOMAIN loads' : loads'[i].session = sessionId' /\ loads'[i].stage = "asked"
      BY <3>1, <3>4, <3>5
    <3> QED
      BY <3>1, <3>3, <3>6 DEF Web!NoStream
  <2> QED
    BY <2>1, <2>2
<1>3. Alone' /\ Web!OwnSession'
  BY <1>2, EventsOfTurn DEF Alone, Web!OwnSession, Web!OwnCards
<1>4. CaughtUp'
  BY <1>2 DEF CaughtUp, ReadsWhole, Restarted, Shown
<1> QED
  BY <1>1, <1>3, <1>4 DEF Settled

\* While a session is loaded, the page is not busy and the turns stay what they are.
LEMMA LoadingKeeps ==
    ASSUME Typed, busy = FALSE, complete => \A t \in Mine : Over(t), Typed',
           UNCHANGED <<turns, sessionId, busy, stream>>,
           \A j \in DOMAIN loads' : loads'[j].session = sessionId,
           live'.turn \in Mine \union {None}, history'.session = sessionId, history'.known \subseteq Mine,
           complete' => /\ complete
                        /\ \A j \in DOMAIN loads' : ReadsWhole(loads'[j])
                        /\ Restarted' /\ Shown'
    PROVE  Settled'
<1>1. busy = FALSE /\ stream.stage = "none"
  BY DEF Typed
<1>2. Mine' = Mine /\ Web!Of(sessionId)' = Mine
  BY DEF Mine, Web!Of
<1>3. Alone'
  BY <1>1 DEF Alone
<1>4. Web!OwnSession'
  BY <1>2 DEF Web!OwnSession, Web!OwnCards
<1>5. CaughtUp'
  <2> SUFFICES ASSUME complete' PROVE CaughtUp'
    BY DEF CaughtUp
  <2>1. \A t \in Mine' : Over(t)'
    BY <1>1, <1>2 DEF Over
  <2>2. \A j \in DOMAIN loads' : ReadsWhole(loads[j])'
    BY <1>2 DEF ReadsWhole, AllRead
  <2> QED
    BY <2>1, <2>2 DEF CaughtUp
<1> QED
  BY <1>3, <1>4, <1>5 DEF Settled

\* All loads are of the page's session, and read all there is if the turns were over.
OwnLoads ==
    \A j \in DOMAIN loads : loads[j].session = sessionId /\ (complete => ReadsWhole(loads[j]))

\* A load that goes on leaves what is shown, or starts it anew.
LEMMA LoadGoesOn ==
    ASSUME Web!FirstAssumption, Typed, OwnLoads, NEW i \in DOMAIN loads,
           Web!Serve(i) \/ Web!ShowMessages(i) \/ Web!ServeEvents(i)
    PROVE  /\ UNCHANGED <<turns, sessionId, busy, stream, records, complete>> /\ loads' # <<>>
           /\ \A j \in DOMAIN loads' :
                 loads'[j].session = sessionId /\ (complete => ReadsWhole(loads'[j]))
           /\ \/ /\ UNCHANGED <<live, history>>
                 /\ (\E j \in DOMAIN loads' : loads'[j].stage = "events")
                       => \E j \in DOMAIN loads : loads[j].stage = "events"
              \/ /\ live' = Web!NoLive /\ history'.session = sessionId
                 /\ history'.known \subseteq Mine /\ (complete => history'.known = Mine)
<1> DEFINE x == loads[i]
<1>1. LoadsFit(loads, turns)
  BY DEF Typed
<1>2. x.session = sessionId /\ LoadFits(x, turns) /\ (complete => ReadsWhole(x))
  BY <1>1 DEF OwnLoads, LoadsFit
<1>3. Mine = Web!Of(sessionId) /\ x.known \subseteq Mine
  BY <1>2 DEF Mine, Web!Of, LoadFits
<1> DEFINE Step(stage, known, replay) ==
               /\ LoadsFit(loads', turns') /\ DOMAIN loads' = DOMAIN loads
               /\ loads'[i].session = x.session /\ loads'[i].stage = stage
               /\ loads'[i].known = known /\ loads'[i].replay = replay
               /\ \A j \in DOMAIN loads : j # i => loads'[j] = loads[j]
<1>4. ASSUME NEW stage, NEW known, NEW replay, Step(stage, known, replay),
             complete => known = Mine /\ AllRead(replay)
      PROVE  /\ loads' # <<>>
             /\ \A j \in DOMAIN loads' :
                   loads'[j].session = sessionId /\ (complete => ReadsWhole(loads'[j]))
  <2>1. ASSUME NEW j \in DOMAIN loads'
        PROVE  loads'[j].session = sessionId /\ (complete => ReadsWhole(loads'[j]))
    <3>1. CASE j = i
      BY <1>2, <1>4, <3>1 DEF ReadsWhole
    <3>2. CASE j # i
      BY <1>4, <3>2 DEF OwnLoads
    <3> QED
      BY <3>1, <3>2
  <2>2. i \in DOMAIN loads'
    BY <1>4
  <2>3. loads' # <<>>
    BY <2>2
  <2> QED
    BY <2>1, <2>3
<1>5. CASE Web!Serve(i)
  <2>1. /\ x.stage = "asked"
        /\ UNCHANGED <<turns, sessionId, busy, stream, live, history, records, complete>>
    BY <1>5 DEF Web!Serve
  <2>2. Step("session", Mine, x.replay)
    BY <1>1, <1>2, <1>3, <1>5, <2>1, ServeSteps, LoadStepFits
  <2>3. AllRead(x.replay)
    BY <1>2, <2>1 DEF LoadFits, AllRead
  <2>4. (\E j \in DOMAIN loads' : loads'[j].stage = "events")
           => \E j \in DOMAIN loads : loads[j].stage = "events"
    BY <2>2
  <2> HIDE DEF Step, x
  <2> QED
    BY <1>4, <2>1, <2>2, <2>3, <2>4
<1>6. CASE Web!ShowMessages(i)
  <2>1. /\ x.stage = "session" /\ live' = Web!NoLive
        /\ history' = [session |-> x.session, known |-> x.known]
        /\ UNCHANGED <<turns, sessionId, busy, stream, records, complete>>
    BY <1>6 DEF Web!ShowMessages, Web!Reset
  <2>2. Step("events", x.known, x.replay)
    BY <1>1, <1>6, <2>1, ShowSteps, LoadStepFits
  <2>3. complete => x.known = Mine /\ AllRead(x.replay)
    BY <1>2, <2>1 DEF ReadsWhole
  <2>4. history'.session = sessionId /\ history'.known = x.known
    BY <1>2, <2>1
  <2> HIDE DEF Step, x
  <2> QED
    BY <1>3, <1>4, <2>1, <2>2, <2>3, <2>4
<1>7. CASE Web!ServeEvents(i)
  <2>1. /\ x.stage = "events"
        /\ UNCHANGED <<turns, sessionId, busy, stream, live, history, records, complete>>
    BY <1>7 DEF Web!ServeEvents
  <2>2. PICK t \in x.known : \E replay :
           /\ DOMAIN replay = DOMAIN x.replay \union {t} /\ replay[t] = turns[t].events
           /\ \A u \in DOMAIN x.replay : u # t => replay[u] = x.replay[u]
           /\ LoadStep(i, "events", x.known, replay)
    BY <1>7, ReadSteps
  <2>3. PICK replay :
           /\ DOMAIN replay = DOMAIN x.replay \union {t} /\ replay[t] = turns[t].events
           /\ \A u \in DOMAIN x.replay : u # t => replay[u] = x.replay[u]
           /\ LoadStep(i, "events", x.known, replay)
    BY <2>2
  <2>4. Step("events", x.known, replay)
    BY <1>1, <2>1, <2>3, LoadStepFits
  <2>5. complete => x.known = Mine /\ AllRead(replay)
    <3>1. complete => x.known = Mine /\ AllRead(x.replay)
      BY <1>2, <2>1 DEF ReadsWhole
    <3> QED
      BY <2>3, <3>1 DEF AllRead
  <2>6. \E j \in DOMAIN loads : loads[j].stage = "events"
    BY <2>1
  <2> HIDE DEF Step, x
  <2> QED
    BY <1>4, <2>1, <2>4, <2>5, <2>6
<1> QED
  BY <1>5, <1>6, <1>7

\* A load that is through leaves the page as it should be, if the messages shown are those of
\* the session and the reducer held nothing or the latest turn whole.
LEMMA LoadEnds ==
    ASSUME Web!FirstAssumption, Typed, Typed', OwnLoads, NEW i \in DOMAIN loads, Web!ShowTurns(i),
           busy = FALSE, complete => \A t \in Mine : Over(t),
           live.turn \in Mine \union {None}, history.session = sessionId, history.known \subseteq Mine,
           complete => history.known = Mine /\ live \in {Web!NoLive, Whole}
    PROVE  Settled'
<1> DEFINE x == loads[i]
<1>1. LoadsFit(loads, turns)
  BY DEF Typed
<1>2. x.session = sessionId /\ LoadFits(x, turns) /\ (complete => ReadsWhole(x))
  BY <1>1 DEF OwnLoads, LoadsFit
<1>3. Mine = Web!Of(sessionId) /\ x.known \subseteq Mine
  BY <1>2 DEF Mine, Web!Of, LoadFits
<1>4. /\ x.stage = "events" /\ DOMAIN x.replay = x.known
      /\ records' = x.replay /\ loads' = Web!RemoveAt(loads, i)
      /\ UNCHANGED <<turns, sessionId, busy, stream, history, complete>>
  BY DEF Web!ShowTurns
<1>5. Mine' = Mine /\ Whole' = Whole
  BY <1>4 DEF Mine, Web!Of, Whole
<1>6. \A j \in DOMAIN loads' : \E k \in DOMAIN loads : loads'[j] = loads[k]
  BY <1>1, <1>4, LoadLeft
<1>7. /\ \A j \in DOMAIN loads' : loads'[j].session = sessionId
      /\ complete => \A j \in DOMAIN loads' : ReadsWhole(loads'[j])
  BY <1>6 DEF OwnLoads
<1>8. live'.turn \in Mine \union {None}
  <2>1. CASE x.known = {}
    BY <2>1, ReplayedFits
  <2>2. CASE x.known # {}
    <3> DEFINE t == Web!Latest(x.known)
               n == x.replay[t]
    <3>1. t \in x.known /\ n \in Nat /\ live' = Web!Replay(live, t, n)
      BY <2>2, ReplayedFits
    <3> HIDE DEF t, n
    <3>2. live'.turn \in {live.turn, t}
      BY <3>1, ReplayTurn
    <3> QED
      BY <1>3, <3>1, <3>2
  <2> QED
    BY <2>1, <2>2
<1>9. complete => live' = Whole /\ x.known = Mine /\ AllRead(x.replay) /\ history.known = Mine
  <2> SUFFICES ASSUME complete
               PROVE  live' = Whole /\ x.known = Mine /\ AllRead(x.replay) /\ history.known = Mine
    OBVIOUS
  <2>1. /\ x.known = Mine /\ AllRead(x.replay) /\ history.known = Mine
        /\ live \in {Web!NoLive, Whole}
    BY <1>2, <1>4 DEF ReadsWhole
  <2>2. CASE Mine = {}
    BY <2>1, <2>2, ReplayedFits DEF Whole
  <2>3. CASE Mine # {}
    <3> DEFINE t == Web!Latest(Mine)
               n == x.replay[t]
    <3>1. t \in x.known /\ n \in Nat /\ live' = Web!Replay(live, t, n)
      BY <2>1, <2>3, ReplayedFits
    <3>2. n = turns[t].events
      BY <1>4, <2>1, <3>1 DEF AllRead
    <3>3. Whole = Events(t, n)
      BY <2>3, <3>2 DEF Whole
    <3> HIDE DEF t, n
    <3> QED
      BY <2>1, <3>1, <3>3, ReplayIsWhole
  <2> QED
    BY <2>1, <2>2, <2>3
<1>10. complete => Restarted' /\ Shown'
  BY <1>4, <1>5, <1>9 DEF Restarted, Shown, AllRead
<1> HIDE DEF x
<1> QED
  BY <1>4, <1>7, <1>8, <1>10, LoadingKeeps

LEMMA OneLoadKeeps ==
    ASSUME Web!FirstAssumption, Settled, NEW i \in DOMAIN loads, Web!Load(i)
    PROVE  Settled'
<1>1. Typed /\ Typed' /\ Web!OwnSession /\ Alone /\ CaughtUp
  BY LoadTyped DEF Settled
<1>2. busy = FALSE
  <2>1. loads # <<>>
    OBVIOUS
  <2> QED
    BY <1>1, <2>1 DEF Alone, Typed
<1>3. complete => /\ \A t \in Mine : Over(t)
                  /\ \A j \in DOMAIN loads : ReadsWhole(loads[j])
                  /\ Restarted /\ Shown
  BY <1>1, <1>2 DEF CaughtUp
<1>4. OwnLoads
  BY <1>1, <1>3 DEF OwnLoads, Alone
<1>5. live.turn \in Mine \union {None} /\ history.session = sessionId /\ history.known \subseteq Mine
  BY <1>1 DEF Web!OwnSession, Web!OwnCards, Mine
<1>6. CASE Web!Serve(i) \/ Web!ShowMessages(i) \/ Web!ServeEvents(i)
  <2>1. /\ UNCHANGED <<turns, sessionId, busy, stream, records, complete>> /\ loads' # <<>>
        /\ \A j \in DOMAIN loads' :
              loads'[j].session = sessionId /\ (complete => ReadsWhole(loads'[j]))
        /\ \/ /\ UNCHANGED <<live, history>>
              /\ (\E j \in DOMAIN loads' : loads'[j].stage = "events")
                    => \E j \in DOMAIN loads : loads[j].stage = "events"
           \/ /\ live' = Web!NoLive /\ history'.session = sessionId
              /\ history'.known \subseteq Mine /\ (complete => history'.known = Mine)
    BY <1>1, <1>4, <1>6, LoadGoesOn
  <2>2. Mine' = Mine /\ Whole' = Whole
    BY <2>1 DEF Mine, Web!Of, Whole
  <2>3. complete => Restarted'
    BY <1>3, <2>1, <2>2 DEF Restarted
  <2>4. Shown'
    BY <2>1 DEF Shown
  <2>5. /\ live'.turn \in Mine \union {None} /\ history'.session = sessionId
        /\ history'.known \subseteq Mine
    BY <1>5, <2>1 DEF Web!NoLive
  <2> QED
    BY <1>1, <1>2, <1>3, <2>1, <2>3, <2>4, <2>5, LoadingKeeps
<1>7. CASE Web!ShowTurns(i)
  <2>1. complete => history.known = Mine /\ live \in {Web!NoLive, Whole}
    BY <1>3, <1>7 DEF Restarted, Web!ShowTurns
  <2> QED
    BY <1>1, <1>2, <1>3, <1>4, <1>5, <1>7, <2>1, LoadEnds
<1> QED
  BY <1>6, <1>7 DEF Web!Load

LEMMA LoadFailsKeeps ==
    ASSUME Web!FirstAssumption, Settled, NEW i \in DOMAIN loads, Web!LoadFails(i)
    PROVE  Settled'
<1>1. Typed /\ Typed' /\ Web!OwnSession /\ Alone /\ LoadsFit(loads, turns)
  BY LoadTyped DEF Settled, Typed
<1>2. /\ loads' = Web!RemoveAt(loads, i) /\ complete' = FALSE
      /\ UNCHANGED <<turns, sessionId, busy, stream, live, history>>
  BY DEF Web!LoadFails
<1>3. \A j \in DOMAIN loads' : \E k \in DOMAIN loads : loads'[j] = loads[k]
  BY <1>1, <1>2, LoadLeft
<1>4. \A j \in DOMAIN loads' : loads'[j].session = sessionId
  BY <1>1, <1>3 DEF Alone
<1>5. live'.turn \in Mine \union {None} /\ history'.session = sessionId /\ history'.known \subseteq Mine
  BY <1>1, <1>2 DEF Web!OwnSession, Web!OwnCards, Mine
<1>6. busy = FALSE
  <2>1. loads # <<>>
    OBVIOUS
  <2> QED
    BY <1>1, <2>1 DEF Alone, Typed
<1>7. complete => \A t \in Mine : Over(t)
  BY <1>6 DEF Settled, CaughtUp
<1> QED
  BY <1>1, <1>2, <1>4, <1>5, <1>6, <1>7, LoadingKeeps

LEMMA SettledStays ==
    ASSUME Settled, UNCHANGED Web!vars PROVE Settled'
<1>1. Mine' = Mine /\ Web!Of(sessionId)' = Web!Of(sessionId) /\ Whole' = Whole
  BY DEF Mine, Web!Of, Web!vars, Whole
<1>2. Typed'
  BY DEF Settled, Typed, Web!vars
<1>3. Alone' /\ Web!OwnSession'
  BY <1>1 DEF Settled, Alone, Web!OwnSession, Web!OwnCards, Web!vars
<1>4. CaughtUp'
  BY <1>1 DEF Settled, CaughtUp, Over, ReadsWhole, AllRead, Restarted, Shown, Web!vars
<1> QED
  BY <1>2, <1>3, <1>4 DEF Settled

LEMMA SettledShows ==
    ASSUME Web!FirstAssumption, Settled
    PROVE  Web!StreamShown /\ Web!OwnSession /\ Web!AllIsShown
<1>1. Typed /\ Web!OwnSession /\ Alone /\ CaughtUp
  BY DEF Settled
<1>2. Web!StreamShown
  <2> SUFFICES ASSUME busy, stream.got > 0
               PROVE  live = [turn |-> stream.turn, seen |-> 1..stream.got]
    BY DEF Web!StreamShown
  <2>1. stream.stage = "open" /\ stream.got # 0
    BY <1>1 DEF Typed, StreamFits
  <2> QED
    BY <1>1, <2>1 DEF Alone, Events
<1>3. Web!AllIsShown
  <2> SUFFICES ASSUME ~busy, complete, loads = <<>>
               PROVE  /\ history.known = Mine
                      /\ \A t \in Mine : t \in DOMAIN records /\ records[t] = turns[t].events
                      /\ Mine # {} => live = Web!Replay(Web!NoLive, Web!Latest(Mine),
                                                        turns[Web!Latest(Mine)].events)
    BY DEF Web!AllIsShown, Mine
  <2>1. history.known = Mine /\ live = Whole /\ DOMAIN records = Mine /\ AllRead(records)
    BY <1>1 DEF CaughtUp, Shown
  <2>2. ASSUME Mine # {}
        PROVE  live = Web!Replay(Web!NoLive, Web!Latest(Mine), turns[Web!Latest(Mine)].events)
    <3> DEFINE t == Web!Latest(Mine)
               n == turns[t].events
    <3>1. Mine \subseteq 1..Len(turns) /\ Len(turns) \in Nat /\ turns \in Seq(Web!Turn)
      BY <1>1 DEF Mine, Web!Of, Typed
    <3>2. t \in Mine
      BY <2>2, <3>1, LatestIsKnown
    <3>3. n \in Nat
      <4> HIDE DEF t
      <4>1. MaxEvents \in Nat
        BY DEF Web!FirstAssumption
      <4>2. t \in DOMAIN turns
        BY <3>1, <3>2
      <4>3. turns[t].events \in Nat
        BY ONLY <3>1, <4>1, <4>2, TurnsFit
      <4> QED
        BY <4>3
    <3>4. live = Events(t, n)
      BY <2>1, <2>2 DEF Whole
    <3> HIDE DEF t, n
    <3> QED
      BY <3>3, <3>4, ReplayIsWhole DEF t, n
  <2> QED
    BY <2>1, <2>2 DEF AllRead
<1> QED
  BY <1>1, <1>2, <1>3

-----------------------------------------------------------------------------
(* What a page shows whatever its operator does.                             *)

\* A load that began alone restores what an overtaken one spoilt: by the time it has shown its
\* messages, the reducer has started anew and the messages are those of the session.
Mending ==
    /\ busy = FALSE /\ loads # <<>> /\ OwnLoads
    /\ complete => \A t \in Mine : Over(t)
    /\ (\E i \in DOMAIN loads : loads[i].stage = "events") =>
          /\ live = Web!NoLive /\ history.session = sessionId
          /\ history.known \subseteq Mine /\ (complete => history.known = Mine)

PageInvariant ==
    /\ Typed /\ Phased /\ Web!Recorded
    /\ busy => stream.session = sessionId
    /\ overtaken = "no" => Settled
    /\ overtaken = "mending" => Mending

\* However the stream ends, the load that begins alone is of the session.
LEMMA MendingBegins ==
    ASSUME Web!FirstAssumption, Typed, busy, stream.session = sessionId, loads = <<>>,
           Web!StreamEnds \/ Web!StreamBreaks
    PROVE  Mending'
<1>1. /\ busy' = FALSE /\ loads' = Append(<<>>, Web!NewLoad(sessionId))
      /\ complete' => ~\E t \in Web!Of(sessionId) : Web!Running(t)
      /\ UNCHANGED <<turns, sessionId>>
  BY DEF Web!StreamEnds, Web!StreamBreaks, Web!SendEnds
<1> DEFINE new == Web!NewLoad(sessionId)
<1>2. new.session = sessionId /\ new.stage = "asked"
  BY NewLoadFits DEF Typed
<1>3. loads' = Append(<<>>, new)
  BY <1>1
<1> HIDE DEF new
<1>4. loads' = <<new>>
  BY <1>3
<1>5. loads' # <<>> /\ \A j \in DOMAIN loads' : loads'[j] = new
  BY <1>4
<1>6. OwnLoads'
  BY <1>1, <1>2, <1>5 DEF OwnLoads, ReadsWhole
<1>7. complete' => \A t \in Mine' : Over(t)'
  BY <1>1 DEF Mine, Web!Of, Over, Web!Running
<1>8. ~\E j \in DOMAIN loads' : loads'[j].stage = "events"
  BY <1>2, <1>5
<1> QED
  BY <1>1, <1>5, <1>6, <1>7, <1>8 DEF Mending

\* Turns that are over stay what they are.
LEMMA MendingServer ==
    ASSUME Web!FirstAssumption, Typed, Mending, NEW t \in DOMAIN turns, Web!Emit(t) \/ Web!Stop(t)
    PROVE  Mending'
<1>1. /\ Typed' /\ DOMAIN turns' = DOMAIN turns /\ Grown(turns, turns')
      /\ ~turns[t].ended /\ \A u \in DOMAIN turns : u # t => turns'[u] = turns[u]
  BY ServerTyped
<1>2. UNCHANGED <<sessionId, busy, live, history, loads, complete>>
  BY DEF Web!Emit, Web!Stop
<1>3. Mine' = Mine /\ Mine \subseteq DOMAIN turns
  BY <1>1, <1>2 DEF Mine, Web!Of, Grown
<1>4. complete => \A u \in Mine : turns'[u] = turns[u] /\ Over(u)
  BY <1>1, <1>3 DEF Mending, Over
<1>5. complete' => \A u \in Mine' : Over(u)'
  BY <1>2, <1>3, <1>4 DEF Over
<1>6. OwnLoads'
  <2> SUFFICES ASSUME NEW j \in DOMAIN loads, complete PROVE ReadsWhole(loads[j])'
    BY <1>2 DEF Mending, OwnLoads
  <2>1. ReadsWhole(loads[j]) /\ DOMAIN loads[j].replay \subseteq loads[j].known
    BY DEF Mending, OwnLoads, Typed, LoadsFit, LoadFits
  <2> QED
    BY <1>2, <1>3, <1>4, <2>1 DEF ReadsWhole, AllRead
<1> QED
  BY <1>2, <1>3, <1>5, <1>6 DEF Mending

LEMMA MendingGoesOn ==
    ASSUME Web!FirstAssumption, Typed, Mending, NEW i \in DOMAIN loads,
           Web!Serve(i) \/ Web!ShowMessages(i) \/ Web!ServeEvents(i)
    PROVE  Mending'
<1>1. OwnLoads
  BY DEF Mending
<1>2. /\ UNCHANGED <<turns, sessionId, busy, stream, records, complete>> /\ loads' # <<>>
      /\ \A j \in DOMAIN loads' :
            loads'[j].session = sessionId /\ (complete => ReadsWhole(loads'[j]))
      /\ \/ /\ UNCHANGED <<live, history>>
            /\ (\E j \in DOMAIN loads' : loads'[j].stage = "events")
                  => \E j \in DOMAIN loads : loads[j].stage = "events"
         \/ /\ live' = Web!NoLive /\ history'.session = sessionId
            /\ history'.known \subseteq Mine /\ (complete => history'.known = Mine)
  BY <1>1, LoadGoesOn
<1>3. Mine' = Mine /\ Web!NoLive' = Web!NoLive
  BY <1>2 DEF Mine, Web!Of, Web!NoLive
<1>4. OwnLoads'
  BY <1>2, <1>3 DEF OwnLoads, ReadsWhole, AllRead
<1>5. complete' => \A t \in Mine' : Over(t)'
  BY <1>2, <1>3 DEF Mending, Over
<1>6. (\E j \in DOMAIN loads' : loads'[j].stage = "events") =>
         /\ live' = Web!NoLive /\ history'.session = sessionId
         /\ history'.known \subseteq Mine /\ (complete => history'.known = Mine)
  BY <1>2 DEF Mending
<1> QED
  BY <1>2, <1>3, <1>4, <1>5, <1>6 DEF Mending

\* The page is what it should be as soon as the load is through.
LEMMA MendingEnds ==
    ASSUME Web!FirstAssumption, Typed, Mending, NEW i \in DOMAIN loads, Web!ShowTurns(i)
    PROVE  Settled'
<1>1. Typed'
  BY LoadTyped DEF Web!Load
<1>2. loads[i].stage = "events"
  BY DEF Web!ShowTurns
<1>3. /\ live = Web!NoLive /\ history.session = sessionId
      /\ history.known \subseteq Mine /\ (complete => history.known = Mine)
  BY <1>2 DEF Mending
<1>4. busy = FALSE /\ OwnLoads /\ (complete => \A t \in Mine : Over(t))
  BY DEF Mending
<1>5. live.turn = None
  BY <1>3 DEF Web!NoLive
<1> QED
  BY <1>1, <1>3, <1>4, <1>5, LoadEnds

LEMMA PageInit == ASSUME Web!FirstAssumption, Web!Init PROVE PageInvariant
<1>1. overtaken = "no" /\ busy = FALSE
  BY DEF Web!Init
<1>2. Settled /\ Typed /\ Web!Recorded
  BY SettledInit, RecordedInit DEF Settled
<1> QED
  BY <1>1, <1>2 DEF PageInvariant, Phased

LEMMA PageNext ==
    ASSUME Web!FirstAssumption, PageInvariant, [Web!Next]_(Web!vars) PROVE PageInvariant'
<1>1. /\ Typed /\ (busy => stream.session = sessionId) /\ overtaken \in {"no", "yes", "mending"}
      /\ (overtaken = "no" => Settled) /\ (overtaken = "mending" => Mending)
  BY DEF PageInvariant, Phased
<1>2. Typed' /\ Phased' /\ Web!Recorded'
  BY TypedNext, PhasedNext, RecordedNext DEF PageInvariant
<1>3. /\ stream.stage # "none" <=> busy
      /\ overtaken = "mending" => busy = FALSE /\ loads # <<>>
  BY <1>1 DEF Typed, Mending
<1> SUFFICES /\ (busy => stream.session = sessionId)'
             /\ overtaken' = "no" => Settled'
             /\ overtaken' = "mending" => Mending'
  BY <1>2 DEF PageInvariant
<1>4. CASE Web!Accept
  <2>1. /\ stream.stage = "asked" /\ stream'.session = stream.session
        /\ UNCHANGED <<sessionId, busy, overtaken>>
    BY <1>1, <1>4, AcceptTyped DEF Web!Accept
  <2>2. overtaken # "mending"
    BY <1>3, <2>1
  <2> QED
    BY <1>1, <1>4, <2>1, <2>2, AcceptKeeps
<1>5. ASSUME NEW t \in DOMAIN turns, Web!Emit(t) \/ Web!Stop(t)
      PROVE  /\ (busy => stream.session = sessionId)'
             /\ overtaken' = "no" => Settled'
             /\ overtaken' = "mending" => Mending'
  <2>1. UNCHANGED <<sessionId, busy, stream, overtaken>>
    BY <1>5 DEF Web!Emit, Web!Stop
  <2> QED
    BY <1>1, <1>5, <2>1, ServerKeeps, MendingServer
<1>6. CASE Web!Send
  <2>1. /\ stream'.session = sessionId /\ sessionId' = sessionId
        /\ overtaken' = IF loads = <<>> THEN overtaken ELSE "yes"
    BY <1>6 DEF Web!Send
  <2>2. overtaken' = "no" => loads = <<>> /\ Settled
    BY <1>1, <2>1
  <2>3. overtaken' # "mending"
    BY <1>3, <2>1
  <2>4. overtaken' = "no" => Settled'
    BY <1>6, <2>2, SendKeeps
  <2> QED
    BY <2>1, <2>3, <2>4
<1>7. CASE Web!StreamEnds \/ Web!StreamBreaks
  <2>1. /\ busy' = FALSE
        /\ overtaken' = IF overtaken = "yes" /\ loads = <<>> THEN "mending" ELSE overtaken
    BY <1>7 DEF Web!StreamEnds, Web!StreamBreaks, Web!SendEnds
  <2>2. busy
    BY <1>3, <1>7 DEF Web!StreamEnds, Web!StreamBreaks, Web!StreamOver
  <2>3. overtaken # "mending"
    BY <1>3, <2>2
  <2>4. overtaken' = "no" => Settled'
    <3>1. overtaken' = "no" => Settled
      BY <1>1, <2>1
    <3>2. Web!Send => loads = <<>>
      BY <2>2 DEF Web!Send, Web!MayAct
    <3> QED
      BY <1>7, <3>1, <3>2, SendKeeps
  <2>5. overtaken' = "mending" => Mending'
    <3>1. overtaken' = "mending" => loads = <<>>
      BY <2>1, <2>3
    <3> QED
      BY <1>1, <1>7, <2>2, <3>1, MendingBegins
  <2> QED
    BY <2>1, <2>4, <2>5
<1>8. CASE Web!Deliver
  <2>1. /\ stream.stage = "open" /\ stream'.session = stream.session
        /\ UNCHANGED <<sessionId, busy, overtaken>>
    BY <1>1, <1>8, DeliverTyped DEF Web!Deliver
  <2>2. overtaken # "mending"
    BY <1>3, <2>1
  <2> QED
    BY <1>1, <1>8, <2>1, <2>2, DeliverKeeps
<1>9. ASSUME NEW i \in DOMAIN loads, Web!Load(i)
      PROVE  /\ (busy => stream.session = sessionId)'
             /\ overtaken' = "no" => Settled'
             /\ overtaken' = "mending" => Mending'
  <2>1. UNCHANGED <<sessionId, busy, stream>>
    BY <1>9 DEF Web!Load, Web!Serve, Web!ShowMessages, Web!ServeEvents, Web!ShowTurns
  <2>2. CASE Web!Serve(i) \/ Web!ShowMessages(i) \/ Web!ServeEvents(i)
    <3>1. UNCHANGED overtaken
      BY <2>2 DEF Web!Serve, Web!ShowMessages, Web!ServeEvents
    <3> QED
      BY <1>1, <1>9, <2>1, <2>2, <3>1, OneLoadKeeps, MendingGoesOn
  <2>3. CASE Web!ShowTurns(i)
    <3>1. overtaken' = IF overtaken = "mending" THEN "no" ELSE overtaken
      BY <2>3 DEF Web!ShowTurns
    <3>2. overtaken = "mending" => Settled'
      BY <1>1, <2>3, MendingEnds
    <3>3. overtaken = "no" => Settled'
      BY <1>1, <1>9, OneLoadKeeps
    <3> QED
      BY <1>1, <2>1, <3>1, <3>2, <3>3
  <2> QED
    BY <1>9, <2>2, <2>3 DEF Web!Load
<1>10. ASSUME NEW i \in DOMAIN loads, Web!LoadFails(i)
       PROVE  /\ (busy => stream.session = sessionId)'
              /\ overtaken' = "no" => Settled'
              /\ overtaken' = "mending" => Mending'
  <2>1. /\ UNCHANGED <<sessionId, busy, stream>>
        /\ overtaken' = IF overtaken = "mending" THEN "yes" ELSE overtaken
    BY <1>10 DEF Web!LoadFails
  <2>2. overtaken' # "mending" /\ (overtaken' = "no" => Settled)
    BY <1>1, <2>1
  <2> QED
    BY <1>1, <1>10, <2>1, <2>2, LoadFailsKeeps
<1>11. ASSUME NEW session \in Sessions, Web!NewSession(session)
       PROVE  /\ (busy => stream.session = sessionId)'
              /\ overtaken' = "no" => Settled'
              /\ overtaken' = "mending" => Mending'
  <2>1. ~busy /\ busy' = busy /\ overtaken' = IF loads = <<>> THEN "no" ELSE "yes"
    BY <1>11 DEF Web!NewSession, Web!MayAct
  <2>2. overtaken' = "no" => loads = <<>>
    BY <2>1
  <2>3. overtaken' = "no" => Settled'
    BY <1>1, <1>11, <2>2, NewKeeps
  <2> QED
    BY <2>1, <2>3
<1>12. CASE Web!Refresh
  <2>1. busy' = FALSE /\ overtaken' = "no"
    BY <1>12 DEF Web!Refresh
  <2>2. Settled'
    BY <1>1, <1>12, NewKeeps
  <2> QED
    BY <2>1, <2>2
<1>13. CASE UNCHANGED Web!vars
  <2>1. UNCHANGED <<turns, sessionId, busy, stream, live, history, loads, complete, overtaken>>
    BY <1>13 DEF Web!vars
  <2>2. Mine' = Mine
    BY <2>1 DEF Mine, Web!Of
  <2>3. overtaken' = "mending" => Mending'
    BY <1>1, <2>1, <2>2 DEF Mending, OwnLoads, ReadsWhole, AllRead, Over
  <2>4. overtaken' = "no" => Settled'
    BY <1>1, <1>13, <2>1, SettledStays
  <2> QED
    BY <1>1, <2>1, <2>3, <2>4
<1> QED
  BY <1>4, <1>5, <1>6, <1>7, <1>8, <1>9, <1>10, <1>11, <1>12, <1>13 DEF Web!Next, Web!Server

LEMMA PageShows ==
    ASSUME Web!FirstAssumption, PageInvariant
    PROVE  Web!TrueToSession
  BY SettledShows DEF PageInvariant, Web!TrueToSession

\* Whatever its operator does, a page shows only what was recorded, and the messages of one
\* session. It shows the events of the running turn that have arrived, nothing of another
\* session, and every turn whole once it has loaded what followed the last, but for the time
\* from a message or new session that overtakes a load to the end of the next load that begins
\* alone (web/src/App.tsx loadSession and send, web/src/reducer.ts).
THEOREM PageIsTrueToSession ==
    Web!FirstAssumption => (Web!Spec => []Web!TrueToSession)
<1> SUFFICES ASSUME Web!FirstAssumption PROVE Web!Spec => []Web!TrueToSession
  OBVIOUS
<1>1. Web!Init => PageInvariant
  BY PageInit
<1>2. PageInvariant /\ [Web!Next]_(Web!vars) => PageInvariant'
  BY PageNext
<1>3. PageInvariant => Web!TrueToSession
  BY PageShows
<1> QED
  BY <1>1, <1>2, <1>3, PTL DEF Web!Spec
=============================================================================
