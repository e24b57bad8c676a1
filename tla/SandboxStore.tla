---------------------------- MODULE SandboxStore ----------------------------
(***************************************************************************)
(* The persistent Sandbox (internal/app/app.go) over the tables of         *)
(* internal/store.  Every call loads the environment in five statements,   *)
(* works on its copy and writes back what it changed.  Writers hold the    *)
(* account lease from before the load to after the save, readers do not.   *)
(***************************************************************************)
EXTENDS SandboxHistory

CONSTANTS
    Process,    \* handlers: of the server, of the command line
    Jobs,       \* the kinds of calls each of them makes
    None,
    Lifetime,   \* the units whose ad group is created with a lifetime budget
    Slow,       \* TRUE: a lease may run out under a holder that still works
    MaxCrashes

VARIABLES
    lease,      \* holder of the account's row of leases, or None
    proc,       \* each handler's point of control and its copy
    crashes

vars == <<db, lease, proc, crashes>>

Writers == {"advance", "write", "operation", "settings"}
\* None is no handler and no kind of call.
StoreAssumption ==
    /\ HistoryAssumption
    /\ None \notin Process \cup Writers \cup {"read"}
    /\ MaxCrashes \in Nat

Blank == [policy |-> None, units |-> None, clock |-> 0, facts |-> {}, ops |-> None]
Idle == [pc |-> "idle", job |-> None, view |-> Blank, base |-> 0, new |-> {}, left |-> 0]

\* Rows are inserted, or written over those of the same units.
Upsert(rows, table) ==
    [u \in DOMAIN rows \cup DOMAIN table |-> IF u \in DOMAIN rows THEN rows[u] ELSE table[u]]

\* A reader returns; a writer's deferred release is still to come.
Leave(p) == proc' = [proc EXCEPT ![p] =
                IF @.job = "read" THEN Idle ELSE [Idle EXCEPT !.pc = "releasing"]]

Init ==
    /\ HistoryInit
    /\ lease = None
    /\ proc = [p \in Process |-> Idle]
    /\ crashes = 0

\* A report, a list, a status: no lease.
Read(p) ==
    /\ proc[p].pc = "idle" /\ "read" \in Jobs[p]
    /\ proc' = [proc EXCEPT ![p].pc = "policy", ![p].job = "read"]
    /\ UNCHANGED <<db, lease, crashes>>

\* Advance takes the lease before it loads; approvals and settings do as well.
Lease(p, job) ==
    /\ proc[p].pc = "idle" /\ job \in Jobs[p] /\ lease = None
    /\ lease' = p
    /\ proc' = [proc EXCEPT ![p].pc = IF job = "settings" THEN "loaded" ELSE "policy",
                            ![p].job = job]
    /\ UNCHANGED <<db, crashes>>

LoadPolicy(p) ==
    /\ proc[p].pc = "policy"
    /\ proc' = [proc EXCEPT ![p].pc = "units", ![p].view.policy = db.policy]
    /\ UNCHANGED <<db, lease, crashes>>

LoadUnits(p) ==
    /\ proc[p].pc = "units"
    /\ proc' = [proc EXCEPT ![p].pc = "clock", ![p].view.units = db.units]
    /\ UNCHANGED <<db, lease, crashes>>

\* SandboxSimulation reads the clock's row, then the facts.
LoadClock(p) ==
    /\ proc[p].pc = "clock"
    /\ proc' = [proc EXCEPT ![p].pc = "facts", ![p].view.clock = db.clock, ![p].base = db.clock]
    /\ UNCHANGED <<db, lease, crashes>>

\* RestoreSimulation refuses a fact of an unknown ad or of a later hour.
ValidFacts(view, facts) ==
    \A f \in facts : f.unit \in DOMAIN view.units /\ f.at <= view.clock

LoadFacts(p) ==
    /\ proc[p].pc = "facts"
    /\ IF ValidFacts(proc[p].view, db.facts)
       THEN proc' = [proc EXCEPT ![p].pc = "operations", ![p].view.facts = db.facts]
       ELSE Leave(p)
    /\ UNCHANGED <<db, lease, crashes>>

LoadOperations(p) ==
    /\ proc[p].pc = "operations"
    /\ proc' = [proc EXCEPT ![p].pc = "loaded", ![p].view.ops = db.ops]
    /\ UNCHANGED <<db, lease, crashes>>

Answer(p) ==
    /\ proc[p].pc = "loaded" /\ proc[p].job = "read"
    /\ Leave(p)
    /\ UNCHANGED <<db, lease, crashes>>

\* Backend.Advance, up to its loop.
Start(p, hours) ==
    /\ proc[p].pc = "loaded" /\ proc[p].job = "advance"
    /\ GeneratedHours(proc[p].view.facts) + hours <= MaxGeneratedHours
    /\ proc' = [proc EXCEPT ![p].pc = "simulating", ![p].left = hours]
    /\ UNCHANGED <<db, lease, crashes>>

\* One iteration of the loop.
SimulateHour(p) ==
    LET next == HourStep(proc[p].view) IN
    /\ proc[p].pc = "simulating" /\ proc[p].left > 0
    /\ proc' = [proc EXCEPT ![p].view = next, ![p].left = @ - 1,
                            ![p].new = @ \cup {f \in next.facts : f.at > proc[p].view.clock}]
    /\ UNCHANGED <<db, lease, crashes>>

\* The learning state of an ad group without a daily budget holds the float
\* +Inf, which encoding/json refuses.
Storable(view) == DOMAIN view.units \cap Lifetime = {}

\* A mutant: the last writer wins, as for entities.
CommitOver(p) ==
    LET me == proc[p] IN
    /\ me.pc = "simulating" /\ me.left = 0
    /\ db' = [db EXCEPT !.clock = me.view.clock, !.facts = @ \cup me.new,
                        !.units = Upsert(me.view.units, @), !.ops = me.view.ops]
    /\ Leave(p)
    /\ UNCHANGED <<lease, crashes>>

\* SaveSandboxAdvance: clock by compare-and-swap, facts by their primary key,
\* every entity and the operation state over what is there; or nothing.
CommitAdvance(p) ==
    LET me == proc[p]
        taken == \E f \in me.new, g \in db.facts : f.unit = g.unit /\ f.at = g.at
    IN
    /\ me.pc = "simulating" /\ me.left = 0
    /\ \/ /\ Storable(me.view) /\ db.clock = me.base /\ ~taken
          /\ db' = [db EXCEPT !.clock = me.view.clock, !.facts = @ \cup me.new,
                              !.units = Upsert(me.view.units, @), !.ops = me.view.ops]
       \/ /\ ~Storable(me.view) \/ db.clock # me.base \/ taken
          /\ UNCHANGED db
    /\ Leave(p)
    /\ UNCHANGED <<lease, crashes>>

\* Write: one entity of the copy is changed and saved.
SaveUnit(p, u) ==
    LET view == proc[p].view IN
    /\ proc[p].pc = "loaded" /\ proc[p].job = "write"
    /\ u \in DOMAIN view.units
    /\ \E e \in Rewrites(view.units[u]) : db' = [db EXCEPT !.units = Upsert([v \in {u} |-> e], @)]
    /\ Leave(p)
    /\ UNCHANGED <<lease, crashes>>

\* ApplyOperation: every entity of the copy and its operation state are saved.
SaveOperation(p) ==
    LET view == proc[p].view
        Save(env) == db' = [db EXCEPT !.units = Upsert(env.units, @), !.ops = env.ops]
    IN
    /\ proc[p].pc = "loaded" /\ proc[p].job = "operation"
    /\ \/ \E u \in Unit \ DOMAIN view.units : Save(AddUnit(view, u))
       \/ \E r \in Rule \ DOMAIN view.ops.evaluated :
             RuleSpec[r].targets \subseteq DOMAIN view.units /\ Save(AddRule(view, r))
    /\ Leave(p)
    /\ UNCHANGED <<lease, crashes>>

SavePolicy(p, q) ==
    /\ proc[p].pc = "loaded" /\ proc[p].job = "settings"
    /\ db' = [db EXCEPT !.policy = q]
    /\ Leave(p)
    /\ UNCHANGED <<lease, crashes>>

\* Any error, a context that is over, a request that is turned down.
Refuse(p) ==
    /\ proc[p].pc \notin {"idle", "releasing"}
    /\ Leave(p)
    /\ UNCHANGED <<db, lease, crashes>>

Release(p) ==
    /\ proc[p].pc = "releasing"
    /\ lease' = IF lease = p THEN None ELSE lease
    /\ proc' = [proc EXCEPT ![p] = Idle]
    /\ UNCHANGED <<db, crashes>>

Crash(p) ==
    /\ crashes < MaxCrashes /\ proc[p].pc # "idle"
    /\ crashes' = crashes + 1
    /\ proc' = [proc EXCEPT ![p] = Idle]
    /\ UNCHANGED <<db, lease>>

\* The lease's ten minutes are over.  They outlast the five of an advance, so
\* that only a holder that is gone loses it, unless the machine is slow.
Lapse ==
    /\ lease # None
    /\ Slow \/ proc[lease].pc = "idle" \/ proc[lease].job = "read"
    /\ lease' = None
    /\ UNCHANGED <<db, proc, crashes>>

Next ==
    \/ \E p \in Process :
          \/ Read(p) \/ LoadPolicy(p) \/ LoadUnits(p) \/ LoadClock(p) \/ LoadFacts(p)
          \/ LoadOperations(p) \/ Answer(p) \/ SimulateHour(p) \/ CommitAdvance(p)
          \/ SaveOperation(p) \/ Refuse(p) \/ Release(p) \/ Crash(p)
          \/ \E job \in Writers : Lease(p, job)
          \/ \E n \in 1..MaxAdvanceHours : Start(p, n)
          \/ \E u \in Unit : SaveUnit(p, u)
          \/ \E q \in Policies : SavePolicy(p, q)
    \/ Lapse

Spec == Init /\ [][Next]_vars
-----------------------------------------------------------------------------
TypeOK ==
    /\ db.clock \in Nat /\ db.clock % 2 = 0 /\ db.policy \in Policies
    /\ lease \in Process \cup {None}
    /\ crashes \in 0..MaxCrashes
    /\ \A p \in Process : proc[p].pc \in {"idle", "policy", "units", "clock", "facts", "operations",
                                          "loaded", "simulating", "releasing"}

\* The facts are whole hours up to the clock, one for each ad and hour, and
\* no ad has a gap after its first: also when a lease ran out under an
\* advance, because the clock is compared and swapped with its facts.
TimelineWhole ==
    /\ \A f \in db.facts : f.at <= db.clock
    /\ \A f, g \in db.facts : f.unit = g.unit /\ f.at = g.at => f = g
    /\ \A f \in db.facts : f.at < db.clock =>
          \E g \in db.facts : g.unit = f.unit /\ g.at = f.at + 2

Restored == {"operations", "loaded", "simulating"}

\* A load that is accepted has read clock and facts of one moment, although
\* it reads them in two statements and need not hold the lease.
LoadsAgree ==
    \A p \in Process : proc[p].pc \in Restored /\ proc[p].job # "settings" =>
        proc[p].view.facts \ proc[p].new = {f \in db.facts : f.at <= proc[p].base}

\* What the account spent is what its facts say, day by day.
BooksBalance ==
    LET Spent(facts) == MapThenSumSet(LAMBDA f : f.spend, facts) IN
    /\ db.ops.cash = -Spent(db.facts)
    /\ \A d \in DOMAIN db.ops.billed :
          db.ops.billed[d] = -Spent({f \in db.facts : Day(f.at) = d})

\* Every half-hour since a rule was created it ran exactly once and in order, across
\* advances and crashes.
RulesRunOnce ==
    LET results == db.ops.results IN
    /\ \A r \in DOMAIN db.ops.evaluated : db.ops.evaluated[r] = db.clock
    /\ \A i \in DOMAIN results :
          /\ results[i].at <= db.clock
          /\ results[i].at < db.clock =>
                \E j \in DOMAIN results : /\ i < j /\ results[j].rule = results[i].rule
                                          /\ results[j].at = results[i].at + 1
    /\ \A i, j \in DOMAIN results :
          i < j /\ results[i].rule = results[j].rule => results[i].at < results[j].at

\* No rule leaves a budget that the policy saved now would not allow.
AdvanceKeepsPolicy ==
    db'.clock # db.clock =>
        \A u \in DOMAIN db.units :
            db'.units[u].budget # db.units[u].budget => WithinLimits(db.policy, db'.units[u].budget)
RuleBudgetsWithinPolicy == [][AdvanceKeepsPolicy]_db

\* Time and facts only grow: no commit, however late, takes an hour back.
Grows == db.facts \subseteq db'.facts /\ db.clock <= db'.clock
HistoryGrows == [][Grows]_db

\* Every committed change is one atomic step of the whole environment.
ImplementsHistory == HistorySpec

\* An advance that was simulated can be stored.
AdvancesAreStorable ==
    \A p \in Process : proc[p].pc = "simulating" /\ proc[p].left = 0 => Storable(proc[p].view)
=============================================================================
