--------------------------- MODULE SandboxHistory ---------------------------
(***************************************************************************)
(* What the Sandbox promises: one environment that its users change one    *)
(* after the other.  A clock advance is the simulation of whole hours on   *)
(* the environment as it stands, a write is one entity, an operation adds  *)
(* a rule or a disabled unit, settings replace the budget policy.          *)
(***************************************************************************)
EXTENDS SandboxRules

CONSTANTS Budgets, Policies, Seeded, StartBudget, StartPolicy, MaxAdvanceHours, MaxGeneratedHours

\* The order lists rules, the seed has a policy that can be set, and an advance
\* has a whole number of hours.
HistoryAssumption ==
    /\ RuleOrder \in Seq(Rule)
    /\ StartPolicy \in Policies
    /\ MaxAdvanceHours \in Nat

\* Budgets are amounts of money, and the scenario seeds finitely many units.
AmountAssumption ==
    /\ IsFiniteSet(Seeded)
    /\ Budgets \cup {StartBudget} \cup {RuleSpec[r].amount : r \in Rule} \subseteq Int

VARIABLE db

\* An approved write changes one field of one entity.
Rewrites(e) == {[e EXCEPT !.on = ~@]} \cup {[e EXCEPT !.budget = b] : b \in Budgets \ {e.budget}}
Created == [on |-> FALSE, budget |-> StartBudget]

Seed == [policy |-> StartPolicy, clock |-> 0, facts |-> {},
         units |-> [u \in Seeded |-> [on |-> TRUE, budget |-> StartBudget]],
         ops |-> [evaluated |-> <<>>, results |-> <<>>, cash |-> 0, billed |-> <<>>]]

AddUnit(env, u) == [env EXCEPT !.units = [v \in DOMAIN @ \cup {u} |-> IF v = u THEN Created ELSE @[v]]]
AddRule(env, r) ==
    [env EXCEPT !.ops.evaluated = [s \in DOMAIN @ \cup {r} |-> IF s = r THEN env.clock ELSE @[s]]]

Advance(n) ==
    /\ GeneratedHours(db.facts) + n <= MaxGeneratedHours
    /\ db' = Simulated(db, n)
WriteUnit(u) == u \in DOMAIN db.units /\ \E e \in Rewrites(db.units[u]) : db' = [db EXCEPT !.units[u] = e]
CreateUnit(u) == u \notin DOMAIN db.units /\ db' = AddUnit(db, u)
CreateRule(r) ==
    /\ r \notin DOMAIN db.ops.evaluated
    /\ RuleSpec[r].targets \subseteq DOMAIN db.units
    /\ db' = AddRule(db, r)
SetPolicy(p) == db' = [db EXCEPT !.policy = p]

HistoryInit == db = Seed
HistoryNext ==
    \/ \E n \in 1..MaxAdvanceHours : Advance(n)
    \/ \E u \in Unit : CreateUnit(u) \/ WriteUnit(u)
    \/ \E r \in Rule : CreateRule(r)
    \/ \E p \in Policies : SetPolicy(p)
HistorySpec == HistoryInit /\ [][HistoryNext]_db
=============================================================================
