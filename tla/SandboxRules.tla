---------------------------- MODULE SandboxRules ----------------------------
(***************************************************************************)
(* One virtual hour of the Sandbox (internal/sandbox/simulation.go and     *)
(* rules.go) as functions of a whole environment                           *)
(*                                                                         *)
(*   [policy, units, clock, facts, ops]                                    *)
(*                                                                         *)
(* Time is counted in half-hours: the clock is even, and automated rules   *)
(* run at every half-hour.  A unit is a campaign, its one ad group and its *)
(* one ad; the auction is abstracted to "a unit that is on spends its      *)
(* budget every hour" (SandboxDelivery models what is behind it).          *)
(***************************************************************************)
EXTENDS Integers, Sequences, FiniteSets, FiniteSetsExt, BudgetPolicy

CONSTANTS
    Unit,       \* every unit that ever exists
    RuleOrder,  \* the rules' IDs, sorted
    RuleSpec,   \* rule -> [targets, above, days, action, amount]
    DayLength   \* half-hours of a day

Rule == {RuleOrder[i] : i \in DOMAIN RuleOrder}
Day(t) == t \div DayLength

\* ruleMetrics for SPEND: what the target spent in the window that ends at t.
Observed(env, u, days, t) ==
    MapThenSumSet(LAMBDA f : f.spend,
                  {f \in env.facts : /\ f.unit = u
                                     /\ f.at <= t
                                     /\ Day(f.at) > Day(t) - days
                                     /\ Day(f.at) <= Day(t)})

Matched(env, rule, u, t) == Observed(env, u, rule.days, t) > rule.above

\* The target already is what the rule would make of it.
Satisfied(rule, e) ==
    \/ rule.action = "PAUSE" /\ ~e.on
    \/ rule.action = "CHANGE_BUDGET" /\ e.budget = rule.amount

\* Operator budget limits bound a scheduled change like any other.
Refused(env, rule, e) ==
    rule.action = "CHANGE_BUDGET" /\ ~BudgetAllows(env.policy, e.budget, rule.amount)

Changed(rule, e) ==
    CASE rule.action = "PAUSE" -> [e EXCEPT !.on = FALSE]
      [] rule.action = "CHANGE_BUDGET" -> [e EXCEPT !.budget = rule.amount]
      [] OTHER -> e

\* One rule's turn in evaluateRules.  It runs only after its last evaluation;
\* one refused or missing target makes the result REJECTED, whatever the rest.
EvaluateRule(env, r, t) ==
    LET rule == RuleSpec[r]
        known == rule.targets \cap DOMAIN env.units
        hit == {u \in known : Matched(env, rule, u, t) /\ ~Satisfied(rule, env.units[u])}
        refused == {u \in hit : Refused(env, rule, env.units[u])}
        affected == hit \ refused
        status == IF refused # {} \/ known # rule.targets THEN "REJECTED"
                  ELSE IF affected # {} THEN "SUCCEEDED" ELSE "NO_ACTION"
    IN  IF r \notin DOMAIN env.ops.evaluated \/ t <= env.ops.evaluated[r]
        THEN env
        ELSE [env EXCEPT
                !.units = [u \in DOMAIN @ |-> IF u \in affected THEN Changed(rule, @[u]) ELSE @[u]],
                !.ops.evaluated[r] = t,
                !.ops.results = Append(@, [rule |-> r, at |-> t, status |-> status])]

EvaluateRules(env, t) ==
    LET after[i \in 0..Len(RuleOrder)] ==
            IF i = 0 THEN env ELSE EvaluateRule(after[i - 1], RuleOrder[i], t)
    IN  after[Len(RuleOrder)]

\* generateCausalHoursJoint: one fact for each ad, also for one that is off.
HourFacts(units, hour) ==
    {[unit |-> u, at |-> hour, spend |-> IF units[u].on THEN units[u].budget ELSE 0] :
        u \in DOMAIN units}

\* settleSpend: the balance and the day's one AD_SPEND transaction.
SettleSpend(ops, hour, new) ==
    LET spend == MapThenSumSet(LAMBDA f : f.spend, new)
        day == Day(hour)
        before == IF day \in DOMAIN ops.billed THEN ops.billed[day] ELSE 0
    IN  IF spend = 0 THEN ops
        ELSE [ops EXCEPT !.cash = @ - spend,
                         !.billed = [d \in DOMAIN @ \cup {day} |->
                                        IF d = day THEN before - spend ELSE @[d]]]

\* One iteration of Advance's loop: rules at the half-hour, delivery, the
\* clock, the books, rules at the hour.
HourStep(env) ==
    LET hour == env.clock + 2
        early == EvaluateRules(env, hour - 1)
        new == HourFacts(early.units, hour)
        delivered == [early EXCEPT !.facts = @ \cup new, !.clock = hour,
                                   !.ops = SettleSpend(@, hour, new)]
    IN  EvaluateRules(delivered, hour)

GeneratedHours(facts) == Cardinality({f.at : f \in facts})

\* Advance(hours) as one function, for the abstract specification.
Simulated(env, hours) ==
    LET after[k \in 0..hours] == IF k = 0 THEN env ELSE HourStep(after[k - 1])
    IN  after[hours]
=============================================================================
