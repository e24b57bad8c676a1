--------------------------- MODULE SandboxDelivery ---------------------------
(***************************************************************************)
(* What the Sandbox delivers in one hour (internal/sandbox/                *)
(* joint_delivery.go and causal_model.go): all ads of the account compete  *)
(* for the opportunities of each cohort, their impressions are cut down to *)
(* the budgets of ad groups, then of campaigns, then to the prepaid        *)
(* balance, and what is left is booked.                                    *)
(*                                                                         *)
(* Who wins and at what price is a choice; amounts are integers.           *)
(***************************************************************************)
EXTENDS Integers, Sequences, FiniteSets, FiniteSetsExt

CONSTANTS
    Campaign, Group, Ad, Cohort,
    GroupOf, CampaignOf,    \* the hierarchy: ad -> group, group -> campaign
    AdOrder,                \* the ads' IDs, sorted
    Mode,                   \* campaign or group -> "DAY", "TOTAL" or "NONE"
    Targeting,              \* group -> the cohorts its settings match
    Window,                 \* group -> the hours its schedule covers
    Opportunities,          \* of a cohort in an hour
    Samples,                \* auctions that are sampled
    Reachable,              \* users of a cohort
    NewUsers(_, _),         \* of so many impressions, when so many are not reached yet
    Costs, Floor,           \* of an impression
    Budgets, StartBudget, StartBalance,
    LearningThreshold,
    DayHours, MaxHour, MaxEdits, Unlimited

\* A campaign is no group, every ad has one place in the order, amounts and
\* counts are natural numbers, and what has no budget is bounded by nothing.
DeliveryAssumption ==
    /\ IsFiniteSet(Ad) /\ IsFiniteSet(Group) /\ IsFiniteSet(Campaign) /\ IsFiniteSet(Cohort)
    /\ GroupOf \in [Ad -> Group] /\ CampaignOf \in [Group -> Campaign]
    /\ Campaign \cap Group = {} /\ Mode \in [Campaign \cup Group -> {"DAY", "TOTAL", "NONE"}]
    /\ AdOrder \in Seq(Ad)
    /\ \A ad \in Ad : \E i \in DOMAIN AdOrder :
          AdOrder[i] = ad /\ \A j \in DOMAIN AdOrder : AdOrder[j] = ad => j = i
    /\ {Opportunities, Reachable, LearningThreshold, MaxHour} \subseteq Nat
    /\ {Floor, StartBalance, StartBudget, Unlimited} \cup Budgets \subseteq Nat
    /\ {Samples, DayHours} \cup Costs \subseteq Nat \ {0} /\ Floor <= Min(Costs)
    /\ \A b \in Budgets \cup {StartBudget} : Unlimited > StartBalance + b
    /\ \A n, r \in 0..(Opportunities + Reachable) : NewUsers(n, r) \in 0..Min({n, r})

VARIABLES
    hour,       \* hours delivered
    settings,   \* budget of each campaign and group, status of each entity
    ledger,     \* DailySpend and LifetimeSpend
    cohorts,    \* impressions and unique users of each cohort
    learning,   \* of each group: the budget it was learned with, clicks
    balance,
    last,       \* what the last hour delivered
    edits

vars == <<hour, settings, ledger, cohorts, learning, balance, last, edits>>

Shares == INSTANCE SandboxAllocation WITH
              MaxTotal <- 0, MaxCount <- 0, Parties <- 0, total <- 0, counts <- <<>>

Entity == Campaign \cup Group
Day(h) == h \div DayHours
\* The sum of what a function says of the members of a set.
Total(f, set) == MapThenSumSet(LAMBDA x : f[x], set)

-----------------------------------------------------------------------------
DailyBudget(e) == IF Mode[e] = "DAY" THEN settings.budget[e] ELSE Unlimited
DailySpend(day, e) == IF <<day, e>> \in DOMAIN ledger.daily THEN ledger.daily[<<day, e>>] ELSE 0

\* remainingEntityBudget: a lifetime budget counts every day, a daily one this day.
Remaining(e, h) ==
    CASE Mode[e] = "TOTAL" -> Max({0, settings.budget[e] - ledger.lifetime[e]})
      [] Mode[e] = "DAY"   -> Max({0, settings.budget[e] - DailySpend(Day(h), e)})
      [] OTHER             -> Unlimited
RemainingBudget(g, h) == Min({Remaining(g, h), Remaining(CampaignOf[g], h)})

Eligible(ad, c, h) ==
    LET g == GroupOf[ad] IN
    /\ {ad, g, CampaignOf[g]} \subseteq settings.on
    /\ h \in Window[g] /\ c \in Targeting[g]
    /\ RemainingBudget(g, h) > Floor

\* expectedRemainingOpportunities: until midnight, at what can be spent now.
Forecast(g, h) ==
    Opportunities * Cardinality({x \in (h..(DayHours * (Day(h) + 1) - 1)) \X Cohort :
                                    \E ad \in Ad : GroupOf[ad] = g /\ Eligible(ad, x[2], x[1])})

\* pacingProbability is positive: the group's part of what its campaign has
\* left pays for an impression.
Paces(g, h) ==
    LET campaign == CampaignOf[g]
        all == MapThenSumSet(LAMBDA x : Forecast(x, h), {x \in Group : CampaignOf[x] = campaign})
        mine == Forecast(g, h)
        left == Remaining(campaign, h)
    IN  /\ mine > 0
        /\ Remaining(g, h) > Floor
        /\ left = Unlimited \/ left * mine > Floor * all

Candidates(h) == {x \in Ad \X Cohort : Eligible(x[1], x[2], h)}

\* What the sampled auctions can come to: the samples each candidate of a
\* cohort wins; external bidders win the others.
AuctionOutcomes(h) ==
    LET all == Candidates(h)
        pacing == {x \in all : Paces(GroupOf[x[1]], h)}
    IN  {won \in [all -> 0..Samples] :
            /\ \A x \in all \ pacing : won[x] = 0
            /\ \A c \in Cohort : Total(won, {x \in all : x[2] = c}) <= Samples}

\* resolveCohortAuctions: wins scaled to the cohort's opportunities, beside the
\* external bidders'; an ad that does not compete has none.
Desired(won) ==
    LET wins == [c \in Cohort |->
                   [i \in DOMAIN AdOrder |->
                       IF <<AdOrder[i], c>> \in DOMAIN won THEN won[<<AdOrder[i], c>>] ELSE 0]]
        shares == [c \in Cohort |->
                     Shares!ProportionalAllocation(Opportunities,
                         Append(wins[c], Samples - Shares!SumOf(wins[c])), Samples)]
    IN  [x \in DOMAIN won |-> shares[x[2]][CHOOSE i \in DOMAIN AdOrder : AdOrder[i] = x[1]]]

-----------------------------------------------------------------------------
InGroup(set, g) == {x \in set : GroupOf[x[1]] = g}
InCampaign(set, k) == {x \in set : CampaignOf[GroupOf[x[1]]] = k}

\* A mutant: each group may spend what its campaign has left.
ScaledByGroup(h, desired, price) ==
    LET wants == [g \in Group |-> price * Total(desired, InGroup(DOMAIN desired, g))]
    IN  [x \in DOMAIN desired |->
            LET g == GroupOf[x[1]]
                left == RemainingBudget(g, h)
            IN  IF wants[g] <= left THEN desired[x] ELSE (desired[x] * left) \div wants[g]]

\* The fraction of a group's wishes, then of its campaign's, that is granted.
ScaledByBudgets(h, desired, price) ==
    LET groupWants == [g \in Group |-> price * Total(desired, InGroup(DOMAIN desired, g))]
        groupGets == [g \in Group |-> Min({groupWants[g], Remaining(g, h)})]
        wants == [k \in Campaign |-> Total(groupGets, {g \in Group : CampaignOf[g] = k})]
        gets == [k \in Campaign |-> Min({wants[k], Remaining(k, h)})]
    IN  [x \in DOMAIN desired |->
            LET g == GroupOf[x[1]]
                k == CampaignOf[g]
            IN  IF desired[x] = 0 THEN 0
                ELSE (desired[x] * groupGets[g] * gets[k]) \div (groupWants[g] * wants[k])]

\* applyJointBudgetAllocation: a group that wants more than it has left gives
\* every candidate the same fraction, then a campaign does, then the account.
WithinBudgets(h, desired, price) ==
    LET scaled == ScaledByBudgets(h, desired, price)
        bill == price * Total(scaled, DOMAIN scaled)
    IN  IF bill <= balance THEN scaled
        ELSE [x \in DOMAIN scaled |-> (scaled[x] * balance) \div bill]

-----------------------------------------------------------------------------
\* majorRatio of the daily budgets; a missing one is infinite.
MajorChange(before, after) ==
    IF Unlimited \in {before, after} THEN before # after
    ELSE 5 * (IF after > before THEN after - before ELSE before - after) >= before

\* learningFor: a material change since the last hour keeps about a third.
Learned(g) ==
    LET was == learning[g]
        now == DailyBudget(g)
    IN  [budget |-> now,
         clicks |-> IF was.budget # 0 /\ MajorChange(was.budget, now)
                    THEN Min({(was.clicks * 35) \div 100, (LearningThreshold * 45) \div 100})
                    ELSE was.clicks]

\* recordSpend: both ledgers, of the group and its campaign; days before the
\* day before yesterday are dropped.
Book(h, spent) ==
    LET of(e) == Total(spent, InGroup(DOMAIN spent, e) \cup InCampaign(DOMAIN spent, e))
        keys == {<<Day(h), e>> : e \in Entity}
        kept == {x \in DOMAIN ledger.daily : x[1] >= Day(h) - 2}
    IN  [daily |-> [x \in kept \cup keys |->
                       (IF x \in kept THEN ledger.daily[x] ELSE 0) + IF x[1] = Day(h) THEN of(x[2]) ELSE 0],
         lifetime |-> [e \in Entity |-> ledger.lifetime[e] + of(e)]]

\* generateCausalHoursJoint.
Deliver(won, price) ==
    LET h == hour
        shown == WithinBudgets(h, Desired(won), price)
        spent == [x \in DOMAIN shown |-> shown[x] * price]
        seen == [c \in Cohort |-> Total(shown, {x \in DOMAIN shown : x[2] = c})]
    IN
    /\ hour < MaxHour
    /\ hour' = hour + 1
    /\ ledger' = Book(h, spent)
    /\ balance' = balance - Total(spent, DOMAIN spent)
    /\ learning' = [g \in Group |->
                      [Learned(g) EXCEPT !.clicks = @ + Total(shown, InGroup(DOMAIN shown, g))]]
    /\ cohorts' = [c \in Cohort |->
                     [impressions |-> cohorts[c].impressions + seen[c],
                      reached |-> cohorts[c].reached
                                     + NewUsers(seen[c], Reachable - cohorts[c].reached)]]
    /\ last' = [shown |-> shown, settings |-> settings]
    /\ UNCHANGED <<settings, edits>>

\* An approved write, or a rule, between two hours.
SetBudget(e, b) ==
    /\ edits < MaxEdits /\ Mode[e] # "NONE" /\ b # settings.budget[e]
    /\ settings' = [settings EXCEPT !.budget[e] = b]
    /\ edits' = edits + 1
    /\ UNCHANGED <<hour, ledger, cohorts, learning, balance, last>>
SetStatus(e) ==
    /\ edits < MaxEdits
    /\ settings' = [settings EXCEPT !.on = IF e \in @ THEN @ \ {e} ELSE @ \cup {e}]
    /\ edits' = edits + 1
    /\ UNCHANGED <<hour, ledger, cohorts, learning, balance, last>>

Init ==
    /\ hour = 0 /\ edits = 0 /\ balance = StartBalance
    /\ settings = [budget |-> [e \in Entity |-> StartBudget], on |-> Campaign \cup Group \cup Ad]
    /\ ledger = [daily |-> <<>>, lifetime |-> [e \in Entity |-> 0]]
    /\ cohorts = [c \in Cohort |-> [impressions |-> 0, reached |-> 0]]
    /\ learning = [g \in Group |-> [budget |-> 0, clicks |-> 0]]
    /\ last = [shown |-> <<>>, settings |-> settings]

Next ==
    \/ \E won \in AuctionOutcomes(hour), price \in Costs : Deliver(won, price)
    \/ \E e \in Entity, b \in Budgets : SetBudget(e, b)
    \/ \E e \in Entity \cup Ad : SetStatus(e)

Spec == Init /\ [][Next]_vars
-----------------------------------------------------------------------------


\* "Cumulative spend cannot exceed the applicable budget": an hour that spends
\* on a group or a campaign stays within the budget in force, whatever it was
\* before, and whoever shares it.
SpendsWithin ==
    \A e \in Entity : ledger'.lifetime[e] # ledger.lifetime[e] =>
        /\ Mode[e] = "TOTAL" => ledger'.lifetime[e] <= settings.budget[e]
        /\ Mode[e] = "DAY" => ledger'.daily[<<Day(hour), e>>] <= settings.budget[e]
SpendWithinBudget == [][SpendsWithin]_vars

\* The balance is what was paid in less all that was ever delivered, and is
\* never overdrawn although all campaigns share it.
PrepaidOnly ==
    /\ balance >= 0
    /\ StartBalance - balance = Total(ledger.lifetime, Campaign)
    /\ \A k \in Campaign :
          ledger.lifetime[k] = Total(ledger.lifetime, {g \in Group : CampaignOf[g] = k})

\* One opportunity never makes two impressions, and only what could be
\* delivered was.
InventorySoldOnce ==
    /\ \A c \in Cohort : Total(last.shown, {x \in DOMAIN last.shown : x[2] = c}) <= Opportunities
    /\ \A c \in Cohort : cohorts[c].reached <= Min({Reachable, cohorts[c].impressions})

\* What an ad group has learned is lost through a change of its settings only,
\* not by time passing over midnight or by a budget that runs out.
LosesByChange ==
    \A g \in Group : learning'[g].clicks < learning[g].clicks =>
        settings.budget[g] # last.settings.budget[g]
LearningLostByChangeOnly == [][LosesByChange]_vars
=============================================================================
