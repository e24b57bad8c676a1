-------------------------- MODULE MCLocalDataProofs --------------------------
(***************************************************************************)
(* Each part of the suite MCLocalData has the properties that its run      *)
(* checks, from the proofs about its component: the instance that the run  *)
(* explores is the one those proofs are about, with the same constants.    *)
(***************************************************************************)
EXTENDS MCLocalData, Sequences, TLAPS

\* The components with the constants of the suite, beginning with those of "history", "shared",
\* "allocation", "reports" and "pages".
LH == INSTANCE LocalDataProofs WITH
    Handler <- {p1, p2}, Jobs <- Divided, Unit <- {a}, Seeded <- {a},
    RuleOrder <- <<r1, r2>>, RuleSpec <- Rules, DayLength <- 4,
    Budgets <- {10, 12}, StartBudget <- 10, Policies <- {Loose, Tight}, StartPolicy <- Loose,
    MaxAdvanceHours <- 2, MaxGeneratedHours <- 3, Lifetime <- {}, Slow <- FALSE, MaxCrashes <- 0,
    Texts <- {1, 3, 5}, Rests <- {0, 5}, Limit <- 6, Frame <- 1, PageTurns <- 3, MaxTurns <- 4,
    Later <- {b}, FullDay <- 2, HoursOf <- <<2, 2>>, Delay <- 1,
    Conversions <- {0, 1}, SeedConversions <- 1,
    MaxTotal <- 7, MaxCount <- 4, Parties <- 3,
    Campaign <- {k1}, Group <- {g1, g2}, Ad <- {a, b}, Cohort <- {"young"},
    AdOrder <- <<a, b>>, GroupOf <- (a :> g1) @@ (b :> g2),
    CampaignOf <- (g1 :> k1) @@ (g2 :> k1), Mode <- [e \in {k1, g1, g2} |-> "DAY"],
    Targeting <- [g \in {g1, g2} |-> {"young"}], Window <- [g \in {g1, g2} |-> 0..3],
    Opportunities <- 5, Samples <- 2, Reachable <- 6, NewUsers <- OfSix, Costs <- {2, 3},
    Floor <- 1, Amounts <- {5, 11}, StartAmount <- 11, StartBalance <- 15,
    LearningThreshold <- 4, DayHours <- 2, MaxHour <- 3, MaxEdits <- 1, Unlimited <- 1000

-----------------------------------------------------------------------------
(* The operators of the instances are those that the proofs are about.      *)

LEMMA HistorySame ==
    /\ History!StoreAssumption => LH!Box!StoreAssumption
    /\ History!AmountAssumption => LH!Box!AmountAssumption
    /\ History!Init => LH!Box!Init
    /\ [History!Next]_(History!vars) => [LH!Box!Next]_(LH!Box!vars)
    /\ History!Init => History!HistoryInit
    /\ LH!Box!TypeOK => History!TypeOK
    /\ LH!Box!BooksBalance => History!BooksBalance
    /\ LH!Box!RulesRunOnce => History!RulesRunOnce
    /\ [LH!Box!HistoryNext]_db => [History!HistoryNext]_db
    /\ [LH!Box!AdvanceKeepsPolicy]_db => [History!AdvanceKeepsPolicy]_db
<1>1. \A S : History!Cardinality(S) = LH!Box!Cardinality(S)
  <2>1. \A S : History!IsFiniteSet(S) <=> LH!Box!IsFiniteSet(S)
    BY DEF History!IsFiniteSet, LH!Box!IsFiniteSet
  <2> QED
    BY <2>1 DEF History!Cardinality, LH!Box!Cardinality
<1>2. /\ History!Rule = LH!Box!Rule
      /\ History!Writers = LH!Box!Writers
      /\ History!Seed = LH!Box!Seed
      /\ History!Blank = LH!Box!Blank
      /\ \A p : History!Read(p) = LH!Box!Read(p)
      /\ \A p : History!LoadPolicy(p) = LH!Box!LoadPolicy(p)
  BY DEF History!Rule, History!Writers, History!Seed, History!Blank, History!Read,
     History!LoadPolicy, LH!Box!Rule, LH!Box!Writers, LH!Box!Seed, LH!Box!Blank, LH!Box!Read,
     LH!Box!LoadPolicy
<1>3. /\ \A p : History!LoadUnits(p) = LH!Box!LoadUnits(p)
      /\ \A p : History!LoadClock(p) = LH!Box!LoadClock(p)
      /\ \A view, fs : History!ValidFacts(view, fs) = LH!Box!ValidFacts(view, fs)
      /\ \A p : History!LoadOperations(p) = LH!Box!LoadOperations(p)
      /\ \A t : History!Day(t) = LH!Box!Day(t)
      /\ \A rule, e : History!Satisfied(rule, e) = LH!Box!Satisfied(rule, e)
  BY DEF History!LoadUnits, History!LoadClock, History!ValidFacts, History!LoadOperations,
     History!Day, History!Satisfied, LH!Box!LoadUnits, LH!Box!LoadClock, LH!Box!ValidFacts,
     LH!Box!LoadOperations, LH!Box!Day, LH!Box!Satisfied
<1>4. /\ \A p : History!Configured(p) = LH!Box!Configured(p)
      /\ \A p, v : History!WithinLimits(p, v) = LH!Box!WithinLimits(p, v)
      /\ \A p, u, v : History!WithinDelta(p, u, v) = LH!Box!WithinDelta(p, u, v)
      /\ \A rule, e : History!Changed(rule, e) = LH!Box!Changed(rule, e)
      /\ \A units, h : History!HourFacts(units, h) = LH!Box!HourFacts(units, h)
      /\ \A view : History!Storable(view) = LH!Box!Storable(view)
  BY DEF History!Configured, History!WithinLimits, History!WithinDelta, History!Changed,
     History!HourFacts, History!Storable, LH!Box!Configured, LH!Box!WithinLimits,
     LH!Box!WithinDelta, LH!Box!Changed, LH!Box!HourFacts, LH!Box!Storable
<1>5. /\ \A rows, table : History!Upsert(rows, table) = LH!Box!Upsert(rows, table)
      /\ History!Created = LH!Box!Created
      /\ \A env, r : History!AddRule(env, r) = LH!Box!AddRule(env, r)
      /\ \A p, job : History!Lease(p, job) = LH!Box!Lease(p, job)
      /\ \A e : History!Rewrites(e) = LH!Box!Rewrites(e)
      /\ History!Lapse = LH!Box!Lapse
  BY DEF History!Upsert, History!Created, History!AddRule, History!Lease, History!Rewrites,
     History!Lapse, LH!Box!Upsert, LH!Box!Created, LH!Box!AddRule, LH!Box!Lease, LH!Box!Rewrites,
     LH!Box!Lapse
<1>6. /\ History!vars = LH!Box!vars
      /\ History!TypeOK = LH!Box!TypeOK
      /\ History!RulesRunOnce = LH!Box!RulesRunOnce
      /\ \A p : History!SetPolicy(p) = LH!Box!SetPolicy(p)
  BY DEF History!vars, History!TypeOK, History!RulesRunOnce, History!SetPolicy, LH!Box!vars,
     LH!Box!TypeOK, LH!Box!RulesRunOnce, LH!Box!SetPolicy
<1>7. History!HistoryAssumption = LH!Box!HistoryAssumption
  BY <1>2 DEF History!HistoryAssumption, LH!Box!HistoryAssumption
<1>8. History!StoreAssumption = LH!Box!StoreAssumption
  BY <1>2, <1>7 DEF History!StoreAssumption, LH!Box!StoreAssumption
<1>9. History!AmountAssumption = LH!Box!AmountAssumption
  BY DEF History!Rule, History!AmountAssumption, History!IsFiniteSet, LH!Box!Rule,
     LH!Box!AmountAssumption, LH!Box!IsFiniteSet
<1>10. History!HistoryInit = LH!Box!HistoryInit
  BY ZenonT(60), <1>2 DEF History!HistoryInit, LH!Box!HistoryInit
<1>11. History!Idle = LH!Box!Idle
  BY <1>2 DEF History!Idle, LH!Box!Idle
<1>12. History!Init = LH!Box!Init
  BY <1>10, <1>11 DEF History!Init, LH!Box!Init
<1>13. \A p : History!Leave(p) = LH!Box!Leave(p)
  BY <1>11 DEF History!Leave, LH!Box!Leave
<1>14. \A p : History!LoadFacts(p) = LH!Box!LoadFacts(p)
  BY <1>3, <1>13 DEF History!LoadFacts, LH!Box!LoadFacts
<1>15. \A p : History!Answer(p) = LH!Box!Answer(p)
  BY <1>13 DEF History!Answer, LH!Box!Answer
<1>16. \A env, u, days, t : History!Observed(env, u, days, t) = LH!Box!Observed(env, u, days, t)
  BY DEF History!Day, History!Observed, History!MapThenSumSet, History!MapThenFoldSet, LH!Box!Day,
     LH!Box!Observed, LH!Box!MapThenSumSet, LH!Box!MapThenFoldSet
<1>17. \A env, rule, u, t : History!Matched(env, rule, u, t) = LH!Box!Matched(env, rule, u, t)
  BY ZenonT(60), <1>16 DEF History!Matched, LH!Box!Matched
<1>18. \A p, u, v : History!BudgetAllows(p, u, v) = LH!Box!BudgetAllows(p, u, v)
  BY ZenonT(60), <1>4 DEF History!BudgetAllows, LH!Box!BudgetAllows
<1>19. \A env, rule, e : History!Refused(env, rule, e) = LH!Box!Refused(env, rule, e)
  BY ZenonT(60), <1>18 DEF History!Refused, LH!Box!Refused
<1>20. \A env, r, t : History!EvaluateRule(env, r, t) = LH!Box!EvaluateRule(env, r, t)
  <2>1. \A rule, e : History!Satisfied(rule, e) = LH!Box!Satisfied(rule, e)
    BY ZenonT(60) DEF History!Satisfied, LH!Box!Satisfied
  <2>2. \A rule, e : History!Changed(rule, e) = LH!Box!Changed(rule, e)
    BY ZenonT(60) DEF History!Changed, LH!Box!Changed
  <2> TAKE env, r, t
  <2> DEFINE rule == Rules[r]
             known == rule.targets \intersect DOMAIN env.units
             hit == {u \in known : /\ History!Matched(env, rule, u, t)
                                   /\ ~History!Satisfied(rule, env.units[u])}
             there == {u \in known : /\ LH!Box!Matched(env, rule, u, t)
                                     /\ ~LH!Box!Satisfied(rule, env.units[u])}
             Refused(S) == {u \in S : History!Refused(env, rule, env.units[u])}
             Barred(S) == {u \in S : LH!Box!Refused(env, rule, env.units[u])}
             Units(S) == [u \in DOMAIN env.units |->
                            IF u \in S THEN History!Changed(rule, env.units[u]) ELSE env.units[u]]
             Others(S) == [u \in DOMAIN env.units |->
                            IF u \in S THEN LH!Box!Changed(rule, env.units[u]) ELSE env.units[u]]
             Ran(S, T, us) ==
                IF r \notin DOMAIN env.ops.evaluated \/ t <= env.ops.evaluated[r]
                THEN env
                ELSE [env EXCEPT
                        !.units = us,
                        !.ops.evaluated[r] = t,
                        !.ops.results = Append(@, [rule |-> r, at |-> t,
                            status |-> IF T # {} \/ known # rule.targets THEN "REJECTED"
                                       ELSE IF S \ T # {} THEN "SUCCEEDED" ELSE "NO_ACTION"])]
  <2>3. hit = there
    BY ZenonT(60), <1>17, <2>1
  <2>4. \A S : Refused(S) = Barred(S)
    BY ZenonT(60), <1>19
  <2>5. \A S : Units(S) = Others(S)
    BY ZenonT(60), <2>2
  <2>6. History!EvaluateRule(env, r, t) = Ran(hit, Refused(hit), Units(hit \ Refused(hit)))
    BY ZenonT(60) DEF History!EvaluateRule
  <2>7. LH!Box!EvaluateRule(env, r, t) = Ran(there, Barred(there), Others(there \ Barred(there)))
    BY ZenonT(60) DEF LH!Box!EvaluateRule
  <2> HIDE DEF hit, there, Refused, Barred, Units, Others, Ran
  <2> QED
    BY ZenonT(60), <2>3, <2>4, <2>5, <2>6, <2>7
<1>21. \A env, t : History!EvaluateRules(env, t) = LH!Box!EvaluateRules(env, t)
  BY Zenon, <1>20 DEF History!EvaluateRules, LH!Box!EvaluateRules
<1>22. \A ops, h, new : History!SettleSpend(ops, h, new) = LH!Box!SettleSpend(ops, h, new)
  BY DEF History!Day, History!SettleSpend, History!MapThenSumSet, History!MapThenFoldSet,
     LH!Box!Day, LH!Box!SettleSpend, LH!Box!MapThenSumSet, LH!Box!MapThenFoldSet
<1>23. \A env : History!HourStep(env) = LH!Box!HourStep(env)
  BY ZenonT(60), <1>4, <1>21, <1>22 DEF History!HourStep, LH!Box!HourStep
<1>24. \A p : History!SimulateHour(p) = LH!Box!SimulateHour(p)
  BY Zenon, <1>23 DEF History!SimulateHour, LH!Box!SimulateHour
<1>25. \A p : History!CommitAdvance(p) = LH!Box!CommitAdvance(p)
  BY Zenon, <1>4, <1>5, <1>13 DEF History!CommitAdvance, LH!Box!CommitAdvance
<1>26. \A env, u : History!AddUnit(env, u) = LH!Box!AddUnit(env, u)
  BY ZenonT(60), <1>5 DEF History!AddUnit, LH!Box!AddUnit
<1>27. \A p : History!SaveOperation(p) = LH!Box!SaveOperation(p)
  BY ZenonT(60), <1>2, <1>5, <1>13, <1>26 DEF History!SaveOperation, LH!Box!SaveOperation
<1>28. \A p : History!Refuse(p) = LH!Box!Refuse(p)
  BY ZenonT(60), <1>13 DEF History!Refuse, LH!Box!Refuse
<1>29. \A p : History!Release(p) = LH!Box!Release(p)
  BY <1>11 DEF History!Release, LH!Box!Release
<1>30. \A p : History!Crash(p) = LH!Box!Crash(p)
  BY ZenonT(60), <1>11 DEF History!Crash, LH!Box!Crash
<1>31. \A fs : History!GeneratedHours(fs) = LH!Box!GeneratedHours(fs)
  BY ZenonT(60), <1>1 DEF History!GeneratedHours, LH!Box!GeneratedHours
<1>32. \A p, hours : History!Start(p, hours) = LH!Box!Start(p, hours)
  BY ZenonT(60), <1>31 DEF History!Start, LH!Box!Start
<1>33. \A p, u : History!SaveUnit(p, u) = LH!Box!SaveUnit(p, u)
  BY <1>5, <1>13 DEF History!SaveUnit, LH!Box!SaveUnit
<1>34. \A p, q : History!SavePolicy(p, q) = LH!Box!SavePolicy(p, q)
  BY ZenonT(60), <1>13 DEF History!SavePolicy, LH!Box!SavePolicy
<1>35. History!Next = LH!Box!Next
  BY <1>2, <1>3, <1>5, <1>14, <1>15, <1>24, <1>25, <1>27, <1>28, <1>29, <1>30, <1>32, <1>33,
     <1>34 DEF History!Next, LH!Box!Next
<1>36. History!BooksBalance = LH!Box!BooksBalance
  BY DEF History!Day, History!BooksBalance, History!MapThenSumSet, History!MapThenFoldSet,
     LH!Box!Day, LH!Box!BooksBalance, LH!Box!MapThenSumSet, LH!Box!MapThenFoldSet
<1>37. \A env, hours : History!Simulated(env, hours) = LH!Box!Simulated(env, hours)
  BY Zenon, <1>23 DEF History!Simulated, LH!Box!Simulated
<1>38. \A n : History!Advance(n) = LH!Box!Advance(n)
  BY <1>31, <1>37 DEF History!Advance, LH!Box!Advance
<1>39. \A u : History!CreateUnit(u) = LH!Box!CreateUnit(u)
  BY <1>26 DEF History!CreateUnit, LH!Box!CreateUnit
<1>40. \A u : History!WriteUnit(u) = LH!Box!WriteUnit(u)
  BY <1>5 DEF History!WriteUnit, LH!Box!WriteUnit
<1>41. \A r : History!CreateRule(r) = LH!Box!CreateRule(r)
  BY <1>5 DEF History!CreateRule, LH!Box!CreateRule
<1>42. History!HistoryNext = LH!Box!HistoryNext
  BY <1>2, <1>6, <1>38, <1>39, <1>40, <1>41 DEF History!HistoryNext, LH!Box!HistoryNext
<1>43. History!AdvanceKeepsPolicy = LH!Box!AdvanceKeepsPolicy
  BY <1>4 DEF History!AdvanceKeepsPolicy, LH!Box!AdvanceKeepsPolicy
<1>44. History!Init => History!HistoryInit
  BY DEF History!Init
<1> QED
  BY <1>6, <1>8, <1>9, <1>10, <1>12, <1>35, <1>36, <1>42, <1>43, <1>44 DEF History!vars,
     LH!Box!vars

LEMMA SharedSame ==
    /\ Shared!DeliveryAssumption => LH!Market!DeliveryAssumption
    /\ Shared!Init => LH!Market!Init
    /\ [Shared!Next]_(Shared!vars) => [LH!Market!Next]_(LH!Market!vars)
    /\ LH!Market!PrepaidOnly => Shared!PrepaidOnly
    /\ LH!Market!InventorySoldOnce => Shared!InventorySoldOnce
    /\ LH!Market!SpendsWithin => Shared!SpendsWithin
    /\ LH!Market!LosesByChange => Shared!LosesByChange
<1>1. \A S : Shared!Cardinality(S) = LH!Market!Cardinality(S)
  <2>1. \A S : Shared!IsFiniteSet(S) <=> LH!Market!IsFiniteSet(S)
    BY DEF Shared!IsFiniteSet, LH!Market!IsFiniteSet
  <2> QED
    BY <2>1 DEF Shared!Cardinality, LH!Market!Cardinality
<1>2. \A s, w, d : Shared!Shares!ProportionalAllocation(s, w, d)
                  = LH!Market!Shares!ProportionalAllocation(s, w, d)
  BY DEF Shared!Shares!ProportionalAllocation, Shared!Shares!SumOf, Shared!Shares!FoldLeft,
     Shared!Shares!MapThenFoldSet, Shared!Shares!Max, Shared!Shares!Cardinality,
     LH!Market!Shares!ProportionalAllocation, LH!Market!Shares!SumOf, LH!Market!Shares!FoldLeft,
     LH!Market!Shares!MapThenFoldSet, LH!Market!Shares!Max, LH!Market!Shares!Cardinality
<1>3. \A s : Shared!Shares!SumOf(s) = LH!Market!Shares!SumOf(s)
  BY DEF Shared!Shares!SumOf, Shared!Shares!FoldLeft, Shared!Shares!MapThenFoldSet,
     Shared!Shares!Max, LH!Market!Shares!SumOf, LH!Market!Shares!FoldLeft,
     LH!Market!Shares!MapThenFoldSet, LH!Market!Shares!Max
<1>4. /\ Shared!Entity = LH!Market!Entity
      /\ \A day, e : Shared!DailySpend(day, e) = LH!Market!DailySpend(day, e)
      /\ \A h : Shared!Day(h) = LH!Market!Day(h)
      /\ \A set, g : Shared!InGroup(set, g) = LH!Market!InGroup(set, g)
      /\ \A set, k : Shared!InCampaign(set, k) = LH!Market!InCampaign(set, k)
      /\ \A e : Shared!DailyBudget(e) = LH!Market!DailyBudget(e)
  BY DEF Shared!Entity, Shared!DailySpend, Shared!Day, Shared!InGroup, Shared!InCampaign,
     Shared!DailyBudget, LH!Market!Entity, LH!Market!DailySpend, LH!Market!Day, LH!Market!InGroup,
     LH!Market!InCampaign, LH!Market!DailyBudget
<1>5. /\ \A was, after : Shared!MajorChange(was, after) = LH!Market!MajorChange(was, after)
      /\ \A e, u : Shared!SetBudget(e, u) = LH!Market!SetBudget(e, u)
      /\ \A e : Shared!SetStatus(e) = LH!Market!SetStatus(e)
      /\ Shared!vars = LH!Market!vars
      /\ Shared!LosesByChange = LH!Market!LosesByChange
  BY ZenonT(60) DEF Shared!MajorChange, Shared!SetBudget, Shared!SetStatus, Shared!vars,
     Shared!LosesByChange,
     LH!Market!MajorChange, LH!Market!SetBudget, LH!Market!SetStatus, LH!Market!vars,
     LH!Market!LosesByChange
<1>6. Shared!DeliveryAssumption = LH!Market!DeliveryAssumption
  BY ZenonT(60) DEF Shared!DeliveryAssumption, Shared!Min, Shared!IsFiniteSet,
     LH!Market!DeliveryAssumption,
     LH!Market!Min, LH!Market!IsFiniteSet
<1>7. Shared!Init = LH!Market!Init
  BY <1>4 DEF Shared!Init, LH!Market!Init
<1>8. \A e, h : Shared!Remaining(e, h) = LH!Market!Remaining(e, h)
  <2>1. \A S : Shared!Max(S) = LH!Market!Max(S)
    BY ZenonT(60) DEF Shared!Max, LH!Market!Max
  <2> QED
    BY ZenonT(60), <1>4, <2>1 DEF Shared!Remaining, LH!Market!Remaining
<1>9. \A g, h : Shared!RemainingBudget(g, h) = LH!Market!RemainingBudget(g, h)
  BY <1>8 DEF Shared!RemainingBudget, Shared!Min, LH!Market!RemainingBudget, LH!Market!Min
<1>10. \A ad, c, h : Shared!Eligible(ad, c, h) = LH!Market!Eligible(ad, c, h)
  BY <1>9 DEF Shared!Eligible, LH!Market!Eligible
<1>11. \A h : Shared!Candidates(h) = LH!Market!Candidates(h)
  BY <1>10 DEF Shared!Candidates, LH!Market!Candidates
<1>12. \A g, h : Shared!Forecast(g, h) = LH!Market!Forecast(g, h)
  BY <1>1, <1>4, <1>10 DEF Shared!Forecast, LH!Market!Forecast
<1>13. \A g, h : Shared!Paces(g, h) = LH!Market!Paces(g, h)
  <2> TAKE g, h
  <2> DEFINE campaign == ((g1 :> k1) @@ (g2 :> k1))[g]
             S == {x \in {g1, g2} : ((g1 :> k1) @@ (g2 :> k1))[x] = campaign}
             here == Shared!MapThenSumSet(LAMBDA x : Shared!Forecast(x, h), S)
             there == LH!Market!MapThenSumSet(LAMBDA x : LH!Market!Forecast(x, h), S)
  <2>1. here = there
    BY ZenonT(60), <1>12 DEF Shared!MapThenSumSet, Shared!MapThenFoldSet, LH!Market!MapThenSumSet,
              LH!Market!MapThenFoldSet
  <2>2. Shared!Paces(g, h) =
           (/\ Shared!Forecast(g, h) > 0 /\ Shared!Remaining(g, h) > 1
            /\ \/ Shared!Remaining(campaign, h) = 1000
               \/ Shared!Remaining(campaign, h) * Shared!Forecast(g, h) > 1 * here)
    BY DEF Shared!Paces
  <2>3. LH!Market!Paces(g, h) =
           (/\ LH!Market!Forecast(g, h) > 0 /\ LH!Market!Remaining(g, h) > 1
            /\ \/ LH!Market!Remaining(campaign, h) = 1000
               \/ LH!Market!Remaining(campaign, h) * LH!Market!Forecast(g, h) > 1 * there)
    BY DEF LH!Market!Paces
  <2>4. /\ Shared!Forecast(g, h) = LH!Market!Forecast(g, h)
        /\ Shared!Remaining(g, h) = LH!Market!Remaining(g, h)
        /\ Shared!Remaining(campaign, h) = LH!Market!Remaining(campaign, h)
    BY <1>12, <1>8
  <2> HIDE DEF campaign, here, there
  <2> QED
    BY <2>1, <2>2, <2>3, <2>4
<1>14. \A f, set : Shared!Total(f, set) = LH!Market!Total(f, set)
  BY DEF Shared!Total, Shared!MapThenSumSet, Shared!MapThenFoldSet, LH!Market!Total,
     LH!Market!MapThenSumSet, LH!Market!MapThenFoldSet
<1>15. \A h : Shared!AuctionOutcomes(h) = LH!Market!AuctionOutcomes(h)
  BY <1>11, <1>13, <1>14 DEF Shared!AuctionOutcomes, LH!Market!AuctionOutcomes
<1>16. \A h, desired, price :
          Shared!ScaledByBudgets(h, desired, price) = LH!Market!ScaledByBudgets(h, desired, price)
  <2> TAKE h, desired, price
  <2> DEFINE Wants == [g \in {g1, g2} |-> price * Shared!Total(desired, Shared!InGroup(DOMAIN desired, g))]
             Gets(w) == [g \in {g1, g2} |-> Shared!Min({w[g], Shared!Remaining(g, h)})]
             Sums(w) == [k \in {k1} |->
                            Shared!Total(w, {g \in {g1, g2} : ((g1 :> k1) @@ (g2 :> k1))[g] = k})]
             Takes(w) == [k \in {k1} |-> Shared!Min({w[k], Shared!Remaining(k, h)})]
             Wanted == [g \in {g1, g2} |-> price * LH!Market!Total(desired, LH!Market!InGroup(DOMAIN desired, g))]
             Got(w) == [g \in {g1, g2} |-> LH!Market!Min({w[g], LH!Market!Remaining(g, h)})]
             Summed(w) == [k \in {k1} |->
                            LH!Market!Total(w, {g \in {g1,
                            g2} : ((g1 :> k1) @@ (g2 :> k1))[g] = k})]
             Taken(w) == [k \in {k1} |-> LH!Market!Min({w[k], LH!Market!Remaining(k, h)})]
             Group(x) == ((a :> g1) @@ (b :> g2))[x[1]]
             Camp(x) == ((g1 :> k1) @@ (g2 :> k1))[Group(x)]
             Scaled(w, v, u, z) ==
                [x \in DOMAIN desired |->
                   IF desired[x] = 0 THEN 0
                   ELSE (desired[x] * v[Group(x)] * z[Camp(x)]) \div (w[Group(x)] * u[Camp(x)])]
  <2>0. \A S : Shared!Min(S) = LH!Market!Min(S)
    BY ZenonT(60) DEF Shared!Min, LH!Market!Min
  <2>1. Wants = Wanted
    BY SMTT(60), <1>4, <1>14
  <2>2. \A w : Gets(w) = Got(w)
    BY SMTT(60), <1>8, <2>0
  <2>3. \A w : Sums(w) = Summed(w)
    BY SMTT(60), <1>14
  <2>4. \A w : Takes(w) = Taken(w)
    BY SMTT(60), <1>8, <2>0
  <2>5. Shared!ScaledByBudgets(h, desired, price)
        = Scaled(Wants, Gets(Wants), Sums(Gets(Wants)), Takes(Sums(Gets(Wants))))
    BY ZenonT(60) DEF Shared!ScaledByBudgets
  <2>6. LH!Market!ScaledByBudgets(h, desired, price)
        = Scaled(Wanted, Got(Wanted), Summed(Got(Wanted)), Taken(Summed(Got(Wanted))))
    BY ZenonT(60) DEF LH!Market!ScaledByBudgets
  <2> HIDE DEF Wants, Gets, Sums, Takes, Wanted, Got, Summed, Taken, Scaled
  <2> QED
    BY ZenonT(60), <2>1, <2>2, <2>3, <2>4, <2>5, <2>6
<1>17. \A h, desired, price :
          Shared!WithinBudgets(h, desired, price) = LH!Market!WithinBudgets(h, desired, price)
  BY <1>14, <1>16 DEF Shared!WithinBudgets, LH!Market!WithinBudgets
<1>18. \A won : Shared!Desired(won) = LH!Market!Desired(won)
  <2> TAKE won
  <2> DEFINE wins == [c \in {"young"} |->
                        [i \in DOMAIN <<a, b>> |->
                            IF <<<<a, b>>[i], c>> \in DOMAIN won THEN won[<<<<a, b>>[i],
                            c>>] ELSE 0]]
             ours == [c \in {"young"} |->
                        Shared!Shares!ProportionalAllocation(5,
                            Append(wins[c], 2 - Shared!Shares!SumOf(wins[c])), 2)]
             theirs == [c \in {"young"} |->
                        LH!Market!Shares!ProportionalAllocation(5,
                            Append(wins[c], 2 - LH!Market!Shares!SumOf(wins[c])), 2)]
             Wins(s) == [x \in DOMAIN won |-> s[x[2]][CHOOSE i \in DOMAIN <<a, b>> : <<a, b>>[i] = x[1]]]
  <2>1. ours = theirs
    BY SMTT(60), <1>2, <1>3
  <2>2. Shared!Desired(won) = Wins(ours)
    BY ZenonT(60) DEF Shared!Desired
  <2>3. LH!Market!Desired(won) = Wins(theirs)
    BY ZenonT(60) DEF LH!Market!Desired
  <2> HIDE DEF wins, ours, theirs, Wins
  <2> QED
    BY ZenonT(60), <2>1, <2>2, <2>3
<1>19. \A h, spent : Shared!Book(h, spent) = LH!Market!Book(h, spent)
  BY DEF Shared!Entity, Shared!Day, Shared!Total, Shared!InGroup, Shared!InCampaign, Shared!Book,
     Shared!MapThenSumSet, Shared!MapThenFoldSet, LH!Market!Entity, LH!Market!Day, LH!Market!Total,
     LH!Market!InGroup, LH!Market!InCampaign, LH!Market!Book, LH!Market!MapThenSumSet,
     LH!Market!MapThenFoldSet
<1>20. \A g : Shared!Learned(g) = LH!Market!Learned(g)
  <2>1. \A S : Shared!Min(S) = LH!Market!Min(S)
    BY ZenonT(60) DEF Shared!Min, LH!Market!Min
  <2> QED
    BY ZenonT(60), <1>4, <1>5, <2>1 DEF Shared!Learned, LH!Market!Learned
<1>21. \A won, price : Shared!Deliver(won, price) = LH!Market!Deliver(won, price)
  <2> TAKE won, price
  <2> DEFINE v == Shared!WithinBudgets(hour, Shared!Desired(won), price)
             D == DOMAIN v
  <2>1. LH!Market!WithinBudgets(hour, LH!Market!Desired(won), price) = v
    BY <1>17, <1>18
  <2> HIDE DEF v
  <2>2. [g \in {g1, g2} |-> [Shared!Learned(g) EXCEPT
                               !.clicks = @ + Shared!Total(v, Shared!InGroup(D, g))]]
        = [g \in {g1, g2} |-> [LH!Market!Learned(g) EXCEPT
                               !.clicks = @ + LH!Market!Total(v, LH!Market!InGroup(D, g))]]
    BY <1>20, <1>14, <1>4
  <2>3. [c \in {"young"} |-> Shared!Total(v, {x \in D : x[2] = c})]
        = [c \in {"young"} |-> LH!Market!Total(v, {x \in D : x[2] = c})]
    BY ZenonT(60), <1>14
  <2>4. \A w : /\ Shared!Book(hour, w) = LH!Market!Book(hour, w)
               /\ \A S : Shared!Total(w, S) = LH!Market!Total(w, S)
    BY <1>19, <1>14
  <2> QED
    BY <2>1, <2>2, <2>3, <2>4 DEF Shared!Deliver, LH!Market!Deliver, v
<1>22. Shared!Next = LH!Market!Next
  BY <1>4, <1>5, <1>15, <1>21 DEF Shared!Next, LH!Market!Next
<1>23. Shared!PrepaidOnly = LH!Market!PrepaidOnly
  BY <1>14 DEF Shared!PrepaidOnly, LH!Market!PrepaidOnly
<1>24. Shared!InventorySoldOnce = LH!Market!InventorySoldOnce
  BY ZenonT(60), <1>14 DEF Shared!InventorySoldOnce, Shared!Min, LH!Market!InventorySoldOnce,
     LH!Market!Min
<1>25. Shared!SpendsWithin = LH!Market!SpendsWithin
  BY <1>4 DEF Shared!SpendsWithin, LH!Market!SpendsWithin
<1> QED
  BY <1>5, <1>6, <1>7, <1>22, <1>23, <1>24, <1>25 DEF Shared!vars, LH!Market!vars

LEMMA AllocationSame ==
    /\ Allocation!PartiesAssumption => LH!Split!PartiesAssumption
    /\ Allocation!Init => LH!Split!Init
    /\ [Allocation!Next]_allocated => [LH!Split!Next]_allocated
    /\ LH!Split!NothingLostOrInvented => Allocation!NothingLostOrInvented
    /\ LH!Split!PartsWithinParts => Allocation!PartsWithinParts
    /\ LH!Split!MoreWinsMore => Allocation!MoreWinsMore
<1>1. \A s, w, d : Allocation!ProportionalAllocation(s, w, d)
                  = LH!Split!ProportionalAllocation(s, w, d)
  BY DEF Allocation!ProportionalAllocation, Allocation!SumOf, Allocation!FoldLeft,
     Allocation!MapThenFoldSet, Allocation!Max, Allocation!Cardinality,
     LH!Split!ProportionalAllocation, LH!Split!SumOf, LH!Split!FoldLeft, LH!Split!MapThenFoldSet,
     LH!Split!Max, LH!Split!Cardinality
<1>2. \A s : Allocation!SumOf(s) = LH!Split!SumOf(s)
  BY DEF Allocation!SumOf, Allocation!FoldLeft, Allocation!MapThenFoldSet, Allocation!Max,
     LH!Split!SumOf, LH!Split!FoldLeft, LH!Split!MapThenFoldSet, LH!Split!Max
<1>3. /\ Allocation!PartiesAssumption = LH!Split!PartiesAssumption
      /\ Allocation!Init = LH!Split!Init
      /\ Allocation!AddTotal = LH!Split!AddTotal
      /\ \A i : Allocation!AddWin(i) = LH!Split!AddWin(i)
  BY DEF Allocation!PartiesAssumption, Allocation!Init, Allocation!AddTotal, Allocation!AddWin,
     LH!Split!PartiesAssumption, LH!Split!Init, LH!Split!AddTotal, LH!Split!AddWin
<1>4. Allocation!Next = LH!Split!Next
  BY <1>3 DEF Allocation!Next, LH!Split!Next
<1>5. Allocation!Won = LH!Split!Won
  BY <1>2 DEF Allocation!Won, LH!Split!Won
<1>6. Allocation!Shares = LH!Split!Shares
  BY <1>1, <1>5 DEF Allocation!Shares, LH!Split!Shares
<1>7. Allocation!NothingLostOrInvented = LH!Split!NothingLostOrInvented
  BY <1>2, <1>5, <1>6 DEF Allocation!NothingLostOrInvented, LH!Split!NothingLostOrInvented
<1>8. Allocation!PartsWithinParts = LH!Split!PartsWithinParts
  BY <1>5, <1>6 DEF Allocation!PartsWithinParts, LH!Split!PartsWithinParts
<1>9. Allocation!MoreWinsMore = LH!Split!MoreWinsMore
  BY <1>6 DEF Allocation!MoreWinsMore, LH!Split!MoreWinsMore
<1> QED
  BY <1>3, <1>4, <1>7, <1>8, <1>9

LEMMA ReportsSame ==
    /\ Reports!ReportAssumption => LH!Reports!ReportAssumption
    /\ Reports!OrdinaryDays => LH!Reports!OrdinaryDays
    /\ Reports!Init => LH!Reports!Init
    /\ [Reports!Next]_(Reports!vars) => [LH!Reports!Next]_(LH!Reports!vars)
    /\ LH!Reports!CompleteReportIsFinal => Reports!CompleteReportIsFinal
    /\ LH!Reports!CompleteSpendIsFinal => Reports!CompleteSpendIsFinal
    /\ LH!Reports!ContributionsExplainDelta => Reports!ContributionsExplainDelta
<1>1. \A S : Reports!Cardinality(S) = LH!Reports!Cardinality(S)
  <2>1. \A S : Reports!IsFiniteSet(S) <=> LH!Reports!IsFiniteSet(S)
    BY DEF Reports!IsFiniteSet, LH!Reports!IsFiniteSet
  <2> QED
    BY <2>1 DEF Reports!Cardinality, LH!Reports!Cardinality
<1>2. /\ Reports!OrdinaryDays = LH!Reports!OrdinaryDays
      /\ Reports!Init = LH!Reports!Init
      /\ Reports!Tomorrow = LH!Reports!Tomorrow
      /\ \A ad : Reports!CreateAd(ad) = LH!Reports!CreateAd(ad)
      /\ Reports!Days = LH!Reports!Days
      /\ \A q, day : Reports!In(q, day) = LH!Reports!In(q, day)
  BY DEF Reports!OrdinaryDays, Reports!Init, Reports!Tomorrow, Reports!CreateAd, Reports!Days,
     Reports!In, LH!Reports!OrdinaryDays, LH!Reports!Init, LH!Reports!Tomorrow, LH!Reports!CreateAd,
     LH!Reports!Days, LH!Reports!In
<1>3. /\ \A f : Reports!Hidden(f) = LH!Reports!Hidden(f)
      /\ \A f : Reports!Visible(f) = LH!Reports!Visible(f)
      /\ Reports!vars = LH!Reports!vars
      /\ \A p, c : Reports!Comparable(p, c) = LH!Reports!Comparable(p, c)
      /\ \A p, c : Reports!Contributors(p, c) = LH!Reports!Contributors(p, c)
  BY DEF Reports!Hidden, Reports!Visible, Reports!vars, Reports!Comparable, Reports!Contributors,
     LH!Reports!Hidden, LH!Reports!Visible, LH!Reports!vars, LH!Reports!Comparable,
     LH!Reports!Contributors
<1>4. Reports!ReportAssumption = LH!Reports!ReportAssumption
  BY DEF Reports!ReportAssumption, Reports!IsFiniteSet, LH!Reports!ReportAssumption,
     LH!Reports!IsFiniteSet
<1>5. \A converted : Reports!Hour(converted) = LH!Reports!Hour(converted)
  BY <1>2 DEF Reports!Hour, LH!Reports!Hour
<1>6. Reports!Query = LH!Reports!Query
  BY <1>2 DEF Reports!Query, LH!Reports!Query
<1>7. \A ad, day : Reports!Covered(ad, day) = LH!Reports!Covered(ad, day)
  BY <1>1 DEF Reports!Covered, LH!Reports!Covered
<1>8. \A q : Reports!Complete(q) = LH!Reports!Complete(q)
  BY <1>7 DEF Reports!Complete, LH!Reports!Complete
<1>9. \A q : Reports!BackfillPending(q) = LH!Reports!BackfillPending(q)
  BY <1>2, <1>3 DEF Reports!BackfillPending, LH!Reports!BackfillPending
<1>10. \A q : Reports!Rows(q) = LH!Reports!Rows(q)
  BY DEF Reports!Visible, Reports!Rows, Reports!MapThenSumSet, Reports!MapThenFoldSet,
     Reports!Cardinality, LH!Reports!Visible, LH!Reports!Rows, LH!Reports!MapThenSumSet,
     LH!Reports!MapThenFoldSet, LH!Reports!Cardinality
<1>11. \A q : Reports!Report(q) = LH!Reports!Report(q)
  BY <1>8, <1>9, <1>10 DEF Reports!Report, LH!Reports!Report
<1>12. \A q : Reports!Ask(q) = LH!Reports!Ask(q)
  BY <1>11 DEF Reports!Ask, LH!Reports!Ask
<1>13. Reports!Next = LH!Reports!Next
  BY <1>2, <1>5, <1>6, <1>12 DEF Reports!Next, LH!Reports!Next
<1>14. Reports!CompleteReportIsFinal = LH!Reports!CompleteReportIsFinal
  BY DEF Reports!Visible, Reports!Rows, Reports!CompleteReportIsFinal, Reports!MapThenSumSet,
     Reports!MapThenFoldSet, Reports!Cardinality, LH!Reports!Visible, LH!Reports!Rows,
     LH!Reports!CompleteReportIsFinal, LH!Reports!MapThenSumSet, LH!Reports!MapThenFoldSet,
     LH!Reports!Cardinality
<1>15. Reports!CompleteSpendIsFinal = LH!Reports!CompleteSpendIsFinal
  BY DEF Reports!Visible, Reports!Rows, Reports!CompleteSpendIsFinal, Reports!MapThenSumSet,
     Reports!MapThenFoldSet, Reports!Cardinality, LH!Reports!Visible, LH!Reports!Rows,
     LH!Reports!CompleteSpendIsFinal, LH!Reports!MapThenSumSet, LH!Reports!MapThenFoldSet,
     LH!Reports!Cardinality
<1>16. \A rows, ad, metric :
          Reports!EntitySum(rows, ad, metric) = LH!Reports!EntitySum(rows, ad, metric)
  BY DEF Reports!EntitySum, Reports!MapThenSumSet, Reports!MapThenFoldSet, LH!Reports!EntitySum,
     LH!Reports!MapThenSumSet, LH!Reports!MapThenFoldSet
<1>17. \A rows, metric : Reports!Sum(rows, metric) = LH!Reports!Sum(rows, metric)
  BY DEF Reports!Sum, Reports!MapThenSumSet, Reports!MapThenFoldSet, LH!Reports!Sum,
     LH!Reports!MapThenSumSet, LH!Reports!MapThenFoldSet
<1>18. \A p, c, ad : Reports!Contribution(p, c, ad) = LH!Reports!Contribution(p, c, ad)
  BY <1>16, <1>17 DEF Reports!Contribution, LH!Reports!Contribution
<1>19. \A p, c : Reports!Delta(p, c) = LH!Reports!Delta(p, c)
  BY ZenonT(60), <1>17 DEF Reports!Delta, LH!Reports!Delta
<1>20. Reports!ContributionsExplainDelta = LH!Reports!ContributionsExplainDelta
  BY ZenonT(60) DEF Reports!Days, Reports!Query, Reports!In, Reports!Visible, Reports!Hidden,
     Reports!Covered,
     Reports!Complete, Reports!BackfillPending, Reports!Rows, Reports!Report, Reports!Sum,
     Reports!EntitySum, Reports!Comparable, Reports!Contributors, Reports!Contribution,
     Reports!Delta, Reports!ContributionsExplainDelta, Reports!MapThenSumSet,
     Reports!MapThenFoldSet, Reports!Cardinality, LH!Reports!Days, LH!Reports!Query, LH!Reports!In,
     LH!Reports!Visible, LH!Reports!Hidden, LH!Reports!Covered, LH!Reports!Complete,
     LH!Reports!BackfillPending, LH!Reports!Rows, LH!Reports!Report, LH!Reports!Sum,
     LH!Reports!EntitySum, LH!Reports!Comparable, LH!Reports!Contributors, LH!Reports!Contribution,
     LH!Reports!Delta, LH!Reports!ContributionsExplainDelta, LH!Reports!MapThenSumSet,
     LH!Reports!MapThenFoldSet, LH!Reports!Cardinality
<1> QED
  BY <1>2, <1>4, <1>13, <1>14, <1>15, <1>20 DEF Reports!vars, LH!Reports!vars

LEMMA PagesSame ==
    /\ Pages!SizeAssumption /\ Pages!RoomAssumption /\ Pages!NoneAssumption =>
          LH!PageAssumption
    /\ Pages!Init => LH!Pages!Init
    /\ [Pages!Next]_(Pages!vars) => [LH!Pages!Next]_(LH!Pages!vars)
    /\ LH!Pages!TypeOK => Pages!TypeOK
    /\ LH!Pages!WalkIsWhole => Pages!WalkIsWhole
    /\ LH!Pages!PageFits => Pages!PageFits
<1>1. Pages!SizeAssumption /\ Pages!RoomAssumption /\ Pages!NoneAssumption
         => LH!PageAssumption
  BY DEF LH!PageAssumption, Pages!SizeAssumption, Pages!RoomAssumption, Pages!NoneAssumption,
     LH!Pages!SizeAssumption, LH!Pages!RoomAssumption, LH!Pages!NoneAssumption
<1>2. Pages!Init = LH!Pages!Init
  BY ZenonT(60) DEF Pages!Written, Pages!Init, LH!Pages!Written, LH!Pages!Init
<1>3. Pages!Next = LH!Pages!Next
  BY DEF Pages!Written, Pages!Half, Pages!Size, Pages!Cut, Pages!PageSize, Pages!Fits, Pages!Last,
     Pages!First, Pages!Cursor, Pages!ReadPage, Pages!Record, Pages!Next, LH!Pages!Written,
     LH!Pages!Half, LH!Pages!Size, LH!Pages!Cut, LH!Pages!PageSize, LH!Pages!Fits, LH!Pages!Last,
     LH!Pages!First, LH!Pages!Cursor, LH!Pages!ReadPage, LH!Pages!Record, LH!Pages!Next
<1>4. Pages!TypeOK = LH!Pages!TypeOK
  BY DEF Pages!Written, Pages!TypeOK, LH!Pages!Written, LH!Pages!TypeOK
<1>5. Pages!WalkIsWhole = LH!Pages!WalkIsWhole
  BY DEF Pages!WalkIsWhole, LH!Pages!WalkIsWhole
<1>6. Pages!PageFits = LH!Pages!PageFits
  BY ZenonT(60) DEF Pages!PageFits, LH!Pages!PageFits
<1> QED
  BY <1>1, <1>2, <1>3, <1>4, <1>5, <1>6 DEF Pages!vars, LH!Pages!vars

-----------------------------------------------------------------------------
(* Leases that run out, and a lifetime budget: "slow" and "lifelong".       *)

LS == INSTANCE LocalDataProofs WITH
    Handler <- {p1, p2}, Jobs <- Overtaking, Unit <- {a, b}, Seeded <- {a},
    RuleOrder <- <<>>, RuleSpec <- Rules, DayLength <- 4,
    Budgets <- {10}, StartBudget <- 10, Policies <- {Loose}, StartPolicy <- Loose,
    MaxAdvanceHours <- 2, MaxGeneratedHours <- 3, Lifetime <- {}, Slow <- TRUE, MaxCrashes <- 1,
    Texts <- {1, 3, 5}, Rests <- {0, 5}, Limit <- 6, Frame <- 1, PageTurns <- 3, MaxTurns <- 4,
    Later <- {b}, FullDay <- 2, HoursOf <- <<2, 2>>, Delay <- 1,
    Conversions <- {0, 1}, SeedConversions <- 1,
    MaxTotal <- 7, MaxCount <- 4, Parties <- 3,
    Campaign <- {k1, k2}, Group <- {g1, g2}, Ad <- {a, b}, Cohort <- {"young", "old"},
    AdOrder <- <<a, b>>, GroupOf <- (a :> g1) @@ (b :> g2),
    CampaignOf <- (g1 :> k1) @@ (g2 :> k2), Mode <- Mixed,
    Targeting <- (g1 :> {"young"}) @@ (g2 :> {"old"}),
    Window <- (g1 :> 1..3) @@ (g2 :> 0..3),
    Opportunities <- 3, Samples <- 2, Reachable <- 6, NewUsers <- OfSix, Costs <- {2},
    Floor <- 1, Amounts <- {5, 9}, StartAmount <- 9, StartBalance <- 20,
    LearningThreshold <- 4, DayHours <- 2, MaxHour <- 3, MaxEdits <- 1, Unlimited <- 1000

LEMMA SlowedSame ==
    /\ Slowed!StoreAssumption => LS!Box!StoreAssumption
    /\ Slowed!Init => LS!Box!Init
    /\ [Slowed!Next]_(Slowed!vars) => [LS!Box!Next]_(LS!Box!vars)
    /\ LS!Box!TimelineWhole => Slowed!TimelineWhole
    /\ LS!Box!LoadsAgree => Slowed!LoadsAgree
    /\ [LS!Box!Grows]_db => [Slowed!Grows]_db
<1>1. \A S : Slowed!Cardinality(S) = LS!Box!Cardinality(S)
  <2>1. \A S : Slowed!IsFiniteSet(S) <=> LS!Box!IsFiniteSet(S)
    BY DEF Slowed!IsFiniteSet, LS!Box!IsFiniteSet
  <2> QED
    BY <2>1 DEF Slowed!Cardinality, LS!Box!Cardinality
<1>2. /\ Slowed!Rule = LS!Box!Rule
      /\ Slowed!Writers = LS!Box!Writers
      /\ Slowed!Seed = LS!Box!Seed
      /\ Slowed!Blank = LS!Box!Blank
      /\ \A p : Slowed!Read(p) = LS!Box!Read(p)
      /\ \A p : Slowed!LoadPolicy(p) = LS!Box!LoadPolicy(p)
  BY DEF Slowed!Rule, Slowed!Writers, Slowed!Seed, Slowed!Blank, Slowed!Read, Slowed!LoadPolicy,
     LS!Box!Rule, LS!Box!Writers, LS!Box!Seed, LS!Box!Blank, LS!Box!Read, LS!Box!LoadPolicy
<1>3. /\ \A p : Slowed!LoadUnits(p) = LS!Box!LoadUnits(p)
      /\ \A p : Slowed!LoadClock(p) = LS!Box!LoadClock(p)
      /\ \A view, fs : Slowed!ValidFacts(view, fs) = LS!Box!ValidFacts(view, fs)
      /\ \A p : Slowed!LoadOperations(p) = LS!Box!LoadOperations(p)
      /\ \A t : Slowed!Day(t) = LS!Box!Day(t)
      /\ \A rule, e : Slowed!Satisfied(rule, e) = LS!Box!Satisfied(rule, e)
  BY DEF Slowed!LoadUnits, Slowed!LoadClock, Slowed!ValidFacts, Slowed!LoadOperations, Slowed!Day,
     Slowed!Satisfied, LS!Box!LoadUnits, LS!Box!LoadClock, LS!Box!ValidFacts, LS!Box!LoadOperations,
     LS!Box!Day, LS!Box!Satisfied
<1>4. /\ \A p : Slowed!Configured(p) = LS!Box!Configured(p)
      /\ \A p, v : Slowed!WithinLimits(p, v) = LS!Box!WithinLimits(p, v)
      /\ \A p, u, v : Slowed!WithinDelta(p, u, v) = LS!Box!WithinDelta(p, u, v)
      /\ \A rule, e : Slowed!Changed(rule, e) = LS!Box!Changed(rule, e)
      /\ \A units, h : Slowed!HourFacts(units, h) = LS!Box!HourFacts(units, h)
      /\ \A view : Slowed!Storable(view) = LS!Box!Storable(view)
  BY DEF Slowed!Configured, Slowed!WithinLimits, Slowed!WithinDelta, Slowed!Changed,
     Slowed!HourFacts, Slowed!Storable, LS!Box!Configured, LS!Box!WithinLimits, LS!Box!WithinDelta,
     LS!Box!Changed, LS!Box!HourFacts, LS!Box!Storable
<1>5. /\ \A rows, table : Slowed!Upsert(rows, table) = LS!Box!Upsert(rows, table)
      /\ Slowed!Created = LS!Box!Created
      /\ \A env, r : Slowed!AddRule(env, r) = LS!Box!AddRule(env, r)
      /\ \A p, job : Slowed!Lease(p, job) = LS!Box!Lease(p, job)
      /\ \A e : Slowed!Rewrites(e) = LS!Box!Rewrites(e)
      /\ Slowed!Lapse = LS!Box!Lapse
  BY ZenonT(60) DEF Slowed!Upsert, Slowed!Created, Slowed!AddRule, Slowed!Lease, Slowed!Rewrites,
     Slowed!Lapse,
     LS!Box!Upsert, LS!Box!Created, LS!Box!AddRule, LS!Box!Lease, LS!Box!Rewrites, LS!Box!Lapse
<1>6. /\ Slowed!vars = LS!Box!vars
      /\ Slowed!TimelineWhole = LS!Box!TimelineWhole
      /\ Slowed!Restored = LS!Box!Restored
      /\ Slowed!Grows = LS!Box!Grows
  BY ZenonT(60) DEF Slowed!vars, Slowed!TimelineWhole, Slowed!Restored, Slowed!Grows, LS!Box!vars,
     LS!Box!TimelineWhole, LS!Box!Restored, LS!Box!Grows
<1>7. Slowed!HistoryAssumption = LS!Box!HistoryAssumption
  BY <1>2 DEF Slowed!HistoryAssumption, LS!Box!HistoryAssumption
<1>8. Slowed!StoreAssumption = LS!Box!StoreAssumption
  BY <1>2, <1>7 DEF Slowed!StoreAssumption, LS!Box!StoreAssumption
<1>9. Slowed!HistoryInit = LS!Box!HistoryInit
  BY <1>2 DEF Slowed!HistoryInit, LS!Box!HistoryInit
<1>10. Slowed!Idle = LS!Box!Idle
  BY <1>2 DEF Slowed!Idle, LS!Box!Idle
<1>11. Slowed!Init = LS!Box!Init
  BY <1>9, <1>10 DEF Slowed!Init, LS!Box!Init
<1>12. \A p : Slowed!Leave(p) = LS!Box!Leave(p)
  BY <1>10 DEF Slowed!Leave, LS!Box!Leave
<1>13. \A p : Slowed!LoadFacts(p) = LS!Box!LoadFacts(p)
  BY <1>3, <1>12 DEF Slowed!LoadFacts, LS!Box!LoadFacts
<1>14. \A p : Slowed!Answer(p) = LS!Box!Answer(p)
  BY <1>12 DEF Slowed!Answer, LS!Box!Answer
<1>15. \A env, u, days, t : Slowed!Observed(env, u, days, t) = LS!Box!Observed(env, u, days, t)
  BY DEF Slowed!Day, Slowed!Observed, Slowed!MapThenSumSet, Slowed!MapThenFoldSet, LS!Box!Day,
     LS!Box!Observed, LS!Box!MapThenSumSet, LS!Box!MapThenFoldSet
<1>16. \A env, rule, u, t : Slowed!Matched(env, rule, u, t) = LS!Box!Matched(env, rule, u, t)
  BY <1>15 DEF Slowed!Matched, LS!Box!Matched
<1>17. \A p, u, v : Slowed!BudgetAllows(p, u, v) = LS!Box!BudgetAllows(p, u, v)
  BY <1>4 DEF Slowed!BudgetAllows, LS!Box!BudgetAllows
<1>18. \A env, rule, e : Slowed!Refused(env, rule, e) = LS!Box!Refused(env, rule, e)
  BY <1>17 DEF Slowed!Refused, LS!Box!Refused
<1>19. \A env, r, t : Slowed!EvaluateRule(env, r, t) = LS!Box!EvaluateRule(env, r, t)
  <2>1. \A rule, e : Slowed!Satisfied(rule, e) = LS!Box!Satisfied(rule, e)
    BY ZenonT(60) DEF Slowed!Satisfied, LS!Box!Satisfied
  <2>2. \A rule, e : Slowed!Changed(rule, e) = LS!Box!Changed(rule, e)
    BY ZenonT(60) DEF Slowed!Changed, LS!Box!Changed
  <2> TAKE env, r, t
  <2> DEFINE rule == Rules[r]
             known == rule.targets \intersect DOMAIN env.units
             hit == {u \in known : /\ Slowed!Matched(env, rule, u, t)
                                   /\ ~Slowed!Satisfied(rule, env.units[u])}
             there == {u \in known : /\ LS!Box!Matched(env, rule, u, t)
                                     /\ ~LS!Box!Satisfied(rule, env.units[u])}
             Refused(S) == {u \in S : Slowed!Refused(env, rule, env.units[u])}
             Barred(S) == {u \in S : LS!Box!Refused(env, rule, env.units[u])}
             Units(S) == [u \in DOMAIN env.units |->
                            IF u \in S THEN Slowed!Changed(rule, env.units[u]) ELSE env.units[u]]
             Others(S) == [u \in DOMAIN env.units |->
                            IF u \in S THEN LS!Box!Changed(rule, env.units[u]) ELSE env.units[u]]
             Ran(S, T, us) ==
                IF r \notin DOMAIN env.ops.evaluated \/ t <= env.ops.evaluated[r]
                THEN env
                ELSE [env EXCEPT
                        !.units = us,
                        !.ops.evaluated[r] = t,
                        !.ops.results = Append(@, [rule |-> r, at |-> t,
                            status |-> IF T # {} \/ known # rule.targets THEN "REJECTED"
                                       ELSE IF S \ T # {} THEN "SUCCEEDED" ELSE "NO_ACTION"])]
  <2>3. hit = there
    BY ZenonT(60), <1>16, <2>1
  <2>4. \A S : Refused(S) = Barred(S)
    BY ZenonT(60), <1>18
  <2>5. \A S : Units(S) = Others(S)
    BY ZenonT(60), <2>2
  <2>6. Slowed!EvaluateRule(env, r, t) = Ran(hit, Refused(hit), Units(hit \ Refused(hit)))
    BY ZenonT(60) DEF Slowed!EvaluateRule
  <2>7. LS!Box!EvaluateRule(env, r, t) = Ran(there, Barred(there), Others(there \ Barred(there)))
    BY ZenonT(60) DEF LS!Box!EvaluateRule
  <2> HIDE DEF hit, there, Refused, Barred, Units, Others, Ran
  <2> QED
    BY ZenonT(60), <2>3, <2>4, <2>5, <2>6, <2>7
<1>20. \A env, t : Slowed!EvaluateRules(env, t) = LS!Box!EvaluateRules(env, t)
  BY ZenonT(60), <1>19 DEF Slowed!EvaluateRules, LS!Box!EvaluateRules
<1>21. \A ops, h, new : Slowed!SettleSpend(ops, h, new) = LS!Box!SettleSpend(ops, h, new)
  BY DEF Slowed!Day, Slowed!SettleSpend, Slowed!MapThenSumSet, Slowed!MapThenFoldSet, LS!Box!Day,
     LS!Box!SettleSpend, LS!Box!MapThenSumSet, LS!Box!MapThenFoldSet
<1>22. \A env : Slowed!HourStep(env) = LS!Box!HourStep(env)
  BY Zenon, <1>4, <1>20, <1>21 DEF Slowed!HourStep, LS!Box!HourStep
<1>23. \A p : Slowed!SimulateHour(p) = LS!Box!SimulateHour(p)
  BY Zenon, <1>22 DEF Slowed!SimulateHour, LS!Box!SimulateHour
<1>24. \A p : Slowed!CommitAdvance(p) = LS!Box!CommitAdvance(p)
  BY Zenon, <1>4, <1>5, <1>12 DEF Slowed!CommitAdvance, LS!Box!CommitAdvance
<1>25. \A env, u : Slowed!AddUnit(env, u) = LS!Box!AddUnit(env, u)
  BY <1>5 DEF Slowed!AddUnit, LS!Box!AddUnit
<1>26. \A p : Slowed!SaveOperation(p) = LS!Box!SaveOperation(p)
  BY ZenonT(60), <1>2, <1>5, <1>12, <1>25 DEF Slowed!SaveOperation, LS!Box!SaveOperation
<1>27. \A p : Slowed!Refuse(p) = LS!Box!Refuse(p)
  BY <1>12 DEF Slowed!Refuse, LS!Box!Refuse
<1>28. \A p : Slowed!Release(p) = LS!Box!Release(p)
  BY <1>10 DEF Slowed!Release, LS!Box!Release
<1>29. \A p : Slowed!Crash(p) = LS!Box!Crash(p)
  BY <1>10 DEF Slowed!Crash, LS!Box!Crash
<1>30. \A fs : Slowed!GeneratedHours(fs) = LS!Box!GeneratedHours(fs)
  BY <1>1 DEF Slowed!GeneratedHours, LS!Box!GeneratedHours
<1>31. \A p, hours : Slowed!Start(p, hours) = LS!Box!Start(p, hours)
  BY <1>30 DEF Slowed!Start, LS!Box!Start
<1>32. \A p, u : Slowed!SaveUnit(p, u) = LS!Box!SaveUnit(p, u)
  BY <1>5, <1>12 DEF Slowed!SaveUnit, LS!Box!SaveUnit
<1>33. \A p, q : Slowed!SavePolicy(p, q) = LS!Box!SavePolicy(p, q)
  BY <1>12 DEF Slowed!SavePolicy, LS!Box!SavePolicy
<1>34. Slowed!Next = LS!Box!Next
  BY <1>2, <1>3, <1>5, <1>13, <1>14, <1>23, <1>24, <1>26, <1>27, <1>28, <1>29, <1>31, <1>32,
     <1>33 DEF Slowed!Next, LS!Box!Next
<1>35. Slowed!LoadsAgree = LS!Box!LoadsAgree
  BY <1>6 DEF Slowed!LoadsAgree, LS!Box!LoadsAgree
<1> QED
  BY <1>6, <1>8, <1>11, <1>34, <1>35 DEF Slowed!vars, LS!Box!vars

LEMMA LifelongSame ==
    /\ Lifelong!DeliveryAssumption => LS!Market!DeliveryAssumption
    /\ Lifelong!Init => LS!Market!Init
    /\ [Lifelong!Next]_(Lifelong!vars) => [LS!Market!Next]_(LS!Market!vars)
    /\ LS!Market!PrepaidOnly => Lifelong!PrepaidOnly
    /\ LS!Market!InventorySoldOnce => Lifelong!InventorySoldOnce
    /\ LS!Market!SpendsWithin => Lifelong!SpendsWithin
<1>1. \A S : Lifelong!Cardinality(S) = LS!Market!Cardinality(S)
  <2>1. \A S : Lifelong!IsFiniteSet(S) <=> LS!Market!IsFiniteSet(S)
    BY DEF Lifelong!IsFiniteSet, LS!Market!IsFiniteSet
  <2> QED
    BY <2>1 DEF Lifelong!Cardinality, LS!Market!Cardinality
<1>2. \A s, w, d : Lifelong!Shares!ProportionalAllocation(s, w, d)
                  = LS!Market!Shares!ProportionalAllocation(s, w, d)
  BY DEF Lifelong!Shares!ProportionalAllocation, Lifelong!Shares!SumOf, Lifelong!Shares!FoldLeft,
     Lifelong!Shares!MapThenFoldSet, Lifelong!Shares!Max, Lifelong!Shares!Cardinality,
     LS!Market!Shares!ProportionalAllocation, LS!Market!Shares!SumOf, LS!Market!Shares!FoldLeft,
     LS!Market!Shares!MapThenFoldSet, LS!Market!Shares!Max, LS!Market!Shares!Cardinality
<1>3. \A s : Lifelong!Shares!SumOf(s) = LS!Market!Shares!SumOf(s)
  BY DEF Lifelong!Shares!SumOf, Lifelong!Shares!FoldLeft, Lifelong!Shares!MapThenFoldSet,
     Lifelong!Shares!Max, LS!Market!Shares!SumOf, LS!Market!Shares!FoldLeft,
     LS!Market!Shares!MapThenFoldSet, LS!Market!Shares!Max
<1>4. /\ Lifelong!Entity = LS!Market!Entity
      /\ \A day, e : Lifelong!DailySpend(day, e) = LS!Market!DailySpend(day, e)
      /\ \A h : Lifelong!Day(h) = LS!Market!Day(h)
      /\ \A set, g : Lifelong!InGroup(set, g) = LS!Market!InGroup(set, g)
      /\ \A set, k : Lifelong!InCampaign(set, k) = LS!Market!InCampaign(set, k)
      /\ \A e : Lifelong!DailyBudget(e) = LS!Market!DailyBudget(e)
  BY ZenonT(60) DEF Lifelong!Entity, Lifelong!DailySpend, Lifelong!Day, Lifelong!InGroup,
     Lifelong!InCampaign,
     Lifelong!DailyBudget, LS!Market!Entity, LS!Market!DailySpend, LS!Market!Day, LS!Market!InGroup,
     LS!Market!InCampaign, LS!Market!DailyBudget
<1>5. /\ \A was, after : Lifelong!MajorChange(was, after) = LS!Market!MajorChange(was, after)
      /\ \A e, u : Lifelong!SetBudget(e, u) = LS!Market!SetBudget(e, u)
      /\ \A e : Lifelong!SetStatus(e) = LS!Market!SetStatus(e)
      /\ Lifelong!vars = LS!Market!vars
  BY ZenonT(60) DEF Lifelong!MajorChange, Lifelong!SetBudget, Lifelong!SetStatus, Lifelong!vars,
     LS!Market!MajorChange, LS!Market!SetBudget, LS!Market!SetStatus, LS!Market!vars
<1>6. Lifelong!DeliveryAssumption = LS!Market!DeliveryAssumption
  BY DEF Lifelong!DeliveryAssumption, Lifelong!Min, Lifelong!IsFiniteSet,
     LS!Market!DeliveryAssumption, LS!Market!Min, LS!Market!IsFiniteSet
<1>7. Lifelong!Init = LS!Market!Init
  BY <1>4 DEF Lifelong!Init, LS!Market!Init
<1>8. \A e, h : Lifelong!Remaining(e, h) = LS!Market!Remaining(e, h)
  <2>1. \A S : Lifelong!Max(S) = LS!Market!Max(S)
    BY ZenonT(60) DEF Lifelong!Max, LS!Market!Max
  <2> QED
    BY ZenonT(60), <1>4, <2>1 DEF Lifelong!Remaining, LS!Market!Remaining
<1>9. \A g, h : Lifelong!RemainingBudget(g, h) = LS!Market!RemainingBudget(g, h)
  BY <1>8 DEF Lifelong!RemainingBudget, Lifelong!Min, LS!Market!RemainingBudget, LS!Market!Min
<1>10. \A ad, c, h : Lifelong!Eligible(ad, c, h) = LS!Market!Eligible(ad, c, h)
  BY ZenonT(60), <1>9 DEF Lifelong!Eligible, LS!Market!Eligible
<1>11. \A h : Lifelong!Candidates(h) = LS!Market!Candidates(h)
  BY ZenonT(60), <1>10 DEF Lifelong!Candidates, LS!Market!Candidates
<1>12. \A g, h : Lifelong!Forecast(g, h) = LS!Market!Forecast(g, h)
  BY ZenonT(60), <1>1, <1>4, <1>10 DEF Lifelong!Forecast, LS!Market!Forecast
<1>13. \A g, h : Lifelong!Paces(g, h) = LS!Market!Paces(g, h)
  <2> TAKE g, h
  <2> DEFINE campaign == ((g1 :> k1) @@ (g2 :> k2))[g]
             S == {x \in {g1, g2} : ((g1 :> k1) @@ (g2 :> k2))[x] = campaign}
             here == Lifelong!MapThenSumSet(LAMBDA x : Lifelong!Forecast(x, h), S)
             there == LS!Market!MapThenSumSet(LAMBDA x : LS!Market!Forecast(x, h), S)
  <2>1. here = there
    BY ZenonT(60), <1>12 DEF Lifelong!MapThenSumSet, Lifelong!MapThenFoldSet,
       LS!Market!MapThenSumSet,
              LS!Market!MapThenFoldSet
  <2>2. Lifelong!Paces(g, h) =
           (/\ Lifelong!Forecast(g, h) > 0 /\ Lifelong!Remaining(g, h) > 1
            /\ \/ Lifelong!Remaining(campaign, h) = 1000
               \/ Lifelong!Remaining(campaign, h) * Lifelong!Forecast(g, h) > 1 * here)
    BY DEF Lifelong!Paces
  <2>3. LS!Market!Paces(g, h) =
           (/\ LS!Market!Forecast(g, h) > 0 /\ LS!Market!Remaining(g, h) > 1
            /\ \/ LS!Market!Remaining(campaign, h) = 1000
               \/ LS!Market!Remaining(campaign, h) * LS!Market!Forecast(g, h) > 1 * there)
    BY ZenonT(60) DEF LS!Market!Paces
  <2>4. /\ Lifelong!Forecast(g, h) = LS!Market!Forecast(g, h)
        /\ Lifelong!Remaining(g, h) = LS!Market!Remaining(g, h)
        /\ Lifelong!Remaining(campaign, h) = LS!Market!Remaining(campaign, h)
    BY <1>12, <1>8
  <2> HIDE DEF campaign, here, there
  <2> QED
    BY <2>1, <2>2, <2>3, <2>4
<1>14. \A f, set : Lifelong!Total(f, set) = LS!Market!Total(f, set)
  BY DEF Lifelong!Total, Lifelong!MapThenSumSet, Lifelong!MapThenFoldSet, LS!Market!Total,
     LS!Market!MapThenSumSet, LS!Market!MapThenFoldSet
<1>15. \A h : Lifelong!AuctionOutcomes(h) = LS!Market!AuctionOutcomes(h)
  BY ZenonT(60), <1>11, <1>13, <1>14 DEF Lifelong!AuctionOutcomes, LS!Market!AuctionOutcomes
<1>16. \A h, desired, price :
          Lifelong!ScaledByBudgets(h, desired, price) = LS!Market!ScaledByBudgets(h, desired, price)
  <2> TAKE h, desired, price
  <2> DEFINE Wants == [g \in {g1, g2} |-> price * Lifelong!Total(desired, Lifelong!InGroup(DOMAIN desired, g))]
             Gets(w) == [g \in {g1, g2} |-> Lifelong!Min({w[g], Lifelong!Remaining(g, h)})]
             Sums(w) == [k \in {k1, k2} |->
                            Lifelong!Total(w, {g \in {g1, g2} : ((g1 :> k1) @@ (g2 :> k2))[g] = k})]
             Takes(w) == [k \in {k1, k2} |-> Lifelong!Min({w[k], Lifelong!Remaining(k, h)})]
             Wanted == [g \in {g1, g2} |-> price * LS!Market!Total(desired, LS!Market!InGroup(DOMAIN desired, g))]
             Got(w) == [g \in {g1, g2} |-> LS!Market!Min({w[g], LS!Market!Remaining(g, h)})]
             Summed(w) == [k \in {k1, k2} |->
                            LS!Market!Total(w, {g \in {g1,
                            g2} : ((g1 :> k1) @@ (g2 :> k2))[g] = k})]
             Taken(w) == [k \in {k1, k2} |-> LS!Market!Min({w[k], LS!Market!Remaining(k, h)})]
             Group(x) == ((a :> g1) @@ (b :> g2))[x[1]]
             Camp(x) == ((g1 :> k1) @@ (g2 :> k2))[Group(x)]
             Scaled(w, v, u, z) ==
                [x \in DOMAIN desired |->
                   IF desired[x] = 0 THEN 0
                   ELSE (desired[x] * v[Group(x)] * z[Camp(x)]) \div (w[Group(x)] * u[Camp(x)])]
  <2>0. \A S : Lifelong!Min(S) = LS!Market!Min(S)
    BY ZenonT(60) DEF Lifelong!Min, LS!Market!Min
  <2>1. Wants = Wanted
    BY SMTT(60), <1>4, <1>14
  <2>2. \A w : Gets(w) = Got(w)
    BY SMTT(60), <1>8, <2>0
  <2>3. \A w : Sums(w) = Summed(w)
    BY SMTT(60), <1>14
  <2>4. \A w : Takes(w) = Taken(w)
    BY SMTT(60), <1>8, <2>0
  <2>5. Lifelong!ScaledByBudgets(h, desired, price)
        = Scaled(Wants, Gets(Wants), Sums(Gets(Wants)), Takes(Sums(Gets(Wants))))
    BY ZenonT(60) DEF Lifelong!ScaledByBudgets
  <2>6. LS!Market!ScaledByBudgets(h, desired, price)
        = Scaled(Wanted, Got(Wanted), Summed(Got(Wanted)), Taken(Summed(Got(Wanted))))
    BY ZenonT(60) DEF LS!Market!ScaledByBudgets
  <2> HIDE DEF Wants, Gets, Sums, Takes, Wanted, Got, Summed, Taken, Scaled
  <2> QED
    BY ZenonT(60), <2>1, <2>2, <2>3, <2>4, <2>5, <2>6
<1>17. \A h, desired, price :
          Lifelong!WithinBudgets(h, desired, price) = LS!Market!WithinBudgets(h, desired, price)
  BY <1>14, <1>16 DEF Lifelong!WithinBudgets, LS!Market!WithinBudgets
<1>18. \A won : Lifelong!Desired(won) = LS!Market!Desired(won)
  <2> TAKE won
  <2> DEFINE wins == [c \in {"young", "old"} |->
                        [i \in DOMAIN <<a, b>> |->
                            IF <<<<a, b>>[i], c>> \in DOMAIN won THEN won[<<<<a, b>>[i],
                            c>>] ELSE 0]]
             ours == [c \in {"young", "old"} |->
                        Lifelong!Shares!ProportionalAllocation(3,
                            Append(wins[c], 2 - Lifelong!Shares!SumOf(wins[c])), 2)]
             theirs == [c \in {"young", "old"} |->
                        LS!Market!Shares!ProportionalAllocation(3,
                            Append(wins[c], 2 - LS!Market!Shares!SumOf(wins[c])), 2)]
             Wins(s) == [x \in DOMAIN won |-> s[x[2]][CHOOSE i \in DOMAIN <<a, b>> : <<a, b>>[i] = x[1]]]
  <2>1. ours = theirs
    BY SMTT(60), <1>2, <1>3
  <2>2. Lifelong!Desired(won) = Wins(ours)
    BY ZenonT(60) DEF Lifelong!Desired
  <2>3. LS!Market!Desired(won) = Wins(theirs)
    BY ZenonT(60) DEF LS!Market!Desired
  <2> HIDE DEF wins, ours, theirs, Wins
  <2> QED
    BY ZenonT(60), <2>1, <2>2, <2>3
<1>19. \A h, spent : Lifelong!Book(h, spent) = LS!Market!Book(h, spent)
  BY ZenonT(60) DEF Lifelong!Entity, Lifelong!Day, Lifelong!Total, Lifelong!InGroup,
     Lifelong!InCampaign,
     Lifelong!Book, Lifelong!MapThenSumSet, Lifelong!MapThenFoldSet, LS!Market!Entity,
     LS!Market!Day, LS!Market!Total, LS!Market!InGroup, LS!Market!InCampaign, LS!Market!Book,
     LS!Market!MapThenSumSet, LS!Market!MapThenFoldSet
<1>20. \A g : Lifelong!Learned(g) = LS!Market!Learned(g)
  <2>1. \A S : Lifelong!Min(S) = LS!Market!Min(S)
    BY ZenonT(60) DEF Lifelong!Min, LS!Market!Min
  <2> QED
    BY ZenonT(60), <1>4, <1>5, <2>1 DEF Lifelong!Learned, LS!Market!Learned
<1>21. \A won, price : Lifelong!Deliver(won, price) = LS!Market!Deliver(won, price)
  <2> TAKE won, price
  <2> DEFINE v == Lifelong!WithinBudgets(hour, Lifelong!Desired(won), price)
             D == DOMAIN v
  <2>1. LS!Market!WithinBudgets(hour, LS!Market!Desired(won), price) = v
    BY <1>17, <1>18
  <2> HIDE DEF v
  <2>2. [g \in {g1, g2} |-> [Lifelong!Learned(g) EXCEPT
                               !.clicks = @ + Lifelong!Total(v, Lifelong!InGroup(D, g))]]
        = [g \in {g1, g2} |-> [LS!Market!Learned(g) EXCEPT
                               !.clicks = @ + LS!Market!Total(v, LS!Market!InGroup(D, g))]]
    BY <1>20, <1>14, <1>4
  <2>3. [c \in {"young", "old"} |-> Lifelong!Total(v, {x \in D : x[2] = c})]
        = [c \in {"young", "old"} |-> LS!Market!Total(v, {x \in D : x[2] = c})]
    BY <1>14
  <2>4. \A w : /\ Lifelong!Book(hour, w) = LS!Market!Book(hour, w)
               /\ \A S : Lifelong!Total(w, S) = LS!Market!Total(w, S)
    BY <1>19, <1>14
  <2> QED
    BY ZenonT(60), <2>1, <2>2, <2>3, <2>4 DEF Lifelong!Deliver, LS!Market!Deliver, v
<1>22. Lifelong!Next = LS!Market!Next
  BY <1>4, <1>5, <1>15, <1>21 DEF Lifelong!Next, LS!Market!Next
<1>23. Lifelong!PrepaidOnly = LS!Market!PrepaidOnly
  BY ZenonT(60), <1>14 DEF Lifelong!PrepaidOnly, LS!Market!PrepaidOnly
<1>24. Lifelong!InventorySoldOnce = LS!Market!InventorySoldOnce
  BY <1>14 DEF Lifelong!InventorySoldOnce, Lifelong!Min, LS!Market!InventorySoldOnce,
     LS!Market!Min
<1>25. Lifelong!SpendsWithin = LS!Market!SpendsWithin
  BY <1>4 DEF Lifelong!SpendsWithin, LS!Market!SpendsWithin
<1> QED
  BY <1>6, <1>7, <1>22, <1>23, <1>24, <1>25 DEF Lifelong!vars, LS!Market!vars

-----------------------------------------------------------------------------
(* What each component keeps, of the instance that the run explores.        *)

\* What the proofs about the components assume of the memory calls.
USE CallAssumption, MaxFactsAssumption

LEMMA HistoryHolds ==
    ASSUME History!StoreAssumption, History!AmountAssumption
    PROVE  /\ History!Init => LH!Timed /\ LH!Even
           /\ LH!Timed /\ LH!Even /\ [History!Next]_(History!vars) =>
                 /\ LH!Timed' /\ LH!Even'
                 /\ [History!HistoryNext]_db /\ [History!AdvanceKeepsPolicy]_db
           /\ LH!Timed /\ LH!Even => History!TypeOK /\ History!BooksBalance /\ History!RulesRunOnce
<1>1. LH!Box!StoreAssumption /\ LH!Box!AmountAssumption
  BY ZenonT(60), HistorySame
<1>2. History!Init => LH!Timed /\ LH!Even
  BY <1>1, HistorySame, LH!TimedBegins, LH!EvenBegins
<1>3. LH!Timed => LH!Leased /\ LH!Fitting
  BY ZenonT(60) DEF LH!Timed, LH!Leased
<1>4. ASSUME LH!Timed, LH!Even, [History!Next]_(History!vars)
      PROVE  /\ LH!Timed' /\ LH!Even'
             /\ [History!HistoryNext]_db /\ [History!AdvanceKeepsPolicy]_db
  <2>1. [LH!Box!Next]_(LH!Box!vars)
    BY <1>4, HistorySame
  <2>2. LH!Timed' /\ LH!Even'
    BY <1>1, <1>4, <2>1, LH!TimedNext, LH!EvenNext
  <2>3. [LH!Box!HistoryNext]_db /\ [LH!Box!AdvanceKeepsPolicy]_db
    BY <1>1, <1>3, <1>4, <2>1, LH!LeasedNext, LH!PolicyKept
  <2> QED
    BY <2>2, <2>3, HistorySame
<1>5. LH!Timed /\ LH!Even => History!TypeOK /\ History!BooksBalance /\ History!RulesRunOnce
  BY <1>3, HistorySame, LH!SandboxTypes, LH!TimedShows, LH!EvenShows
<1> QED
  BY <1>2, <1>4, <1>5

LEMMA SlowedHolds ==
    ASSUME Slowed!StoreAssumption
    PROVE  /\ Slowed!Init => LS!Fitting
           /\ LS!Fitting /\ [Slowed!Next]_(Slowed!vars) => LS!Fitting' /\ [Slowed!Grows]_db
           /\ LS!Fitting => Slowed!TimelineWhole /\ Slowed!LoadsAgree
<1>1. LS!Box!StoreAssumption
  BY SlowedSame
<1> QED
  BY <1>1, SlowedSame, LS!FittingInit, LS!FittingNext, LS!GrowsOnly, LS!TimelineFollows

LEMMA SharedHolds ==
    ASSUME Shared!DeliveryAssumption
    PROVE  /\ Shared!Init => LH!Trading
           /\ LH!Trading /\ [Shared!Next]_(Shared!vars) =>
                 LH!Trading' /\ Shared!SpendsWithin /\ Shared!LosesByChange
           /\ LH!Trading => Shared!PrepaidOnly /\ Shared!InventorySoldOnce
<1>1. LH!Market!DeliveryAssumption
  BY SharedSame
<1> QED
  BY <1>1, SharedSame, LH!InitTrading, LH!NextTrading, LH!TradingShows

LEMMA LifelongHolds ==
    ASSUME Lifelong!DeliveryAssumption
    PROVE  /\ Lifelong!Init => LS!Trading
           /\ LS!Trading /\ [Lifelong!Next]_(Lifelong!vars) => LS!Trading' /\ Lifelong!SpendsWithin
           /\ LS!Trading => Lifelong!PrepaidOnly /\ Lifelong!InventorySoldOnce
<1>1. LS!Market!DeliveryAssumption
  BY LifelongSame
<1> QED
  BY <1>1, LifelongSame, LS!InitTrading, LS!NextTrading, LS!TradingShows

LEMMA AllocationHolds ==
    ASSUME Allocation!PartiesAssumption
    PROVE  /\ Allocation!Init => LH!Wins
           /\ LH!Wins /\ [Allocation!Next]_allocated => LH!Wins'
           /\ LH!Wins => /\ Allocation!NothingLostOrInvented
                         /\ Allocation!PartsWithinParts
                         /\ Allocation!MoreWinsMore
<1>1. LH!Split!PartiesAssumption
  BY AllocationSame
<1>2. [Allocation!Next]_allocated => [LH!Split!Next]_<<total, counts>>
  BY AllocationSame DEF allocated
<1> QED
  BY <1>1, <1>2, AllocationSame, LH!WinsBegin, LH!WinsNext, LH!WinsShow

LEMMA ReportsHold ==
    ASSUME Reports!ReportAssumption, Reports!OrdinaryDays
    PROVE  /\ Reports!Init => LH!ReportInvariant /\ LH!Kept
           /\ LH!ReportInvariant /\ LH!Kept /\ [Reports!Next]_(Reports!vars)
                 => LH!ReportInvariant' /\ LH!Kept'
           /\ LH!ReportInvariant /\ LH!Kept => /\ Reports!CompleteReportIsFinal
                                              /\ Reports!CompleteSpendIsFinal
                                              /\ Reports!ContributionsExplainDelta
<1>1. LH!Reports!ReportAssumption /\ LH!Reports!OrdinaryDays
  BY ZenonT(60), ReportsSame
<1>2. Reports!Init => LH!ReportInvariant /\ LH!Kept
  BY <1>1, ReportsSame, LH!ReportsBegin, LH!KeptBegins
<1>3. LH!ReportInvariant /\ LH!Kept /\ [Reports!Next]_(Reports!vars)
         => LH!ReportInvariant' /\ LH!Kept'
  BY <1>1, ReportsSame, LH!ReportsGoOn, LH!KeptNext
<1>4. LH!ReportInvariant /\ LH!Kept => /\ Reports!CompleteReportIsFinal
                                     /\ Reports!CompleteSpendIsFinal
                                     /\ Reports!ContributionsExplainDelta
  BY ZenonT(60), <1>1, ReportsSame, LH!ReportsShow, LH!KeptShows
<1> QED
  BY <1>2, <1>3, <1>4

LEMMA PagesHold ==
    ASSUME Pages!SizeAssumption, Pages!RoomAssumption, Pages!NoneAssumption
    PROVE  /\ Pages!Init => LH!Walking
           /\ LH!Walking /\ [Pages!Next]_(Pages!vars) => LH!Walking'
           /\ LH!Walking => Pages!TypeOK /\ Pages!WalkIsWhole /\ Pages!PageFits
<1>1. LH!PageAssumption
  BY PagesSame
<1> QED
  BY <1>1, PagesSame, LH!WalkBegins, LH!WalkGoesOn, LH!WalkShows

-----------------------------------------------------------------------------
(* The parts side by side.                                                  *)

side == <<part, vars, environment, delivered, allocated, reported, paged>>

\* The part that runs keeps what its component keeps.
SideInv ==
    /\ part = "history" => LH!Timed /\ LH!Even
    /\ part = "slow" => LS!Fitting
    /\ part = "shared" => LH!Trading
    /\ part = "lifelong" => LS!Trading
    /\ part = "allocation" => LH!Wins
    /\ part = "reports" => LH!ReportInvariant /\ LH!Kept
    /\ part = "pages" => LH!Walking

\* A step is one of the part that runs, and the others stand still.
LEMMA OnePartMoves ==
    ASSUME [SideNext]_side
    PROVE  /\ part' = part
           /\ part = "history" => [History!Next]_(History!vars)
           /\ part = "slow" => [Slowed!Next]_(Slowed!vars)
           /\ part = "shared" => [Shared!Next]_(Shared!vars)
           /\ part = "lifelong" => [Lifelong!Next]_(Lifelong!vars)
           /\ part = "allocation" => [Allocation!Next]_allocated
           /\ part = "reports" => [Reports!Next]_(Reports!vars)
           /\ part = "pages" => [Pages!Next]_(Pages!vars)
<1> USE DEF environment, delivered, allocated, reported, paged, History!vars, Slowed!vars,
        Shared!vars, Lifelong!vars, Reports!vars, Pages!vars
<1>1. CASE UNCHANGED side
  BY ZenonT(60), <1>1 DEF side
<1>2. CASE SideNext
  BY ZenonT(60), <1>2 DEF SideNext
<1> QED
  BY ZenonT(60), <1>1, <1>2

LEMMA SideBegins == SideInit => SideInv
<1> SUFFICES ASSUME SideInit PROVE SideInv
  BY ZenonT(60)
<1>1. /\ part = "history" => History!Init
      /\ part = "slow" => Slowed!Init
      /\ part = "shared" => Shared!Init
      /\ part = "lifelong" => Lifelong!Init
      /\ Allocation!Init /\ Reports!Init /\ Pages!Init
  BY ZenonT(60) DEF SideInit
<1> QED
  BY ZenonT(60), <1>1, HistoryHolds, SlowedHolds, SharedHolds, LifelongHolds, AllocationHolds,
     ReportsHold,
     PagesHold, EnvironmentsAssumption, AmountsAssumption, DeliveriesAssumption,
     SharersAssumption, ReportsAssumption, PagesAssumption
  DEF SideInv

LEMMA SideStays == SideInv /\ [SideNext]_side => SideInv'
<1> SUFFICES ASSUME SideInv, [SideNext]_side PROVE SideInv'
  BY ZenonT(60)
<1>1. ASSUME part = "history" PROVE LH!Timed' /\ LH!Even'
  BY <1>1, OnePartMoves, HistoryHolds, EnvironmentsAssumption, AmountsAssumption DEF SideInv
<1>2. ASSUME part = "slow" PROVE LS!Fitting'
  BY ZenonT(60), <1>2, OnePartMoves, SlowedHolds, EnvironmentsAssumption DEF SideInv
<1>3. ASSUME part = "shared" PROVE LH!Trading'
  BY <1>3, OnePartMoves, SharedHolds, DeliveriesAssumption DEF SideInv
<1>4. ASSUME part = "lifelong" PROVE LS!Trading'
  BY <1>4, OnePartMoves, LifelongHolds, DeliveriesAssumption DEF SideInv
<1>5. ASSUME part = "allocation" PROVE LH!Wins'
  BY <1>5, OnePartMoves, AllocationHolds, SharersAssumption DEF SideInv
<1>6. ASSUME part = "reports" PROVE LH!ReportInvariant' /\ LH!Kept'
  BY <1>6, OnePartMoves, ReportsHold, ReportsAssumption DEF SideInv
<1>7. ASSUME part = "pages" PROVE LH!Walking'
  BY <1>7, OnePartMoves, PagesHold, PagesAssumption DEF SideInv
<1>8. part' = part
  BY OnePartMoves
<1> QED
  BY <1>1, <1>2, <1>3, <1>4, <1>5, <1>6, <1>7, <1>8 DEF SideInv

LEMMA SideAlways == SideBySide => []SideInv
  BY SideBegins, SideStays, PTL DEF SideBySide, side

\* A complete report without pending conversions shows what it would show now, a complete one
\* changes in its conversions only, and contributions sum to the total change: of days of the
\* usual length, since a longer one is called complete an hour early (sandbox/backend.go:304).
THEOREM SuiteReportsFinally ==
    ASSUME "long day" \notin Parts PROVE SideBySide => []ReportsAreFinal
<1>1. SideInit => part # "long day"
  BY ZenonT(60) DEF SideInit
<1>2. part # "long day" /\ [SideNext]_side => (part # "long day")'
  BY ZenonT(60), OnePartMoves
<1>3. SideInv /\ part # "long day" => ReportsAreFinal
  BY ZenonT(60), ReportsHold, ReportsAssumption DEF SideInv, ReportsAreFinal
<1> QED
  BY <1>1, <1>2, <1>3, SideAlways, PTL DEF SideBySide, side

\* Following the cursors shows every turn once and in order, on pages that fit their block
\* (store/conversation.go:163).
THEOREM SuiteWalksWhole == SideBySide => []WalkIsWhole
<1>1. SideInv => WalkIsWhole
  BY PagesHold, PagesAssumption DEF SideInv, WalkIsWhole
<1> QED
  BY <1>1, SideAlways, PTL

\* Commits on the environment are steps of SandboxHistory, whose books balance and whose rules
\* run once; while leases may run out, facts are whole hours and none is taken back
\* (app/app.go:208, store/store.go:426).
THEOREM SuiteKeepsHistory == SideBySide => HistoryKept
<1>1. SideInit => (part = "history" => History!HistoryInit)
  BY HistorySame DEF SideInit
<1>2. SideInv =>
        /\ part = "history" => History!TypeOK /\ History!BooksBalance /\ History!RulesRunOnce
        /\ part = "slow" => Slowed!TimelineWhole /\ Slowed!LoadsAgree
  BY HistoryHolds, SlowedHolds, EnvironmentsAssumption, AmountsAssumption DEF SideInv
<1>3. SideInv /\ [SideNext]_side =>
        /\ [part = "history" => History!HistoryNext]_db
        /\ [part = "history" => History!AdvanceKeepsPolicy]_db
        /\ [part = "slow" => Slowed!Grows]_db
  BY OnePartMoves, HistoryHolds, SlowedHolds, EnvironmentsAssumption, AmountsAssumption
  DEF SideInv
<1> QED
  BY <1>1, <1>2, <1>3, SideAlways, PTL DEF SideBySide, side, HistoryKept

\* An hour spends within the budgets in force and the balance, sells each opportunity once and
\* loses what a group has learned through a change of its budget only, and shares by wins lose
\* and invent no opportunity (sandbox/joint_delivery.go:403, 446).
THEOREM SuiteDeliversWithinMeans == SideBySide => DeliveryWithinMeans
<1>1. SideInv =>
        /\ part = "shared" => Shared!PrepaidOnly /\ Shared!InventorySoldOnce
        /\ part = "lifelong" => Lifelong!PrepaidOnly /\ Lifelong!InventorySoldOnce
        /\ part = "allocation" =>
              /\ Allocation!NothingLostOrInvented
              /\ Allocation!PartsWithinParts
              /\ Allocation!MoreWinsMore
  BY SharedHolds, LifelongHolds, AllocationHolds, DeliveriesAssumption, SharersAssumption
  DEF SideInv
<1>2. SideInv /\ [SideNext]_side =>
        [/\ part = "shared" => Shared!SpendsWithin /\ Shared!LosesByChange
         /\ part = "lifelong" => Lifelong!SpendsWithin]_delivered
  BY OnePartMoves, SharedHolds, LifelongHolds, DeliveriesAssumption DEF SideInv
<1> QED
  BY <1>1, <1>2, SideAlways, PTL DEF SideBySide, side, DeliveryWithinMeans
=============================================================================
