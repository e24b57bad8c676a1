--------------------------- MODULE ReportEvidence ---------------------------
(***************************************************************************)
(* Reports of the Sandbox while its clock runs (internal/sandbox/          *)
(* backend.go, simulation.go) and what is calculated from them             *)
(* (internal/ads/analysis.go, comparison.go).  Conversions of an hour are  *)
(* reported some hours late, ads appear later than others, and a report    *)
(* says whether it is complete and whether conversions may still follow.   *)
(***************************************************************************)
EXTENDS Integers, Sequences, FiniteSets, FiniteSetsExt

CONSTANTS
    Seeded, Later,  \* ads of the seed, ads created afterwards
    FullDay,        \* the hours of a day, as coverage counts them
    HoursOf,        \* the hours each day after the seed's really has
    Delay,          \* attribution delay and reporting latency
    Conversions,    \* an hour's tracked conversions
    SeedConversions,
    None

ReportAssumption ==
    /\ Delay \in Nat /\ FullDay \in Nat \ {0} /\ HoursOf \in Seq(Nat \ {0})
    /\ Seeded # {} /\ IsFiniteSet(Seeded \union Later)
    /\ Conversions \subseteq Nat /\ SeedConversions \in Nat

\* No day is longer than coverage counts: daylight saving time breaks this.
OrdinaryDays == \A day \in DOMAIN HoursOf : HoursOf[day] <= FullDay

VARIABLES
    clock,  \* the last hour delivered, [day, hour]; day 0 is the seed's
    ads,
    facts,  \* [ad, day, hour, age, conversions]; age: hours since
    asked   \* a report someone still has, or None

vars == <<clock, ads, facts, asked>>

Days == 0..Len(HoursOf)
Query == {q \in [from : Days, to : Days] : q.from <= q.to}
In(q, day) == q.from <= day /\ day <= q.to

\* visibleFactMetrics: conversions wait for their attribution, spend does not.
Visible(f) == IF f.age >= Delay THEN f.conversions ELSE 0
Hidden(f) == f.age < Delay /\ f.conversions > 0

\* A day of an ad is covered by its row of the seed or by a full day of hours.
Covered(ad, day) ==
    \/ ad \in Seeded /\ day = 0
    \/ Cardinality({f \in facts : f.ad = ad /\ f.day = day}) >= FullDay

Complete(q) ==
    /\ q.to <= clock.day
    /\ \A ad \in ads, day \in q.from..q.to : Covered(ad, day)

\* A mutant: whatever is hidden is not worth a word.
NeverPending(q) == FALSE

\* "Recent conversions are still being attributed and may backfill."
BackfillPending(q) == \E f \in facts : In(q, f.day) /\ Hidden(f)

Rows(q) ==
    LET hours(ad, day) == {f \in facts : f.ad = ad /\ f.day = day}
        seed(ad, day) == IF ad \in Seeded /\ day = 0 THEN 1 ELSE 0
        keys == {k \in ads \X (q.from..q.to) : seed(k[1], k[2]) = 1 \/ hours(k[1], k[2]) # {}}
    IN  [k \in keys |->
            [spend |-> Cardinality(hours(k[1], k[2])) + seed(k[1], k[2]),
             conversions |-> MapThenSumSet(Visible, hours(k[1], k[2])) + seed(k[1], k[2]) * SeedConversions]]

Report(q) == [query |-> q, complete |-> Complete(q), pending |-> BackfillPending(q), rows |-> Rows(q)]

Sum(rows, metric) == MapThenSumSet(LAMBDA k : rows[k][metric], DOMAIN rows)
EntitySum(rows, ad, metric) == MapThenSumSet(LAMBDA k : rows[k][metric], {k \in DOMAIN rows : k[1] = ad})

\* Compare accepts complete reports of equal, disjoint windows in their order.
Comparable(p, c) ==
    /\ p.complete /\ c.complete
    /\ p.query.to - p.query.from = c.query.to - c.query.from
    /\ p.query.to < c.query.from

Contributors(p, c) == {k[1] : k \in DOMAIN p.rows} \cup {k[1] : k \in DOMAIN c.rows}

\* An entity's contribution to the change of the rate: its conversions over
\* the whole spend of its window, now less before, over both spends.
Contribution(p, c, ad) ==
    EntitySum(c.rows, ad, "conversions") * Sum(p.rows, "spend")
        - EntitySum(p.rows, ad, "conversions") * Sum(c.rows, "spend")
Delta(p, c) ==
    Sum(c.rows, "conversions") * Sum(p.rows, "spend") - Sum(p.rows, "conversions") * Sum(c.rows, "spend")

-----------------------------------------------------------------------------
Init ==
    /\ clock = [day |-> 0, hour |-> FullDay]
    /\ ads = Seeded /\ facts = {} /\ asked = None

Tomorrow == clock.day = 0 \/ clock.hour = HoursOf[clock.day]

\* One hour of Advance.
Hour(converted) ==
    LET now == IF Tomorrow THEN [day |-> clock.day + 1, hour |-> 1] ELSE [clock EXCEPT !.hour = @ + 1]
    IN
    /\ Tomorrow => clock.day < Len(HoursOf)
    /\ clock' = now
    /\ facts' = {[f EXCEPT !.age = @ + 1] : f \in facts} \cup
                {[ad |-> ad, day |-> now.day, hour |-> now.hour, age |-> 0,
                  conversions |-> converted[ad]] : ad \in ads}
    /\ UNCHANGED <<ads, asked>>

CreateAd(ad) == ad \notin ads /\ ads' = ads \cup {ad} /\ UNCHANGED <<clock, facts, asked>>
Ask(q) == asked' = Report(q) /\ UNCHANGED <<clock, ads, facts>>

Next ==
    \/ \E converted \in [ads -> Conversions] : Hour(converted)
    \/ \E ad \in Later : CreateAd(ad)
    \/ \E q \in Query : Ask(q)

Spec == Init /\ [][Next]_vars
-----------------------------------------------------------------------------
\* A report that was complete, and that no conversion was missing from, shows
\* what it would show now: no hour, late conversion or new ad changes it.
CompleteReportIsFinal ==
    asked # None /\ asked.complete /\ ~asked.pending => Rows(asked.query) = asked.rows

\* A complete report that may still change says so, and only its conversions
\* may: spend is never backfilled.
CompleteSpendIsFinal ==
    asked # None /\ asked.complete =>
        /\ DOMAIN Rows(asked.query) = DOMAIN asked.rows
        /\ \A k \in DOMAIN asked.rows : Rows(asked.query)[k].spend = asked.rows[k].spend

\* "Contributions sum to total ROAS change": also when the reports were read
\* at different times and an ad was created in between.
ContributionsExplainDelta ==
    asked # None =>
        \A q \in Query :
            LET now == Report(q) IN
            Comparable(asked, now) =>
                MapThenSumSet(LAMBDA ad : Contribution(asked, now, ad), Contributors(asked, now))
                    = Delta(asked, now)
=============================================================================
