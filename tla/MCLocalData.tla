----------------------------- MODULE MCLocalData -----------------------------
(***************************************************************************)
(* What is kept on disk and computed from it, in one run: the durable      *)
(* memories, the persistent Sandbox, what it delivers and reports, and the *)
(* pages of a conversation.  These parts share no state and are checked    *)
(* side by side: a behaviour picks one instance in part and runs it alone. *)
(***************************************************************************)
EXTENDS MemoryStore, TLC

CONSTANTS
    Parts,                                \* the instances that are explored
    goal, c1, c2, c3, c4, c5, c6,         \* memory calls
    a, b, p1, p2,                         \* units and ads of the Sandbox, handlers
    r1, r2,                               \* its rules
    k1, k2, g1, g2                        \* campaigns, ad groups

VARIABLES
    part,   \* the instance that runs
    \* SandboxStore
    db, lease, proc, crashes,
    \* SandboxDelivery
    hour, settings, ledger, cohorts, learning, balance, last, edits,
    \* SandboxAllocation
    total, counts,
    \* ReportEvidence
    clock, ads, facts, asked,
    \* ConversationPage
    turns, before, joined, shown, done

environment == <<db, lease, proc, crashes>>
delivered == <<hour, settings, ledger, cohorts, learning, balance, last, edits>>
allocated == <<total, counts>>
reported == <<clock, ads, facts, asked>>
paged == <<turns, before, joined, shown, done>>

-----------------------------------------------------------------------------
(* Memories: a server with the extractions of two turns and the memory     *)
(* tools, and a second process on the same database.                       *)

Operation == (c1 :> "upsert") @@ (c2 :> "upsert") @@ (c3 :> "upsert") @@ (c4 :> "upsert")
          @@ (c5 :> "save") @@ (c6 :> "delete")
KeyOf == [c \in {c1, c2, c3, c4, c5, c6} |-> IF Operation[c] = "upsert" THEN goal ELSE None]
ProcessOf == [c \in {c1, c2, c3, c4, c5, c6} |-> IF c \in {c4, c6} THEN "cli" ELSE "server"]
TurnOf == (c1 :> "a") @@ (c2 :> "a") @@ (c3 :> "b") @@ (c4 :> "c") @@ (c5 :> "a") @@ (c6 :> "c")

-----------------------------------------------------------------------------
(* The environment.  A day is two hours, so that an advance crosses        *)
(* midnight.  The first rule raises the budget once something was spent    *)
(* today; the second switches the unit off after more in two days.         *)

Rules == (r1 :> [targets |-> {a}, above |-> 9, days |-> 1, action |-> "CHANGE_BUDGET", amount |-> 12])
      @@ (r2 :> [targets |-> {a}, above |-> 20, days |-> 2, action |-> "PAUSE", amount |-> 0])
Loose == [min |-> 1, max |-> 20, delta |-> 20]
Tight == [min |-> 1, max |-> 11, delta |-> 20]

\* One handler advances the clock, the other writes.
Divided == (p1 :> {"advance"}) @@ (p2 :> {"write", "operation", "settings"})
\* Both advance the clock; one creates what the other has not seen.
Overtaking == (p1 :> {"read", "advance"}) @@ (p2 :> {"advance", "operation"})

History == INSTANCE SandboxStore WITH
    Process <- {p1, p2}, Jobs <- Divided, Unit <- {a}, Seeded <- {a},
    RuleOrder <- <<r1, r2>>, RuleSpec <- Rules, DayLength <- 4,
    Budgets <- {10, 12}, StartBudget <- 10, Policies <- {Loose, Tight}, StartPolicy <- Loose,
    MaxAdvanceHours <- 2, MaxGeneratedHours <- 3, Lifetime <- {}, Slow <- FALSE, MaxCrashes <- 0

\* A machine so slow that leases run out: the clock's compare-and-swap alone.
Slowed == INSTANCE SandboxStore WITH
    Process <- {p1, p2}, Jobs <- Overtaking, Unit <- {a, b}, Seeded <- {a},
    RuleOrder <- <<>>, RuleSpec <- Rules, DayLength <- 4,
    Budgets <- {10}, StartBudget <- 10, Policies <- {Loose}, StartPolicy <- Loose,
    MaxAdvanceHours <- 2, MaxGeneratedHours <- 3, Lifetime <- {}, Slow <- TRUE, MaxCrashes <- 1

\* An ad group with a lifetime budget.
Lasting == INSTANCE SandboxStore WITH
    Process <- {p1, p2}, Jobs <- Overtaking, Unit <- {a, b}, Seeded <- {a},
    RuleOrder <- <<>>, RuleSpec <- Rules, DayLength <- 4,
    Budgets <- {10}, StartBudget <- 10, Policies <- {Loose}, StartPolicy <- Loose,
    MaxAdvanceHours <- 1, MaxGeneratedHours <- 2, Lifetime <- {b}, Slow <- FALSE, MaxCrashes <- 0
ASSUME EnvironmentsAssumption ==
    History!StoreAssumption /\ Slowed!StoreAssumption /\ Lasting!StoreAssumption
ASSUME AmountsAssumption ==
    History!AmountAssumption /\ Slowed!AmountAssumption /\ Lasting!AmountAssumption

-----------------------------------------------------------------------------
(* Deliveries.  One campaign of two ad groups that compete for one cohort; *)
(* then a lifetime budget beside a daily one, where the first group starts *)
(* after the first hour and the second reaches one cohort of the two.      *)

Mixed == (k1 :> "NONE") @@ (k2 :> "DAY") @@ (g1 :> "TOTAL") @@ (g2 :> "DAY")

\* round(min(n, r * (1 - exp(-n / Reachable)))) for six reachable users.
SixUsers == << <<0, 0, 0, 0, 1>>, <<0, 1, 1, 1, 1>>, <<0, 1, 1, 1, 2>>,
               <<1, 1, 2, 2, 2>>, <<1, 1, 2, 2, 3>>, <<1, 2, 2, 3, 3>> >>
OfSix(n, r) == IF n = 0 \/ r = 0 THEN 0
               ELSE SixUsers[IF r > 6 THEN 6 ELSE r][IF n > 5 THEN 5 ELSE n]

Shared == INSTANCE SandboxDelivery WITH
    Campaign <- {k1}, Group <- {g1, g2}, Ad <- {a, b}, Cohort <- {"young"},
    AdOrder <- <<a, b>>, GroupOf <- (a :> g1) @@ (b :> g2),
    CampaignOf <- (g1 :> k1) @@ (g2 :> k1), Mode <- [e \in {k1, g1, g2} |-> "DAY"],
    Targeting <- [g \in {g1, g2} |-> {"young"}], Window <- [g \in {g1, g2} |-> 0..3],
    Opportunities <- 5, Samples <- 2, Reachable <- 6, NewUsers <- OfSix, Costs <- {2, 3},
    Floor <- 1, Budgets <- {5, 11}, StartBudget <- 11, StartBalance <- 15,
    LearningThreshold <- 4, DayHours <- 2, MaxHour <- 3, MaxEdits <- 1, Unlimited <- 1000
Lifelong == INSTANCE SandboxDelivery WITH
    Campaign <- {k1, k2}, Group <- {g1, g2}, Ad <- {a, b}, Cohort <- {"young", "old"},
    AdOrder <- <<a, b>>, GroupOf <- (a :> g1) @@ (b :> g2),
    CampaignOf <- (g1 :> k1) @@ (g2 :> k2), Mode <- Mixed,
    Targeting <- (g1 :> {"young"}) @@ (g2 :> {"old"}),
    Window <- (g1 :> 1..3) @@ (g2 :> 0..3),
    Opportunities <- 3, Samples <- 2, Reachable <- 6, NewUsers <- OfSix, Costs <- {2},
    Floor <- 1, Budgets <- {5, 9}, StartBudget <- 9, StartBalance <- 20,
    LearningThreshold <- 4, DayHours <- 2, MaxHour <- 3, MaxEdits <- 1, Unlimited <- 1000
ASSUME DeliveriesAssumption == Shared!DeliveryAssumption /\ Lifelong!DeliveryAssumption

\* Three parties, every combination of at most four wins and seven opportunities.
Allocation == INSTANCE SandboxAllocation WITH MaxTotal <- 7, MaxCount <- 4, Parties <- 3
ASSUME SharersAssumption == Allocation!PartiesAssumption

-----------------------------------------------------------------------------
(* Reports over two days of two hours, and pages of a conversation. *)

Reports == INSTANCE ReportEvidence WITH
    Seeded <- {a}, Later <- {b}, FullDay <- 2, HoursOf <- <<2, 2>>, Delay <- 1,
    Conversions <- {0, 1}, SeedConversions <- 1
\* A day that daylight saving time makes an hour longer.
LongDay == INSTANCE ReportEvidence WITH
    Seeded <- {a}, Later <- {b}, FullDay <- 2, HoursOf <- <<3>>, Delay <- 1,
    Conversions <- {0, 1}, SeedConversions <- 1
ASSUME ReportsAssumption ==
    Reports!ReportAssumption /\ Reports!OrdinaryDays /\ LongDay!ReportAssumption

Pages == INSTANCE ConversationPage WITH
    Texts <- {1, 3, 5}, Rests <- {0, 5}, Limit <- 6, Frame <- 1, PageTurns <- 3, MaxTurns <- 4
ASSUME PagesAssumption ==
    Pages!SizeAssumption /\ Pages!RoomAssumption /\ Pages!NoneAssumption

-----------------------------------------------------------------------------

\* A part that does not run stands at one of its beginnings.
SideInit ==
    /\ part \in Parts
    /\ Init
    /\ IF part = "slow" THEN Slowed!Init ELSE History!Init
    /\ IF part = "lifelong" THEN Lifelong!Init ELSE Shared!Init
    /\ Allocation!Init
    /\ Reports!Init
    /\ Pages!Init /\ (part # "pages" => turns = <<>>)

SideNext ==
    \/ part = "memory" /\ Next
       /\ UNCHANGED <<part, environment, delivered, allocated, reported, paged>>
    \/ /\ \/ part = "history" /\ History!Next
          \/ part = "slow" /\ Slowed!Next
          \/ part = "lasting" /\ Lasting!Next
       /\ UNCHANGED <<part, vars, delivered, allocated, reported, paged>>
    \/ /\ \/ part = "shared" /\ Shared!Next
          \/ part = "lifelong" /\ Lifelong!Next
       /\ UNCHANGED <<part, vars, environment, allocated, reported, paged>>
    \/ part = "allocation" /\ Allocation!Next
       /\ UNCHANGED <<part, vars, environment, delivered, reported, paged>>
    \/ /\ \/ part = "reports" /\ Reports!Next
          \/ part = "long day" /\ LongDay!Next
       /\ UNCHANGED <<part, vars, environment, delivered, allocated, paged>>
    \/ part = "pages" /\ Pages!Next
       /\ UNCHANGED <<part, vars, environment, delivered, allocated, reported>>

SideBySide ==
    SideInit /\ [][SideNext]_<<part, vars, environment, delivered, allocated, reported, paged>>

-----------------------------------------------------------------------------

\* Commits on the environment are atomic steps of SandboxHistory: what was spent is what
\* the facts say, every half-hour since a rule was created it ran once, and within the
\* policy in force.  Also when a lease runs out under an advance, facts are whole hours up
\* to the clock, no hour is taken back, and a load that is accepted has read clock and
\* facts of one moment (app/app.go:208, store/store.go:426).
HistoryKept ==
    /\ part = "history" => History!HistoryInit
    /\ [][part = "history" => History!HistoryNext]_db
    /\ [](part = "history" => History!TypeOK /\ History!BooksBalance /\ History!RulesRunOnce)
    /\ [][part = "history" => History!AdvanceKeepsPolicy]_db
    /\ [](part = "slow" => Slowed!TimelineWhole /\ Slowed!LoadsAgree)
    /\ [][part = "slow" => Slowed!Grows]_db

\* An advance that was simulated can be stored.
AdvancesAreStorable == part = "lasting" => Lasting!AdvancesAreStorable

\* An hour spends on a group or campaign within the budget in force, the shared balance is
\* never overdrawn and accounts for all spend, no opportunity makes two impressions, and
\* what a group has learned is lost through a change of its budget only.  Dividing the
\* opportunities by the wins of samples loses and invents none: nobody's share is off by
\* one or more, a part never outgrows what it is a part of, and who won more gets no less
\* (sandbox/joint_delivery.go:403, 446).
DeliveryWithinMeans ==
    /\ [](part = "shared" => Shared!PrepaidOnly /\ Shared!InventorySoldOnce)
    /\ [](part = "lifelong" => Lifelong!PrepaidOnly /\ Lifelong!InventorySoldOnce)
    /\ [][/\ part = "shared" => Shared!SpendsWithin /\ Shared!LosesByChange
          /\ part = "lifelong" => Lifelong!SpendsWithin]_delivered
    /\ [](part = "allocation" =>
            /\ Allocation!NothingLostOrInvented
            /\ Allocation!PartsWithinParts
            /\ Allocation!MoreWinsMore)

\* A complete report without pending conversions shows what it would show now, a complete
\* one changes in its conversions only, and contributions sum to the total change, also
\* across reports of different times (sandbox/backend.go:304, ads/comparison.go:78).
ReportsAreFinal ==
    /\ part = "reports" =>
        /\ Reports!CompleteReportIsFinal
        /\ Reports!CompleteSpendIsFinal
        /\ Reports!ContributionsExplainDelta
    /\ part = "long day" => LongDay!CompleteReportIsFinal

\* Following the cursors shows every turn once and in order, whatever is recorded
\* meanwhile, on pages that fit their block of the prompt (store/conversation.go:163).
WalkIsWhole == part = "pages" => Pages!TypeOK /\ Pages!WalkIsWhole /\ Pages!PageFits
=============================================================================
