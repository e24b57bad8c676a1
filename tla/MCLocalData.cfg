\* Memories, the Sandbox's history, delivery and reports, and pages, one at a time.
SPECIFICATION SideBySide
CONSTANTS
    Parts = {"memory", "history", "slow", "shared", "lifelong", "allocation", "reports", "pages"}
    None = None goal = goal c1 = c1 c2 = c2 c3 = c3 c4 = c4 c5 = c5 c6 = c6
    a = a b = b p1 = p1 p2 = p2 r1 = r1 r2 = r2 k1 = k1 k2 = k2 g1 = g1 g2 = g2
    Calls = {c1, c2, c3, c4, c5, c6} Op <- Operation Key <- KeyOf Process <- ProcessOf
    Turn <- TurnOf MaxFacts = 1
INVARIANTS MemoriesHold FewFactsPerTurn ReportsAreFinal WalkIsWhole
PROPERTIES HistoryKept DeliveryWithinMeans
CHECK_DEADLOCK FALSE
