\* The runtimes, the tools, the delegates and the Manager host, one at a time.
SPECIFICATION SideBySide
CONSTANTS
    Parts = {"bridge", "repeating", "numbering", "bounded", "reading", "reporting",
             "changing", "alone", "at once", "one by one", "together"}
    None = None a1 = a1 a2 = a2 a3 = a3 a4 = a4 a5 = a5 b1 = b1 b2 = b2 b3 = b3
    c1 = c1 q1 = q1 ch1 = ch1 w1 = w1 w2 = w2
    Id = {a1, a2, a3, a4} Round = {0, 1, 2, 3} Limit = 3 MaxRounds = 2 MaxText = 1
    NeedsCheckpoint = TRUE
SYMMETRY Alike
INVARIANTS TypesOK ToolsKeepBounds CardsAreRight DraftsAreAccounted
PROPERTIES KeepsPromise LoopKeepsPromise DelegatesKeepLimits
CHECK_DEADLOCK FALSE
