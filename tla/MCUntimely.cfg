\* TikTok with processes that may stop for as long as they like.
SPECIFICATION Spec
CONSTANTS
    c1 = c1  c2 = c2  c3 = c3  c4 = c4  c5 = c5
    None = None  Value = {10, 12}  Policies <- TwoPolicies
    Change = {c1, c2, c3, c4, c5}  Kind <- EveryKind
    Executor = {e1, e2}  Live = TRUE  MaxDrafts = 1  MaxFaults = 1
    StageTTL = 1  LeaseTTL = 1  RefreshBound = 1  ApplyTimeout = 1
    SaveTimeout = 1  ReconcileGrace = 0  AdvanceTTL = 1  AdvanceTimeout = 1
INVARIANTS AtMostOneSend NothingHidden
PROPERTY ImplementsLifecycle
SYMMETRY Executors
CHECK_DEADLOCK FALSE
