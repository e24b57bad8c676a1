\* A creation is never judged by the budget policy.
SPECIFICATION Spec
CONSTANTS
    c1 = c1  c2 = c2  c3 = c3  c4 = c4  c5 = c5
    None = None  Value = {10, 12}  Policies <- TwoPolicies
    Change = {c1, c2, c3, c4, c5}  Kind <- EveryKind
    Executor = {e1, e2}  Live = FALSE  MaxDrafts = 1  MaxFaults = 0
    StageTTL = 1  LeaseTTL = 3  RefreshBound = 1  ApplyTimeout = 1
    SaveTimeout = 1  ReconcileGrace = 3  AdvanceTTL = 3  AdvanceTimeout = 2
INVARIANT CreationMeetsPolicy
SYMMETRY Executors
CHECK_DEADLOCK FALSE
