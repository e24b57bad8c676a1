\* The Sandbox: crashes, failed saves and the operator who reconciles.
SPECIFICATION FairSpec
CONSTANTS
    c1 = c1  c2 = c2  c3 = c3  c4 = c4  c5 = c5
    None = None  Value = {10, 12}  Policies <- OnePolicy
    Change = {c1, c2}  Kind <- CreateAndUpdate
    Executor = {e1, e2}  Live = FALSE  MaxDrafts = 1  MaxFaults = 1
    StageTTL = 1  LeaseTTL = 3  RefreshBound = 1  ApplyTimeout = 1
    SaveTimeout = 1  ReconcileGrace = 3  AdvanceTTL = 2  AdvanceTimeout = 1
PROPERTY ClaimedIsSettled
CHECK_DEADLOCK FALSE
