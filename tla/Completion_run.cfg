SPECIFICATION MCSpec
CONSTANTS
    Receipts = {1, 2}
    Branches = {b1}
    NoReceipt = NoReceipt
    Hosts = {h1, h2}
    Recorders = {w1}
    Markers = {m1}
    Alone = h1
    InitialItem <- MCInitialItem
    MaxScripts = 1
    MaxDeploys = 1
    MaxCrashes = 1
    Repair = Repair
    None = None
CHECK_DEADLOCK FALSE
INVARIANTS
    ChainNeverBroken
    WriteIsAuthorized
    ConsumedIsShipped
PROPERTIES
    WrittenIsApplied
