SPECIFICATION MCSpec
CONSTANTS
    Receipts = {1}
    Branches = {b1}
    NoReceipt = NoReceipt
    Hosts = {h1}
    Recorders = {w1}
    Markers = {m1}
    Alone = h1
    InitialItem <- MCInitialItem
    MaxScripts = 0
    MaxDeploys = 1
    MaxCrashes = 0
    Repair = Repair
    None = None
CHECK_DEADLOCK FALSE
PROPERTIES
    NoSecondTerminal
