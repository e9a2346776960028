CONSTANTS
    Tx <- MCTx
    Signed <- MCSigned
    Schemas = {}
    Current = 6
    IndexedSince = 5
    LocsSince = 3
    Batch = 1
    Sample = 1
    Scans = 2
    Balances = {2}
    Critical = 1
    Low = 2
    MaxUpgrades = 1
    MaxTraps = 0
    MaxErrors = 0
SPECIFICATION Spec
PROPERTY UpgradeKeepsLocations
