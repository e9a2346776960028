CONSTANTS
    Tx <- MCTx
    Signed <- MCSigned
    Schemas = {2, 4, 5, 7}
    Current = 6
    IndexedSince = 5
    LocsSince = 3
    Batch = 1
    Sample = 1
    Scans = 2
    Balances = {0, 1, 2}
    Critical = 1
    Low = 2
    MaxUpgrades = 2
    MaxTraps = 1
    MaxErrors = 1
SPECIFICATION FairSpec
INVARIANTS FlagFollowsTimer IndexCompleteWhenServing
PROPERTIES  MigrationsEnd QueueDrains
