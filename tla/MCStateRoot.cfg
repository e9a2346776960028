SPECIFICATION Spec
CONSTANTS
    Addr = {1, 2}
    Slot = {1, 2, 3}
    AddrKey <- MCAddrKey
    SlotKey <- MCSlotKey
    Stores <- OwnValues
    GcSteps = 1
    ScanSteps = 2
    MaxTouches = 2
    MaxBlocks = 3
    MaxCredits = 1
    MaxUpgrades = 1
INVARIANTS   MigrationFindsEveryRoot
CHECK_DEADLOCK FALSE
