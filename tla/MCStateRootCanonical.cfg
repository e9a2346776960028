SPECIFICATION Spec
CONSTANTS
    Addr = {1, 2}
    Slot = {1, 2, 3}
    AddrKey <- MCAddrKey
    SlotKey <- MCSlotKey
    Stores <- OwnValues
    GcSteps = 1
    ScanSteps = 2
    MaxTouches = 1
    MaxBlocks = 3
    MaxCredits = 1
    MaxUpgrades = 1
PROPERTY MigrationKeepsRoot
CHECK_DEADLOCK FALSE
