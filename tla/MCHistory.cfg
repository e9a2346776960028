CONSTANTS
    Shapes <- MCShapes
    Gaps = {1}
    Policies <- MCPolicies
    Manual <- MCManual
    EventInterval = 2
    NonBlobBytes = 1
    OtherRows = 2
    StopPoints = {"journaled", "cursor"}
    ExportBytes = 4
    MaxExportBlocks = 2
    LogLimit = 1
    MaxScannedReceipts = 2
    MaxHashScan = 2
    MaxBlocks = 4
    MaxPolicies = 2
SPECIFICATION Spec
INVARIANTS   PagesHoldEveryLog
PROPERTIES PrunesOnlyOldBlocks ExportsEveryByte
CHECK_DEADLOCK FALSE
