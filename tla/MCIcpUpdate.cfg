SPECIFICATION FairSpec
CONSTANTS
    m1 = m1
    Req = {r1, r2, r3}
    Method = {m1}
    MethodOf <- MCMethodOf
    Hole = Hole
    Slot = {1}
    NoCall = NoCall
    MaxRecords = 2
    StaleAfter = 1
    MaxTime = 2
    MaxQueue = 3
    MaxFaults = 1
    MaxUpgrades = 1
INVARIANTS SingleFlight
PROPERTIES   QueuedEventuallySettles
CHECK_DEADLOCK FALSE
