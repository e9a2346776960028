CONSTANTS
    r1 = r1  n1 = n1  s1 = s1  s2 = s2
    Req = {r1, n1}
    Native = {n1}
    Gross = 3
    Fees = {1, 3}
    Slot = {s1, s2}
    NoCall = NoCall
    StaleAfter = 1
    DedupWindow = 1
    MaxTime = 3
    MaxQueue = 3
    MaxUpgrades = 1
SPECIFICATION FairSpec
INVARIANTS PaidOnce DispatchedIsPaid NothingLost
PROPERTIES QueuedEventuallySettles
