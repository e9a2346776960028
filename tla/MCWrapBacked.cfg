CONSTANTS
    r1 = r1  r2 = r2  s1 = s1  s2 = s2
    Req = {r1, r2}
    Payload = {r1, r2}
    PayloadOf <- OwnPayload
    Prices = {1, 2}
    Slot = {s1, s2}
    NoCall = NoCall
    NoMint = NoMint  Credit = Credit
    Kinds = {"wrap", "deposit"}
    StaleAfter = 2
    DedupWindow = 2
    LateReplies = FALSE
    MaxTime = 3
    MaxNonce = 2
    MaxUpgrades = 2
SPECIFICATION Spec
SYMMETRY Symmetry
INVARIANTS MintsAreBacked  
CHECK_DEADLOCK FALSE
