CONSTANTS
    r1 = r1  r2 = r2  s1 = s1  s2 = s2
    Req = {r1}
    Payload = {r1}
    PayloadOf <- OwnPayload
    Prices = {1, 2}
    Slot = {s1, s2}
    NoCall = NoCall
    NoMint = NoMint  Credit = Credit
    Kinds = {"wrap", "deposit"}
    StaleAfter = 1
    DedupWindow = 2
    LateReplies = TRUE
    MaxTime = 3
    MaxNonce = 2
    MaxUpgrades = 1
SPECIFICATION FairSpec
INVARIANTS TransferredOnce PaidOutIsPulled
PROPERTIES QueuedEventuallyTaken
CHECK_DEADLOCK FALSE
