CONSTANTS
    a = a  b = b  c = c  p = p  q = q
    a0 = a0  a0x = a0x  a1 = a1  b0 = b0  c0 = c0
    Tx = {a0, a0x, a1, b0, c0}
    Senders = {a, b, c}
    Principals = {p, q}
    NoTx = NoTx  NoPrincipal = NoPrincipal
    Sender <- MCSender
    Nonce <- MCNonce
    MaxFee <- MCMaxFee
    PriorityFee <- MCPriorityFee
    GasLimit <- MCGasLimit
    Dynamic = {a0, a0x, a1, b0}
    EthSigned = {a0, a0x, c0}
    Submitters <- MCSubmitters
    MaxNonce = 2
    MaxPendingGlobal = 2
    MaxPendingPerSender = 2
    MaxPendingPerPrincipal = 2
    ReadyCandidateLimit = 2
    DroppedRingCapacity = 2
    MaxTxsPerBlock = 2
    BlockGasLimit = 3
    MaxBlockGas = 3
    MinPriorityFee = 1
    MinGasPrice = 1
    InitialBaseFee = 16
    SoftLimit = 3
    DecodeCost = 1
    ExecCost = 1
    Retains = {}
SPECIFICATION FairSpec
INVARIANTS PendingIndexesAgree NothingStranded CachesAreFresh PrincipalCountExact
 
CHECK_DEADLOCK FALSE
