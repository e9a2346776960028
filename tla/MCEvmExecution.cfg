SPECIFICATION Spec
CONSTANTS
    a = a
    b = b
    Account = {a, b}
    Withdrawal = Withdrawal
    FeeRecipient = FeeRecipient
    Ether <- MCEther
    Token <- MCToken
    Allowance <- MCAllowance
    DeployedAssets = {1}
    Unlimited = Unlimited
    WEI_PER_E8S = 2
    BaseFee = 1
    UnwrapInputs <- MCUnwrapInputs
    WithdrawInputs <- MCWithdrawInputs
    UpdateInputs <- MCUpdateInputs
    UpdateAllowlist = {10}
    Watched = b
    Oversized = {2}
    MAX_INTERNAL_TRACES_PER_TX = 2
    NoTx = NoTx
    NoCall = NoCall
    MaxTx = 2
    MaxBlockTxs = 2
    MaxOps = 2
    MaxDepth = 2
    MaxCredits = 1
INVARIANTS  WeiConserved
PROPERTIES TracesAreComplete QueryAnswersOneState
CHECK_DEADLOCK FALSE
