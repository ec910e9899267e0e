SPECIFICATION Spec
CONSTANTS
    Nil = Nil
    Account = Account
    owner = owner
    k1 = k1
    k2 = k2
    contract = contract
    send = send
    exec = exec
    OtherContracts <- MCContracts
    Keys <- MCKeys
    AccountKey = owner
    TypeUrls <- MCTypeUrls
    ExecuteContract = exec
    Txs <- MCTxs
    Ticks <- MCTicks
    MaxHeight = 2
    MaxLog = 4
INVARIANTS
    TypeOK
    EffectsTraceToGrants
    RightsFromAccountKey
    GrantsMatchHistory
CHECK_DEADLOCK FALSE
