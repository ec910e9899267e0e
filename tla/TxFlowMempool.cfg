SPECIFICATION LiveSpec
CONSTANTS
    Nil = Nil
    acc1 = acc1
    acc2 = acc2
    ext = ext
    Authority = ext
    Abstract = {acc1}
    External = {ext}
    Txs <- PoolTxs
    NMsgs = 1
    GenesisParams <- Generous
    ParamsChoices <- NoUpdates
    HookGas = {1}
    SigGas = 1
    Modes <- PoolModes
PROPERTIES
    ImplementsLedger
    StaleTxEvicted
INVARIANTS
    MempoolAuthenticated
