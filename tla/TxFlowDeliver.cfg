SPECIFICATION Spec
CONSTANTS
    Nil = Nil
    acc1 = acc1
    acc2 = acc2
    ext = ext
    Authority = ext
    Abstract = {acc1, acc2}
    External = {ext}
    Txs <- DeliverTxs
    NMsgs = 2
    GenesisParams <- Generous
    ParamsChoices <- Updates
    HookGas = {1, 2}
    SigGas = 1
    Modes <- DeliverModes
PROPERTIES
    ImplementsLedger
INVARIANTS
    TypeOK
    SequenceAuthenticated
    AbstractTxAtomic
    LeftoverSigner
    AfterTxOfOwnAccount
