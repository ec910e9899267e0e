SPECIFICATION Spec
CONSTANTS
    Nil = Nil
    acc1 = acc1
    acc2 = acc2
    ext = ext
    Authority = ext
    Abstract = {acc1, acc2}
    External = {ext}
    Txs <- DeliverTxs
    NMsgs = 1
    GenesisParams <- Generous
    ParamsChoices <- NoUpdates
    HookGas = {1}
    SigGas = 1
    Modes <- DeliverModes
INVARIANT ContractGasIsCharged
