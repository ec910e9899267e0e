SPECIFICATION LiveSpec
CONSTANTS
    Nil = Nil
    Self = Self
    k1 = k1
    k2 = k2
    bad = bad
    other = other
    GenesisKey = k1
    Keys <- MCKeys
    BadKeys <- MCBad
    Others <- MCOthers
    Txs <- MCTxs
INVARIANTS
    TypeOK
    KeysFormAChain
    MempoolSignedWithKey
PROPERTIES
    LockedOut
    OldKeyTxEvicted
