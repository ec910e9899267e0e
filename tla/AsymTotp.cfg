SPECIFICATION Spec
CONSTANTS
    Nil = Nil
    Txs <- MCTxs
    Durations <- MCDurations
    Ticks <- MCTicks
    MaxTime = 7
INVARIANTS
    TypeOK
    OTPNeverReused
    NeverLockedOut
    MempoolOneOTP
CHECK_DEADLOCK FALSE
