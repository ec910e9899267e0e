SPECIFICATION CodecSpec
CONSTANTS
    WordBits = 16
    FieldBits = 5
    Nil = Nil
    Coins <- MCCoins
    Inputs <- MCInputs
    Samples <- MCSamples
    Unknown <- LaterFields
CHECK_DEADLOCK FALSE
INVARIANTS
    IndexStaysInside
    EveryTurnTakesAByte
    ReencodesFaithfully
    UnknownFieldsIgnored
    ConcatenationMerges
