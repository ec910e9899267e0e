SPECIFICATION Spec
CONSTANTS
    WordBits = 16
    FieldBits = 5
    Nil = Nil
    Coins = {}
    Authority <- Gov
    Senders <- MCSenders
    Bech32 <- MCSenders
    GenesisParams <- MCGenesis
    ParamsArgs <- MCParams
    RawUpdates <- MCRaw
    CodeArgs = {0, 300, 70000}
    SaltArgs <- MCSalts
    MaxSaltSize = 64
    BuildAddress <- MCBuildAddress
    InitData <- MCData
INVARIANTS
    StoredParamsReadable
    RegistrationReported
PROPERTIES
    ImplementsRegister
