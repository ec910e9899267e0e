SPECIFICATION Spec
CONSTANTS
    Nil = Nil
    u = u
    v = v
    Authority = v
    Users = {u, v}
    Number <- MCNumber
    Addr <- MCAddr
    CodeIDs = {1, 2}
    Checksum <- MCChecksum
    Salts = {1, 2}
    BuildAddress <- MCBuildAddress
    GenesisChoices <- MCGenesis
    ParamsChoices <- MCUpdates
    Admins = {v}
    MaxAccountID = 5
INVARIANTS
    TypeOK
    UniqueLabels
    RegisteredOrNot
    StillBaseAccount
    UniqueAccountNumbers
