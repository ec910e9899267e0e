SPECIFICATION Spec
CONSTANTS
    Nil = Nil
    alice = alice
    bob = bob
    AddrLen = 1
    Wallets <- MCWallets
    AddrOf <- MCAddrOf
    HexDigits <- MCHexDigits
    Strings <- MCStrings
    Txs <- MCTxs
    Creds <- MCCreds
INVARIANTS
    SignedByOwner
    SignatureUsedOnce
    OwnerAuthenticates
