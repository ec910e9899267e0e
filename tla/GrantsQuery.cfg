SPECIFICATION ListingSpec
CONSTANTS
    NKeys = 4
    DEFAULT_LIMIT = 2
    MAX_LIMIT = 3
    Limits <- MCLimits
INVARIANTS
    ListingTypeOK
    ListingComplete
