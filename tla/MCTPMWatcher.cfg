\* The TPM fails, recovers and changes its name at any moment.
CONSTANTS
    Names <- MCNames
    BitXor <- MCBitXor
    IDLength = 2
    MaxTime = 3
SPECIFICATION FairSpec
INVARIANTS
    DigestInBounds
    NothingLeaked
    ReleaseOrder
    GetReturnsWholeID
    StampCoversID
PROPERTY CacheFollowsTPM
