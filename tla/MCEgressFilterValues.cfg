CONSTANTS
    W = 2
    NotHere = NotHere
    MaxEntries = 3
    MaxLBAddresses = 2
    privateRanges <- MCPrivateRanges
    FilterLists <- MCFilterLists
    LBAddressSets <- MCLBAddressSets
SPECIFICATION Spec
INVARIANT TypeOK
INVARIANT ListIsExact
INVARIANT ReservedNeverBlocked
PROPERTY ImplementsBlocked
CHECK_DEADLOCK FALSE
