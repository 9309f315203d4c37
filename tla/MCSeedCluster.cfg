CONSTANTS
    MaxVersion = 2
    MaxChanges = 2
SPECIFICATION FairSpec
INVARIANT TypeOK
INVARIANT NothingLeftBehind
PROPERTY FilterIsKept
PROPERTY FilterReturns
PROPERTY ListArrives
PROPERTY DeletionCompletes
