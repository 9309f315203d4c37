CONSTANTS
    a = a
    b = b
    Seed <- Seeds
    FirstSeed = a
    MaxVersion = 3
    MaxMigrations = 2
    MaxFailures = 3
SPECIFICATION FairSpec
INVARIANT TypeOK
INVARIANT OneManager
INVARIANT NothingLeftBehind
PROPERTY ImplementsDeployment
PROPERTY LatestFilterArrives
PROPERTY MigrationCompletes
PROPERTY DeletionCompletes
CHECK_DEADLOCK FALSE
