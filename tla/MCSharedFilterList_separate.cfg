CONSTANTS
    s1 = s1
    s2 = s2
    s3 = s3
    Shoot <- Shoots3
    Workers = 2
    Download <- Roomy
    ServiceTags <- AllTags
    StaticLen <- OneTwoOne
    ShootTagLen <- NoneOneTwo
    TornReads = FALSE
SPECIFICATION Spec
INVARIANT TypeOK
INVARIANT DeployedIsMerged
INVARIANT TagsAreMerged
INVARIANT SharedListsIntact
PROPERTY VersionsOnlyAdvance
