CONSTANTS
    s1 = s1
    s2 = s2
    s3 = s3
    Shoot <- Shoots2
    Workers = 2
    Download <- Roomy
    ServiceTags <- RoomyTags
    StaticLen <- OneEach
    ShootTagLen <- OneEach
    TornReads = FALSE
SPECIFICATION Spec
INVARIANT ShootTagsMerged
