CONSTANTS
    s1 = s1
    s2 = s2
    s3 = s3
    Shoot <- Shoots2
    Workers = 1
    Download <- Tight
    ServiceTags <- NoTags
    StaticLen <- OneEach
    ShootTagLen <- NoneEach
    TornReads = TRUE
SPECIFICATION Spec
INVARIANT DownloadAlwaysMerged
