CONSTANTS
    n1 = n1
    n2 = n2
    n3 = n3
    NoNetwork = NoNetwork
    Networks <- MCNetworks
    Documents <- MCDocuments
    Configs <- MCConfigs
    ServiceTagFilters <- MCServiceTagFilters
    RefreshPeriods <- MCRefreshPeriods
    FilterListMaxEntries = 2
    MaxChanges = 2
SPECIFICATION FairSpec
INVARIANT TypeOK
INVARIANT FallbackOnlyWhenMissing
INVARIANT DownloadStaysAcceptable
INVARIANT DeployedIsOneSource
PROPERTY DocumentedArrives
