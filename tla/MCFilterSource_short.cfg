CONSTANTS
    n1 = n1
    n2 = n2
    n3 = n3
    NoNetwork = NoNetwork
    Networks <- MCNetworks
    Documents <- MCDocuments
    Configs <- MCConfigs
    ServiceTagFilters <- MCServiceTagFilters
    RefreshPeriods <- OkOnly
    FilterListMaxEntries = 2
    MaxChanges = 1
SPECIFICATION Spec
INVARIANT PlainListsAreRead
