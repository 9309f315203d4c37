CONSTANTS
    g1 = g1
    g2 = g2
    typo = typo
    n2 = n2
    ApplicationName = ApplicationName
    NoWorkers = NoWorkers
    Name <- Names
    Group <- Groups
    Node <- Nodes
    GroupOf <- GroupOfNode
    GroupSets <- OneOrTwo
    ProviderConfigs <- Configs
    ServiceBlackholing = TRUE
    MaxChanges = 2
SPECIFICATION FairSpec
INVARIANT TypeOK
INVARIANT ModesWereAskedFor
INVARIANT RefusedHasNoEffect
PROPERTY GroupsStayFiltered
PROPERTY ModesSettle
