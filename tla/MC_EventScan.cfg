SPECIFICATION FairSpec
CONSTANTS
    Policies <- MCPolicies
    Failures <- MCFailures
    Feeds <- MCFeeds
    Windows <- MCWindows
    Tips = {2, 4, 5}
    MaxCloses = 3
    Retention = 4
    Bits = 4
    Drift = 1
    Margin = 2
    PageLimit = 2
    EndpointCap = 2
    MaxPages = 2
INVARIANTS
    ContiguousFeed
    ResultIsHonest
    NeverAsksOutsideRetention
PROPERTIES
    ScanReturns
