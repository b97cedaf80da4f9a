SPECIFICATION FairSpec
CONSTANTS
    Keys = {k1}
    Clients = {c1}
    Refreshers = {r1, r2}
    None = none
    Ttls = {1, 2}
    LazyTtl = 3
    MinTtl = 2
    Threshold = 2
    Crashes = TRUE
    MaxUptime = 3
INVARIANTS
    OneRefreshPerKey
    FreshWindowInProcess
    RetentionKept
PROPERTIES
    EvictionSparesNewer
    RefreshesEnd
CHECK_DEADLOCK FALSE
