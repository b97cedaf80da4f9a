SPECIFICATION Spec
CONSTANTS
    Keys = {k1}
    Clients = {c1}
    Refreshers = {r1, r2}
    None = none
    Ttls = {1, 2}
    LazyTtl = 3
    MinTtl = 2
    Threshold = 2
    Crashes = FALSE
    MaxUptime = 3
INVARIANTS
    FreshWindow
CHECK_DEADLOCK FALSE
