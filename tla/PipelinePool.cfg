\* Two queries compete for one connection; no connection left open need be kept.
SPECIFICATION Spec
CONSTANTS
    Tasks = {t1, t2}
    Maintainer = maintainer
    MaxSize = 1
    MinSize = 0
    MaxLoad = 1
    MaxConns = 3
    Policies = {"Reuse", "Retire", "Close"}
SYMMETRY Interchangeable
INVARIANTS PoolBounded CountersExact NoStrandedWaiter
PROPERTY ClosedIsFinal
CHECK_DEADLOCK FALSE
