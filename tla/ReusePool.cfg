\* Two queries and maintenance share one place, which maintenance keeps filled.
SPECIFICATION Spec
CONSTANTS
    Tasks = {t1, t2}
    Maintainer = maintainer
    MaxSize = 1
    MinSize = 1
    MaxConns = 3
    MaxSweeps = 2
    CountRange = 9
SYMMETRY Interchangeable
INVARIANTS OnePlace ActiveExact QueriesStrandNoWaiter WithinMaxSize
CHECK_DEADLOCK FALSE
