\* Maintenance evicts and refills down to min_size beside a query.
SPECIFICATION Spec
CONSTANTS
    Tasks = {t1}
    Maintainer = maintainer
    MaxSize = 2
    MinSize = 1
    MaxLoad = 1
    MaxConns = 4
    Policies = {"Reuse", "Retire", "Close"}
SYMMETRY Interchangeable
INVARIANT NoForgottenConnection
CHECK_DEADLOCK FALSE
