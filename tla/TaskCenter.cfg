SPECIFICATION Spec
CONSTANTS
    FixedTasks = {f}
    CronTasks = {c}
    Requests = {q1, q2}
    None = none
    Capacity = 1
    Interval = 2
    Period = 2
    CronEnd = 6
    Recheck = 1
    Offsets = {0, 2}
    RunIdEnd = 3
    MaxTime = 3
    LastRegister = 1
SYMMETRY Interchangeable
INVARIANTS
    OneRunAtATime
    StopIsFinal
    StartedIsTrue
    DeadlinesKept
PROPERTIES
    CronNotEarly
CHECK_DEADLOCK FALSE
