SPECIFICATION FairSpec
CONSTANTS
    Rules = {r1, bad}
    Bad = {bad}
    Torn = torn
    Clients = {c1}
    Nobody = nobody
    QueueSize = 2
    BatchSize = 2
    MaxCommands = 4
    MaxFaults = 2
    MaxStarts = 1
INVARIANTS RulesAgree AcknowledgedLasts NoReloadAfterDrain
PROPERTY CallersAnswered
CHECK_DEADLOCK FALSE
