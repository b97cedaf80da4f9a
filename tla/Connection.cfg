SPECIFICATION FairSpec
CONSTANTS
    Kinds = {"tcp", "udp", "quic", "h2", "h3"}
    Calls = {q1, q2}
    Ids <- MCIds
    NoId = 0
    NoCall = none
    Patient = {q1}
INVARIANTS NoQueryLeftBehind UsingCountExact
PROPERTY CloseEnds
CHECK_DEADLOCK FALSE
