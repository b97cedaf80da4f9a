SPECIFICATION Spec
CONSTANTS
    Queries = {q1, q2, q3}
    Listener = listener
    Closer = closer
    None = none
    SlotCount = 4
    HashMult = 1
    IdSpace = 8
    MaxIssued = 4
SYMMETRY Interchangeable
INVARIANT StoreKeepsSender
CHECK_DEADLOCK FALSE
