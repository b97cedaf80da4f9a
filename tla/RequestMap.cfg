SPECIFICATION Spec
CONSTANTS
    Queries = {q1, q2}
    Listener = listener
    Closer = closer
    None = none
    SlotCount = 2
    HashMult = 1
    IdSpace = 3
    MaxIssued = 4
SYMMETRY Interchangeable
INVARIANTS
    TypeOK
    StorageSafe
    SenderInOnePlace
    ResponseGoesToItsQuery
    SizeCountsEntries
PROPERTY
    ImplementsTable
CHECK_DEADLOCK FALSE
