CONSTANTS
    t1 = t1
    t2 = t2
    b1 = b1
    b2 = b2
    b3 = b3
    Threads = {t1, t2}
    Blocks = {b1, b2, b3}
    Uses <- OneShared
    MaxWrites = 2
    None = none
    Clients = {c1, c2}
    NumSlots = 2
    Faults = TRUE
SPECIFICATION StorageSpec
INVARIANTS
    CommandsAwaited
    
    
    
    
PROPERTIES
    EveryTransferReturns
CHECK_DEADLOCK FALSE
