CONSTANTS
    t1 = t1
    t2 = t2
    t3 = t3
    m2 = m2
    NumCores = 3
    Threads = {t1, t2, t3}
    Home <- OnTwoCores
    Messages = {m1, m2}
    Panics = {t1, t2}
    Panic = panic
    None = none
    Writers = {w1, w2}
    Readers = {r1}
    Values = {v1, v2, v3}
    head = head
    Null = null
SPECIFICATION InterruptsSpec
INVARIANTS
    MessagesAnnounced
    TickAlwaysComes
PROPERTIES
    QueueIsFifo
    
    
    EveryEventFires
CHECK_DEADLOCK FALSE
