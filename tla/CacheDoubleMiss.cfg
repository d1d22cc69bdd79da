CONSTANTS
    t1 = t1
    t2 = t2
    b1 = b1
    Threads = {t1, t2}
    Blocks = {b1}
    Uses <- SameBlock
    MaxWrites = 2
SPECIFICATION CacheSpec
INVARIANT
    CacheAsserts
