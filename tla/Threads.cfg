CONSTANTS
    Cores = {c1, c2}
    NumLocks = 2
    MaxNest = 1
    MaxCritical = 1
    t1 = t1
    t2 = t2
    t3 = t3
    b0 = b0
    b1 = b1
    b2 = b2
    b3 = b3
    MutexThreads = {t1, t2, t3}
    Boot = {b0, b1, b2, b3}
    CoreOf <- Pinned
    IdleThread = mutex_idle
    NumCores = 2
    Threads = {t1, t2, t3}
    Idle = idle
    None = null
    SizeMod = 8
    GrowTo <- FromOne
    Placed <- Split
    Calls <- Forks
SPECIFICATION ThreadsSpec
INVARIANTS
    MutualExclusion
    NoSelfDeadlock
    CriticalBalance
    UnlockAsserts
    StackFreedUnused
    QueuesSound
PROPERTIES
    EveryThreadProceeds
