CONSTANTS
    c1 = c1
    c2 = c2
    k = k
    a = a
    b = b
    d = d
    f = f
    NoTable = none
    None = none
    Procs = {a, b}
    InitProcess = a
    Idle = k
    Window = f
    Kernel = kernel
    Cores = {c1, c2}
    Threads = {k, a, b, f}
    KThreads = {k}
    First = {k, a, b}
    Mappers = {k, a, b}
    Home <- TwoCores
    Boot <- BootThreads
    Indices = {1, 2}
    PtIndices = {1}
    MaxFrame = 4
    Cpus = {c1, c2}
    Tasks = {a, b, d}
    CpuOf <- Pinned
    PdEntries = {1, 2}
    PtEntries = {1, 2}
SPECIFICATION PagingSpec
INVARIANTS
    TablesShared
    WritesReachOwnTable
    ContextsKept
PROPERTIES
    TablesReachAll
CHECK_DEADLOCK FALSE
