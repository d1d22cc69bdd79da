CONSTANTS
    MaxPid = 4
    CtrlC = 1
    Full = {2}
    Handlers = {"SIG_IGN", "function"}
SPECIFICATION ProcessSpec
INVARIANTS
    NobodyOrphaned
PROPERTIES
    ZombiesReaped
CHECK_DEADLOCK FALSE
