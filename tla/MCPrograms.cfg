CONSTANTS
    Bees = {b1, b2, b3}
    width = 2
    height = 2
    Tasks <- MCTasks
    MAX_MSGS = 2
    HalfRange = 8
    n_clients = 2
    PIPE_BUF = 3
    MaxBytes = 4
    MEMORY_TRACKER_SIZE = 8
    Blocks = 10
    MaxAllocated = 24
    ChatClients = {c1, c2}
    CLIENT_NUM = 2
    None = None
    Junk = Junk
SPECIFICATION MCSpec
INVARIANTS
    HarvestedOnce
    WaitForEachOther
    SummaryIsFinal
    SortsSmallNumbers
    CountsLeavers
    TrackerIsExact
    JoinsCreated
    OwnConnection
PROPERTIES
    DestroyedEnds
    OnlyCleanupDiscards
CHECK_DEADLOCK FALSE
