CONSTANTS
    N = 5
    K = 7
    L = 3
    W = 16
    NUM_PHILOSOPHER = 4
    EAT_ITERATIONS = 2
    Threads = {t1, t2, t3}
    ITERATIONS = 3
    Modulus = 64
    Players = {p1, p2, p3}
    Faces = {1, 2, 3}
    Clients = {c1, c2, c3}
    Admins = {c1}
    MAX_CONNECTIONS = 2
    Users = {u1, u2}
    Values = {v1, v2}
    Room = 2
SPECIFICATION MCSpec
INVARIANTS
    NoDataRace
    ReadsOwnProduct
    NoDeadlock
    FinalCount
    CountsPlayers
    SameBarrier
    OneWinner
    CountIsExact
    SlotInBounds
    SlotsAreThreads
    MutexOwner
    MemoryIsSound
PROPERTIES
    Finishes
    ImplementsTask2
    ImplementsAtomic
    RoundsEnd
    AdminStops
    ImplementsAtomicQueue
CHECK_DEADLOCK FALSE
