CONSTANTS
    Donors = {k1, k2}
    MAX_FDS = 2
    MaxLines = 2
    MaxCounted = 4
SPECIFICATION TcpSpec
INVARIANTS
    CountedOnce
CHECK_DEADLOCK FALSE
