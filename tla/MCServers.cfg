CONSTANTS
    n = 2
    Clients = {k1, k2}
    POISON_PILL = POISON_PILL
    NoClient = NoClient
    Donors = {d1, d2, d3}
    MAX_FDS = 2
    MaxLines = 1
    MaxCounted = 2
SPECIFICATION MCSpec
INVARIANTS
    TypeOK
    OneHolder
    BalancesAgree
    
PROPERTIES
    Served
    Drains
    NobodyWaitsForEver
CHECK_DEADLOCK FALSE
