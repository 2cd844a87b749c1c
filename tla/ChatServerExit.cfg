CONSTANTS
    Clients = {c1, c2}
    Admins = {c1}
    MAX_CONNECTIONS = 2
SPECIFICATION ChatSpec
INVARIANTS
    AllTerminatedAtExit
CHECK_DEADLOCK FALSE
