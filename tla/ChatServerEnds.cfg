CONSTANTS
    Clients = {c1, c2}
    Admins = {c1}
    MAX_CONNECTIONS = 2
SPECIFICATION ChatSpec
PROPERTIES
    ShutdownEnds
CHECK_DEADLOCK FALSE
