CONSTANTS
    n = 2
    Clients = {k1, k2, k3}
    POISON_PILL = POISON_PILL
    NoClient = NoClient
SPECIFICATION Spec
PROPERTIES
    NoAcceptAfterShutdown
CHECK_DEADLOCK FALSE
