CONSTANTS
    ChatClients = {c1, c2}
    CLIENT_NUM = 2
    None = None
    Junk = Junk
SPECIFICATION CondChatSpec
INVARIANTS
    WaitsForClients
CHECK_DEADLOCK FALSE
