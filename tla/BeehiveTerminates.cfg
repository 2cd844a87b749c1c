CONSTANTS
    Bees = {b1, b2}
    width = 3
    height = 1
SPECIFICATION Spec
PROPERTIES
    TerminatesOnceCollected
CHECK_DEADLOCK FALSE
