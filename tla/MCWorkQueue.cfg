CONSTANTS
    C = 3
    N = 3
SPECIFICATION MCSpec
INVARIANTS
    MutualExclusion
    ExactlyOnce
    PillPerConsumer
    NoLostWakeup
PROPERTIES
    ImplementsWorkDispatch
CHECK_DEADLOCK FALSE
