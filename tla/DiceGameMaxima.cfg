CONSTANTS
    Players = {p1, p2, p3}
    Faces = {1, 2}
SPECIFICATION DiceSpec
INVARIANTS
    AllMaximaEliminated
CHECK_DEADLOCK FALSE
