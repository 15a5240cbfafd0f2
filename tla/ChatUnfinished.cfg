SPECIFICATION Spec
CONSTANTS
    Sends = {x1}
    Sessions = {s1}
    Packets = 2
    MaxNew = 0
    None = None
SYMMETRY Symmetry
CHECK_DEADLOCK FALSE
INVARIANT FinishedTurnIsWhole
