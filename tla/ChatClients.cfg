SPECIFICATION Spec
CONSTANTS
    Sends = {x1, x2}
    Sessions = {s1, s2}
    Packets = 2
    MaxNew = 2
    None = None
SYMMETRY Symmetry
CHECK_DEADLOCK FALSE
INVARIANTS
    TypeOK
    PacketsStayInTheirTurn
    TurnsStayInTheirConversation
    ShownOnce
    OneCreateUnderWay
    SessionIsOfThisConversation
    ChunksArePackets
