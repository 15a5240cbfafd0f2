SPECIFICATION HistorySpec
CONSTANTS
    Turns = {t1, t2}
    Posts = {p1, p2, p3}
    Texts = {x}
    Pairs = 1
    None = None
VIEW View
SYMMETRY Symmetry
CHECK_DEADLOCK FALSE
INVARIANTS
    TypeOK
    OneLiveReply
    FinishIsStored
    AnsweredTurnIsReplayed
PROPERTIES
    ImplementsTurnLog
    AnsweredTurnsAreKnown
