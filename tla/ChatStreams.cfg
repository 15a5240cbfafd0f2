SPECIFICATION Spec
CONSTANTS
    MaxToolTurns = 3
    MaxDeltas = 2
    MaxCalls = 2
CHECK_DEADLOCK FALSE
INVARIANTS
    TypeOK
    ReplayAgrees
    ContentIsWhatWasSaid
    CallsAnswered
    ToolsClosed
PROPERTY OnlyLatestEventChanges
