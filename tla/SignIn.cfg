SPECIFICATION Spec
CONSTANTS
    Requests = {phone, other}
    Phone = phone
    Failures = 3
    Window = 4
    Lock = 3
    Slowest = 1
    Tokens = 2
    Pending = 2
    None = None
INVARIANTS
    TypeOK
    FailuresAreBounded
    StoredIsShown
PROPERTIES
    LockEnds
