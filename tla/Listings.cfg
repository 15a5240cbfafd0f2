SPECIFICATION Spec
CONSTANTS
    Ids <- MCIds
    MaxTime = 2
    MaxLimit = 2
    Writers = 2
    None = None
    Gone = Gone
INVARIANTS
    TypeOK
    PagesAreInOrder
    NoGap
