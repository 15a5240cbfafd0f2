SPECIFICATION Spec
CONSTANTS
    Turns = {t1}
    Posts = {p1, p2}
    Texts = {x}
    None = None
SYMMETRY Symmetry
CHECK_DEADLOCK FALSE
INVARIANT DeletedSessionIsEmpty
