SPECIFICATION SearchSpec
CONSTANTS
    Ids = {i1}
    Requests = {r1, r2}
    Metas = {m1, m2}
    Texts <- MCTwoTexts
    Hashes <- MCHashes
    Canon <- MCCanon
    Crashes = TRUE
    Replies = {"ok", "refused", "lost"}
    NoRow = NoRow
    NoDoc = NoDoc
    NoId = NoId
    Removed = Removed
SYMMETRY Symmetry
INVARIANTS
    TypeOK
    PendingDeleteIsTombstone
PROPERTIES
    RowsOnlyMoveForward
    DeletedIsNotFound
    SyncedIsFound
