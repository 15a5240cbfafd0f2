SPECIFICATION Spec
CONSTANTS
    Ids = {i1, i2}
    Requests = {r1}
    Metas = {m1, m2}
    Texts <- MCTexts
    Hashes <- MCHashes
    Canon <- MCCanon
    Crashes = FALSE
    Replies = {"ok", "refused", "lost"}
    NoRow = NoRow
    NoDoc = NoDoc
    NoId = NoId
    Removed = Removed
SYMMETRY Symmetry
INVARIANTS
    HashMatchesText
    IndexHasLiveMemory
    NoOrphanDocument
    TombstoneIsNotRepatched
PROPERTIES
    SyncRepairs
    PurgeIsReal
