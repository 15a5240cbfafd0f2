SPECIFICATION Spec
CONSTANTS
    Ids = {i1, i2}
    Requests = {r1, r2}
    Metas = {m1}
    Texts <- MCTexts
    Hashes <- MCHashes
    Canon <- MCCanon
    Crashes = FALSE
    Replies = {"ok", "refused"}
    NoRow = NoRow
    NoDoc = NoDoc
    NoId = NoId
    Removed = Removed
SYMMETRY Symmetry
INVARIANTS
    LiveTextsDistinct
