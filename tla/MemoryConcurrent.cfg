SPECIFICATION FairSpec
CONSTANTS
    Ids = {i1, i2}
    Requests = {r1, r2}
    Metas = {m1}
    Texts <- MCTwoTexts
    Hashes <- MCHashes
    Canon <- MCCanon
    Crashes = TRUE
    Replies = {"ok"}
    NoRow = NoRow
    NoDoc = NoDoc
    NoId = NoId
    Removed = Removed
INVARIANTS
    UniqueLiveHash
PROPERTIES
    ImplementsJournal
    RequestsReturn
