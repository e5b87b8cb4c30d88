SPECIFICATION FairSpec
CONSTANTS
    first = first
    second = second
    db = db
    RequestIDs = {first, second}
    Names <- MCNames
    NameOf <- MCNameOf
    ExpiryOf <- MCExpiryOf
    DocumentIDs = {d1, d2, d3}
    Creators = {c1, c2}
    Revokers = {rev}
    Cleaner = cleaner
    EndOfTime = 3
    Nothing = Nothing
    Faults = 1
INVARIANTS
    TypeOK
    EveryDocumentTracked
PROPERTIES
    ExpiredDocumentsDeleted
    RemovedByItsRequests
CHECK_DEADLOCK FALSE
