SPECIFICATION Spec
CONSTANTS
    first = first
    second = second
    db = db
    RequestIDs = {first}
    Names <- MCNames
    NameOf <- MCNameOf
    ExpiryOf <- MCExpiryOf
    DocumentIDs = {d1}
    Creators = {c1}
    Revokers = {rev}
    Cleaner = cleaner
    EndOfTime = 3
    Nothing = Nothing
    Faults = 0
INVARIANTS
    RevokedHasNoDocument
CHECK_DEADLOCK FALSE
