SPECIFICATION Spec
CONSTANTS
    first = first
    second = second
    db = db
    RequestIDs = {first, second}
    Names <- MCNames
    NameOf <- MCNameOf
    ExpiryOf <- MCExpiryOf
    DocumentIDs = {d1, d2}
    Creators = {c1}
    Revokers = {rev}
    Cleaner = cleaner
    EndOfTime = 3
    Nothing = Nothing
    Faults = 0
INVARIANTS
    AccessLasts
CHECK_DEADLOCK FALSE
