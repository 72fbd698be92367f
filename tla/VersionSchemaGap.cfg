SPECIFICATION Spec
CONSTANTS
    None = None
    Ids = {0, 1, 2}
    Hashes = {7, 9}
    TypeHashes = {100}
    MaxEntries = 2
INVARIANT
    UnknownInstanceIdIsNone
CHECK_DEADLOCK FALSE
