SPECIFICATION Spec
CONSTANTS
    None = None
    Ids = {0, 1, 2}
    Hashes = {0, 7, 9}
    TypeHashes = {100, 200}
    MaxEntries = 3
INVARIANTS
    TypeOK
    AnswersWereLoaded
    EncodeThenDecode
    DecodeThenEncode
    EveryEntryAnswers
CHECK_DEADLOCK FALSE
