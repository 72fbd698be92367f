SPECIFICATION Spec
CONSTANTS
    long = long
    other = other
    short = short
    Contents <- MCContents
    Image <- MCImage
    PrefixLength = 1
    ChunkSize = 3
    SizeKey = SizeKey
    MaxPublications = 3
    None = None
INVARIANTS
    TypeOK
    QuietQueryDecodes
    DecodedIsRecent
