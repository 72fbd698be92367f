SPECIFICATION Spec
CONSTANTS
    U64 <- MCU64
    U32 <- MCU32
    I32 <- MCI32
    WideBits = 3
    OctetBits = 2
    Sample <- MCSample
    Mistaken <- MCMistaken
    None = None
INVARIANT
    SignedIsRead
CHECK_DEADLOCK FALSE
