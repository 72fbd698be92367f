SPECIFICATION Spec
CONSTANTS
    Heads = {chat, chatAgain}
    GamePayloads <- MCGamePayloads
    OwnPayloads <- MCOwnPayloads
    Zero = zero
    AllOnes = allOnes
    Garbled = garbled
    None = None
    MaxDamages = 2
INVARIANTS
    TypeOK
    OwnFrameValidates
    ValidatedIsSent
