SPECIFICATION Spec
CONSTANTS
    Heads = {chat}
    GamePayloads <- MCGamePayloads
    OwnPayloads <- MCOwnPayloads
    Zero = zero
    AllOnes = allOnes
    Garbled = garbled
    None = None
    MaxDamages = 0
INVARIANT
    GenuineFrameValidates
