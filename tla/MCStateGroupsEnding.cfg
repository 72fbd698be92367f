SPECIFICATION Spec
CONSTANTS
    Groups <- MCGroups
    MaxGroups = 1
INVARIANT
    CompletePacketEndsOtherwise
CHECK_DEADLOCK FALSE
