SPECIFICATION Spec
CONSTANTS
    Groups <- MCGroups
    MaxGroups = 3
INVARIANTS
    TypeOK
    WholeGroupsAreRead
PROPERTY
    EveryPacketIsRead
CHECK_DEADLOCK FALSE
