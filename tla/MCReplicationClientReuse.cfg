SPECIFICATION Spec
CONSTANTS
    None = None
    Ids = {1, 2}
    MyCubeGrid = grid
    MyCharacter = character
    OtherTypes = {other}
    Tables <- MCTables
    GridEvents = {11, 12, 13}
    VisitedEvents = {11, 12}
    PayloadEvents = {11, 13}
    ReliableEvents = {11, 12, 14}
    StrayEventIds = {4}
    ReuseIds = TRUE
    MaxMessages = 4
    MaxLoose = 1
INVARIANTS
    InstancesMatchTypes
    ObjectsArePast
    ReliableEventFindsItsObject
CHECK_DEADLOCK FALSE
