\* A Responses session of up to three creates, a realtime session of three units.
SPECIFICATION SessionsSpec
CONSTANTS
    c1 = c1
    c2 = c2
    c3 = c3
    la = la
    lb = lb
    Creates = {c1, c2, c3}
    Lanes = {la, lb}
    Unnamed = la
    NoCreate = NoCreate
    NoLane = NoLane
    Scripts <- Conversations
    ActiveLimit = 2
    BufferLimit = 2
    LaneLimit = 1
    InterruptLimit = 1
    MaxLate = 1
    Units = {1, 2, 3}
    NoUnit = NoUnit
    MaxBuffer = 2
    MaxAuto = 1
INVARIANTS CreatesSettle LaneKept UnitsFunded
PROPERTIES SessionsSettle
CHECK_DEADLOCK FALSE
