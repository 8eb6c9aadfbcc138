\* One request at a time, a clock that is set.
CONSTANTS
    Instances = {"main", "blind"}
    Cassettes = {1, 2}
    MaxCount = 2
    Low = 1
    Critical = 0
    BinCapacity = 2
    Window = 1
    LargeDrop = 2
    Grace = 1
    Skews <- BehindAndAhead
    Workers = {1, 2}
    MaxClock = 7
    MaxLate = 2
    MaxChanges = 2
SPECIFICATION MCSpec
INVARIANTS
    TypeOK
    CassetteCountedOnce
    BlindnessEnds
PROPERTIES
    ImplementsBoard
CHECK_DEADLOCK FALSE
