SPECIFICATION MCSpec
CONSTANTS
    Recordings <- ReplayRecordings
    SkidSize = 2
    MaxSkid = 1
    MaxTicksRequest = 5
    MaxStrays = 1
INVARIANTS
    SessionSound
    StringsAsStepped
    TimelineSound
    ReverseExecutionExact
PROPERTIES
    FramesInPlace
    ReplayFinishes
    
CHECK_DEADLOCK FALSE
