CONSTANTS
    Free = Free
    MaxStreams = 3
    MaxSeeks = 2
    CaptureCapacity = 2
    Faults = {}
SPECIFICATION Spec
INVARIANTS
    BuffersNotShared
    CapturedIsRecorded
    RingsPrimed
PROPERTIES
    CallsReturn
CHECK_DEADLOCK TRUE
