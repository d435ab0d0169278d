CONSTANTS
    Free = Free
    MaxStreams = 1
    MaxSeeks = 1
    CaptureCapacity = 2
    Faults = {"stopDuringSeek"}
SPECIFICATION Spec
PROPERTIES
  CallsReturn
