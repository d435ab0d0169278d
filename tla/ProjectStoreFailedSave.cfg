\* A save fails and the project is closed without saving.
CONSTANTS
    b1 = b1
    b2 = b2
    unsaved = unsaved
    home = home
    other = other
    Blocks <- TwoBlocks
    NoDoc = NoDoc
    NoFile = NoFile
    JournalDepth = 0
    Paths <- OneName
    TempPath = unsaved
    NoPath = NoPath
    MaxStates = 2
    Faults <- SaveFault
SYMMETRY Symmetry
SPECIFICATION Spec
INVARIANTS
    SavedNeverLost
