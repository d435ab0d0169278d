\* Compaction that fails, is cancelled or is cut short by a crash.
CONSTANTS
    b1 = b1
    b2 = b2
    unsaved = unsaved
    home = home
    other = other
    Blocks <- TwoBlocks
    NoDoc = NoDoc
    NoFile = NoFile
    JournalDepth = 0
    Paths <- OneName
    TempPath = unsaved
    NoPath = NoPath
    MaxStates = 3
    Faults <- CompactionFault
SYMMETRY Symmetry
SPECIFICATION Spec
INVARIANTS
    SavedNeverLost
