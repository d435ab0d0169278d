\* Failing autosaves and saves, and Save As of a recovered project.
CONSTANTS
    b1 = b1
    b2 = b2
    unsaved = unsaved
    home = home
    other = other
    Blocks <- OneBlock
    NoDoc = NoDoc
    NoFile = NoFile
    JournalDepth = 0
    Paths <- TwoNames
    TempPath = unsaved
    NoPath = NoPath
    MaxStates = 2
    Faults <- WriteFaults
SYMMETRY Symmetry
SPECIFICATION Spec
INVARIANTS
    LiveBlocksStored
