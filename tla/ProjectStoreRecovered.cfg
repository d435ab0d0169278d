\* A recovered project is saved under another name.
CONSTANTS
    b1 = b1
    b2 = b2
    unsaved = unsaved
    home = home
    other = other
    Blocks <- TwoBlocks
    NoDoc = NoDoc
    NoFile = NoFile
    JournalDepth = 0
    Paths <- TwoNames
    TempPath = unsaved
    NoPath = NoPath
    MaxStates = 2
    Faults <- RecoveredFault
SYMMETRY Symmetry
SPECIFICATION Spec
INVARIANTS
    NothingCommittedSilently
