\* The journal of saved documents after an ordinary close.
CONSTANTS
    b1 = b1
    b2 = b2
    unsaved = unsaved
    home = home
    other = other
    Blocks <- TwoBlocks
    NoDoc = NoDoc
    NoFile = NoFile
    JournalDepth = 2
    Paths <- OneName
    TempPath = unsaved
    NoPath = NoPath
    MaxStates = 2
    Faults <- NoFaults
SYMMETRY Symmetry
SPECIFICATION Spec
INVARIANTS
    JournalUsable
