\* Two names: editing, saving, Save As, closing, crashing, reopening.
CONSTANTS
    b1 = b1
    b2 = b2
    unsaved = unsaved
    home = home
    other = other
    Blocks <- TwoBlocks
    NoDoc = NoDoc
    NoFile = NoFile
    JournalDepth = 0
    Paths <- TwoNames
    TempPath = unsaved
    NoPath = NoPath
    MaxStates = 3
    Faults <- NoFaults
SYMMETRY Symmetry
SPECIFICATION Spec
INVARIANTS
    TypeOK
    AutosaveHasBlocks
    CleanMeansSaved
    CrashKeepsSession
    SavedNeverLost
    NothingCommittedSilently
