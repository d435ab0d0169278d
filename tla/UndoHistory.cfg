\* The history as the application drives it: no fault.
CONSTANTS
    empty = empty
    a = a
    b = b
    sel = sel
    nosel = nosel
    trim = trim
    gain = gain
    created = created
    nodesc = nodesc
    Audio <- MCAudio
    EmptyAudio = empty
    View <- MCView
    NoView = nosel
    Descs <- MCDescs
    CreatedDesc = created
    NoDesc = nodesc
    MaxStates = 3
    Faults <- NoFaults
SPECIFICATION Spec
INVARIANTS
    SavedStateIsSaved
    CurrentMatchesTracks
PROPERTIES
    ImplementsTimeline
