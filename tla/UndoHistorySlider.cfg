\* A slider edits the live tracks outside an interaction.
CONSTANTS
    empty = empty
    a = a
    b = b
    sel = sel
    nosel = nosel
    trim = trim
    gain = gain
    created = created
    nodesc = nodesc
    Audio <- MCAudio
    EmptyAudio = empty
    View <- MCView
    NoView = nosel
    Descs <- MCDescs
    CreatedDesc = created
    NoDesc = nodesc
    MaxStates = 3
    Faults <- SliderFault
SPECIFICATION Spec
INVARIANTS
    SavedStateIsSaved
