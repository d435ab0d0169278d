CONSTANTS
    Free = Free
    MaxSets = 5
    MaxPlays = 2
    CounterSize = 5
    Faults = {}
SPECIFICATION Spec
INVARIANTS
    ThreadsApart
PROPERTIES
    SettingsNeverGoBack
    FlushMeansHeard
    StopKeepsSettings
    SettingsArrive
CHECK_DEADLOCK TRUE
