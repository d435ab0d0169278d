\* The main thread and a recording thread commit to one connection.
CONSTANTS
    gui = gui
    recorder = recorder
    Writers <- TwoWriters
    Nobody = Nobody
    Thread = Thread
    MaxWal = 3
SPECIFICATION Spec
INVARIANTS
    PollSeesCheckpoint
PROPERTIES
    CloseReturns
    RequestServed
