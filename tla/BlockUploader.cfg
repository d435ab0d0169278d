SPECIFICATION Spec
CONSTANTS
  Blocks = {1, 2}
  Producers = {"p1", "p2"}
  RingSize = 2
  MaxUploads = 1
  Retries = 1
  MaxSessions = 3
  Faults = {}
INVARIANTS
    SlotsAccounted
    SyncedMeansUploaded
    ResumableUntilSynced
    JoinsAreLegal
PROPERTIES
    NothingAfterCancel
    EverythingEnds
CHECK_DEADLOCK FALSE
