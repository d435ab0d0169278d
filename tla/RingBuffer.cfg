CONSTANTS
    N = 4
    Gap = 1
    MaxSamples = 4
SPECIFICATION Spec
INVARIANTS
    RegionsDisjoint
    AvailNeverOverestimates
    GetReadsTheFront
PROPERTIES
    ImplementsSampleQueue
