CONSTANTS
    NumBars = 2
    NumBuses = 1
    MaxFailed = 2
SPECIFICATION Spec
INVARIANTS
    MappedBarsAreLongEnough
