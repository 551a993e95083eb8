CONSTANTS
    NumBars = 3
    NumBuses = 3
    MaxFailed = 2
SPECIFICATION FairSpec
INVARIANTS
    UsersSeeDevice
    IsrSeesRegisters
    UnboundHoldsOnlyLeaks
PROPERTIES
    OnlySwitchLeavesHandler
    RemovalFinishes
