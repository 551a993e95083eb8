CONSTANTS
    Platforms = {"s6100", "z9100", "z9264f"}
    MaxBus = 90
    MaxFaults = 1
SPECIFICATION Spec
INVARIANTS
    TypeOK
    InitPutsInPlace
    DeinitRestores
    NoCpldWithoutDriver
