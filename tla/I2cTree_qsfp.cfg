CONSTANTS
    Platforms = {"z9100"}
    MaxBus = 60
    MaxFaults = 1
SPECIFICATION Spec
INVARIANT
    EveryQsfpIsFound
