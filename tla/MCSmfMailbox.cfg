CONSTANTS
    Readers = {r1, r2}
    Registers <- MCRegisters
    Values = {0, 1}
    Readings <- MCReadings
    NoReader = NoReader
    NumIoms = 2
SPECIFICATION FairSpec
INVARIANTS
    TypeOK
    QuietReadingIsExact
    IomCommandsArrive
    ModulesPoweredBeforeSensors
PROPERTIES
    ImplementsRegisters
    EveryReadReturns
