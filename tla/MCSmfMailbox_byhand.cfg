CONSTANTS
    Readers = {r1}
    Registers <- MCRegisters
    Values = {0, 1}
    Readings <- MCReadings
    NoReader = NoReader
    NumIoms = 2
SPECIFICATION ByHandSpec
INVARIANTS
    IomCommandsArrive
