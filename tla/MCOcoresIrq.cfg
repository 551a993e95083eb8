CONSTANTS
    Transfers <- MCTransfers
    Budget = 1
    MaxPos = 2
    MaxAfter = 1
\* The bound MaxAfter ends the calls, and with them what happens.
CHECK_DEADLOCK FALSE
SPECIFICATION IrqFairSpec
INVARIANTS
    IrqBuffersSafe
    HandlerHasItsMessages
PROPERTIES
    IrqOneCommandAtATime
    SwitchStrandsBus
    IrqKeepsPromise
    IrqEveryCallReturns
