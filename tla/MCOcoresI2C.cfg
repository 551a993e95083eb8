CONSTANTS
    Transfers <- MCTransfers
    Budget = 2
SPECIFICATION FairSpec
INVARIANTS
    TypeOK
    BytesInPlace
    OkIsComplete
PROPERTIES
    OneCommandAtATime
    NackIsFollowedByStop
    ArbLostIsForever
    TimeoutStrandsBus
    ImplementsTransfer
    EveryCallReturns
