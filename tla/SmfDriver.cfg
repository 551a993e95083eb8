CONSTANT
    Readers = {r1, r2, r3}
\* After an oops in smf_probe insmod and the module hang.
CHECK_DEADLOCK FALSE
SPECIFICATION FairSpec
INVARIANTS
    ReadersAreServed
    NothingLeftBehind
PROPERTIES
    UnloadEnds
