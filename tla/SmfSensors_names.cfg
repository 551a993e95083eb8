CONSTANTS
    Samples = {0, 9, 65535}
SPECIFICATION Spec
INVARIANTS
    Curr601IsTheCurrent
