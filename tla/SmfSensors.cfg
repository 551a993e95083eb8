CONSTANTS
    Samples = {0, 1, 9, 255, 256, 11000, 21474, 21475, 32767, 32768, 32769, 42949, 42950,
               65500, 65501, 65534, 65535}
SPECIFICATION Spec
INVARIANTS
    SensorsDoNotOverlap
    PowerIsExact
    TemperaturesComparable
    VisibleHaveLabel
