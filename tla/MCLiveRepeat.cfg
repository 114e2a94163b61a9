SPECIFICATION LiveSpec
CONSTANTS
    Texts = {t1, t2, t3, t4}
    MaxAudio = 5
    MaxSegment = 3
    Trailing = 1
    Keep = 1
    Steady = FALSE
SYMMETRY TextSymmetry
INVARIANTS NeverRepeated
