SPECIFICATION LimitSpec
CONSTANTS
    Threads = {t1, t2}
    Expected = 2
    Base = 8
    Second = 3
    Epoch = 100
    Word = 512
    MaxTime = 9
    MaxRound = 6
SYMMETRY Symmetry
INVARIANT LimitTypeOK
PROPERTY TowardsExpected
