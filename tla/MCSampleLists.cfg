SPECIFICATION ListsSpec
CONSTANTS
    Threads = {t1, t2, grab}
    Grab = grab
    Samples = {s1, s2, s3}
    NoSample = NoSample
    NoThread = NoThread
    Root = Root
SYMMETRY Symmetry
INVARIANTS Excluded SelfDeadlockOnlyUnlinked 
PROPERTY StepsOfCombiner
CHECK_DEADLOCK FALSE
