SPECIFICATION Spec
CONSTANTS
    Threads = {t1, t2, t3}
    Samples = {s1, s2, s3}
    NoSample = NoSample
SYMMETRY Symmetry
INVARIANTS OneListPerSample WalkComplete
PROPERTY ImplementsBag
