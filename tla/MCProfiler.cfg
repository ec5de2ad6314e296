SPECIFICATION Spec
CONSTANTS
    Controllers = {c1, c2}
    Profilers = {p1, p2, p3}
    Samples = {s1, s2, s3}
    NoProfiler = NoProfiler
    NoSample = NoSample
    MaxCached = 1
    MaxArrivals = 4
SYMMETRY Symmetry
INVARIANTS OneOwner SampleOnce 
 
CHECK_DEADLOCK FALSE
