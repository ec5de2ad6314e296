SPECIFICATION FairSpec
CONSTANTS
    Threads = {t1, t2}
    Combiners = {c1, c2}
    NoCombiner = NoCombiner
    Values = {v1}
    NoValue = NoValue
    PerBlock = 1
    MaxKinds = 2
INVARIANTS IdsDistinct NamesItsCombiner LinkedAgentsExist HoldsItsOwn SampledAlive
PROPERTIES Reclaimed
CHECK_DEADLOCK FALSE
