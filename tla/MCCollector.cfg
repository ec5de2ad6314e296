SPECIFICATION FairSpec
CONSTANTS
    Samples = {s1, s2, s3}
    MaxPending = 2
    MaxSubmits = 4
INVARIANTS TypeOK OwnedOnce CountsAddUp PendingBounded
  
CHECK_DEADLOCK FALSE
