SPECIFICATION WindowSpec
CONSTANTS
    MaxWindow = 4
    MaxValue = 3
    MaxTaken = 7
INVARIANTS WindowIsExact WindowIsServed
CHECK_DEADLOCK FALSE
