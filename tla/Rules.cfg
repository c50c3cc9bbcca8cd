CONSTANTS
    Bits = 3
    MaxPort = 9
    MaxItems = 3
    Nothing = "nothing"
    Slice = 2
    Token = 3
    Refill = 1
    MaxIdle = 5
    MaxWindow = 8
SPECIFICATION Spec
INVARIANTS ExpressionsAreExact ComparisonIsExact JudgementsAreEarned PaceIsKept
CHECK_DEADLOCK FALSE
