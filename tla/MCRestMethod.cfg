CONSTANTS
    FirstCap = 4
    MaxSizes <- Sizes
    MaxBody = 12
    MaxThrottled = 2
SPECIFICATION FairMethodSpec
INVARIANTS ExactVerdict Bounded BodiesClosed HonestVerdict
PROPERTIES MethodReturns
CHECK_DEADLOCK FALSE
