CONSTANTS
    c1 = c1
    c2 = c2
    c3 = c3
    r1 = r1
    m1 = m1
    b1 = b1
    Calls <- MCPair
    Routes = {r1}
    Majors = {m1}
    Buckets = {b1}
    Route <- MCPairRoute
    Major <- MCPairMajor
    BucketOf <- MCBucketOf
    NoBucket = NoBucket
    NoValue = NoValue
    Limit = 2
    Window = 1
    GlobalWindow = 1
    MaxTime = 25
    MaxFaults = 1
SPECIFICATION FairSpec
INVARIANTS TypeOK ActsAtMostOnce
PROPERTIES GateHonoursLimits CallsReturn CancelReturns
CHECK_DEADLOCK FALSE
