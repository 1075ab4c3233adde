CONSTANTS
    c1 = c1
    c2 = c2
    c3 = c3
    r1 = r1
    m1 = m1
    b1 = b1
    Calls <- MCCalls
    Routes = {r1}
    Majors = {m1}
    Buckets = {b1}
    Route <- MCRoute
    Major <- MCMajor
    BucketOf <- MCBucketOf
    NoBucket = NoBucket
    NoValue = NoValue
    Limit = 2
    Window = 2
    GlobalWindow = 2
    MaxTime = 4
    MaxFaults = 0
SPECIFICATION Spec
SYMMETRY CallSymmetry
INVARIANTS WaitsForKnownLimit
CHECK_DEADLOCK FALSE
