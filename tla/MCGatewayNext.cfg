CONSTANTS
    Interval = 2
    MaxEvents = 2
    MaxRequests = 1
    MaxFaults = 1
SPECIFICATION FairSpec
INVARIANTS TypeOK
PROPERTIES PayloadStreamSpec CallEnds SilenceNoticed HealthyKept
CHECK_DEADLOCK FALSE
