CONSTANTS
    Interval = 3
    MaxEvents = 1
    MaxRequests = 1
    MaxFaults = 0
SPECIFICATION Spec
PROPERTIES ServerHadTime
CHECK_DEADLOCK FALSE
