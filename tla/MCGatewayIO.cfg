CONSTANTS
    MaxDials = 2
    MaxFaults = 2
SPECIFICATION FairSpec
PROPERTIES CancelReturns FailsForAReason
CHECK_DEADLOCK FALSE
