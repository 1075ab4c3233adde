CONSTANTS
    MaxDials = 1
    MaxFaults = 0
SPECIFICATION Spec
INVARIANTS NothingUsesClosed
CHECK_DEADLOCK FALSE
