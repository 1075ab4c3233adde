CONSTANTS
    Timestamps = 8
    Instances = 2
    SequenceNumbers = 4
    InstanceArgs <- SmallAndLargeInstances
    MaxClock = 4
    MaxIDs = 9
SPECIFICATION Spec
INVARIANTS TypeOK UniqueIDs FieldsRecovered SortedByTime
CHECK_DEADLOCK FALSE
