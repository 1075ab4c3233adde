CONSTANTS
    Sessions = {s1, s2}
    NoSession = NoSession
    NoEvent = NoEvent
    MaxLog = 3
    MaxFaults = 3
SPECIFICATION FairSpec
INVARIANTS TypeOK ResumeFromCursor ResourcesOwned
PROPERTIES EventStreamSpec CatchesUp CancelReturns
CHECK_DEADLOCK FALSE
