CONSTANTS
    MaxEvents = 2
    MaxRequests = 2
    MaxDrops = 1
SPECIFICATION FairSession
INVARIANTS SessionTypeOK
PROPERTIES EventStreamSpec Recovers MessagesArrive
CHECK_DEADLOCK FALSE
