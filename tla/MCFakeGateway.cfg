CONSTANTS
    MaxEvents = 2
    MaxRequests = 2
SPECIFICATION FairSpec
INVARIANTS EventsInOrder NoLostWakeup
PROPERTIES HandlerReturns EventsDelivered
CHECK_DEADLOCK FALSE
