CONSTANTS
    Replicas = {r1, r2}
    Events = {e1, e2}
    NoEvent = NoEvent
    BatchSize = 2
    MaxFaults = 3
SPECIFICATION FairSpec
INVARIANTS
    BusOpenWhileUsed
    NothingIsLost
    DuplicatesNeedFaults
PROPERTY
    EventsArrive
CHECK_DEADLOCK FALSE
