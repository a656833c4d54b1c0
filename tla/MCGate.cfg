CONSTANTS
    Requests = {r1, r2, r3}
    Fingerprints = {f1, f2}
    NoRecord = NoRecord
    ProcessingTTL = 2
    ResultTTL = 2
    FailureTTL = 1
    RequestTimeout = 4
    MaxTime = 5
SPECIFICATION FairSpec
INVARIANTS
    ReplaysAreGenuine
    NewestOwnerKeepsRecord
    OneHandlerPerKey
PROPERTY KeysAreReleased
CHECK_DEADLOCK FALSE
