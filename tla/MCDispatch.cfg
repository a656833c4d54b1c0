CONSTANTS
    NoRow = NoRow
    NoRef = NoRef
    NoId = NoId
    NoRequest = NoRequest
    Workers = {w1, w2}
    Senders = {s1}
    Reporters = {}
    Cleaners = {}
    Ids = {d1, d2}
    Keys = {k1, k2}
    Tenants = {t1}
    Applications = {a1}
    Refs = {r1}
    MaxAttempts = 2
    RetryBase = 1
    BatchSize = 2
    Retention = 1
    CleanupBatchSize = 1
    MaxTime = 3
    MaxDisruptions = 2
SPECIFICATION Spec
SYMMETRY Symmetry
INVARIANTS TypeOK ExclusiveClaim ProcessingIsOwned SendsBounded RefIffSent EventsMirrorRows
PROPERTIES OrphansAreStuck
