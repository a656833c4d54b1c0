CONSTANTS
    NoRow = NoRow
    NoRef = NoRef
    NoId = NoId
    NoRequest = NoRequest
    Workers = {}
    Senders = {s1}
    Reporters = {}
    Cleaners = {}
    Ids = {d1, d2}
    Keys = {k1}
    Tenants = {t1}
    Applications = {a1, a2}
    Refs = {r1}
    MaxAttempts = 1
    RetryBase = 1
    BatchSize = 1
    Retention = 1
    CleanupBatchSize = 1
    MaxTime = 0
    MaxDisruptions = 0
SPECIFICATION Spec
INVARIANT KeyIsGlobal
