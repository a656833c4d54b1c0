CONSTANTS
    NoRow = NoRow
    NoRef = NoRef
    NoId = NoId
    NoRequest = NoRequest
    Workers = {w1}
    Senders = {s1}
    Reporters = {p1}
    Cleaners = {c1}
    Ids = {d1}
    Keys = {k1}
    Tenants = {t1}
    Applications = {a1}
    Refs = {r1}
    MaxAttempts = 1
    RetryBase = 1
    BatchSize = 1
    Retention = 1
    CleanupBatchSize = 1
    MaxTime = 3
    MaxDisruptions = 0
SPECIFICATION FairSpec
PROPERTY SuccessesExpire
