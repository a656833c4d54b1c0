CONSTANTS
    NoRow = NoRow
    NoRef = NoRef
    NoId = NoId
    NoRequest = NoRequest
    Workers = {w1, w2}
    Senders = {s1, s2}
    Reporters = {p1, p2}
    Cleaners = {c1}
    Ids = {d1, d2}
    Keys = {k1}
    Tenants = {t1}
    Applications = {a1}
    Refs = {r1}
    MaxAttempts = 2
    RetryBase = 1
    BatchSize = 2
    Retention = 1
    CleanupBatchSize = 2
    MaxTime = 4
    MaxDisruptions = 1
SPECIFICATION Spec
SYMMETRY Symmetry
INVARIANTS ReceiptsAreKept OneDeliveryPerKey RepliesAreKept
PROPERTIES TerminalIsFinal ImplementsLifecycle
