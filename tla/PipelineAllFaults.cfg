SPECIFICATION FairSpec
CONSTANTS
    Subs = {s1}
    Handlers = {h1, h2}
    NoJob = NoJob
    Concurrency = 1
    MaxRetry = 1
    MaxRequeues = 1
    Faults <- AllFaults
INVARIANTS
    TypeOK
    RowBeforeTask
    RunsBounded
PROPERTIES
    EventuallySettled
