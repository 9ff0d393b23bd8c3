SPECIFICATION Spec
CONSTANTS
    Subs = {s1}
    Handlers = {h1, h2}
    NoJob = NoJob
    Concurrency = 1
    MaxRetry = 2
    MaxRequeues = 1
    Faults <- OutputIsNoText
INVARIANTS
    DeadLetterIsFinished
