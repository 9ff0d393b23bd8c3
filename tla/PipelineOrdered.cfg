SPECIFICATION Spec
CONSTANTS
    Subs = {s1}
    Handlers = {h1, h2}
    NoJob = NoJob
    Concurrency = 2
    MaxRetry = 2
    MaxRequeues = 1
    Faults <- OrderedFaults
SYMMETRY Symmetry
INVARIANTS
    RowShape
    HookOnlyWhenFinished
    AtMostOneHook
PROPERTIES
    FinishedIsFinal
    ImplementsLifecycle
