SPECIFICATION DeliveryFairSpec
CONSTANTS
    Subs = {s1}
    Handlers = {h1, h2}
    NoJob = NoJob
    Concurrency = 1
    MaxRetry = 1
    MaxRequeues = 1
    MaxHookRetry = 1
    MaxHooks = 1
    HookFaults <- AllHookFaults
    Faults <- AbsorbedFaults
INVARIANTS
    FinishedIsNotified
    ReceiverSeesFinal
    DeliveredIsAcked
    PostsBounded
PROPERTIES
    AcceptedFinishes
    EveryHookEnds
