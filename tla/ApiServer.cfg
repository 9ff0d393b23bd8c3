SPECIFICATION FairSpec
CONSTANTS
    Envs <- SomeEnvs
    Bodies <- SomeBodies
    Limits <- SomeLimits
    MaxRows = 3
    MaxTime = 2
    MaxOffset = 3
    IntBits = 8
    Faults <- AllServerFaults
INVARIANTS
    StatusTellsTheStore
    AcceptedIsFound
    AcceptedCanRun
    WithinLimitsPasses
    HooksStayOutside
    TimesFitTogether
PROPERTIES
    EveryRequestAnswered
    WalkMissesNothing
