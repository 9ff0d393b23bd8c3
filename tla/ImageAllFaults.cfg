SPECIFICATION FairSpec
CONSTANTS
    Calls = {warm, c1, c2, c3}
    Warm = warm
    NoOnce = NoOnce
    PullImages = TRUE
    Faults <- AllImageFaults
INVARIANTS
    OnePullAtATime
    ForgetsItsOwn
    ErrorsAreForgotten
    ReadyIsPresent
PROPERTIES
    EveryCallReturns
