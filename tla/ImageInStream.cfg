SPECIFICATION Spec
CONSTANTS
    Calls = {warm, c1, c2, c3}
    Warm = warm
    NoOnce = NoOnce
    PullImages = TRUE
    Faults <- InStreamFaults
INVARIANTS
    NoStaleSuccess
