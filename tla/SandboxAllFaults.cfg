SPECIFICATION FairSpec
CONSTANTS
    RunTimeout = 1
    MaxOutputBytes = 4
    MaxNoise = 2
    Faults <- AllSandboxFaults
INVARIANTS
    TypeOK
    KeepsAPrefix
    OutcomeIsOfARun
PROPERTIES
    ExecuteReturns
