SPECIFICATION Spec
CONSTANTS
    RunTimeout = 4
    MaxOutputBytes = 4
    MaxNoise = 4
    Faults <- NoFaults
INVARIANTS
    MissingMarkerMeansKilled
