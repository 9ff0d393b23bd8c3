SPECIFICATION Spec
CONSTANTS
    RunTimeout = 5
    MaxOutputBytes = 23
    MaxNoise = 2
    Faults <- IntactFaults
INVARIANTS
    Destroyed
    ExitIsThePrograms
    TimedOutIsRight
