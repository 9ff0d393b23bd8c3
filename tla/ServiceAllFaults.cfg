SPECIFICATION FairSpec
CONSTANTS
    Work = {w1, w2, w3}
    Attempts = 3
    MaxSignals = 2
    Faults <- AllProcessFaults
INVARIANTS
    TypeOK
    CleanStopCutsNothing
    DependenciesOutliveWork
PROPERTIES
    StartupEnds
    HeardSignalStops
