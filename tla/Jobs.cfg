CONSTANTS
    w1 = w1
    w2 = w2
    Workers = {w1, w2}
    LeaseTime = 2
    MaxTime = 3
    MaxSegments = 2
    MaxPowers = 1
    MaxDeaths = 1
SPECIFICATION Spec
SYMMETRY WorkerSymmetry
CONSTRAINT UntilExposed
INVARIANTS
    LeasesExclude
    CheckpointLoads
CHECK_DEADLOCK FALSE
