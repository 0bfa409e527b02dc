CONSTANTS
    w1 = w1
    w2 = w2
    Workers = {w1, w2}
    LeaseTime = 2
    MaxTime = 4
    MaxSegments = 3
    MaxPowers = 0
    MaxDeaths = 0
SPECIFICATION Spec
SYMMETRY WorkerSymmetry
INVARIANTS
    OneWorker
CHECK_DEADLOCK FALSE
