CONSTANTS
    c1 = c1
    c2 = c2
    h1 = h1
    Callers = {c1, c2}
    Hosts = {h1}
    MinDelay = 1
    MaxDelay = 1
    MaxBackoff = 3
    Burst = 2
    Cost = 2
    Tripwire = 1
    Cooldown = 1
    MaxRetryAfter = 1
    MaxTime = 3
    MaxJump = 1
    MaxErrors = 1
SPECIFICATION Spec
SYMMETRY CallerSymmetry
INVARIANTS
    SlotsAreDistinct
CHECK_DEADLOCK FALSE
