CONSTANTS
    c1 = c1
    h1 = h1
    Callers = {c1}
    Hosts = {h1}
    MinDelay = 1
    MaxDelay = 1
    MaxBackoff = 2
    Burst = 2
    Cost = 2
    Tripwire = 2
    Cooldown = 2
    MaxRetryAfter = 2
    MaxTime = 5
    MaxJump = 1
    MaxErrors = 2
SPECIFICATION Spec
INVARIANTS
    RetryAfterIsHonoured
    RateIsBounded
CHECK_DEADLOCK FALSE
