CONSTANTS
    t1 = t1
    Threads = {t1}
    Free = Free
    MaxSessions = 2
    MaxLeases = 2
    MaxTold = 2
    Storages = 2
    Crashes = 0
    Powers = 0
    MaxFaults <- MCFaults
SPECIFICATION Spec
INVARIANTS
    ReceivedIsKept
CHECK_DEADLOCK FALSE
