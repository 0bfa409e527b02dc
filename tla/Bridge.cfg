CONSTANTS
    t1 = t1
    t2 = t2
    Threads = {t1, t2}
    Free = Free
    MaxSessions = 2
    MaxLeases = 2
    MaxTold = 2
    Storages = 1
    Crashes = 1
    Powers = 1
    MaxFaults <- MCFaults
SPECIFICATION FairSpec
INVARIANTS
    OneSourceRequest
    RequestsAreOwned
    QuietAfterRecover
    ReportedIsDurable
    RequestsArePaced
PROPERTIES
    CallsEnd
CHECK_DEADLOCK FALSE
