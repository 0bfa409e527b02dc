SPECIFICATION Spec
CONSTANTS
    Stores = {s1}
    Chunks = {a}
    Profiles = {p1}
    States = {st1}
    NoStore = NoStore
    NoProfile = NoProfile
    NoState = NoState
    NoChunk = NoChunk
    Torn = Torn
    WarcLength = 1
    CdxLength = 1
    Crashes = 1
    PowerLosses = 0
    OsErrors = 0
    MaxLength <- MCMaxLength
    MaxFaults <- MCMaxFaults
    MaxGeneration = 3
    MaxLeases = 2
INVARIANT
    InterruptedIsReopenable
CHECK_DEADLOCK FALSE
