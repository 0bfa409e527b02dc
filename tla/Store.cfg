SPECIFICATION Spec
CONSTANTS
    Stores = {s1, s2}
    Chunks = {a, b}
    Profiles = {p1}
    States = {st1}
    NoStore = NoStore
    NoProfile = NoProfile
    NoState = NoState
    NoChunk = NoChunk
    Torn = Torn
    WarcLength = 2
    CdxLength = 1
    Crashes = 1
    PowerLosses = 1
    OsErrors = 1
    MaxLength <- MCMaxLength
    MaxFaults <- MCMaxFaults
    MaxGeneration = 2
    MaxLeases = 2
SYMMETRY Symmetry
INVARIANTS
    RecoverableCheckpoint
    AckedBytesSurvive
    ReceiptMatchesArchives
    LeaseFencing
PROPERTIES
    ImplementsRegister
CHECK_DEADLOCK FALSE
