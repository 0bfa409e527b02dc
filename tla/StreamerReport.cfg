CONSTANTS
    p1 = p1
    p2 = p2
    a = a
    b = b
    Pages = {p1, p2}
    Nobody = Nobody
    Chunks = {a, b}
    NoChunk = NoChunk
    Records <- MCRecords
    CdxTexts <- MCCdxTexts
    MaxLength = 2
    MaxGeneration = 3
    MaxLeases = 2
    Connections = 1
    Storages = 0
    Restarts = 0
    MaxFaults <- MCFaults
SPECIFICATION Spec
INVARIANTS
    FailureReportTrue
CHECK_DEADLOCK FALSE
