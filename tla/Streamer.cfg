CONSTANTS
    p1 = p1
    p2 = p2
    a = a
    b = b
    Pages = {p1, p2}
    Nobody = Nobody
    Chunks = {a, b}
    NoChunk = NoChunk
    Records <- MCRecords
    CdxTexts <- MCCdxTexts
    MaxLength = 2
    MaxGeneration = 2
    MaxLeases = 2
    Connections = 1
    Storages = 1
    Restarts = 1
    MaxFaults <- MCFaults
SPECIFICATION FairSpec
INVARIANTS
    ExactlyOnce
    CheckpointRestorable
    ReceiptIsWhole
PROPERTIES
    CallsSettle
CHECK_DEADLOCK FALSE
