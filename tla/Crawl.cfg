CONSTANTS
    a = a
    b = b
    c = c
    d = d
    e = e
    x = x
    y = y
    Urls = {a, b, c, d, e}
    Origins = {x, y}
    Origin <- MCOrigin
    Seeds <- MCSeeds
    Links <- MCLinks
    Redirects = {b}
    InScope = {a, b, c, d, e}
    Declined = {d}
    Disallowed = {e}
    Respect = TRUE
    MaxDepth = 1
    MaxPages = 5
    MaxRetries = 2
    Nobody = Nobody
    MaxReloads = 2
SPECIFICATION FairSpec
INVARIANTS
    NothingLost
    CheckpointIsSound
    RobotsAreRespected
PROPERTIES
    CrawlEnds
CHECK_DEADLOCK FALSE
