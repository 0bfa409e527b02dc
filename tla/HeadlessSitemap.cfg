CONSTANTS
    Nothing = Nothing
    Site = "sitemap"
    Urls <- MCUrls
    Seeds <- MCSeeds
    Allowed <- MCAllowed
    Aliases <- MCAliases
    Configs <- MCFewConfigs
    Body <- MCBody
    Location <- MCLocation
    Malformed <- MCMalformed
    Oversized <- MCOversized
    Lengths = {2, 3}
    Disallowed <- MCDisallowed
    ErrorStatuses = {404, 503}
    Filtered = {}
    TooLong <- MCNone
    Respect = TRUE
    MaxDepth = 2
    MaxPages = 4
    IsUrl <- MCIsUrl
    MaxCandidates = 100
SPECIFICATION FairSpec
INVARIANTS
    RobotsAreRespected
    SitemapsStayHome
PROPERTIES
    CrawlEnds
CHECK_DEADLOCK FALSE
