CONSTANTS
    Nothing = Nothing
    Site = "whole"
    Urls <- MCUrls
    Seeds <- MCSeeds
    Allowed <- MCAllowed
    Aliases <- MCAliases
    Configs <- MCSomeConfigs
    Body <- MCBody
    Location <- MCLocation
    Malformed = {}
    Oversized <- MCOversized
    Lengths = {2}
    Disallowed <- MCUnasked
    ErrorStatuses = {404, 503}
    Filtered = {}
    TooLong <- MCNone
    Respect = TRUE
    MaxDepth = 1
    MaxPages = 4
    IsUrl <- MCIsUrl
    MaxCandidates = 100
SPECIFICATION FairSpec
INVARIANTS
    FrontierIsWhole
    ArchiveIsEnumerated
    RulesAreRespected
    RobotsAreRespected
PROPERTIES
    CrawlEnds
CHECK_DEADLOCK FALSE
