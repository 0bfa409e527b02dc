CONSTANTS
    Nothing = Nothing
    Site = "pages"
    Urls <- MCUrls
    Seeds <- MCSeeds
    Allowed <- MCAllowed
    Aliases <- MCAliases
    Configs <- MCConfigs
    Body <- MCBody
    Location <- MCLocation
    Malformed = {}
    Oversized <- MCNone
    Lengths = {2, 3}
    Disallowed <- MCNone
    ErrorStatuses = {404, 503}
    Filtered = {}
    TooLong <- MCNone
    Respect = TRUE
    MaxDepth = 1
    MaxPages = 4
    IsUrl <- MCIsUrl
    MaxCandidates = 100
SPECIFICATION Spec
INVARIANTS
    TypeOK
    FrontierIsWhole
    ArchiveIsEnumerated
    RulesAreRespected
    RefusalsAreFinal
    RevisitsResolve
    ReceiptIsAccepted
    CompleteIsWhole
CHECK_DEADLOCK FALSE
