CONSTANTS
    Nothing = Nothing
    Site = "long"
    Urls <- MCUrls
    Seeds <- MCSeeds
    Allowed <- MCAllowed
    Aliases <- MCAliases
    Configs <- MCFewConfigs
    Body <- MCBody
    Location <- MCLocation
    Malformed = {}
    Oversized <- MCNone
    Lengths = {2, 3}
    Disallowed <- MCNone
    ErrorStatuses = {404, 999}
    Filtered = {}
    TooLong <- MCNone
    Respect = TRUE
    MaxDepth = 1
    MaxPages = 4
    IsUrl <- MCIsUrl
    MaxCandidates = 100
SPECIFICATION Spec
INVARIANTS
    ReceiptIsAccepted
CHECK_DEADLOCK FALSE
