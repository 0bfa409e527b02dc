CONSTANTS
    u1 = u1
    u2 = u2
    c1 = c1
    c2 = c2
    r1 = r1
    r2 = r2
    None = None
    Urls = {u1, u2}
    Contents = {c1, c2}
    Results = {r1}
    Usable = {r1}
    Given = {"public", "unknown"}
    Times = {1, 2}
    MaxAcquisitions = 2
    MaxEvents = 2
SPECIFICATION Spec
SYMMETRY ContentSymmetry
INVARIANTS
    IndexIsExact
    ReceiptsExplainTheHeads
    DerivativesFollowTheSource
PROPERTIES
    DenialIsFinal
CHECK_DEADLOCK FALSE
