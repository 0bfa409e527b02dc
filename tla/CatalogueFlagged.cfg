CONSTANTS
    u1 = u1
    c1 = c1
    r1 = r1
    None = None
    Urls = {u1}
    Contents = {c1}
    Results = {r1}
    Usable = {r1}
    Given = {"public", "restricted"}
    Times = {1}
    MaxAcquisitions = 1
    MaxEvents = 2
SPECIFICATION Spec
INVARIANT FlaggedIsQuarantined
CHECK_DEADLOCK FALSE
