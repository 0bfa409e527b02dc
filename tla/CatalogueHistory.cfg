CONSTANTS
    u1 = u1
    c1 = c1
    r1 = r1
    None = None
    Urls = {u1}
    Contents = {c1}
    Results = {r1}
    Usable = {r1}
    Given = {"public", "unknown"}
    Times = {1, 2}
    MaxAcquisitions = 1
    MaxEvents = 4
SPECIFICATION Spec
INVARIANTS
    HistoryExplainsThePolicy
PROPERTIES
    HoldsAreKept
CHECK_DEADLOCK FALSE
