SPECIFICATION Spec
CONSTANTS
    Empty = e
    Texts = {e, a, b}
    NoteKeys = {k1, k2}
    None = None
    Risks = {}
    MaxSaves = 2
    MaxEdits = 2
    MaxOrders = 1
    MaxFaults = 1
INVARIANTS BaselineHonest
PROPERTIES RemoteEditsStand LocalEditsStand NoSecondChild PushesThrough
CHECK_DEADLOCK FALSE
