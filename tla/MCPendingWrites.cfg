SPECIFICATION PlanesSpec
CONSTANTS
    item = item
    note = note
    Keys = {item, note}
    Parent <- Parents
    None = None
    Values = {v0, v1, v2}
    Initial = v0
    Risks = {}
    MaxVersion = 3
    MaxSyncs = 2
    MaxAges = 1
    MaxBackups = 1
SYMMETRY Symmetric
INVARIANTS  StaysPurged FullSettles CatchesUp
CHECK_DEADLOCK FALSE
