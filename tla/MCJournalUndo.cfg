SPECIFICATION Spec
CONSTANTS
    Items = {i1, i2}
    Memberships = {"tag"}
    Fields = {"field"}
    Values = {0, 1}
    MaxRuns = 3
    MaxForward = 1
    MaxEdits = 1
    UndoUndos = FALSE
    StalePlans = FALSE
INVARIANTS EveryUndoIsLinked UndoneOnce OkMeansReversed
PROPERTIES UndoOnlyReverses
CHECK_DEADLOCK FALSE
