SPECIFICATION Spec
CONSTANTS
    Items = {i1}
    Memberships <- TwoTags
    Fields = {}
    Values = {0, 1}
    MaxRuns = 2
    MaxForward = 1
    MaxEdits = 1
    UndoUndos = FALSE
    StalePlans = TRUE
PROPERTIES UndoOnlyReverses
CHECK_DEADLOCK FALSE
