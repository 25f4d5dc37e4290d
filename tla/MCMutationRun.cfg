SPECIFICATION Spec
CONSTANTS
    NumOps = 3
    LateDeletes = FALSE
    Plans <- MCPlans
INVARIANTS
    ReportTruthful
    UndoableUnlessWarned
    MarkedBeforeRecorded
PROPERTIES
    LedgerSpec
CHECK_DEADLOCK FALSE
