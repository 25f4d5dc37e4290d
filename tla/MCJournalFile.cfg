SPECIFICATION Spec
CONSTANTS
    MaxRecords = 3
    ReadAttempts = 3
INVARIANTS
    AckedSurvives
    ReaderHonest
PROPERTIES
    RepairKeepsEvidence
    LogSpec
