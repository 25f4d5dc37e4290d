SPECIFICATION FeedSpec
CONSTANTS
    k1 = k1
    k2 = k2
    Keys = {k1, k2}
    MaxVersion = 4
    PageSize = 1
    MaxAttempts = 2
    TriggerLimit = 1
    NumSteps = 2
    Steps <- MCSteps
    NoStep = NoStep
    MaxRetries = 1
    ConnectorHides = FALSE
    Specs <- MCSpecs
    Batches <- OwedBatches
    NoBatch = NoBatch
    MaxFaults = 2
INVARIANTS DeliveredUpToCursor OwedOrHandled  SuccessIsWhole
SYMMETRY Symmetry
