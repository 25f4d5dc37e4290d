SPECIFICATION FairSpec
CONSTANTS
    Workflows = {w1, w2}
    NoWorkflow = none
    MaxChanges = 3
    MaxFaults = 3
INVARIANTS NothingForgotten CountsExact
PROPERTIES EveryChangeHandled
