SPECIFICATION Spec
CONSTANTS
    Keys = {k1, k2, k3}
    None = None
    Servers <- AllServers
    Limit = 2
    MaxPasses = 2
    MaxChanges = 2
    Replaces = FALSE
    SkipsAhead = FALSE
SYMMETRY Symmetric
INVARIANTS NoResurrection CheckpointHonest FullConverges
PROPERTIES SparesTheListed
CHECK_DEADLOCK FALSE
