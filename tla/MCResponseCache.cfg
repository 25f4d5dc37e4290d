SPECIFICATION Spec
CONSTANTS
    Slots = {s1, s2}
    Processes = {"cli", "mcp"}
    Namespaces = {"items", "searches"}
    Targets <- MCTargets
    Nobody = Nobody
    MaxWrites = 2
SYMMETRY Symmetric
INVARIANTS ReadsAreFresh
PROPERTIES SelectiveClear
