SPECIFICATION FairSpec
CONSTANTS
    s1 = s1
    s2 = s2
    h1 = h1
    x = x
    y = y
    install = install
    personal = personal
    group = group
    None = None
    Server <- MCServer
    Shells <- MCShells
    Install = install
    Paths <- MCPaths
    LockOrder <- MCOrder
    Commands <- MCCommands
    Profile <- MCProfile
    Uses <- MCUses
    Libraries <- MCLibraries
    Personal = personal
    MaxSteps = 2
INVARIANTS OpenMeansHeld NothingStranded NeverRefusedByItself OwnLibrary
PROPERTY EverythingComesBack
