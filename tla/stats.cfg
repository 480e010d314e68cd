SPECIFICATION FairSpec
CONSTANTS
    Lanes = 3
    MaxTasks = 8
INVARIANTS
    LoadsInBounds
    CountsExact
PROPERTIES
    Returns
