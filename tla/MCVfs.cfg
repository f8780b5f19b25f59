SPECIFICATION VfsSpec
CONSTANTS
    KINDS <- MCKinds
    INITIAL_CAPACITY = 1
    BYTES <- MCBytes
    Junk = 0
    COUNTS <- MCCounts
    StatSizes <- MCStatSizes
    MAX_NODES = 4
    MAX_OPEN_FILES = 2
    BOUNDS <- MCBounds
INVARIANTS
    TreeConsistent
PROPERTY
    ImplementsFiles
