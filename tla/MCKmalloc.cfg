SPECIFICATION KmSpec
CONSTANTS
    HEADER = 4
    ALIGN = 2
    SLACK = 4
    KMALLOC_PAGE = 24
    KHEAP_START = 24
    SIZES <- MCSizes
    FRAMES = 1
    MAX_FREED = 1
INVARIANTS
    Tiled
    LiveOwned
PROPERTY
    OthersUntouched
