SPECIFICATION StartupSpec
CONSTANTS
    SECTORS_PER_TRACK = 18
    HEADS = 2
    KERNEL_SECTORS = 100
    IMAGE_SECTORS = 52
    BSS_END = 110
    DRIVES <- MCDrives
    GEOMETRIES <- MCGeometries
    MESSAGE = 2
    MAX_KEYS = 2
CHECK_DEADLOCK FALSE
INVARIANTS
    KernelLoaded
    SetupBeforeUse
    SerialDelivers
    KeyboardAlive
PROPERTY
    BootsToPrompt
