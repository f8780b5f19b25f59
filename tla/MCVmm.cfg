SPECIFICATION VmmSpec
CONSTANTS
    PAGE_SIZE = 2
    MEMORY_START_ADDR = 2
    MEMORY_END_ADDR = 24
    kernel_end = 14
    image_end = 14
    ADDRESSES <- MCAddresses
    MAX_RESERVED = 1
    ENTRIES = 4
    DIR_ENTRIES = 5
    KERNEL_TABLES = 3
    VADDRS <- MCVaddrs
    USER_START = 11
    USER_LEN = 1
INVARIANTS
    OnePurpose
    ReservedNotFree
    SpacesApart
    TlbCoherent
