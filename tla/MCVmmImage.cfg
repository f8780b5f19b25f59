SPECIFICATION VmmSpec
CONSTANTS
    PAGE_SIZE = 4096
    MEMORY_START_ADDR = 1048576
    MEMORY_END_ADDR = 2359296
    kernel_end = 2097152
    image_end <- MCImageEnd
    ADDRESSES <- MCNone
    MAX_RESERVED = 0
    ENTRIES = 1024
    DIR_ENTRIES = 1
    KERNEL_TABLES = 1
    VADDRS <- MCNone
    USER_START = 1060864
    USER_LEN = 4096
INVARIANT
    ImageNeverHanded
