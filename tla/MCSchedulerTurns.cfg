SPECIFICATION FairSpec
CONSTANTS
    MAX_PROCESSES = 2
    PRIORITY_COUNT = 2
    WAKE_MOD = 100
    NUM_PAGES = 4
    SLEEP_MS <- MCSleepMs
    MAX_TICK = 6
PROPERTY
    RoundRobin
CHECK_DEADLOCK FALSE
