SPECIFICATION CallTypedSpec
CONSTANTS
    CALLS <- MCCalls
    FDS <- MCFds
    COUNTS <- MCCounts
    PIDS <- MCPids
    FAULTS <- MCFaults
    MAX_TRAPS = 2
    MSGQUEUE_MAX = 3
    Keys <- MCKeys
    Types <- MCTypes
    Payload = {a}
    MAX_ID = 1
    None = None
CHECK_DEADLOCK FALSE
INVARIANTS
    RingConsistent
