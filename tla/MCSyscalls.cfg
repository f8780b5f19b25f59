SPECIFICATION CallSpec
CONSTANTS
    CALLS <- MCCalls
    FDS <- MCFds
    COUNTS <- MCCounts
    PIDS <- MCPids
    FAULTS <- MCFaults
    MAX_TRAPS = 2
    MSGQUEUE_MAX = 2
    Keys <- MCKeys
    Types <- MCTypes
    Payload = {a}
    MAX_ID = 2
    None = None
CHECK_DEADLOCK FALSE
INVARIANTS
    FieldsRead
    QueuesConsistent
PROPERTIES
    ReturnExact
    ImplementsFifo
