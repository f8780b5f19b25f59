SPECIFICATION LibSpec
CONSTANTS
    SIZE = 5
    CHARS <- MCChars
    INTS <- MCInts
    TEXTS <- MCTexts
    DELIM = 6
    RODATA <- MCRodata
    DEVICES <- MCDevices
    DEV_NAME <- MCDevName
    DEV_OPS <- MCDevOps
    COMMANDS <- MCCommands
    MAX_COMMANDS = 3
    LINES <- MCLines
    NAME_LENGTH = 3
    SPACE = 32
INVARIANTS
    StringsExact
    TokensExact
    DevicesFound
    RunsFirstWord
