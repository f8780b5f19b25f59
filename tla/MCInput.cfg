SPECIFICATION InputFairSpec
CONSTANTS
    CODES <- MCCodes
    MAX_CODES = 4
    BUFFER_SIZE = 3
    COLS = 5
    ROWS = 2
INVARIANTS
    CharsMatchCodes
    EchoMatchesLine
PROPERTY
    KeyTaken
