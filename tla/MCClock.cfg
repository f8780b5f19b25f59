SPECIFICATION ClockSpec
CONSTANTS
    IRQS <- MCIrqs
    SWITCHED <- MCSwitched
    CONTEXTS = {c1, c2, c3}
    Boot = c1
    WORD = 7
    START_TICK = 5
    MAX_TICK = 13
    current_hz = 1
    MS_PER_S = 2
    MS <- MCMs
INVARIANTS
    NothingInService
PROPERTIES
    TimerServed
    SleepsEnough
    SleepEnds
