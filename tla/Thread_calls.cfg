SPECIFICATION FairSpec
CONSTANTS
    Starters = {a}
    Joiners = {a, b, c}
    Killers = {a, b}
    Natives = {n1, n2, n3}
    NoNative = NoNative
    TimedWaits = TRUE
CHECK_DEADLOCK FALSE
INVARIANTS RunningIsAccurate WokenAfterExit
PROPERTIES CallsReturn
