SPECIFICATION FairSpec
CONSTANTS
    MaxChildren = 2
    creator = creator
    callers = {caller}
    MaxBlocks = 1
    Codes = {0, 42}
    Nobody = Nobody
    Garbage = Garbage
CHECK_DEADLOCK FALSE
INVARIANTS ObjectFollowsChild OutputRead
PROPERTIES WaitedForEnd CallsReturn
