SPECIFICATION FairSpec
CONSTANTS
    Submitters = {a}
    Owners = {a}
    Workers = {w1, w2, w3, w4}
    Tasks = {1, 2, 3, 4}
    Priorities = {0}
    MaxThreads = 2
    Reservations = {0}
    RetireTimeouts = FALSE
    CreateFails = FALSE
    WordSize = 16
CHECK_DEADLOCK FALSE
INVARIANTS IdleAccounted
PROPERTIES WaitFinishesAll AllTasksFinish
