SPECIFICATION Spec
CONSTANTS
    Submitters = {a}
    Owners = {b}
    Workers = {w1, w2, w3}
    Tasks = {1, 2, 3}
    Priorities = {0}
    MaxThreads = 2
    Reservations = {0, 1, 2}
    RetireTimeouts = TRUE
    CreateFails = FALSE
    WordSize = 16
CHECK_DEADLOCK FALSE
INVARIANTS NoUseAfterDelete
