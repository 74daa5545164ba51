SPECIFICATION Spec
CONSTANTS
    Submitters = {a}
    Owners = {a}
    Workers = {w1, w2, w3, w4}
    Tasks = {1, 2, 3}
    Priorities = {0}
    MaxThreads = 2
    Reservations = {0, 1, 2}
    RetireTimeouts = TRUE
    CreateFails = TRUE
    WordSize = 16
CHECK_DEADLOCK FALSE
SYMMETRY Symmetry
INVARIANTS ThreadLimit TaskInOnePlace NoOrphan NoUseAfterDelete
