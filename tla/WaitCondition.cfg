SPECIFICATION FairSpec
CONSTANTS
    Nobody = Nobody
    Threads = {a, b, c, d, s}
    Waiters = {a, b, c, d}
    TimedWaiters = {a, b}
    SpuriousWakeups = TRUE
PROPERTIES ImplementsMonitor WakeupsTaken WaitReturns
