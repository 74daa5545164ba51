SPECIFICATION FairSpec
CONSTANTS
    MaxChildren = 2
    Streams = {out}
    MaxBlocks = 1
    PipeCapacity = 1
    Codes = {0, 42}
    MaxOthers = 1
    signalled = signalled
    client = client
    other = other
CHECK_DEADLOCK FALSE
INVARIANTS FinishedMeansReaped AliveIsRunning ExitCodeKept
PROPERTIES WaitEnds
