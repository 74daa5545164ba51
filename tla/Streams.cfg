SPECIFICATION FairSpec
CONSTANTS
    Length = 4
    Wholes = {3, 5}
    Block = 2
    InSizes = {0, 3}
    OutSizes = {0, 3}
    Room = 2
    Sizes = {3, 6}
    MaxStart = 5
CHECK_DEADLOCK FALSE
INVARIANTS Delivered Complete WithinBuffers
PROPERTIES CopyReturns ProgressRises
