SPECIFICATION Spec
CONSTANTS
    Objects = {a, b}
    Processes = {p, q}
    Names = {x, y}
    Inodes = {i, j}
    MaxSize = 3
    Chunk = 1
    IntHalf = 3
    Windows = {TRUE, FALSE}
SYMMETRY Symmetric
INVARIANTS WritersExclude
PROPERTIES SizeKeepsPosition
