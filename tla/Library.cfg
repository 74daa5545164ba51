SPECIFICATION LibrarySpec
CONSTANTS
    EntryNames = {x, y, z}
    Slots = {a, b}
    Handles = {h, i}
    Windows = {TRUE, FALSE}
    MaxName = 7
    MaxText = 7
    MaxBytes = 4
    ReadSize = 3
    MaxMeddling = 2
    CreateOnWindows = {TRUE, FALSE}
    Word = 1024
    ToStrLength = 6
    Byte = 8
    Years = {1970, 1979, 1980, 1999, 2000, 2007, 2008, 2107, 2108}
    MaxLength = 4
    Builds = {"unix", "windows", "unicode"}
    MaxSaying = 2
    BufferLength = 2
    MaxThrows = 3
SYMMETRY Symmetric
CHECK_DEADLOCK FALSE
INVARIANTS EntriesShown HandlesOwned CreatesDirectories TextsAgree ValuesAgree MessageKept
