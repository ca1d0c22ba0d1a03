SPECIFICATION Spec
CONSTANTS
    Pids = {p, q}
    NumPages = 2
    NumPairs = 4
    LowSlots = 0
    MaxShared = 2
    Keys = {7}
    PgSz = 4096
    MaxFrame = 4
    MaxCopies = 1
    Names = {x, y}
    NumInodes = 3
    DirBlocks = 3
    MaxEntries = 4
    File = {"long", "short"}
    NumFd = 1
    BlockSize = 2
    Direct = 2
    Pointers = 2
    NumBlocks = 18
    Limit <- MCLimit
    Access = {"r", "w"}
    Watch <- MCWatch
    Discipline = {"writes", "append", "start", "warm"}
INVARIANTS ReadBack
