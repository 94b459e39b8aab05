SPECIFICATION Spec
CONSTANTS
    BufSize = 3
    BufferOddities = {}
    Absent = Absent
    MaxPos = 11
    MaxSize = 4
    Delta = 2
    MaxStream = 6
    Chars = {a, b}
    MaxBlocks = 3
    MaxBlock = 2
INVARIANTS
    RingKeeps
    ViewsSeeTheText
    TapesKeepOrder
CHECK_DEADLOCK FALSE
