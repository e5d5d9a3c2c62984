SPECIFICATION NumbersSpec
CONSTANTS
    Writers = {loop, mcp}
    MaxSeq = 6

INVARIANT NumbersTypeOK
INVARIANT NumbersNeverClash
INVARIANT SerialWritesKeepTheCursor
CHECK_DEADLOCK FALSE
