CONSTANTS
    k1 = k1
    b1 = b1
    b2 = b2
    b3 = b3
    d1 = d1
    d2 = d2
    Key = k1
    Blocks <- MCBlocks
    Datas <- MCDatas
    MacLen = 8
    MaxSends = 3
SPECIFICATION Spec
CHECK_DEADLOCK FALSE
INVARIANT AcceptsExactlySent
