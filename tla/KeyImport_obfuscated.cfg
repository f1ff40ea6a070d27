CONSTANTS
    k1 = k1
    k2 = k2
    Keys <- MCKeys
    MaxDepth = 3
SPECIFICATION Spec
CHECK_DEADLOCK FALSE
INVARIANT ImportRecoversObfuscated
