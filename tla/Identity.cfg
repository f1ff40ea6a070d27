CONSTANTS
    k1 = k1
    k2 = k2
    BitWidth = 2
    HashLen = 2
    PadLen = 4
    MaxLen = 6
    Pad <- MCPad
SPECIFICATION IdentitySpec
CHECK_DEADLOCK FALSE
INVARIANT ObfuscationRoundTrip
INVARIANT ImportRecoversPlain
