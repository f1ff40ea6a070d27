CONSTANTS
    Names <- MCNames
    Keys <- MCKeys
    Values <- MCValuesNoNewline
    RowValues <- MCValuesNoNewline
    ReturnCode <- MCReturnCode
    MaxStatics = 1
    MaxRows = 0
    MaxRowLen = 0
SPECIFICATION Spec
INVARIANT ValidRoundTrip
