CONSTANTS
    Names <- MCNames
    Keys <- MCKeys
    Values <- MCValuesEscapes
    RowValues <- MCValuesEscapes
    ReturnCode <- MCReturnCode
    MaxStatics = 1
    MaxRows = 0
    MaxRowLen = 0
SPECIFICATION Spec
INVARIANT NoLiteralNewline
