CONSTANTS
    Names <- MCNames
    Keys <- MCKeys
    Values <- MCValuesEscapes
    RowValues <- MCValuesLists
    ReturnCode <- MCReturnCode
    MaxStatics = 2
    MaxRows = 2
    MaxRowLen = 2
SPECIFICATION Spec
INVARIANT TypeOK
INVARIANT WrittenParses
INVARIANT WellFormedRoundTrip
INVARIANT ReserializesExactly
