CONSTANTS
    Names <- MCNamesQuery
    Keys <- MCKeys
    Values <- MCValuesLists
    RowValues <- MCValuesLists
    ReturnCode <- MCReturnCode
    MaxStatics = 2
    MaxRows = 2
    MaxRowLen = 2
SPECIFICATION Spec
INVARIANT ValidRoundTrip
