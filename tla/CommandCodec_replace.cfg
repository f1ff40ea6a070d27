\* Statics only: two pushes of one key are enough.
CONSTANTS
    Names <- MCNames
    Keys <- MCKeys
    Values <- MCValuesLists
    RowValues <- MCValuesLists
    ReturnCode <- MCReturnCode
    MaxStatics = 2
    MaxRows = 0
    MaxRowLen = 1
SPECIFICATION Spec
INVARIANT ReplaceTakesEffect
