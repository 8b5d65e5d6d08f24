\* Two keys, one a prefix of the other: does the table still behave as a map?
CONSTANTS
    v1 = v1
    v2 = v2
    Vals <- MCVals
    Keys <- MCKeysPrefix
    MaxCount = 2
    NULL = NULL
SPECIFICATION Spec
PROPERTY DictRefinement
CHECK_DEADLOCK FALSE
