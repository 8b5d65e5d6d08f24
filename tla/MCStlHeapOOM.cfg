\* stl_heap when realloc may fail: an add that hits the capacity and gets
\* NULL from realloc returns false with size already incremented.
CONSTANTS
    d1 = d1
    d2 = d2
    NULL = NULL
    Keys <- MCKeys
    Datas <- MCDatas
    InitCaps = {2}
    MaxSize = 3
    AllocMayFail = TRUE
SPECIFICATION Spec
PROPERTY HeapRefinement
