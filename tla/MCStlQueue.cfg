CONSTANTS
    v1 = v1
    v2 = v2
    NULL = NULL
    t1 = t1
    t2 = t2
    n1 = n1
    n2 = n2
    m1 = m1
    None = None
    a1 = a1
    x1 = x1
    x2 = x2
    x3 = x3
SPECIFICATION Spec
SYMMETRY Symm
INVARIANT TypeOK
INVARIANT LogTypeOK
INVARIANT LinesWhole
INVARIANT NoWriteToClosed
INVARIANT LatestInFiles
INVARIANT SizeBounded
INVARIANT LoopVisitsEach
PROPERTY DequeRefinement
