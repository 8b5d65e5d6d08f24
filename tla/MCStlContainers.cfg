\* stl_heap, stl_ringbuffer and stl_list, each under its bounds in
\* MCStlContainers.tla.
CONSTANTS
    d1 = d1
    d2 = d2
    b1 = b1
    b2 = b2
    L1 = L1
    L2 = L2
    n1 = n1
    n2 = n2
    n3 = n3
    NULL = NULL
SPECIFICATION Spec
INVARIANT HeapTypeOK
INVARIANT HeapOrdered
INVARIANT RingTypeOK
INVARIANT ListTypeOK
INVARIANT ListShape
PROPERTY HeapRefinement
PROPERTY RingRefinement
PROPERTY ListRefinement
