\* stl_dict, stl_set, stl_trie, stl_bloom_filter, stl_string and stl_crc under the
\* bounds given in MCStlMaps.tla.
CONSTANTS
    v1 = v1
    v2 = v2
    S1 = S1
    S2 = S2
    F1 = F1
    F2 = F2
    F3 = F3
    NULL = NULL
SPECIFICATION Spec
INVARIANT DictTypeOK
INVARIANT CountsMatchChains
INVARIANT SetTypeOK
INVARIANT TableWellFormed
INVARIANT TrieTypeOK
INVARIANT TrieShape
PROPERTY DictRefinement
PROPERTY SetRefinement
INVARIANT StringTypeOK
INVARIANT TokenSwapped
INVARIANT BloomTypeOK
PROPERTY TrieRefinement
 
PROPERTY BloomRefinement
INVARIANT Crc32Chained
INVARIANT Crc64Matches
INVARIANT Crc16Matches
CHECK_DEADLOCK FALSE
