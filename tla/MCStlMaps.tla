-------------------------- MODULE MCStlMaps ---------------------------------
(***************************************************************************)
(* The keyed containers of src/stl: the chained hash tables stl_dict and   *)
(* stl_set, stl_trie and stl_bloom_filter, with the string library        *)
(* stl_string and the checksums of stl_crc, checked in one model in the way of MCStlContainers: Init    *)
(* picks which component the behaviour exercises, and the others keep      *)
(* their initial state.                                                    *)
(***************************************************************************)
EXTENDS Integers, TLC, StlCrcTables

CONSTANTS v1, v2, S1, S2, F1, F2, F3, NULL

VARIABLES
    which,
    d_bucket_of, d_members, d_member_count, d_count, d_ret, d_status,
    d_visited, d_last, d_alive, d_handle_fn,
    s_alive, s_sets, s_ret, s_arr, s_last,
    t_alive, t_trie, t_ret, t_out, t_last,
    g_str, g_save, g_dl, g_ret, g_out, g_last, g_orig,
    b_alive, b_filt, b_added, b_ret, b_last,
    c_inited, c_crc, c_fed, c_addr, c_ret

dict_vars == <<d_bucket_of, d_members, d_member_count, d_count, d_ret,
               d_status, d_visited, d_last, d_alive,
               d_handle_fn>>
set_vars == <<s_alive, s_sets, s_ret, s_arr, s_last>>
trie_vars == <<t_alive, t_trie, t_ret, t_out, t_last>>
string_vars == <<g_str, g_save, g_dl, g_ret, g_out, g_last, g_orig>>
bloom_vars == <<b_alive, b_filt, b_added, b_ret, b_last>>
crc_vars == <<c_inited, c_crc, c_fed, c_addr, c_ret>>
all_vars == <<which, dict_vars, set_vars, trie_vars, string_vars, bloom_vars,
              crc_vars>>

Parts == {"dict", "set", "trie", "string", "bloom", "crc32", "crc_tab"}

\* Keys of the shape the server caches, "<magic>-<pointer>": no key is a
\* prefix of another.
MCKeysPrefixFree == {<<"1", "-", "a">>, <<"2", "-", "a">>, <<"1", "-", "b">>}

\* stl_dict: three prefix-free keys, two values, two buckets: chains of
\* length up to three and, up to renaming, every placement (DictPlacements).
D == INSTANCE StlDict WITH
        Keys <- MCKeysPrefixFree, Vals <- {v1, v2}, MaxCount <- 2,
        bucket_of <- d_bucket_of, members <- d_members,
        member_count <- d_member_count, count <- d_count, ret <- d_ret,
        status <- d_status, visited <- d_visited, last <- d_last,
        alive <- d_alive, handle_fn <- d_handle_fn

\* stl_set: two handles (so union and intersection of two different sets
\* store the result over one of them) and two values whose hashes (0 and
\* 2) share a chain in tables of 1 and 2 slots and not in one of 10.  With
\* table sizes <<1, 2>> the second insert grows the table to 2 slots, and
\* a later insert into a set of one value grows it past the primes
\* (entries * 10 slots).  Every allocation may fail.
S == INSTANCE StlSet WITH
        Handles <- {S1, S2}, Data <- {v1, v2},
        Hash <- (v1 :> 0 @@ v2 :> 2), Primes <- <<1, 2>>,
        AllocMayFail <- TRUE,
        alive <- s_alive, sets <- s_sets, ret <- s_ret, arr <- s_arr,
        last <- s_last

\* stl_trie: bytes 0 (NUL), 1 and 2; the string keys "", "\1" and "\1\2"
\* and the binary key "\1\0", so that the root holds a value, a node has
\* two children, a node holds a value above a stored key, and a binary key
\* runs through the NUL slot a string's lookup never follows.  Four node
\* addresses, one per prefix; every malloc and calloc may fail.
T == INSTANCE StlTrie WITH
        Alpha <- {0, 1, 2}, NUL <- 0,
        StrKeys <- {<<>>, <<1>>, <<1, 2>>}, BinKeys <- {<<1, 0>>},
        Vals <- {v1, v2}, MaxNodes <- 4, AllocMayFail <- TRUE,
        alive <- t_alive, trie <- t_trie, ret <- t_ret, out <- t_out,
        last <- t_last

\* stl_string: strings of "a" and "," up to stl_string_SIZE_MAX = 3 bytes,
\* built from "", "a" and "," by append; trim and tokenize on "," and on
\* both characters; replace with a shorter, a longer and two same-length
\* replacements, one of two bytes (the in-place fast path searching on
\* after a match).  "aaa" with "a" replaced by ",," passes SIZE_MAX, and
\* every malloc and realloc may fail.  INT_MAX is 2, so that append_fmt
\* onto a string of 2 bytes fails in vsnprintf; printed texts of 2 bytes pass
\* stl_string_VA_BUFFER_SIZE = 2 and are printed twice.
G == INSTANCE StlString WITH
        Chars <- {"a", ","}, NUL <- "NUL", SizeMax <- 3,
        Texts <- {<<>>, <<"a">>, <<",">>}, Lists <- {{","}, {"a", ","}},
        Reps <- {<<<<",">>, <<"a">>>>, <<<<"a">>, <<>>>>,
                 <<<<"a">>, <<",", ",">>>>, <<<<",", "a">>, <<"a">>>>,
                 <<<<"a", ",">>, <<",", "a">>>>},
        IntMax <- 2, VaBufSize <- 2, AllocMayFail <- TRUE,
        str <- g_str, save <- g_save, dl <- g_dl, ret <- g_ret, out <- g_out,
        last <- g_last, orig <- g_orig

\* stl_bloom_filter: three handles, so that an intersection of two filters
\* (or of one with itself) goes to a third; tables of 8 and 13 bits (one
\* and two bytes), two functions with the first two salts of the code
\* (0x1953c322 and 0x588ccf17), and 65 functions, past the 64 salts.  The hashes 1 and 9 of the two values
\* agree in the low three bits, so in the 8-bit table they set the same
\* bits (each is a false positive of the other, and an intersection of a
\* filter of one with a filter of the other finds both); in the 13-bit
\* table they do not.  Every malloc and calloc may fail.
B == INSTANCE StlBloomFilter WITH
        Handles <- {F1, F2, F3}, Data <- {v1, v2},
        HashFns <- [f \in {"hash"} |-> (v1 :> 1 @@ v2 :> 9)],
        Sizes <- {8, 13}, NumFns <- {2, 65},
        Salts <- <<424919842, 1485623063>>, SaltCount <- 64,
        AllocMayFail <- TRUE,
        alive <- b_alive, filt <- b_filt, added <- b_added, ret <- b_ret,
        last <- b_last

\* stl_crc: "123456789" (the standard check string) followed by ten bytes,
\* four of them 0x80 or above (negative as a char), 19 in all.  Placed at
\* every address mod 8 and fed in pieces of every length, a piece runs
\* 0 to 7 bytes of the alignment loop, 0 to 2 quadwords and 0 to 7
\* trailing bytes, in every combination the length allows.
CrcMsg == <<49, 50, 51, 52, 53, 54, 55, 56, 57, 255, 128, 0, 165, 90, 200,
            17, 240, 7, 99>>
C == INSTANCE StlCrc WITH
        Msg <- CrcMsg, Addrs <- 0 .. 7,
        inited <- c_inited, crc <- c_crc, fed <- c_fed, addr <- c_addr,
        ret <- c_ret

\* The placements of the dict's keys checked.  The keys are prefix-free,
\* so search compares them only for equality and renaming them changes
\* nothing; the two buckets differ only in the order traverse visits them,
\* which the abstract traverse leaves open.  Up to those renamings every
\* placement is one of these: all keys in one chain, or two in one and
\* one in the other.
DictPlacements ==
    {[k \in MCKeysPrefixFree |-> 0],
     [k \in MCKeysPrefixFree |-> IF k = <<"1", "-", "b">> THEN 1 ELSE 0]}

Init ==
    /\ which \in Parts
    /\ D!Init
    /\ d_bucket_of \in IF which = "dict" THEN DictPlacements
                       ELSE {[k \in MCKeysPrefixFree |-> 0]}
    /\ S!Init /\ T!Init /\ G!Init /\ B!Init /\ C!Init
    /\ (which # "crc32" => c_addr = 0)

Next ==
    \/ which = "dict" /\ D!Next
       /\ UNCHANGED <<which, set_vars, trie_vars, string_vars, bloom_vars, crc_vars>>
    \/ which = "set" /\ S!Next
       /\ UNCHANGED <<which, dict_vars, trie_vars, string_vars, bloom_vars, crc_vars>>
    \/ which = "trie" /\ T!Next
       /\ UNCHANGED <<which, dict_vars, set_vars, string_vars, bloom_vars, crc_vars>>
    \/ which = "string" /\ G!Next
       /\ UNCHANGED <<which, dict_vars, set_vars, trie_vars, bloom_vars, crc_vars>>
    \/ which = "bloom" /\ B!Next
       /\ UNCHANGED <<which, dict_vars, set_vars, trie_vars, string_vars, crc_vars>>
    \/ which = "crc32" /\ C!Next32
       /\ UNCHANGED <<which, dict_vars, set_vars, trie_vars, string_vars, bloom_vars>>
    \/ which = "crc_tab" /\ C!NextTab
       /\ UNCHANGED <<which, dict_vars, set_vars, trie_vars, string_vars, bloom_vars>>

Spec == Init /\ [][Next]_all_vars

DictTypeOK == D!TypeOK
CountsMatchChains == D!CountsMatchChains
\* stl_dict implements StlDictSpec (StlDict!DictRefinement).
DictRefinement ==
    /\ D!Dict!Init
    /\ [][which = "dict" => [D!Dict!Next]_(D!Dict!vars)]_all_vars

SetTypeOK == S!TypeOK
TableWellFormed == S!TableWellFormed
\* stl_set implements StlSetSpec (StlSet!SetRefinement).
SetRefinement ==
    /\ S!Abs!Init
    /\ [][which = "set" => [S!Abs!Next]_(S!Abs!vars)]_all_vars

TrieTypeOK == T!TypeOK
TrieShape == T!TrieShape
\* stl_trie implements StlTrieSpec (StlTrie!TrieRefinement).
TrieRefinement ==
    /\ T!Abs!Init
    /\ [][which = "trie" => [T!Abs!Next]_(T!Abs!vars)]_all_vars

StringTypeOK == G!TypeOK
TokenSwapped == G!TokenSwapped
BloomTypeOK == B!TypeOK
\* stl_bloom_filter implements StlBloomFilterSpec (StlBloomFilter!BloomRefinement).
BloomRefinement ==
    /\ B!Abs!Init
    /\ [][which = "bloom" => [B!Abs!Next]_(B!Abs!vars)]_all_vars

Crc32Chained == C!Crc32Chained
Crc64Matches == C!Crc64Matches
Crc16Matches == C!Crc16Matches
=============================================================================
