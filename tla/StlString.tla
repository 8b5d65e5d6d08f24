------------------------------ MODULE StlString ------------------------------
(***************************************************************************)
(* src/stl/stl_string.c: one char * variable holding a length-prefixed     *)
(* string.  A string is its header len and its buffer buf[0..len], with    *)
(* buf[len] = '\0' outside a tokenizing loop; the sequence buf here holds  *)
(* C byte i at index i + 1.  The C library scans the code relies on        *)
(* (strlen, strspn, strcspn, strchr, strstr) stop at the first '\0' and    *)
(* are defined by what they do on buf.  save is the caller's tokenizer     *)
(* cursor (a C index into buf, or NULL); the caller keeps one delimiter    *)
(* list per loop and sets save back to NULL after token_end.  orig is a    *)
(* history variable: the string a tokenizing loop started from.            *)
(***************************************************************************)
EXTENDS Integers, Sequences, FiniteSets

CONSTANTS
    Chars,         \* the characters strings are made of ('\0' excluded)
    NUL,           \* '\0'
    SizeMax,       \* stl_string_SIZE_MAX, scaled down
    Texts,         \* C strings passed to new, set, append and cmp
    Lists,         \* character lists passed to trim and token_begin
    Reps,          \* (rep, with) pairs passed to replace; rep not empty
    IntMax,        \* INT_MAX, scaled down with SizeMax (below it)
    VaBufSize,     \* stl_string_VA_BUFFER_SIZE, scaled down
    AllocMayFail,  \* whether malloc and realloc may return NULL
    NULL

VARIABLES str, save, dl, ret, out, last, orig

vars == <<str, save, dl, ret, out, last, orig>>

Bytes == Chars \cup {NUL}

TypeOK ==
    /\ str = NULL \/ /\ str.len \in 0 .. SizeMax
                     /\ Len(str.buf) = str.len + 1
                     /\ \A i \in DOMAIN str.buf : str.buf[i] \in Bytes
    /\ save \in {NULL} \cup 0 .. SizeMax
    /\ dl \in {{}} \cup Lists
    /\ ret \in -1 .. SizeMax /\ out \in {NULL} \cup Seq(Chars)

Init ==
    /\ str = NULL /\ save = NULL /\ dl = {} /\ ret = 0 /\ out = NULL
    /\ last = <<"init">> /\ orig = <<>>

Fail == IF AllocMayFail THEN {TRUE, FALSE} ELSE {FALSE}

\* The string's characters buf[0..len-1].
Content(s) == SubSeq(s.buf, 1, s.len)

\* strcspn(&b[i], D): characters from C index i before one of D or '\0'.
RECURSIVE Strcspn(_, _, _)
Strcspn(b, i, D) ==
    IF i >= Len(b) \/ b[i + 1] = NUL \/ b[i + 1] \in D THEN 0
    ELSE 1 + Strcspn(b, i + 1, D)

\* strspn(&b[i], L): characters from C index i that are in L.
RECURSIVE Strspn(_, _, _)
Strspn(b, i, L) ==
    IF i < Len(b) /\ b[i + 1] \in L THEN 1 + Strspn(b, i + 1, L) ELSE 0

\* strchr(list, c) # NULL: strchr also finds the terminator of list.
Strchr(L, c) == c \in L \/ c = NUL

\* strstr(&b[i], r): the C index of the first match of r in the C string
\* at i, or -1.
Strstr(b, i, r) ==
    LET n == Strcspn(b, i, {})
        M == {p \in i .. i + n - Len(r) :
                \A k \in 1 .. Len(r) : b[p + k] = r[k]}
    IN IF M = {} THEN -1 ELSE CHOOSE p \in M : \A q \in M : p <= q

\* new_len without copy->buf[len] = '\0'.
NewLenNoTerminator(s) == [len |-> Len(s), buf |-> s]

\* stl_string_new_len(s, len) when malloc succeeds.
NewLen(s) == [len |-> Len(s), buf |-> s \o <<NUL>>]

\* The effect of a call on the variable and its return value.
Done(name, args, s, r) ==
    /\ last' = <<name, args>> /\ str' = s /\ ret' = r /\ out' = NULL
    /\ UNCHANGED <<save, dl, orig>>

Idle == save = NULL

\* stl_string_new: NULL if the text is too long or malloc fails.
stl_string_new(t) ==
    /\ Idle /\ str = NULL
    /\ \E f \in Fail :
         IF Len(t) > SizeMax \/ f THEN Done("new", t, NULL, 0)
         ELSE Done("new", t, NewLen(t), 1)

\* stl_string_new_va for a format and arguments that print the text f:
\* vsnprintf returns -1 when the text passes INT_MAX, and the code NULL;
\* else malloc of len + 1 bytes, and the text copied from tmp (len below
\* stl_string_VA_BUFFER_SIZE) or printed again into buf (longer texts; the
\* same format and arguments print the same len bytes, so the check
\* rc > len fails).  The possible results.
NewVa(f) ==
    IF Len(f) > IntMax THEN {NULL}
    ELSE {NewLen(f)} \cup (IF AllocMayFail THEN {NULL} ELSE {})

\* stl_string_new_fmt: the string stl_string_new_va makes, or NULL.
stl_string_new_fmt(f) ==
    /\ Idle /\ str = NULL
    /\ \E s \in NewVa(f) : Done("new_fmt", f, s, IF s = NULL THEN 0 ELSE 1)

\* stl_string_set_fmt: on success the old string (NULL allowed) is
\* destroyed and replaced; on failure *str is left alone.
SetFmt(name, args, f) ==
    \E s \in NewVa(f) :
      IF s = NULL THEN Done(name, args, str, 0) ELSE Done(name, args, s, 1)

stl_string_set_fmt(f) == Idle /\ SetFmt("set_fmt", f, f)

\* The stl_string_append_fmt macro of stl_string.h: set_fmt with "%s" fmt
\* and *str first, which prints the string's characters, or plain set_fmt
\* when *str is NULL.
stl_string_append_fmt(f) ==
    /\ Idle
    /\ SetFmt("append_fmt", f, IF str = NULL THEN f ELSE Content(str) \o f)

stl_string_destroy ==
    /\ Idle /\ str # NULL
    /\ last' = <<"destroy">> /\ str' = NULL /\ ret' = 0 /\ out' = NULL
    /\ UNCHANGED <<save, dl, orig>>

stl_string_len ==
    /\ Idle
    /\ last' = <<"len">> /\ out' = NULL
    /\ ret' = IF str = NULL THEN -1 ELSE str.len
    /\ UNCHANGED <<str, save, dl, orig>>

\* stl_string_dup: a copy by stl_string_new_len, or NULL.
stl_string_dup ==
    /\ Idle /\ last' = <<"dup">> /\ ret' = 0
    /\ \E f \in Fail :
         out' = IF str = NULL \/ f THEN NULL ELSE Content(NewLen(Content(str)))
    /\ UNCHANGED <<str, save, dl, orig>>

\* stl_string_set: a fresh copy replaces *str, which must not be NULL.
stl_string_set(t) ==
    /\ Idle
    /\ \E f \in Fail :
         IF str = NULL \/ Len(t) > SizeMax \/ f THEN Done("set", t, str, 0)
         ELSE Done("set", t, NewLen(t), 1)

\* stl_string_append: creates the string when *str is NULL; otherwise the
\* length check, realloc, and the text copied over the old terminator.
stl_string_append(t) ==
    /\ Idle
    /\ \E f \in Fail :
         IF str = NULL
         THEN IF Len(t) > SizeMax \/ f THEN Done("append", t, NULL, 0)
              ELSE Done("append", t, NewLen(t), 1)
         ELSE IF Len(t) > SizeMax - str.len \/ f THEN Done("append", t, str, 0)
         ELSE Done("append", t,
                   [len |-> str.len + Len(t),
                    buf |-> Content(str) \o t \o <<NUL>>], 1)

\* stl_string_cmp: equal lengths and equal bytes; neither may be NULL.
stl_string_cmp(o) ==
    /\ Idle /\ str # NULL
    /\ Done("cmp", o, str,
            IF str.len = Len(o) /\ Content(str) = o THEN 1 ELSE 0)

\* A swap that stores *d at the end and loses the old end byte.
SwapOneWay(s, d) ==
    LET b == s.buf IN [s EXCEPT !.buf = [b EXCEPT ![s.len + 1] = b[d + 1]]]

\* swap(str, d): exchange buf[len] and buf[d].
Swap(s, d) ==
    LET b == s.buf IN
    [s EXCEPT !.buf = [b EXCEPT ![s.len + 1] = b[d + 1], ![d + 1] = b[s.len + 1]]]

\* The bytes from C index i up to the first '\0': the token returned.
CStr(b, i) == SubSeq(b, i + 1, i + Strcspn(b, i, {}))

\* stl_string_token_begin.  A resumed call swaps the saved position back,
\* returns NULL if it held the terminator, and steps over the delimiter;
\* then it finds the next delimiter, saves it and swaps the terminator in.
stl_string_token_begin(D) ==
    /\ str # NULL /\ (Idle \/ dl = D)
    /\ last' = <<"token_begin", D>> /\ ret' = 0 /\ dl' = D
    /\ orig' = IF Idle THEN Content(str) ELSE orig
    /\ LET s1 == IF Idle THEN str ELSE Swap(str, save)
           it == IF Idle THEN 0 ELSE save + 1
           nx == it + Strcspn(s1.buf, it, D)
       IN IF ~Idle /\ s1.buf[save + 1] = NUL
          THEN str' = s1 /\ out' = NULL /\ UNCHANGED save
          ELSE /\ save' = nx /\ str' = Swap(s1, nx)
               /\ out' = CStr(str'.buf, it)

\* stl_string_token_end: swap back unless buf[len] already holds '\0'.
stl_string_token_end ==
    /\ str # NULL /\ last' = <<"token_end">>
    /\ str' = IF str.buf[str.len + 1] = NUL THEN str ELSE Swap(str, save)
    /\ save' = NULL /\ dl' = {} /\ orig' = <<>> /\ ret' = 0 /\ out' = NULL

\* The end loop of stl_string_trim: step back over characters of L, never
\* past start.
RECURSIVE TrimEnd(_, _, _, _)
TrimEnd(b, L, start, end) ==
    IF end > start /\ Strchr(L, b[end]) THEN TrimEnd(b, L, start, end - 1)
    ELSE end

\* stl_string_trim: a copy of buf[start..end) if either end moved.
stl_string_trim(L) ==
    /\ Idle
    /\ IF str = NULL THEN Done("trim", L, NULL, 1)
       ELSE LET start == Strspn(str.buf, 0, L)
                end   == TrimEnd(str.buf, L, start, str.len)
            IN IF start # 0 \/ end # str.len
               THEN \E f \in Fail :
                      IF f THEN Done("trim", L, str, 0)
                      ELSE Done("trim", L, NewLen(SubSeq(str.buf, start + 1, end)), 1)
               ELSE Done("trim", L, str, 1)

\* stl_string_substring: buf[i..j) if the range is inside the string.
stl_string_substring(i, j) ==
    /\ Idle
    /\ \E f \in Fail :
         IF str = NULL \/ i > str.len \/ j > str.len \/ i > j \/ f
         THEN Done("substring", <<i, j>>, str, 0)
         ELSE Done("substring", <<i, j>>, NewLen(SubSeq(str.buf, i + 1, j)), 1)

RECURSIVE FastReplace(_, _, _, _)

FastReplace(b, i, r, w) ==
    LET p == Strstr(b, i, r) IN
    IF p < 0 THEN b
    ELSE FastReplace([k \in DOMAIN b |-> IF k \in p + 1 .. p + Len(w)
                                          THEN w[k - p] ELSE b[k]],
                     p + Len(r), r, w)

\* The counting loop: <<count, size>>, or <<-1, size>> when the overflow
\* check fails.
RECURSIVE CountLoop(_, _, _, _, _)
CountLoop(b, i, r, size, diff) ==
    LET p == Strstr(b, i, r) IN
    IF p < 0 THEN <<0, size>>
    ELSE IF size > SizeMax - diff THEN <<-1, size>>
    ELSE LET rest == CountLoop(b, p + Len(r), r, size + diff, diff) IN
         IF rest[1] < 0 THEN rest ELSE <<rest[1] + 1, rest[2]>>

\* The copy loop: count times the unmatched bytes then with; then the
\* rest of the string and its terminator.
RECURSIVE CopyLoop(_, _, _, _, _)
CopyLoop(b, o, r, w, count) ==
    IF count = 0 THEN SubSeq(b, o + 1, Len(b))
    ELSE LET p == Strstr(b, o, r) IN
         SubSeq(b, o + 1, p) \o w \o CopyLoop(b, p + Len(r), r, w, count - 1)

stl_string_replace(r, w) ==
    /\ Idle
    /\ LET diff == Len(w) - Len(r) IN
       IF str = NULL THEN Done("replace", <<r, w>>, NULL, 1)
       ELSE IF diff = 0
       THEN Done("replace", <<r, w>>, [str EXCEPT !.buf = FastReplace(@, 0, r, w)], 1)
       ELSE LET c == CountLoop(str.buf, 0, r, str.len, diff) IN
            IF c[1] < 0 THEN Done("replace", <<r, w>>, str, 0)
            ELSE IF c[1] = 0 THEN Done("replace", <<r, w>>, str, 1)
            ELSE \E f \in Fail :
                   IF f THEN Done("replace", <<r, w>>, str, 0)
                   ELSE Done("replace", <<r, w>>,
                             [len |-> c[2], buf |-> CopyLoop(str.buf, 0, r, w, c[1])], 1)

Next ==
    \/ \E t \in Texts : \/ stl_string_new(t) \/ stl_string_set(t)
                        \/ stl_string_append(t) \/ stl_string_cmp(t)
                        \/ stl_string_new_fmt(t) \/ stl_string_set_fmt(t)
                        \/ stl_string_append_fmt(t)
    \/ \E L \in Lists : stl_string_trim(L) \/ stl_string_token_begin(L)
    \/ \E p \in Reps : stl_string_replace(p[1], p[2])
    \/ \E i, j \in 0 .. SizeMax + 1 : stl_string_substring(i, j)
    \/ stl_string_destroy \/ stl_string_len \/ stl_string_dup
    \/ stl_string_token_end

Spec == Init /\ [][Next]_vars

-----------------------------------------------------------------------------
\* Tokens handed out in the current loop: one per delimiter of orig before
\* save, and the first.
TokensOut == IF Idle THEN -1
             ELSE 1 + Cardinality({i \in 1 .. save : orig[i] \in dl})

Abs == INSTANCE StlStringSpec
         WITH val <- IF str = NULL THEN NULL ELSE IF Idle THEN Content(str) ELSE orig,
              tokn <- TokensOut, delim <- dl

TokenSwapped ==
    str # NULL =>
      IF Idle THEN str.buf = Content(str) \o <<NUL>>
                   /\ \A i \in 1 .. str.len : str.buf[i] # NUL
      ELSE Swap(str, save).buf = orig \o <<NUL>>
====
