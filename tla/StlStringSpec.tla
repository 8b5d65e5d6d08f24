---------------------------- MODULE StlStringSpec ----------------------------
(***************************************************************************)
(* What stl_string promises its callers (src/stl/stl_string.h), for one    *)
(* char * variable holding a length-prefixed string or NULL: a value that  *)
(* is a sequence of characters of at most SizeMax, changed only by calls   *)
(* that return true, and a tokenizer that hands out the pieces between     *)
(* delimiters, one per call, and leaves the string as it was.              *)
(*                                                                         *)
(* The reference definitions below (Split, TrimSeq, ReplaceAll) are the    *)
(* usual mathematical ones, written without the C library's scans.         *)
(***************************************************************************)
EXTENDS Integers, Sequences

CONSTANTS
    SizeMax,  \* stl_string_SIZE_MAX, scaled down
    Texts,    \* the C strings callers pass to new, set, append and cmp
    Lists,    \* the character lists passed to trim and token_begin
    Reps,     \* the (rep, with) pairs passed to replace; rep not empty
    NULL

VARIABLES
    val,    \* the string the variable holds, or NULL
    ret,    \* the boolean or integer the last call returned
    out,    \* the string the last dup or token_begin returned, or NULL
    tokn,   \* tokens handed out in the current tokenizing loop; -1 outside
    delim,  \* the delimiter list of the current tokenizing loop
    last    \* the last call and its arguments

vars == <<val, ret, out, tokn, delim, last>>

\* The pieces of s between characters of D, empty pieces included.
RECURSIVE Split(_, _)
Split(s, D) ==
    IF \A i \in 1 .. Len(s) : s[i] \notin D THEN <<s>>
    ELSE LET i == CHOOSE i \in 1 .. Len(s) :
                    s[i] \in D /\ \A j \in 1 .. i - 1 : s[j] \notin D
         IN <<SubSeq(s, 1, i - 1)>> \o Split(SubSeq(s, i + 1, Len(s)), D)

\* s without its leading and trailing characters in L.
RECURSIVE TrimSeq(_, _)
TrimSeq(s, L) ==
    IF s # <<>> /\ s[1] \in L THEN TrimSeq(Tail(s), L)
    ELSE IF s # <<>> /\ s[Len(s)] \in L THEN TrimSeq(SubSeq(s, 1, Len(s) - 1), L)
    ELSE s

\* s with every occurrence of r, taken left to right without overlap,
\* replaced by w (r not empty).
RECURSIVE ReplaceAll(_, _, _)
ReplaceAll(s, r, w) ==
    IF Len(s) < Len(r) THEN s
    ELSE IF SubSeq(s, 1, Len(r)) = r
         THEN w \o ReplaceAll(SubSeq(s, Len(r) + 1, Len(s)), r, w)
    ELSE <<s[1]>> \o ReplaceAll(Tail(s), r, w)

Idle == tokn = -1

Init == val = NULL /\ ret = 0 /\ out = NULL /\ tokn = -1 /\ delim = {}
        /\ last = <<"init">>

\* A call that either does its work (ok) or fails and changes nothing.
Outcome(name, args, new, mayFail) ==
    /\ Idle /\ last' = <<name, args>> /\ out' = NULL
    /\ \/ val' = new /\ ret' = 1
       \/ mayFail /\ ret' = 0 /\ UNCHANGED val
    /\ UNCHANGED <<tokn, delim>>

\* A call that refuses: false, nothing changed.
Refused(name, args) ==
    /\ Idle /\ last' = <<name, args>> /\ out' = NULL /\ ret' = 0
    /\ UNCHANGED <<val, tokn, delim>>

New(t) ==
    /\ val = NULL
    /\ Outcome("new", t, t, TRUE)

Destroy ==
    /\ Idle /\ val # NULL /\ last' = <<"destroy">>
    /\ val' = NULL /\ ret' = 0 /\ out' = NULL
    /\ UNCHANGED <<tokn, delim>>

\* append: on a NULL string the code (stl_string.c:217-220) creates the
\* string and succeeds, where stl_string.h says it returns false; this
\* specification follows the code.
AppendTo(t) ==
    IF val = NULL THEN Outcome("append", t, t, TRUE)
    ELSE \/ Len(val) + Len(t) <= SizeMax /\ Outcome("append", t, val \o t, TRUE)
         \/ Len(val) + Len(t) > SizeMax /\ Refused("append", t)

\* new_fmt, set_fmt and append_fmt: the printed text, or NULL and no
\* change; set_fmt and append_fmt also on a NULL string (append_fmt is
\* set_fmt there, stl_string.h:136-137, although the header says it
\* returns false; this specification follows the code).
NewFmt(t) ==
    /\ val = NULL
    /\ Outcome("new_fmt", t, t, TRUE)

SetFmt(t) == Outcome("set_fmt", t, t, TRUE)

AppendFmt(t) == Outcome("append_fmt", t, IF val = NULL THEN t ELSE val \o t, TRUE)

SetTo(t) ==
    IF val = NULL THEN Refused("set", t) ELSE Outcome("set", t, t, TRUE)

\* trim of NULL is true; a string with nothing to trim is not copied.
Trim(L) ==
    IF val = NULL THEN Outcome("trim", L, NULL, FALSE)
    ELSE Outcome("trim", L, TrimSeq(val, L), TrimSeq(val, L) # val)

Substring(i, j) ==
    IF val # NULL /\ i <= j /\ j <= Len(val)
    THEN Outcome("substring", <<i, j>>, SubSeq(val, i + 1, j), TRUE)
    ELSE Refused("substring", <<i, j>>)

\* replace of NULL is true; only a replacement of another length that
\* matches somewhere allocates.
Replace(r, w) ==
    IF val = NULL THEN Outcome("replace", <<r, w>>, NULL, FALSE)
    ELSE LET v == ReplaceAll(val, r, w) IN
         IF Len(v) <= SizeMax
         THEN Outcome("replace", <<r, w>>, v, v # val /\ Len(r) # Len(w))
         ELSE Refused("replace", <<r, w>>)

\* len, cmp and dup read the value.
Length ==
    /\ Idle /\ last' = <<"len">> /\ out' = NULL
    /\ ret' = IF val = NULL THEN -1 ELSE Len(val)
    /\ UNCHANGED <<val, tokn, delim>>

Cmp(o) ==
    /\ Idle /\ val # NULL /\ last' = <<"cmp", o>> /\ out' = NULL
    /\ ret' = IF val = o THEN 1 ELSE 0
    /\ UNCHANGED <<val, tokn, delim>>

Dup ==
    /\ Idle /\ last' = <<"dup">> /\ ret' = 0
    /\ out' \in IF val = NULL THEN {NULL} ELSE {val, NULL}
    /\ UNCHANGED <<val, tokn, delim>>

\* token_begin: the next piece, or NULL once all have been handed out.
TokenBegin(D) ==
    /\ val # NULL /\ (Idle \/ delim = D) /\ last' = <<"token_begin", D>>
    /\ LET n == IF Idle THEN 0 ELSE tokn
           S == Split(val, D)
       IN IF n < Len(S) THEN out' = S[n + 1] /\ tokn' = n + 1
          ELSE out' = NULL /\ tokn' = n
    /\ delim' = D /\ ret' = 0
    /\ UNCHANGED val

\* token_end: the loop is over, the string as it was.
TokenEnd ==
    /\ val # NULL /\ last' = <<"token_end">>
    /\ tokn' = -1 /\ delim' = {} /\ out' = NULL /\ ret' = 0
    /\ UNCHANGED val

Next ==
    \/ \E t \in Texts : New(t) \/ AppendTo(t) \/ SetTo(t) \/ Cmp(t)
                        \/ NewFmt(t) \/ SetFmt(t) \/ AppendFmt(t)
    \/ \E L \in Lists : Trim(L) \/ TokenBegin(L)
    \/ \E p \in Reps : Replace(p[1], p[2])
    \/ \E i, j \in 0 .. SizeMax + 1 : Substring(i, j)
    \/ Destroy \/ Length \/ Dup \/ TokenEnd

Spec == Init /\ [][Next]_vars
=============================================================================
