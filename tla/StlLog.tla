------------------------------- MODULE StlLog --------------------------------
(***************************************************************************)
(* src/stl/stl_log.c: the process-wide logger s_log, shared by threads.   *)
(* A thread is idle or inside stl_log_log; pc[t] is where it is, call[t]  *)
(* the call with its arguments.  The level is a relaxed atomic read before *)
(* the mutex; everything else is read and written under s_log.mtx.  A     *)
(* stl_log_log call writes a header and a body to stdout (stderr for       *)
(* ERROR), then to the log file, rotating it past STL_LOG_FILE_SIZE, then  *)
(* calls the callback.                                                     *)
(*                                                                         *)
(* A file on disk is abstracted to whether it exists, its size in bytes    *)
(* (saturated at Cap: the code compares it with FileSizeMax only), the     *)
(* last thing written to it (a header of thread t, a body, or the newline  *)
(* set_file writes) and the last log line whose body it holds.  A stream   *)
(* is abstracted to the thread whose line it is in the middle of, or to   *)
(* "cut" when it ends in a line whose writer gave up.                     *)
(* latest is a history variable: the last line written to a log file since *)
(* set_file opened it.                                                     *)
(***************************************************************************)
EXTENDS Integers

CONSTANTS
    Threads,      \* the threads that call the logger
    Names,        \* file paths passed to set_file
    Msgs,         \* formatted messages
    MsgSize,      \* message -> bytes vfprintf writes
    HdrSize,      \* bytes print_header writes
    FileSizeMax,  \* STL_LOG_FILE_SIZE, scaled down
    CallLevels,   \* levels of stl_log_debug .. stl_log_error calls
    SetLevels,    \* ids set_level parses its string to; -1: no level matches
    FileMayFail,  \* whether fopen and fprintf may fail (on a log file, and
                  \* the header and message writes to stdout and stderr)
    None, NULL

VARIABLES pc, call, rc, mtx, level, to_stdout, cb, fp, fpOpen, cur, prev,
          file_size, disk, tail, latest

vars == <<pc, call, rc, mtx, level, to_stdout, cb, fp, fpOpen, cur, prev,
          file_size, disk, tail, latest>>

DEBUG == 0
INFO == 1
ERROR == 3

\* file sizes above Cap behave as Cap: the code only asks size > FileSizeMax.
Cap == FileSizeMax + 1
Sat(n) == IF n > Cap THEN Cap ELSE n

Streams == {"stdout", "stderr"}
NoFile == [ex |-> FALSE, size |-> 0, tail |-> <<"none">>, lastBody |-> NULL]
Lines == Threads \X Msgs
Fail == IF FileMayFail THEN {TRUE, FALSE} ELSE {FALSE}

LogTypeOK ==
    /\ pc \in [Threads -> {"idle", "lock", "crit", "out_body", "file",
                           "f_body", "cb"}]
    /\ rc \in [Threads -> {0, -1}]
    /\ mtx \in Threads \cup {None}
    /\ level \in {l \in SetLevels : l >= 0} \cup {INFO}
    /\ to_stdout \in BOOLEAN /\ cb \in BOOLEAN /\ fpOpen \in BOOLEAN
    /\ fp \in Names \cup {NULL} /\ cur \in Names \cup {NULL}
    /\ prev \in Names \cup {NULL} /\ file_size \in 0 .. Cap
    /\ \A n \in Names :
         /\ disk[n].ex \in BOOLEAN /\ disk[n].size \in 0 .. Cap
         /\ disk[n].tail \in {<<"none">>, <<"nl">>, <<"body">>} \cup ({"hdr"} \X Threads)
         /\ disk[n].lastBody \in Lines \cup {NULL}
    /\ tail \in [Streams -> Threads \cup {None, "cut"}]
    /\ latest \in Lines \cup {NULL}

\* stl_log_init: s_log zeroed, level INFO, stdout on, the mutex made.
\* stl_log_mutex_init first assigns PTHREAD_MUTEX_INITIALIZER and only
\* then calls pthread_mutexattr_init and pthread_mutex_init, so when one
\* of those fails (init returns rc and sets errno) the mutex is still a
\* working default mutex: the failure changes no state modelled here.
Init ==
    /\ pc = [t \in Threads |-> "idle"] /\ call = [t \in Threads |-> <<"none">>]
    /\ rc = [t \in Threads |-> 0] /\ mtx = None
    /\ level = INFO /\ to_stdout = TRUE /\ cb = FALSE
    /\ fp = NULL /\ fpOpen = FALSE /\ cur = NULL /\ prev = NULL
    /\ file_size = 0 /\ disk = [n \in Names |-> NoFile]
    /\ tail = [s \in Streams |-> None] /\ latest = NULL

\* ERROR lines go to stderr, the others to stdout.
Dest(lv) == IF lv = ERROR THEN "stderr" ELSE "stdout"

\* The return of a call that took the mutex: unlock, the thread idle.
Return(t) ==
    /\ mtx' = None /\ pc' = [pc EXCEPT ![t] = "idle"]
    /\ call' = [call EXCEPT ![t] = <<"none">>]

\* An idle thread enters stl_log_log, to wait for the mutex.
Enter(t, c) ==
    /\ pc[t] = "idle" /\ pc' = [pc EXCEPT ![t] = "lock"]
    /\ call' = [call EXCEPT ![t] = c] /\ rc' = [rc EXCEPT ![t] = 0]
    /\ UNCHANGED <<mtx, level, to_stdout, cb, fp, fpOpen, cur, prev,
                   file_size, disk, tail, latest>>

\* stl_log_log(lv, m): the relaxed load of the level, then the mutex, or
\* return 0 for a level below it.
stl_log_log(t, lv, m) ==
    \/ lv >= level /\ Enter(t, <<"log", lv, m>>)
    \/ /\ pc[t] = "idle" /\ lv < level /\ rc' = [rc EXCEPT ![t] = 0]
       /\ UNCHANGED call
       /\ UNCHANGED <<pc, mtx, level, to_stdout, cb, fp, fpOpen, cur, prev,
                      file_size, disk, tail, latest>>

\* A set_level that stores the id of its last comparison when none matched.
SetLevelAlwaysStores(t, l) ==
    /\ pc[t] = "idle" /\ level' = l
    /\ rc' = [rc EXCEPT ![t] = IF l = -1 THEN -1 ELSE 0]
    /\ UNCHANGED <<pc, call, mtx, to_stdout, cb, fp, fpOpen, cur, prev,
                   file_size, disk, tail, latest>>

\* stl_log_set_level: an atomic store, no mutex; -1 if no name matches.
stl_log_set_level(t, l) ==
    /\ pc[t] = "idle"
    /\ IF l = -1 THEN rc' = [rc EXCEPT ![t] = -1] /\ UNCHANGED level
       ELSE rc' = [rc EXCEPT ![t] = 0] /\ level' = l
    /\ UNCHANGED <<pc, call, mtx, to_stdout, cb, fp, fpOpen, cur, prev,
                   file_size, disk, tail, latest>>

\* A lock that does not wait for the owner to leave.
LockUnchecked(t) == mtx' = t

\* stl_log_mutex_lock: a PTHREAD_MUTEX_NORMAL mutex.
Lock(t) == mtx = None /\ mtx' = t

\* The step that takes the mutex; stl_log_log then reads to_stdout.
Acquire(t) ==
    /\ pc[t] = "lock" /\ Lock(t)
    /\ pc' = [pc EXCEPT ![t] =
                IF to_stdout THEN "crit" ELSE "file"]
    /\ UNCHANGED <<call, rc, level, to_stdout, cb, fp, fpOpen, cur, prev,
                   file_size, disk, tail, latest>>

\* stl_log_stdout: the header, then the message, to stdout or stderr.
\* print_header returns -1 when localtime_r or fprintf fails (taken here
\* as nothing written), and stl_log_stdout returns -1 before the message;
\* stl_log_log ors it into rc and goes on to the file.
OutHeader(t) ==
    LET d == Dest(call[t][2]) IN
    /\ pc[t] = "crit"
    /\ \E f \in Fail :
         IF f THEN /\ rc' = [rc EXCEPT ![t] = -1]
                   /\ UNCHANGED tail
                   /\ pc' = [pc EXCEPT ![t] = "file"]
         ELSE /\ tail' = [tail EXCEPT ![d] = t]
              /\ pc' = [pc EXCEPT ![t] = "out_body"] /\ UNCHANGED rc
    /\ UNCHANGED <<call, mtx, level, to_stdout, cb, fp, fpOpen, cur, prev,
                   file_size, disk, latest>>

\* vfprintf of the message; a failure is -1 and leaves the stream ending in
\* an unfinished line ("cut"), which the next header continues.
OutBody(t) ==
    LET d == Dest(call[t][2]) IN
    /\ pc[t] = "out_body"
    /\ \E f \in Fail :
         IF f THEN rc' = [rc EXCEPT ![t] = -1] /\ tail' = [tail EXCEPT ![d] = "cut"]
         ELSE tail' = [tail EXCEPT ![d] = None] /\ UNCHANGED rc
    /\ pc' = [pc EXCEPT ![t] = "file"]
    /\ UNCHANGED <<call, mtx, level, to_stdout, cb, fp, fpOpen, cur, prev,
                   file_size, disk, latest>>

\* stl_log_file, first the check of s_log.fp in stl_log_log, then the
\* header; a failed fprintf returns -1 before the message.
FileHeader(t) ==
    /\ pc[t] = "file"
    /\ IF fp = NULL
       THEN pc' = [pc EXCEPT ![t] = "cb"] /\ UNCHANGED <<rc, disk>>
       ELSE \E f \in Fail :
              IF f THEN rc' = [rc EXCEPT ![t] = -1] /\ pc' = [pc EXCEPT ![t] = "cb"]
                        /\ UNCHANGED disk
              ELSE /\ disk' = [disk EXCEPT ![fp] = [@ EXCEPT !.tail = <<"hdr", t>>,
                                                     !.size = Sat(@ + HdrSize)]]
                   /\ pc' = [pc EXCEPT ![t] = "f_body"] /\ UNCHANGED rc
    /\ UNCHANGED <<call, mtx, level, to_stdout, cb, fp, fpOpen, cur, prev,
                   file_size, tail, latest>>

\* A rotation that leaves s_log.fp at the closed FILE when fopen fails.
RotateKeepsClosed(t, d, sz) ==
    \E f \in Fail :
      /\ disk' = [disk EXCEPT ![prev] = d,
                              ![cur] = IF f THEN NoFile ELSE [NoFile EXCEPT !.ex = TRUE]]
      /\ fpOpen' = ~f /\ fp' = fp
      /\ IF f THEN rc' = [rc EXCEPT ![t] = -1] /\ file_size' = sz
         ELSE file_size' = 0 /\ UNCHANGED rc

\* A rotation that renames prev_file over current_file.
RotateRenameSwapped(t, d, sz) ==
    \E f \in Fail :
      /\ disk' = [disk EXCEPT ![prev] = NoFile,
                              ![cur] = IF ~f THEN [NoFile EXCEPT !.ex = TRUE]
                                       ELSE IF disk[prev].ex THEN disk[prev] ELSE d]
      /\ fpOpen' = ~f /\ fp' = IF f THEN NULL ELSE cur
      /\ IF f THEN rc' = [rc EXCEPT ![t] = -1] /\ file_size' = sz
         ELSE file_size' = 0 /\ UNCHANGED rc

\* A rotation that does not reset file_size.
RotateNoReset(t, d, sz) ==
    \E f \in Fail :
      /\ disk' = [disk EXCEPT ![prev] = d,
                              ![cur] = IF f THEN NoFile ELSE [NoFile EXCEPT !.ex = TRUE]]
      /\ fpOpen' = ~f /\ fp' = IF f THEN NULL ELSE cur
      /\ file_size' = sz
      /\ IF f THEN rc' = [rc EXCEPT ![t] = -1] ELSE UNCHANGED rc

\* The rotation of stl_log_file, d being the current file with the line
\* just written and sz the counted size: fclose, rename(current, prev),
\* fopen(current, "w+"); if that fails, -1 and no log file from now on.
Rotate(t, d, sz) ==
    \E f \in Fail :
      /\ disk' = [disk EXCEPT ![prev] = d,
                              ![cur] = IF f THEN NoFile ELSE [NoFile EXCEPT !.ex = TRUE]]
      /\ fpOpen' = ~f /\ fp' = IF f THEN NULL ELSE cur
      /\ IF f THEN rc' = [rc EXCEPT ![t] = -1] /\ file_size' = sz
         ELSE file_size' = 0 /\ UNCHANGED rc

\* stl_log_file after the header: the message, file_size += its bytes (the
\* header's are not counted), and the rotation past STL_LOG_FILE_SIZE.
FileBody(t) ==
    /\ pc[t] = "f_body" /\ fp # NULL /\ pc' = [pc EXCEPT ![t] = "cb"]
    /\ LET m == call[t][3]
           d == [disk[fp] EXCEPT !.tail = <<"body">>, !.size = Sat(@ + MsgSize[m]),
                                 !.lastBody = <<t, m>>]
           sz == Sat(file_size + MsgSize[m])
       IN \E f \in Fail :
            IF f THEN rc' = [rc EXCEPT ![t] = -1]
                      /\ UNCHANGED <<disk, file_size, fp, fpOpen, latest>>
            ELSE /\ latest' = <<t, m>>
                 /\ IF sz > FileSizeMax THEN Rotate(t, d, sz)
                    ELSE /\ disk' = [disk EXCEPT ![fp] = d] /\ file_size' = sz
                         /\ UNCHANGED <<rc, fp, fpOpen>>
    /\ UNCHANGED <<call, mtx, level, to_stdout, cb, cur, prev, tail>>

\* The end of stl_log_log: the callback, if set, may add an error; unlock.
LogDone(t) ==
    /\ pc[t] = "cb" /\ Return(t)
    /\ \E r \in IF cb THEN {0, -1} ELSE {0} :
         rc' = [rc EXCEPT ![t] = IF r = -1 THEN -1 ELSE @]
    /\ UNCHANGED <<level, to_stdout, cb, fp, fpOpen, cur, prev,
                   file_size, disk, tail, latest>>

\* stl_log_set_stdout and stl_log_set_callback hold the mutex for their
\* whole body, so each is one step, taken when the mutex is free.
stl_log_set_stdout(t, b) ==
    /\ pc[t] = "idle" /\ mtx = None /\ to_stdout' = b
    /\ UNCHANGED <<pc, call, rc, mtx, level, cb, fp, fpOpen, cur, prev,
                   file_size, disk, tail, latest>>

stl_log_set_callback(t, b) ==
    /\ pc[t] = "idle" /\ mtx = None /\ cb' = b
    /\ UNCHANGED <<pc, call, rc, mtx, level, to_stdout, fp, fpOpen, cur, prev,
                   file_size, disk, tail, latest>>

\* stl_log_set_file(p, c), one step under the mutex: close the file, keep
\* the names; with both names, fopen(c, "a+"), write "\n" and take ftell as
\* the size.  A failure closes what was opened and returns -1: no log file.
\* The file is left as the failing call leaves it: untouched when fopen
\* fails, created and empty of the "\n" when fprintf fails, and with the
\* "\n" (flushed by fclose) when ftell fails.
stl_log_set_file(t, p, c) ==
    /\ pc[t] = "idle" /\ mtx = None
    /\ prev' = p /\ cur' = c
    /\ IF p = NULL \/ c = NULL
       THEN fp' = NULL /\ fpOpen' = FALSE /\ rc' = [rc EXCEPT ![t] = 0]
            /\ UNCHANGED <<disk, file_size>>
       ELSE LET opened == [disk[c] EXCEPT !.ex = TRUE, !.tail = <<"nl">>,
                                          !.size = Sat(@ + 1)]
                created == [disk[c] EXCEPT !.ex = TRUE]
            IN \E f \in Fail :
                 IF f THEN fp' = NULL /\ fpOpen' = FALSE
                           /\ rc' = [rc EXCEPT ![t] = -1]
                           /\ \E after \in {disk[c], created, opened} :
                                 disk' = [disk EXCEPT ![c] = after]
                           /\ UNCHANGED file_size
                 ELSE /\ disk' = [disk EXCEPT ![c] = opened]
                      /\ file_size' = opened.size /\ fp' = c /\ fpOpen' = TRUE
                      /\ rc' = [rc EXCEPT ![t] = 0]
    /\ latest' = NULL
    /\ UNCHANGED <<pc, call, mtx, level, to_stdout, cb, tail>>

\* The names set_file is called with: two different paths, or NULL.
FilePairs == {<<p, c>> \in Names \X Names : p # c} \cup {<<NULL, NULL>>}

Next ==
    \E t \in Threads :
      \/ \E lv \in CallLevels, m \in Msgs : stl_log_log(t, lv, m)
      \/ \E l \in SetLevels : stl_log_set_level(t, l)
      \/ \E b \in BOOLEAN : stl_log_set_stdout(t, b) \/ stl_log_set_callback(t, b)
      \/ \E pr \in FilePairs : stl_log_set_file(t, pr[1], pr[2])
      \/ Acquire(t) \/ OutHeader(t) \/ OutBody(t) \/ FileHeader(t) \/ FileBody(t)
      \/ LogDone(t)

Spec == Init /\ [][Next]_vars
-----------------------------------------------------------------------------
\* Lines are whole: while a thread is between the header and the message of
\* its line on stdout, stderr or the log file, the stream ends with its own
\* header, so no other thread's header or message has come between them
\* (the mutex that stl_log_log holds across stl_log_stdout and stl_log_file).
LinesWhole ==
    \A t \in Threads :
      /\ pc[t] = "out_body" => tail[Dest(call[t][2])] = t
      /\ pc[t] = "f_body" => fp # NULL /\ disk[fp].tail = <<"hdr", t>>

\* No write to a closed or NULL FILE: a thread about to write its header or
\* message to s_log.fp finds it open, after set_file closed and reopened it
\* and after a rotation whose fopen failed.
NoWriteToClosed ==
    \A t \in Threads :
      /\ pc[t] = "f_body" => fp # NULL
      /\ pc[t] \in {"file", "f_body"} /\ fp # NULL => fpOpen

\* "Latest logs will always be in the current_file" (stl_log.h), as the
\* rotation keeps it: between calls, the last line written to a log file
\* since set_file is the last line of current_file, or current_file holds
\* no line yet (or is gone after a failed fopen) and it is the last of
\* prev_file.
LatestInFiles ==
    mtx = None /\ latest # NULL =>
      \/ disk[cur].ex /\ disk[cur].lastBody = latest
      \/ /\ disk[prev].ex /\ disk[prev].lastBody = latest
         /\ (~disk[cur].ex \/ disk[cur].lastBody = NULL)

\* The rotation bound: between calls, once a line has been written since
\* set_file, the size stl_log_file counts for the open log file is at most
\* STL_LOG_FILE_SIZE (it is reset when the file is rotated).
SizeBounded ==
    mtx = None /\ fp # NULL /\ latest # NULL => file_size <= FileSizeMax
=============================================================================
