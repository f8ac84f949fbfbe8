---------------------------- MODULE FileDownload ----------------------------
(***************************************************************************)
(* blob_client_wrapper::download_blob_to_file                              *)
(* (src/blob/blob_client_wrapper.cpp) and the get_chunk_to_stream_sync it  *)
(* calls.  The first chunk tells the etag and the length of the blob; the  *)
(* file is given that length; one thread per remaining range then writes   *)
(* its own part and compares its etag with the first.                      *)
(*                                                                         *)
(* Another client may replace the blob at any time.  A cell of the file    *)
(* holds the version its byte came from, which is also its etag.           *)
(***************************************************************************)
EXTENDS Integers, Sequences, FiniteSets

CONSTANTS DOWNLOAD_CHUNK_SIZE,
          downloaders,  \* std::min(parallel, m_concurrency)
          MaxCuts,      \* bound: attempts cut off in the middle, in all
          Versions,     \* versions of the blob
          LengthOf      \* their lengths

ASSUME FileDownloadAssumption ==
    /\ DOWNLOAD_CHUNK_SIZE \in Nat \ {0} /\ downloaders \in Nat \ {0}
    /\ MaxCuts \in Nat /\ LengthOf \in [Versions -> Nat]

Offsets == UNION {0..LengthOf[v] : v \in Versions}
Least(a, b) == IF a < b THEN a ELSE b
Greatest(a, b) == IF a < b THEN b ELSE a

VARIABLES
    main,      \* where the calling thread is
    first,     \* firstChunk.response(): etag, totalSize and size
    offset,    \* the loop's offset
    tasks,     \* the offsets in task_list
    task,      \* where the thread of each offset is
    answer,    \* what it returns
    err,       \* errno when the call returns
    resized,   \* create_or_resize_file succeeded
    file,      \* the destination file
    blob,      \* service: the current version
    replaced,  \* service: the versions before it
    cuts       \* attempts cut off so far

callVars == <<main, first, offset, tasks, err, resized>>
taskVars == <<task, answer>>
serviceVars == <<blob, replaced>>
vars == <<callVars, taskVars, file, serviceVars, cuts>>

NoChunk == [etag |-> "none", totalSize |-> 0, size |-> 0]

Init ==
    /\ main = "start"
    /\ first = NoChunk
    /\ offset = 0
    /\ tasks = {}
    /\ task = [o \in Offsets |-> "unborn"]
    /\ answer = [o \in Offsets |-> "0"]
    /\ err = "unset"
    /\ resized = FALSE
    /\ file \in {<<>>, [i \in 1..4 |-> "old"]}
    /\ blob \in Versions
    /\ replaced = {}
    /\ cuts = 0

Return(e) == main' = "returned" /\ err' = e

\* n cells from position o on, of the current version; what lies between the
\* end of the file and o becomes a hole.
Written(o, n) ==
    IF n = 0 THEN file
    ELSE [i \in 1..Greatest(Len(file), o + n) |->
              CASE i > o /\ i <= o + n -> blob
                [] i <= Len(file) /\ (i <= o \/ i > o + n) -> file[i]
                [] OTHER -> "hole"]

\* What the service sends of `size' bytes from o on.
Available(o, size) == Greatest(0, Least(size, LengthOf[blob] - o))

-----------------------------------------------------------------------------
(* The calling thread: the first chunk. *)

\* The client is not valid, or the file cannot be opened (which the code finds
\* out after the request).
Reject ==
    /\ main = "start"
    /\ \E e \in {"client_not_init", "unknown_error"} : Return(e)
    /\ UNCHANGED <<first, offset, tasks, resized, taskVars, file, serviceVars, cuts>>

\* std::ofstream os(destPath) truncates the file
OpenFile ==
    /\ main = "start"
    /\ main' = "first"
    /\ file' = <<>>
    /\ UNCHANGED <<first, offset, tasks, err, resized, taskVars, serviceVars, cuts>>

\* An attempt ends after n bytes; the executor rewinds the stream and retries.
FirstCut ==
    /\ main = "first"
    /\ cuts < MaxCuts
    /\ cuts' = cuts + 1
    /\ \E n \in 1..Available(0, DOWNLOAD_CHUNK_SIZE) : file' = Written(0, n)
    /\ UNCHANGED <<callVars, taskVars, serviceVars>>

\* A definition named X_Y is a faulty variant of X: no behaviour uses it, it
\* only serves to see a property fail.
Chunk_WholeSize(n) == [etag |-> blob, totalSize |-> LengthOf[blob], size |-> LengthOf[blob]]
Chunk(n) == [etag |-> blob, totalSize |-> LengthOf[blob], size |-> n]

FirstAnswered ==
    /\ main = "first"
    /\ LengthOf[blob] > 0
    /\ LET n == Available(0, DOWNLOAD_CHUNK_SIZE)
       IN  file' = Written(0, n) /\ first' = Chunk(n)
    /\ main' = "resize"
    /\ UNCHANGED <<offset, tasks, err, resized, taskVars, serviceVars, cuts>>

\* 416: the blob is empty, which is no error; the response is the default one.
FirstEmpty ==
    /\ main = "first"
    /\ LengthOf[blob] = 0
    /\ main' = "resize"
    /\ UNCHANGED <<first, offset, tasks, err, resized, taskVars, file,
                   serviceVars, cuts>>

\* The file cannot be written, the request fails, or the answer has no total.
FirstFails ==
    /\ main = "first"
    /\ \E e \in {"unknown_error", "service", "blob_no_content_range"} : Return(e)
    /\ \E n \in 0..Available(0, DOWNLOAD_CHUNK_SIZE) : file' = Written(0, n)
    /\ UNCHANGED <<first, offset, tasks, resized, taskVars, serviceVars, cuts>>

Truncated ==
    [i \in 1..first.totalSize |-> IF i <= Len(file) THEN file[i] ELSE "hole"]

\* create_or_resize_file(destPath, length): its result is not looked at.
ResizeFile ==
    /\ main = "resize"
    /\ \/ file' = Truncated /\ resized' = TRUE
       \/ UNCHANGED <<file, resized>>
    /\ offset' = first.size
    /\ main' = "spawn"
    /\ UNCHANGED <<first, tasks, err, taskVars, serviceVars, cuts>>

-----------------------------------------------------------------------------
(* The calling thread: the other chunks. *)

left == first.totalSize - first.size
chunk_size == Greatest(DOWNLOAD_CHUNK_SIZE, (left + downloaders - 1) \div downloaders)
range(o) == Least(chunk_size, first.totalSize - o)

MoreToRead == offset < first.totalSize

StartTask_NoAdvance ==
    /\ main = "spawn"
    /\ MoreToRead
    /\ tasks' = tasks \cup {offset}
    /\ task' = [task EXCEPT ![offset] = "read"]
    /\ UNCHANGED <<main, first, offset, err, resized, answer, file, serviceVars, cuts>>
StartTask ==
    /\ main = "spawn"
    /\ MoreToRead
    /\ tasks' = tasks \cup {offset}
    /\ task' = [task EXCEPT ![offset] = "read"]
    /\ offset' = offset + chunk_size
    /\ UNCHANGED <<main, first, err, resized, answer, file, serviceVars, cuts>>

\* std::async throws: the catch block runs once task_list is destroyed, and the
\* futures in it have waited for their threads.
SpawnThrows ==
    /\ main = "spawn"
    /\ MoreToRead
    /\ main' = "unwind"
    /\ UNCHANGED <<first, offset, tasks, err, resized, taskVars, file,
                   serviceVars, cuts>>

AllStarted ==
    /\ main = "spawn"
    /\ ~MoreToRead
    /\ main' = "collect"
    /\ UNCHANGED <<first, offset, tasks, err, resized, taskVars, file,
                   serviceVars, cuts>>

TasksDone == \A o \in tasks : task[o] = "done"

\* errno is the first error, by the order of the ranges.
Collect ==
    /\ main = "collect"
    /\ TasksDone
    /\ \/ (\A o \in tasks : answer[o] = "0") /\ Return("0")
       \/ \E o \in tasks :
             /\ answer[o] # "0"
             /\ \A p \in tasks : p < o => answer[p] = "0"
             /\ Return(answer[o])
    /\ UNCHANGED <<first, offset, tasks, resized, taskVars, file, serviceVars, cuts>>

Unwind_AtOnce ==
    /\ main = "unwind"
    /\ Return("unknown_error")
    /\ UNCHANGED <<first, offset, tasks, resized, taskVars, file, serviceVars, cuts>>
Unwind ==
    /\ main = "unwind"
    /\ TasksDone
    /\ Return("unknown_error")
    /\ UNCHANGED <<first, offset, tasks, resized, taskVars, file, serviceVars, cuts>>

Main == \/ Reject \/ OpenFile \/ FirstAnswered \/ FirstEmpty \/ FirstFails
        \/ ResizeFile \/ StartTask \/ SpawnThrows \/ AllStarted
        \/ Collect \/ Unwind

-----------------------------------------------------------------------------
(* The thread of the range at o. *)

Finish(o, e) ==
    /\ task[o] = "read"
    /\ task' = [task EXCEPT ![o] = "done"]
    /\ answer' = [answer EXCEPT ![o] = e]

\* output.seekp(offset); an attempt ends after n bytes and will be retried.
PartCut(o) ==
    /\ task[o] = "read"
    /\ cuts < MaxCuts
    /\ cuts' = cuts + 1
    /\ \E n \in 1..Available(o, range(o)) : file' = Written(o, n)
    /\ UNCHANGED <<callVars, taskVars, serviceVars>>

\* originalEtag != chunk.response().etag
SameEtag_Any == TRUE
SameEtag == blob = first.etag

PartAnswered(o) ==
    /\ LengthOf[blob] > o
    /\ Finish(o, IF SameEtag THEN "0" ELSE "EAGAIN")
    /\ file' = Written(o, Available(o, range(o)))
    /\ UNCHANGED <<callVars, serviceVars, cuts>>

\* 416: the blob was replaced by one that ends before this range.
PartPastEnd(o) ==
    /\ LengthOf[blob] <= o
    /\ Finish(o, "EAGAIN")
    /\ UNCHANGED <<callVars, file, serviceVars, cuts>>

PartFails(o) ==
    /\ Finish(o, "service")
    /\ UNCHANGED <<callVars, file, serviceVars, cuts>>

\* The answer came, but the file could not be opened, or not wholly written.
PartNotWritten(o) ==
    /\ LengthOf[blob] > o
    /\ Finish(o, IF SameEtag THEN "unknown_error" ELSE "EAGAIN")
    /\ \E n \in 0..Available(o, range(o)) : file' = Written(o, n)
    /\ UNCHANGED <<callVars, serviceVars, cuts>>

Task(o) == PartAnswered(o) \/ PartPastEnd(o) \/ PartFails(o) \/ PartNotWritten(o)

-----------------------------------------------------------------------------

\* Another client replaces the blob (external); no etag comes back.
Replace ==
    /\ replaced' = replaced \cup {blob}
    /\ blob' \in Versions \ replaced'
    /\ UNCHANGED <<callVars, taskVars, file, cuts>>

Next == Main \/ FirstCut \/ Replace \/ \E o \in Offsets : Task(o) \/ PartCut(o)

\* The threads are scheduled, and every request ends.
Fairness == WF_vars(Main) /\ \A o \in Offsets : WF_vars(Task(o))

Safety == Init /\ [][Next]_vars
Spec == Safety /\ Fairness

-----------------------------------------------------------------------------

\* The values each variable takes.
TypeOK ==
    /\ main \in {"start", "first", "resize", "spawn", "collect", "unwind", "returned"}
    /\ first \in [etag : Versions \cup {"none"}, totalSize : Nat, size : Nat]
    /\ first.size \in 0..Least(DOWNLOAD_CHUNK_SIZE, first.totalSize)
    /\ offset \in Nat
    /\ tasks \subseteq Offsets
    /\ task \in [Offsets -> {"unborn", "read", "done"}]
    /\ answer \in [Offsets -> {"0", "EAGAIN", "service", "unknown_error"}]
    /\ err \in {"unset", "client_not_init", "blob_no_content_range", "0",
                "EAGAIN", "service", "unknown_error"}
    /\ resized \in BOOLEAN
    /\ file \in Seq(Versions \cup {"hole", "old"})
    /\ blob \in Versions \ replaced /\ replaced \subseteq Versions
    /\ cuts \in 0..MaxCuts

\* The download does no more than AtomicDownload allows, with the blob as one
\* piece: it is read at one moment, that of the first chunk's answer.  When errno
\* is 0 the file is that version from its first byte to its last, whatever
\* replaced it, whatever earlier attempts wrote, and whatever the file held
\* before (it begins with that version, if the file could not be given its
\* length); and EAGAIN means that the blob was replaced since, so that the retry
\* it asks for is not in vain.
HasRead == main \in {"resize", "spawn", "collect", "unwind"}
Whole(v, n) == [i \in 1..n |-> v]
Copy == IF HasRead THEN {<<"blob", Whole(first.etag, first.totalSize)>>} ELSE {}
Moved == HasRead /\ first.totalSize > 0 /\ first.etag \in replaced
InFile == IF resized THEN file ELSE [i \in 1..first.totalSize |-> file[i]]
Delivered == IF err = "0" THEN {<<"blob", InFile>>} ELSE {}
Told == CASE err = "unset" -> "pending"
          [] err = "0" -> "ok"
          [] err = "EAGAIN" -> "again"
          [] OTHER -> "failed"
Abstract ==
    INSTANCE AtomicDownload WITH
        Pieces <- {"blob"},
        Content <- [v \in Versions |-> [p \in {"blob"} |-> Whole(v, LengthOf[v])]],
        copy <- Copy, moved <- Moved, delivered <- Delivered, outcome <- Told
AtomicOutcome == Abstract!Safety

\* Never more threads than the caller asked for, nor than the pool has handles.
ThreadsBounded == Cardinality(tasks) <= downloaders

\* No thread that captured the call's arguments by reference outlives the call,
\* not even when a thread could not be started.
NoTaskOutlivesCall ==
    main = "returned" => \A o \in Offsets : task[o] \in {"unborn", "done"}

ThreadsOwned == ThreadsBounded /\ NoTaskOutlivesCall

\* The call returns.
Returns == <>(main = "returned")
=============================================================================
