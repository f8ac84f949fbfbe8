----------------------------- MODULE FileUpload -----------------------------
(***************************************************************************)
(* blob_client_wrapper::upload_file_to_blob                                *)
(* (src/blob/blob_client_wrapper.cpp).  A small file goes up in one        *)
(* request.  For a large one the calling thread walks over the blocks,     *)
(* starts one thread per block, keeps at most m_concurrency of them        *)
(* uncollected before it starts another, stops at the first error,         *)
(* collects every thread, and commits the block list when nothing failed.  *)
(*                                                                         *)
(* The threads take one of `parallel' permits first.  The permits are      *)
(* guarded by `mutex'; the condition variable is used with another one,    *)
(* cv_mutex, which the thread that gives a permit back does not take.      *)
(***************************************************************************)
EXTENDS Integers, FiniteSets, Sequences

CONSTANTS NumBlocks,     \* blocks of a large file
          m_concurrency, \* the client's concurrency, and its pool of handles
          Parallels      \* values of the argument `parallel'

ASSUME FileUploadAssumption ==
    NumBlocks \in Nat /\ m_concurrency \in Nat \ {0} /\ Parallels \subseteq Nat

Blocks == 0..(NumBlocks - 1)

VARIABLES
    main,       \* where the calling thread is
    idx,        \* the block the loop is at
    task_list,  \* futures of the threads not yet collected, oldest first
    block_list, \* the block ids to commit
    result,     \* the local `result', by where the error came from
    err,        \* errno when the call returns
    task,       \* where the thread of each block is
    answer,     \* what the thread of each block returns
    limit,      \* the value `parallel' had when the call began
    parallel,   \* free permits
    buffers,    \* blocks whose malloc'ed buffer has not been freed
    sent,       \* service: put_block requests it may have received
    staged,     \* service: uncommitted blocks
    final       \* service: the request that replaces the blob, and whether it
                \* carries the whole file

callVars == <<limit, main, idx, task_list, block_list, result, err>>
taskVars == <<task, answer, parallel, buffers>>
serviceVars == <<sent, staged, final>>
vars == <<callVars, taskVars, serviceVars>>

At(places) == {b \in Blocks : task[b] \in places}
Uploading == At({"upload"})
Permitted == At({"handle", "upload", "release"})

Request(op) == [op |-> op, applied |-> FALSE, whole |-> TRUE]

Init ==
    /\ main = "start"
    /\ idx = 0
    /\ task_list = <<>>
    /\ block_list = <<>>
    /\ result = "0"
    /\ err = "unset"
    /\ task = [b \in Blocks |-> "none"]
    /\ answer = [b \in Blocks |-> "0"]
    /\ limit \in Parallels
    /\ parallel = limit
    /\ buffers = {}
    /\ sent = {}
    /\ staged = {}
    /\ final = Request("none")

First(r) == IF result = "0" THEN r ELSE result

-----------------------------------------------------------------------------
(* The calling thread. *)

\* Client not valid, an empty argument, no such file, a file above
\* MAX_BLOB_SIZE, or a large file that does not open.
Reject ==
    /\ main = "start"
    /\ err' \in {"client_not_init", "invalid_parameters", "stat", "EFBIG",
                 "unknown_error"}
    /\ main' = "done"
    /\ UNCHANGED <<limit, idx, task_list, block_list, result, taskVars, serviceVars>>

\* fileSize <= 64 MB: put_blob, which goes on when the file does not open.  Both
\* ends of a stream that is not open are at -1, and the body is empty.
PutSmallFile ==
    /\ main = "start"
    /\ main' = "finish"
    /\ \E opened \in BOOLEAN :
           final' = [Request("put_blob") EXCEPT !.whole = opened]
    /\ UNCHANGED <<limit, idx, task_list, block_list, result, err, taskVars, sent,
                   staged>>

StartLoop ==
    /\ main = "start"
    /\ main' = "loop"
    /\ UNCHANGED <<limit, idx, task_list, block_list, result, err, taskVars,
                   serviceVars>>

\* A definition named X_Y is a faulty variant of X: no behaviour uses it, it
\* only serves to see a property fail.
WindowFull_TwoMore == Len(task_list) > m_concurrency + 2
WindowFull == Len(task_list) > m_concurrency

\* task_list.front().get(), and the first result that is not 0 is kept
CollectFront ==
    /\ task_list # <<>>
    /\ task[Head(task_list)] = "finished"
    /\ result' = First(answer[Head(task_list)])
    /\ task_list' = Tail(task_list)
    /\ UNCHANGED <<limit, main, idx, block_list, err, taskVars, serviceVars>>

MakeRoom ==
    /\ main = "loop"
    /\ idx < NumBlocks
    /\ WindowFull
    /\ CollectFront

NextBlock ==
    /\ main = "loop"
    /\ idx < NumBlocks
    /\ ~WindowFull
    /\ result = "0"

\* malloc, ifs.read, push_back of the block id, and a new thread
StartTask ==
    /\ NextBlock
    /\ buffers' = buffers \cup {idx}
    /\ block_list' = Append(block_list, idx)
    /\ task' = [task EXCEPT ![idx] = "enter"]
    /\ task_list' = Append(task_list, idx)
    /\ idx' = idx + 1
    /\ UNCHANGED <<limit, main, result, err, answer, parallel, serviceVars>>

NoMemory ==
    /\ NextBlock
    /\ result' = "12"
    /\ main' = "drain"
    /\ UNCHANGED <<limit, idx, task_list, block_list, err, taskVars, serviceVars>>

\* The buffer that was just allocated is not freed.
ReadFails ==
    /\ NextBlock
    /\ buffers' = buffers \cup {idx}
    /\ result' = "unknown_error"
    /\ main' = "drain"
    /\ UNCHANGED <<limit, idx, task_list, block_list, err, task, answer, parallel,
                   serviceVars>>

\* std::async throws.  cv_mutex, cv and mutex are destroyed, then the futures in
\* task_list wait for their threads, which use all three.  Undefined; with
\* libstdc++ and glibc the destroyed ones go on working, which is modelled.
SpawnThrows ==
    /\ NextBlock
    /\ buffers' = buffers \cup {idx}
    /\ block_list' = Append(block_list, idx)
    /\ main' = "unwind"
    /\ UNCHANGED <<limit, idx, task_list, result, err, task, answer, parallel,
                   serviceVars>>

Unwound ==
    /\ main = "unwind"
    /\ At({"none", "finished"}) = Blocks
    /\ main' = "threw"
    /\ UNCHANGED <<limit, idx, task_list, block_list, result, err, taskVars,
                   serviceVars>>

\* The loop ends after the last block, or breaks on an error.
EndLoop_AtOnce ==
    /\ main = "loop"
    /\ idx = NumBlocks \/ (~WindowFull /\ result # "0")
    /\ main' = "drain"
    /\ task_list' = <<>>
    /\ UNCHANGED <<limit, idx, block_list, result, err, taskVars, serviceVars>>
EndLoop ==
    /\ main = "loop"
    /\ idx = NumBlocks \/ (~WindowFull /\ result # "0")
    /\ main' = "drain"
    /\ UNCHANGED <<limit, idx, task_list, block_list, result, err, taskVars,
                   serviceVars>>

\* wait for the rest of tasks
Drain == main = "drain" /\ CollectFront

MayCommit_Always == TRUE
MayCommit == result = "0"

PutBlockList ==
    /\ main = "drain"
    /\ task_list = <<>>
    /\ MayCommit
    /\ final' = Request("put_block_list")
    /\ main' = "finish"
    /\ UNCHANGED <<limit, idx, task_list, block_list, result, err, taskVars, sent,
                   staged>>

GiveUp ==
    /\ main = "drain"
    /\ task_list = <<>>
    /\ ~MayCommit
    /\ err' = result
    /\ main' = "done"
    /\ UNCHANGED <<limit, idx, task_list, block_list, result, taskVars, serviceVars>>

\* The answer to put_blob or put_block_list, and errno = result
FinishOk ==
    /\ main = "finish"
    /\ final.applied
    /\ err' = result
    /\ main' = "done"
    /\ UNCHANGED <<limit, idx, task_list, block_list, result, taskVars, serviceVars>>

FinishError_Ignored ==
    /\ main = "finish"
    /\ err' = result
    /\ main' = "done"
    /\ UNCHANGED <<limit, idx, task_list, block_list, result, taskVars, serviceVars>>
FinishError ==
    /\ main = "finish"
    /\ result' = final.op
    /\ err' = final.op
    /\ main' = "done"
    /\ UNCHANGED <<limit, idx, task_list, block_list, taskVars, serviceVars>>

Main == \/ Reject \/ PutSmallFile \/ StartLoop
        \/ MakeRoom \/ StartTask \/ NoMemory \/ ReadFails \/ SpawnThrows
        \/ Unwound \/ EndLoop
        \/ Drain \/ PutBlockList \/ GiveUp \/ FinishOk \/ FinishError

-----------------------------------------------------------------------------
(* The thread of a block. *)

\* A thread that found no permit keeps cv_mutex until it sleeps.
CvMutexFree == At({"park"}) = {}

Move(b, p) == task' = [task EXCEPT ![b] = p]

TakePermit_WithoutCount(b) ==
    /\ task[b] = "enter"
    /\ CvMutexFree
    /\ parallel > 0
    /\ Move(b, "handle")
    /\ UNCHANGED <<callVars, answer, parallel, buffers, serviceVars>>
TakePermit(b) ==
    /\ task[b] = "enter"
    /\ CvMutexFree
    /\ parallel > 0
    /\ parallel' = parallel - 1
    /\ Move(b, "handle")
    /\ UNCHANGED <<callVars, answer, buffers, serviceVars>>

\* The predicate was false: `mutex' is released, cv_mutex is not yet.
FindNoPermit(b) ==
    /\ task[b] = "enter"
    /\ CvMutexFree
    /\ parallel = 0
    /\ Move(b, "park")
    /\ UNCHANGED <<callVars, answer, parallel, buffers, serviceVars>>

FallAsleep(b) ==
    /\ task[b] = "park"
    /\ Move(b, "asleep")
    /\ UNCHANGED <<callVars, answer, parallel, buffers, serviceVars>>

SpuriousWakeup(b) ==
    /\ task[b] = "asleep"
    /\ Move(b, "enter")
    /\ UNCHANGED <<callVars, answer, parallel, buffers, serviceVars>>

\* upload_block_from_buffer: get_handle waits for one of m_concurrency handles
SendBlock(b) ==
    /\ task[b] = "handle"
    /\ Cardinality(Uploading) < m_concurrency
    /\ sent' = sent \cup {b}
    /\ Move(b, "upload")
    /\ UNCHANGED <<callVars, answer, parallel, buffers, staged, final>>

\* The answer arrives, the handle goes back, free(buffer)
BlockOk(b) ==
    /\ task[b] = "upload"
    /\ b \in staged
    /\ buffers' = buffers \ {b}
    /\ Move(b, "release")
    /\ UNCHANGED <<callVars, answer, parallel, serviceVars>>

BlockError_KeepsPermit(b) ==
    /\ task[b] = "upload"
    /\ answer' = [answer EXCEPT ![b] = "put_block"]
    /\ buffers' = buffers \ {b}
    /\ Move(b, "finished")
    /\ UNCHANGED <<callVars, parallel, serviceVars>>
BlockError(b) ==
    /\ task[b] = "upload"
    /\ answer' = [answer EXCEPT ![b] = "put_block"]
    /\ buffers' = buffers \ {b}
    /\ Move(b, "release")
    /\ UNCHANGED <<callVars, parallel, serviceVars>>

\* ++parallel; cv.notify_one(), under `mutex' only
ReleasePermit(b) ==
    /\ task[b] = "release"
    /\ parallel' = parallel + 1
    /\ IF At({"asleep"}) = {}
       THEN Move(b, "finished")
       ELSE \E s \in At({"asleep"}) :
                task' = [task EXCEPT ![b] = "finished", ![s] = "enter"]
    /\ UNCHANGED <<callVars, answer, buffers, serviceVars>>

Task(b) == \/ TakePermit(b) \/ FindNoPermit(b) \/ FallAsleep(b)
           \/ SendBlock(b) \/ BlockOk(b) \/ BlockError(b) \/ ReleasePermit(b)

-----------------------------------------------------------------------------
(* The blob service (external): what was sent may be applied at any time. *)

ApplyPutBlock(b) ==
    /\ b \in sent \ staged
    /\ staged' = staged \cup {b}
    /\ UNCHANGED <<callVars, taskVars, sent, final>>

ApplyFinal ==
    /\ ~final.applied
    /\ \/ final.op = "put_blob"
       \/ /\ final.op = "put_block_list"
          /\ \A i \in DOMAIN block_list : block_list[i] \in staged
    /\ final' = [final EXCEPT !.applied = TRUE]
    /\ UNCHANGED <<callVars, taskVars, sent, staged>>

-----------------------------------------------------------------------------

Next == \/ Main \/ ApplyFinal
        \/ \E b \in Blocks : Task(b) \/ SpuriousWakeup(b) \/ ApplyPutBlock(b)

\* Every thread is scheduled and requests are answered or time out; nothing
\* makes a spurious wake-up happen.
Fairness == WF_vars(Main) /\ \A b \in Blocks : WF_vars(Task(b))

Spec == Init /\ [][Next]_vars /\ Fairness

-----------------------------------------------------------------------------

Errors == {"12", "unknown_error", "put_block", "put_block_list", "put_blob"}

\* The values each variable takes.
TypeOK ==
    /\ main \in {"start", "loop", "drain", "finish", "done", "unwind", "threw"}
    /\ idx \in 0..NumBlocks
    /\ task_list \in Seq(Blocks)
    /\ block_list \in Seq(Blocks)
    /\ result \in Errors \cup {"0"}
    /\ err \in Errors \cup {"unset", "0", "client_not_init",
                            "invalid_parameters", "stat", "EFBIG"}
    /\ task \in [Blocks -> {"none", "enter", "park", "asleep", "handle",
                            "upload", "release", "finished"}]
    /\ answer \in [Blocks -> {"0", "put_block"}]
    /\ limit \in Parallels
    /\ parallel \in 0..limit
    /\ buffers \subseteq Blocks
    /\ sent \subseteq Blocks
    /\ staged \subseteq sent
    /\ final \in [op : {"none", "put_blob", "put_block_list"},
                  applied : BOOLEAN, whole : BOOLEAN]

\* No more than `parallel' blocks of one call are in flight, and every permit
\* that a thread took is given back exactly once.
PermitsConserved == Cardinality(Permitted) + parallel = limit

\* "control the number of submitted jobs": at most one buffer more than the
\* client's concurrency is allocated, however large the file.
BuffersBounded == Cardinality(buffers) <= m_concurrency + 1

ResourcesBounded == PermitsConserved /\ BuffersBounded

\* The block list is put when every block of the file has been acknowledged,
\* and it names the blocks of the file in their order, each once.
CommitOnlyComplete ==
    final.op = "put_block_list" =>
        /\ Blocks \subseteq staged
        /\ block_list = [i \in 1..NumBlocks |-> i - 1]

\* The threads use variables of the call by reference (the mutexes, the
\* condition variable, parallel): none runs when it commits, has returned or has
\* thrown (while it unwinds, the mutexes are gone before the threads are).
NoTaskOutlivesCall ==
    main \in {"finish", "done", "threw"} =>
        \A b \in Blocks : task[b] \in {"none", "finished"}

\* The upload does no more than AtomicUpload allows: the blob changes at most
\* once; errno is 0 only if it changed (to the file, when a small one could be
\* opened); and no thread or late request changes the blob of a call that threw or
\* returned an error of a block, of the file or of the memory.
\* AtomicUpload's liveness is not promised (see HangsOnlyByLostWakeup).
Abstract ==
    INSTANCE AtomicUpload WITH
        blob <- IF final.applied THEN "new" ELSE "old",
        outcome <-
            CASE main = "threw" -> "abandoned"
              [] main = "done" ->
                     IF err = "0" THEN "ok"
                     ELSE IF err \in {"put_blob", "put_block_list"} THEN "unknown"
                     ELSE "refused"
              [] OTHER -> "pending"
AtomicOutcome == Abstract!Safety

\* "wait for the rest of tasks": the call returns.
Returns == <>(main \in {"done", "threw"})

\* A thread sleeps although all permits are free, and nobody is left who would
\* notify it.
WakeupLost ==
    /\ At({"asleep"}) # {}
    /\ parallel = limit
    /\ At({"enter", "park"}) = {}

\* The call returns unless a notification was lost, which is the only way in
\* which it can hang.
HangsOnlyByLostWakeup == <>(main \in {"done", "threw"}) \/ <>[]WakeupLost

\* "Uploads the contents of a blob from a local file": when errno is 0 the blob
\* holds the file.
UploadedIsTheFile == main = "done" /\ err = "0" => final.whole
=============================================================================
