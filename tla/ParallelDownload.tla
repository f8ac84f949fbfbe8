-------------------------- MODULE ParallelDownload --------------------------
(***************************************************************************)
(* blob_client::download_blob_to_buffer (src/blob/blob_client.cpp).        *)
(* The same worker loop as the upload of a buffer, without a commit: each  *)
(* worker claims a block number, reads that range of the blob into its     *)
(* part of the caller's buffer, and the last to leave fulfils the promise. *)
(*                                                                         *)
(* The blob is not locked: another client may replace it at any time by a  *)
(* shorter or a longer version.  A cell of the buffer holds the version    *)
(* its byte came from.                                                     *)
(***************************************************************************)
EXTENDS Integers

CONSTANTS Parallelism,  \* std::min(parallelism, concurrency())
          Size,         \* bytes asked for: download_size
          BlockSize,    \* bytes of a block: block_size
          MaxCuts,      \* bound: attempts cut off in the middle, in all
          Versions,     \* versions of the blob
          LengthOf      \* their lengths, counted from download_offset

ASSUME DownloadAssumption ==
    /\ Parallelism \in Nat \ {0} /\ Size \in Nat \ {0} /\ BlockSize \in Nat \ {0}
    /\ MaxCuts \in Nat /\ LengthOf \in [Versions -> Nat]

ASSUME VersionsAssumption == "none" \notin Versions

Workers == 1..Parallelism
num_blocks == (Size + BlockSize - 1) \div BlockSize
Blocks == 0..(num_blocks - 1)
Cells == 0..(Size - 1)

Least(a, b) == IF a < b THEN a ELSE b

\* The cells of block i, and how many of them version v reaches.
First(i) == BlockSize * i
Wanted(i) == Least(BlockSize, Size - First(i))
Reached(i, v) == Least(Wanted(i), LengthOf[v] - First(i))

VARIABLES
    caller, spawned,   \* the calling thread, and the threads it started
    pc, idx,           \* place and local i of each worker
    block_index, failed, failed_reason, num_workers, task_promise,  \* context
    buffer,            \* the version each cell came from, or "old"
    blob,              \* service: the current version
    replaced,          \* service: the versions before it
    answered,          \* the version that answered each block with success
    cuts               \* attempts cut off so far

callerVars == <<caller, spawned>>
sharedVars == <<block_index, failed, failed_reason, num_workers, task_promise>>
dataVars == <<buffer, answered, cuts>>
serviceVars == <<blob, replaced>>
vars == <<callerVars, pc, idx, sharedVars, dataVars, serviceVars>>

Reading == {"read", "exchange", "reason"}

Init ==
    /\ caller = "start"
    /\ spawned = 0
    /\ pc = [w \in Workers |-> "unborn"]
    /\ idx = [w \in Workers |-> 0]
    /\ block_index = 0
    /\ failed = FALSE
    /\ failed_reason = "none"
    /\ num_workers = 0
    /\ task_promise = "unset"
    /\ buffer = [c \in Cells |-> "old"]
    /\ blob \in Versions
    /\ replaced = {}
    /\ answered = [i \in Blocks |-> "none"]
    /\ cuts = 0

Goto(w, place) == pc' = [pc EXCEPT ![w] = place]

-----------------------------------------------------------------------------
(* The calling thread. *)

\* A definition named X_Y is a faulty variant of X: no behaviour uses it, it
\* only serves to see a property fail.

WorkersAtStart_OneShort == Parallelism - 1
WorkersAtStart == Parallelism

Prepare ==
    /\ caller = "start"
    /\ caller' = "spawning"
    /\ num_workers' = WorkersAtStart
    /\ UNCHANGED <<spawned, pc, idx, block_index, failed, failed_reason,
                   task_promise, dataVars, serviceVars>>

SpawnWorker ==
    /\ caller = "spawning"
    /\ spawned < Parallelism
    /\ spawned' = spawned + 1
    /\ Goto(spawned + 1, "claim")
    /\ UNCHANGED <<caller, idx, sharedVars, dataVars, serviceVars>>

\* std::async throws when no thread can be created.
SpawnThrows ==
    /\ caller = "spawning"
    /\ spawned < Parallelism
    /\ caller' = "threw"
    /\ UNCHANGED <<spawned, pc, idx, sharedVars, dataVars, serviceVars>>

ReturnFuture ==
    /\ caller = "spawning"
    /\ spawned = Parallelism
    /\ caller' = "returned"
    /\ UNCHANGED <<spawned, pc, idx, sharedVars, dataVars, serviceVars>>

Caller == Prepare \/ SpawnWorker \/ SpawnThrows \/ ReturnFuture

-----------------------------------------------------------------------------
(* The worker threads. *)

ClaimBlock(w) ==
    /\ pc[w] = "claim"
    /\ idx' = [idx EXCEPT ![w] = block_index]
    /\ block_index' = block_index + 1
    /\ Goto(w, "check")
    /\ UNCHANGED <<callerVars, failed, failed_reason, num_workers,
                   task_promise, dataVars, serviceVars>>

MustLeave(w) == idx[w] >= num_blocks \/ failed

LeaveLoop(w) ==
    /\ pc[w] = "check"
    /\ MustLeave(w)
    /\ Goto(w, "retire")
    /\ UNCHANGED <<callerVars, idx, sharedVars, dataVars, serviceVars>>

StartRead(w) ==
    /\ pc[w] = "check"
    /\ ~MustLeave(w)
    /\ Goto(w, "read")
    /\ UNCHANGED <<callerVars, idx, sharedVars, dataVars, serviceVars>>

\* The first n cells of the block come from the current version; the stream was
\* rewound before the attempt.
Deliver(w, n) ==
    buffer' = [c \in Cells |->
                   IF c - First(idx[w]) \in 0..(n - 1) THEN blob ELSE buffer[c]]

\* An attempt ends after n bytes; the executor will try again.
AttemptCut(w) ==
    /\ pc[w] = "read"
    /\ cuts < MaxCuts
    /\ cuts' = cuts + 1
    /\ \E n \in 1..Reached(idx[w], blob) : Deliver(w, n)
    /\ UNCHANGED <<callerVars, pc, idx, sharedVars, answered, serviceVars>>

\* The range begins within the blob: the answer has what the blob has of it.
ReadSucceeds(w) ==
    /\ pc[w] = "read"
    /\ Reached(idx[w], blob) > 0
    /\ Deliver(w, Reached(idx[w], blob))
    /\ answered' = [answered EXCEPT ![idx[w]] = blob]
    /\ Goto(w, "claim")
    /\ UNCHANGED <<callerVars, idx, sharedVars, cuts, serviceVars>>

\* Attempts run out, or the range lies past the end (416).
ReadFails_Unnoticed(w) ==
    /\ pc[w] = "read"
    /\ Goto(w, "claim")
    /\ UNCHANGED <<callerVars, idx, sharedVars, dataVars, serviceVars>>
ReadFails(w) ==
    /\ pc[w] = "read"
    /\ Goto(w, "exchange")
    /\ UNCHANGED <<callerVars, idx, sharedVars, dataVars, serviceVars>>

RecordFailure(w) ==
    /\ pc[w] = "exchange"
    /\ failed' = TRUE
    /\ Goto(w, IF failed THEN "claim" ELSE "reason")
    /\ UNCHANGED <<callerVars, idx, block_index, failed_reason, num_workers,
                   task_promise, dataVars, serviceVars>>

WriteReason(w) ==
    /\ pc[w] = "reason"
    /\ failed_reason' = "get_blob"
    /\ Goto(w, "claim")
    /\ UNCHANGED <<callerVars, idx, block_index, failed, num_workers,
                   task_promise, dataVars, serviceVars>>

\* num_workers.fetch_sub(1) == 1
IsLast_OffByOne(w) == num_workers = 2
IsLast_AtZero(w) == num_workers = 0
IsLast(w) == num_workers = 1

Retire(w) ==
    /\ pc[w] = "retire"
    /\ num_workers' = num_workers - 1
    /\ Goto(w, IF IsLast(w) THEN "publish" ELSE "done")
    /\ UNCHANGED <<callerVars, idx, block_index, failed, failed_reason,
                   task_promise, dataVars, serviceVars>>

Publish(w) ==
    /\ pc[w] = "publish"
    /\ task_promise' = IF failed THEN failed_reason ELSE "ok"
    /\ Goto(w, "done")
    /\ UNCHANGED <<callerVars, idx, block_index, failed, failed_reason,
                   num_workers, dataVars, serviceVars>>

Worker(w) ==
    \/ ClaimBlock(w) \/ LeaveLoop(w) \/ StartRead(w)
    \/ AttemptCut(w) \/ ReadSucceeds(w) \/ ReadFails(w)
    \/ RecordFailure(w) \/ WriteReason(w) \/ Retire(w) \/ Publish(w)

-----------------------------------------------------------------------------

\* Another client replaces the blob (external); no version comes back.
Replace ==
    /\ replaced' = replaced \cup {blob}
    /\ blob' \in Versions \ replaced'
    /\ UNCHANGED <<callerVars, pc, idx, sharedVars, dataVars>>

Next == Caller \/ Replace \/ \E w \in Workers : Worker(w)

\* Every thread is scheduled; every request ends.
Fairness == WF_vars(Caller) /\ \A w \in Workers : WF_vars(Worker(w))

Safety == Init /\ [][Next]_vars
Spec == Safety /\ Fairness

-----------------------------------------------------------------------------

\* The values each variable takes.
TypeOK ==
    /\ caller \in {"start", "spawning", "returned", "threw"}
    /\ spawned \in 0..Parallelism
    /\ pc \in [Workers -> {"unborn", "claim", "check", "retire", "publish", "done"}
                              \cup Reading]
    /\ idx \in [Workers -> Nat]
    /\ block_index \in Nat
    /\ failed \in BOOLEAN
    /\ failed_reason \in {"none", "get_blob"}
    /\ num_workers \in 0..Parallelism
    /\ task_promise \in {"unset", "ok", "none", "get_blob"}
    /\ buffer \in [Cells -> Versions \cup {"old"}]
    /\ blob \in Versions \ replaced
    /\ replaced \subseteq Versions
    /\ answered \in [Blocks -> Versions \cup {"none"}]
    /\ cuts \in 0..MaxCuts

\* Success means that every range was answered, and that what each answer holds
\* is in its place, whatever cut attempts and other workers wrote; so that the buffer
\* holds one version of the blob, as far as that reaches, if it was not replaced
\* (and may be a mixture if it was).  A failure carries the error that caused it.
VerdictIsTruthful ==
    /\ task_promise = "ok" =>
           \A i \in Blocks :
               /\ answered[i] \in Versions
               /\ \A c \in Cells :
                      c - First(i) \in 0..(Reached(i, answered[i]) - 1)
                          => buffer[c] = answered[i]
    /\ task_promise = "ok" /\ replaced = {} =>
           \A c \in Cells : c < LengthOf[blob] => buffer[c] = blob
    /\ task_promise # "none"

\* The download does no more than AtomicDownload allows, with a block as a piece:
\* each is read at one moment, that of its answer, once, whatever cut attempts and
\* other workers wrote; and once the promise holds a verdict, or the call threw,
\* neither changes.  The pieces may be of different versions.
Piece(i, v) == [k \in 1..Reached(i, v) |-> v]
InBuffer(i, v) == [k \in 1..Reached(i, v) |-> buffer[First(i) + k - 1]]
Answered == {i \in Blocks : answered[i] # "none"}
Pending == task_promise = "unset" /\ caller # "threw"
Copy == IF Pending THEN {<<i, Piece(i, answered[i])>> : i \in Answered} ELSE {}
Moved == Pending /\ \E i \in Answered : answered[i] \in replaced
Delivered == IF task_promise = "ok"
             THEN {<<i, InBuffer(i, answered[i])>> : i \in Blocks} ELSE {}
Told == IF Pending THEN "pending"
        ELSE IF task_promise \in {"unset", "get_blob"} THEN "failed" ELSE task_promise
Abstract ==
    INSTANCE AtomicDownload WITH
        Pieces <- Blocks,
        Content <- [v \in Versions |-> [i \in Blocks |-> Piece(i, v)]],
        copy <- Copy, moved <- Moved, delivered <- Delivered, outcome <- Told
AtomicOutcome == Abstract!Safety

\* Once the future is ready no thread writes to the caller's buffer again, nor
\* reads the client.
QuietWhenReady ==
    task_promise # "unset" => \A w \in Workers : pc[w] = "done"

\* A returned future becomes ready.
Completes == [](caller = "returned" => <>(task_promise # "unset"))
=============================================================================
