--------------------------- MODULE ParallelUpload ---------------------------
(***************************************************************************)
(* blob_client::upload_block_blob_from_buffer (src/blob/blob_client.cpp).  *)
(* The caller starts `Parallelism' threads that share four atomics: they   *)
(* claim block numbers from block_index, upload one block at a time, note  *)
(* the first error in failed / failed_reason, and leave by decrementing    *)
(* num_workers.  The thread that takes num_workers to zero commits the     *)
(* block list when nothing failed, and fulfils the promise.                *)
(*                                                                         *)
(* Each atomic access of the code is one action.  The blob service is      *)
(* external: a request that was sent may be applied at any later time, or  *)
(* never; an answer that says success means that it was applied, an error  *)
(* (a timeout, a reset, a 5xx after the retries) says nothing.             *)
(***************************************************************************)
EXTENDS Integers, FiniteSets

CONSTANTS Parallelism,   \* std::min(parallelism, concurrency())
          NumBlocks      \* info->num_blocks

ASSUME ParallelismAssumption == Parallelism \in Nat \ {0}
ASSUME NumBlocksAssumption == NumBlocks \in Nat

Workers == 1..Parallelism
Blocks == 0..(NumBlocks - 1)

VARIABLES
    caller,         \* where the calling thread is
    spawned,        \* how many threads it has started
    pc,             \* where each worker thread is
    idx,            \* the local i of each worker
    block_index,    \* context->block_index
    failed,         \* context->failed
    failed_reason,  \* context->failed_reason: which request it is the error of
    num_workers,    \* context->num_workers
    task_promise,   \* context->task_promise: "unset", "ok" or the error
    sent,           \* service: put_block requests it may have received
    staged,         \* service: uncommitted blocks of this upload
    commit          \* service: the put_block_list request of this upload

callerVars == <<caller, spawned>>
sharedVars == <<block_index, failed, failed_reason, num_workers, task_promise>>
serviceVars == <<sent, staged, commit>>
vars == <<callerVars, pc, idx, sharedVars, serviceVars>>

Transferring == {"upload", "exchange", "reason"}
Looping == {"unborn", "claim", "check", "retire"} \cup Transferring
Closing == {"last", "commit", "publish"}
Places == Looping \cup Closing \cup {"done"}

Init ==
    /\ caller = "start"
    /\ spawned = 0
    /\ pc = [w \in Workers |-> "unborn"]
    /\ idx = [w \in Workers |-> 0]
    /\ block_index = 0
    /\ failed = FALSE
    /\ failed_reason = "none"
    /\ num_workers = 0
    /\ task_promise = "unset"
    /\ sent = {}
    /\ staged = {}
    /\ commit = "none"

Goto(w, place) == pc' = [pc EXCEPT ![w] = place]

\* The conditions the threads branch on.  A definition named X_Y is a faulty
\* variant of X: it is used by no behaviour, only to see a property fail.

\* context->num_workers = parallelism
WorkersAtStart_OneShort == Parallelism - 1
WorkersAtStart == Parallelism

\* i >= info->num_blocks || context->failed
MustLeave(w) == idx[w] >= NumBlocks \/ failed

\* context->num_workers.fetch_sub(1) == 1
IsLast_OffByOne(w) == num_workers = 2
IsLast(w) == num_workers = 1

\* if (!context->failed), before the commit
MayCommit_Always == TRUE
MayCommit == ~failed

\* the outcome the promise is given
Verdict == IF failed THEN failed_reason ELSE "ok"

-----------------------------------------------------------------------------
(* The calling thread. *)

\* bufferlen is above the limit: a future that is already failed is returned.
RejectTooBig ==
    /\ caller = "start"
    /\ caller' = "returned"
    /\ task_promise' = "blob_too_big"
    /\ UNCHANGED <<spawned, pc, idx, block_index, failed, failed_reason,
                   num_workers, serviceVars>>

\* The shared context is built; every worker counts before any has started.
Prepare ==
    /\ caller = "start"
    /\ caller' = "spawning"
    /\ num_workers' = WorkersAtStart
    /\ UNCHANGED <<spawned, pc, idx, block_index, failed, failed_reason,
                   task_promise, serviceVars>>

SpawnWorker ==
    /\ caller = "spawning"
    /\ spawned < Parallelism
    /\ spawned' = spawned + 1
    /\ Goto(spawned + 1, "claim")
    /\ UNCHANGED <<caller, idx, sharedVars, serviceVars>>

\* std::async(std::launch::async, ...) throws when no thread can be created.
SpawnThrows ==
    /\ caller = "spawning"
    /\ spawned < Parallelism
    /\ caller' = "threw"
    /\ UNCHANGED <<spawned, pc, idx, sharedVars, serviceVars>>

ReturnFuture ==
    /\ caller = "spawning"
    /\ spawned = Parallelism
    /\ caller' = "returned"
    /\ UNCHANGED <<spawned, pc, idx, sharedVars, serviceVars>>

Caller == RejectTooBig \/ Prepare \/ SpawnWorker \/ SpawnThrows \/ ReturnFuture

-----------------------------------------------------------------------------
(* The worker threads. *)

ClaimBlock_NoIncrement(w) ==
    /\ pc[w] = "claim"
    /\ idx' = [idx EXCEPT ![w] = block_index]
    /\ Goto(w, "check")
    /\ UNCHANGED <<callerVars, sharedVars, serviceVars>>

\* int i = context->block_index.fetch_add(1)
ClaimBlock(w) ==
    /\ pc[w] = "claim"
    /\ idx' = [idx EXCEPT ![w] = block_index]
    /\ block_index' = block_index + 1
    /\ Goto(w, "check")
    /\ UNCHANGED <<callerVars, failed, failed_reason, num_workers,
                   task_promise, serviceVars>>

\* if (i >= info->num_blocks || context->failed) break
LeaveLoop(w) ==
    /\ pc[w] = "check"
    /\ MustLeave(w)
    /\ Goto(w, "retire")
    /\ UNCHANGED <<callerVars, idx, sharedVars, serviceVars>>

\* upload_block_from_buffer(...): the request leaves, .get() waits
SendBlock(w) ==
    /\ pc[w] = "check"
    /\ ~MustLeave(w)
    /\ sent' = sent \cup {idx[w]}
    /\ Goto(w, "upload")
    /\ UNCHANGED <<callerVars, idx, sharedVars, staged, commit>>

BlockSucceeds(w) ==
    /\ pc[w] = "upload"
    /\ idx[w] \in staged
    /\ Goto(w, "claim")
    /\ UNCHANGED <<callerVars, idx, sharedVars, serviceVars>>

BlockFails(w) ==
    /\ pc[w] = "upload"
    /\ Goto(w, "exchange")
    /\ UNCHANGED <<callerVars, idx, sharedVars, serviceVars>>

\* !context->failed.exchange(true): only the first error is kept
RecordFailure(w) ==
    /\ pc[w] = "exchange"
    /\ failed' = TRUE
    /\ Goto(w, IF failed THEN "claim" ELSE "reason")
    /\ UNCHANGED <<callerVars, idx, block_index, failed_reason, num_workers,
                   task_promise, serviceVars>>

\* context->failed_reason = result.error(), not atomic
WriteReason(w) ==
    /\ pc[w] = "reason"
    /\ failed_reason' = "put_block"
    /\ Goto(w, "claim")
    /\ UNCHANGED <<callerVars, idx, block_index, failed, num_workers,
                   task_promise, serviceVars>>

\* if (context->num_workers.fetch_sub(1) == 1)
Retire(w) ==
    /\ pc[w] = "retire"
    /\ num_workers' = num_workers - 1
    /\ Goto(w, IF IsLast(w) THEN "last" ELSE "done")
    /\ UNCHANGED <<callerVars, idx, block_index, failed, failed_reason,
                   task_promise, serviceVars>>

\* if (!context->failed) put_block_list(...)
StartCommit(w) ==
    /\ pc[w] = "last"
    /\ MayCommit
    /\ commit' = "sent"
    /\ Goto(w, "commit")
    /\ UNCHANGED <<callerVars, idx, sharedVars, sent, staged>>

SkipCommit(w) ==
    /\ pc[w] = "last"
    /\ ~MayCommit
    /\ Goto(w, "publish")
    /\ UNCHANGED <<callerVars, idx, sharedVars, serviceVars>>

CommitSucceeds(w) ==
    /\ pc[w] = "commit"
    /\ commit = "applied"
    /\ Goto(w, "publish")
    /\ UNCHANGED <<callerVars, idx, sharedVars, serviceVars>>

CommitFails_KeepsFlag(w) ==
    /\ pc[w] = "commit"
    /\ Goto(w, "publish")
    /\ UNCHANGED <<callerVars, idx, sharedVars, serviceVars>>

\* context->failed.store(true); context->failed_reason = result.error()
CommitFails(w) ==
    /\ pc[w] = "commit"
    /\ failed' = TRUE
    /\ failed_reason' = "put_block_list"
    /\ Goto(w, "publish")
    /\ UNCHANGED <<callerVars, idx, block_index, num_workers, task_promise,
                   serviceVars>>

\* context->task_promise.set_value(...)
Publish(w) ==
    /\ pc[w] = "publish"
    /\ task_promise' = Verdict
    /\ Goto(w, "done")
    /\ UNCHANGED <<callerVars, idx, block_index, failed, failed_reason,
                   num_workers, serviceVars>>

Worker(w) ==
    \/ ClaimBlock(w) \/ LeaveLoop(w) \/ SendBlock(w)
    \/ BlockSucceeds(w) \/ BlockFails(w) \/ RecordFailure(w) \/ WriteReason(w)
    \/ Retire(w) \/ StartCommit(w) \/ SkipCommit(w)
    \/ CommitSucceeds(w) \/ CommitFails(w) \/ Publish(w)

-----------------------------------------------------------------------------
(* The blob service (external). *)

ApplyPutBlock(b) ==
    /\ b \in sent \ staged
    /\ staged' = staged \cup {b}
    /\ UNCHANGED <<callerVars, pc, idx, sharedVars, sent, commit>>

\* A block list that names a block the service does not have is rejected.
ApplyPutBlockList ==
    /\ commit = "sent"
    /\ Blocks \subseteq staged
    /\ commit' = "applied"
    /\ UNCHANGED <<callerVars, pc, idx, sharedVars, sent, staged>>

Service == ApplyPutBlockList \/ \E b \in Blocks : ApplyPutBlock(b)

-----------------------------------------------------------------------------

\* Every thread has stopped and the service has nothing left to apply.
Finished ==
    /\ caller \in {"returned", "threw"}
    /\ \A w \in Workers : pc[w] \in {"unborn", "done"}
    /\ UNCHANGED vars

Next == Caller \/ Service \/ Finished \/ \E w \in Workers : Worker(w)

\* Every thread is scheduled; a request is answered or times out.
Fairness == WF_vars(Caller) /\ \A w \in Workers : WF_vars(Worker(w))

Safety == Init /\ [][Next]_vars
Spec == Safety /\ Fairness

-----------------------------------------------------------------------------

\* The values each variable takes.
TypeOK ==
    /\ caller \in {"start", "spawning", "returned", "threw"}
    /\ spawned \in 0..Parallelism
    /\ pc \in [Workers -> Places]
    /\ idx \in [Workers -> Nat]
    /\ block_index \in Nat
    /\ failed \in BOOLEAN
    /\ failed_reason \in {"none", "put_block", "put_block_list"}
    /\ num_workers \in 0..Parallelism
    /\ task_promise \in {"unset", "ok", "none", "put_block", "put_block_list",
                         "blob_too_big"}
    /\ sent \subseteq Blocks
    /\ staged \subseteq sent
    /\ commit \in {"none", "sent", "applied"}

\* The block list is put only when the service has acknowledged every block of
\* it: no answer is still awaited and none was an error (the "last worker"
\* branch of thread_upload_func).
CommitOnlyComplete == commit # "none" => Blocks \subseteq staged

\* What the future says is true: success means that the blob was committed, an
\* error of a block means that no commit was or will be sent, and a failure
\* always carries the error that caused it, never the empty initial one.
VerdictIsTruthful ==
    /\ task_promise = "ok" => commit = "applied"
    /\ task_promise = "put_block" => commit = "none"
    /\ task_promise # "none"

\* The worker that closes the upload is alone: no other worker is transferring,
\* about to claim a block, or writing failed_reason, which is not atomic; and
\* the promise is not yet set, so that set_value cannot throw.
LastIsAlone ==
    \A w \in Workers : pc[w] \in Closing =>
        /\ \A v \in Workers \ {w} : pc[v] = "done"
        /\ task_promise = "unset"

\* Once the caller's future is ready no thread of the upload touches the
\* caller's buffer, the client or the context again.
QuietWhenReady ==
    task_promise # "unset" => \A w \in Workers : pc[w] \in {"unborn", "done"}

\* No two workers are ever busy with the same block.
EachBlockOnce ==
    \A v, w \in Workers :
        (v # w /\ pc[v] \in Transferring /\ pc[w] \in Transferring)
            => idx[v] # idx[w]

\* A call that threw while it started its threads never commits: the threads
\* it did start upload their blocks and leave the blob as it was.
ThrowNeverCommits ==
    caller = "threw" => commit = "none" /\ task_promise = "unset"

\* The workers keep out of each other's way.
WorkersInOrder == LastIsAlone /\ EachBlockOnce /\ ThrowNeverCommits

\* The upload implements what AtomicUpload promises, its liveness included: a
\* returned future becomes ready.
Abstract ==
    INSTANCE AtomicUpload WITH
        blob <- IF commit = "applied" THEN "new" ELSE "old",
        outcome <-
            IF caller = "threw" THEN "abandoned"
            ELSE CASE task_promise = "unset" -> "pending"
                   [] task_promise = "ok" -> "ok"
                   [] task_promise \in {"put_block", "blob_too_big"} -> "refused"
                   [] OTHER -> "unknown"
AtomicOutcome == Abstract!Spec
=============================================================================
