------------------------ MODULE ParallelUploadProofs ------------------------
(***************************************************************************)
(* What ParallelUpload's runs show for three workers and two blocks, for   *)
(* any number of either.  The inductive invariant says how the atomics     *)
(* relate to the places of the threads; its parts are proved together.     *)
(***************************************************************************)
EXTENDS ParallelUpload, FiniteSetTheorems, TLAPS

\* Workers that have not yet left their loop, those not yet started included.
Active == {w \in Workers : pc[w] \in Looping}

\* The upload was neither waiting to start nor rejected.
Started == caller # "start" /\ task_promise # "blob_too_big"

\* The callers' places and the threads they started.
SpawnInv ==
    /\ \A w \in Workers : pc[w] = "unborn" <=> w > spawned
    /\ caller = "start" => task_promise = "unset"
    /\ task_promise = "blob_too_big" => caller = "returned"
    /\ ~Started => spawned = 0 /\ commit = "none"
    /\ caller = "threw" => spawned < Parallelism

\* num_workers counts the workers still active.
CountInv == Started => num_workers = Cardinality(Active)

\* A worker that closes the upload is the only one left, and a fulfilled promise
\* leaves none.
CloseInv ==
    /\ \A w \in Workers : pc[w] \in Closing =>
           /\ num_workers = 0
           /\ task_promise = "unset"
           /\ \A v \in Workers \ {w} : pc[v] = "done"
    /\ task_promise # "unset" =>
           \A w \in Workers : pc[w] \in {"unborn", "done"}
    /\ task_promise # "unset" /\ Started =>
           \A w \in Workers : pc[w] = "done"

Claimed == {"check", "upload", "exchange", "reason", "retire"}
               \cup Closing \cup {"done"}

InHand == {"check", "upload", "exchange"}
Left == {"retire", "done"} \cup Closing

\* A claimed number is below the counter.
ClaimedBelow == \A w \in Workers : pc[w] \in Claimed => idx[w] < block_index

\* A claimed block is acknowledged, in some worker's hands, or failed.
NothingDropped ==
    \A b \in Blocks : b < block_index =>
        b \in staged \/ failed \/ \E w \in Workers : idx[w] = b /\ pc[w] \in InHand

\* No worker leaves the loop before the blocks or the luck run out.
LeftForReason == \A w \in Workers : pc[w] \in Left => idx[w] >= NumBlocks \/ failed

\* Two workers between a claim and its answer hold different blocks.
HandsDisjoint ==
    \A v, w \in Workers :
        (v # w /\ pc[v] \in InHand \cup {"reason"} /\ pc[w] \in InHand \cup {"reason"})
            => idx[v] # idx[w]

BlockInv == ClaimedBelow /\ NothingDropped /\ LeftForReason /\ HandsDisjoint

\* A failure has its reason, or a worker is about to write it.
ReasonInv ==
    /\ \A w \in Workers : pc[w] = "reason" => failed
    /\ failed /\ failed_reason = "none" => \E w \in Workers : pc[w] = "reason"
    /\ ~failed => failed_reason = "none"

\* The commit is put once, by the closing worker, with every block in place.
CommitInv ==
    /\ commit # "none" =>
           /\ Blocks \subseteq staged
           /\ failed => failed_reason = "put_block_list"
           /\ \A w \in Workers : pc[w] \in {"commit", "publish", "done"}
    /\ commit = "none" => failed_reason # "put_block_list"
    /\ \A w \in Workers : pc[w] = "commit" => ~failed /\ commit # "none"
    /\ \A w \in Workers : pc[w] = "publish" => failed \/ commit = "applied"

\* The promise holds what the atomics said, and still say.
VerdictInv ==
    /\ task_promise = "ok" => ~failed /\ commit = "applied"
    /\ task_promise \notin {"unset", "ok", "blob_too_big"} =>
           failed /\ failed_reason = task_promise /\ failed_reason # "none"

Inv ==
    /\ TypeOK
    /\ SpawnInv /\ CountInv /\ CloseInv
    /\ BlockInv
    /\ ReasonInv /\ CommitInv /\ VerdictInv

-----------------------------------------------------------------------------
(* The workers are finitely many, and counting the active ones. *)

LEMMA WorkersFinite ==
    IsFiniteSet(Workers) /\ Cardinality(Workers) = Parallelism
<1>1. 1 \in Int /\ Parallelism \in Int /\ 1 <= Parallelism
  BY ParallelismAssumption
<1> QED
  BY <1>1, FS_Interval DEF Workers

LEMMA ActiveFinite ==
    /\ IsFiniteSet(Active)
    /\ Cardinality(Active) \in 0..Parallelism
<1>1. Active \subseteq Workers
  BY DEF Active
<1>2. IsFiniteSet(Active) /\ Cardinality(Active) <= Cardinality(Workers)
  BY <1>1, WorkersFinite, FS_Subset
<1>3. Cardinality(Active) \in Nat
  BY <1>2, FS_CardinalityType
<1> QED
  BY <1>2, <1>3, WorkersFinite, ParallelismAssumption

\* A worker that retires takes one from the count; the count is one exactly when
\* it is the only active worker.
LEMMA ActiveMinusOne ==
    ASSUME NEW w \in Active
    PROVE  /\ Cardinality(Active) >= 1
           /\ Cardinality(Active \ {w}) = Cardinality(Active) - 1
           /\ Cardinality(Active) = 1 => Active = {w}
<1>1. Cardinality(Active \ {w}) = Cardinality(Active) - 1
  BY ActiveFinite, FS_RemoveElement
<1>2. IsFiniteSet(Active \ {w}) /\ Cardinality(Active \ {w}) \in Nat
  BY ActiveFinite, FS_Subset, FS_CardinalityType
<1>3. Cardinality(Active) >= 1
  BY <1>1, <1>2, ActiveFinite
<1>4. ASSUME Cardinality(Active) = 1 PROVE Active = {w}
  <2>1. Cardinality(Active \ {w}) = 0
    BY <1>1, <1>4
  <2>2. Active \ {w} = {}
    BY <2>1, <1>2, FS_EmptySet
  <2> QED
    BY <2>2
<1> QED
  BY <1>1, <1>3, <1>4

-----------------------------------------------------------------------------
(* The initial states. *)

LEMMA InitInv == Init => Inv
<1> SUFFICES ASSUME Init PROVE Inv
  OBVIOUS
<1> USE ParallelismAssumption, NumBlocksAssumption
<1>1. TypeOK
  <2>1. /\ pc \in [Workers -> Places] /\ idx \in [Workers -> Nat]
        /\ spawned \in 0..Parallelism /\ num_workers \in 0..Parallelism
    BY DEF Init, Places, Looping
  <2> QED
    BY <2>1 DEF Init, TypeOK
<1>2. SpawnInv /\ CountInv /\ CloseInv
  BY DEF Init, SpawnInv, CountInv, CloseInv, Started, Closing, Workers
<1>3. BlockInv
  BY DEF Init, BlockInv, ClaimedBelow, NothingDropped, LeftForReason,
     HandsDisjoint, Claimed, InHand, Left, Closing, Blocks
<1>4. ReasonInv /\ CommitInv /\ VerdictInv
  BY DEF Init, ReasonInv, CommitInv, VerdictInv
<1> QED
  BY <1>1, <1>2, <1>3, <1>4 DEF Inv

\* A worker that goes on has claimed a block of the blob, and nothing failed.
LEMMA ClaimedIsBlock ==
    ASSUME NEW w \in Workers, idx \in [Workers -> Nat], ~MustLeave(w)
    PROVE  idx[w] \in Blocks /\ ~failed
<1>1. ~(idx[w] >= NumBlocks) /\ ~failed
  BY DEF MustLeave
<1>2. idx[w] \in Nat /\ ~(idx[w] >= NumBlocks)
  BY <1>1
<1>3. idx[w] \in Blocks
  BY <1>2, NumBlocksAssumption DEF Blocks
<1> QED
  BY <1>1, <1>3

-----------------------------------------------------------------------------
(* Each part of the invariant is kept by every step. *)

\* The steps of a worker that stays active, by the places it moves between.
LEMMA TypeStep == Inv /\ [Next]_vars => TypeOK'
<1> SUFFICES ASSUME Inv, [Next]_vars PROVE TypeOK'
  OBVIOUS
<1> USE ParallelismAssumption, NumBlocksAssumption
<1> USE DEF Places, Looping, Transferring, Closing, Goto
<1>0. TypeOK
  BY DEF Inv
<1>1. ASSUME Caller PROVE TypeOK'
  BY SMTT(30), <1>0, <1>1 DEF TypeOK, Caller, RejectTooBig, Prepare, SpawnWorker,
     SpawnThrows, ReturnFuture, WorkersAtStart, serviceVars, sharedVars, Workers
<1>2. ASSUME Service PROVE TypeOK'
  BY <1>0, <1>2 DEF TypeOK, Service, ApplyPutBlock, ApplyPutBlockList,
     callerVars, sharedVars
<1>3. ASSUME NEW w \in Workers, Worker(w) PROVE TypeOK'
  <2> USE DEF callerVars, sharedVars, serviceVars
  <2>1. CASE ClaimBlock(w)
    BY <1>0, <2>1 DEF TypeOK, ClaimBlock
  <2>2. CASE SendBlock(w)
    <3>1. idx[w] \in Blocks
      BY <1>0, <2>2, ClaimedIsBlock DEF SendBlock, TypeOK
    <3> QED
      BY <1>0, <2>2, <3>1 DEF TypeOK, SendBlock
  <2>3. CASE LeaveLoop(w) \/ BlockSucceeds(w) \/ BlockFails(w)
    BY <1>0, <2>3 DEF TypeOK, LeaveLoop, BlockSucceeds, BlockFails
  <2>4. CASE RecordFailure(w) \/ WriteReason(w)
    BY <1>0, <2>4 DEF TypeOK, RecordFailure, WriteReason
  <2>5. CASE Retire(w)
    <3>1. num_workers = Cardinality(Active) /\ w \in Active
      BY <1>0, <2>5 DEF Inv, CountInv, SpawnInv, CloseInv, TypeOK, Retire,
         Started, Active, Workers
    <3>2. num_workers >= 1
      BY <3>1, ActiveMinusOne
    <3> QED
      BY <1>0, <2>5, <3>2 DEF TypeOK, Retire
  <2>6. CASE StartCommit(w) \/ SkipCommit(w)
    BY <1>0, <2>6 DEF TypeOK, StartCommit, SkipCommit
  <2>7. CASE CommitSucceeds(w) \/ CommitFails(w)
    BY <1>0, <2>7 DEF TypeOK, CommitSucceeds, CommitFails
  <2>8. CASE Publish(w)
    BY <1>0, <2>8 DEF TypeOK, Publish, Verdict
  <2> QED
    BY <1>3, <2>1, <2>2, <2>3, <2>4, <2>5, <2>6, <2>7, <2>8 DEF Worker
<1>4. ASSUME UNCHANGED vars PROVE TypeOK'
  BY <1>0, <1>4 DEF TypeOK, vars, callerVars, sharedVars, serviceVars
<1> QED
  BY <1>1, <1>2, <1>3, <1>4 DEF Next, Finished

\* What every step of a worker leaves alone: the caller, and the other workers.
LEMMA WorkerMoves ==
    ASSUME NEW w \in Workers, TypeOK, Worker(w)
    PROVE  /\ UNCHANGED callerVars
           /\ pc' = [pc EXCEPT ![w] = pc'[w]]
           /\ pc[w] \notin {"unborn", "done"}
           /\ pc'[w] # "unborn"
           /\ pc[w] # "publish" => UNCHANGED task_promise
           /\ pc[w] # "retire" => UNCHANGED num_workers
<1> USE DEF TypeOK, Goto, callerVars, sharedVars, serviceVars
<1>1. CASE ClaimBlock(w) \/ LeaveLoop(w) \/ SendBlock(w)
  BY <1>1 DEF ClaimBlock, LeaveLoop, SendBlock
<1>2. CASE BlockSucceeds(w) \/ BlockFails(w) \/ RecordFailure(w) \/ WriteReason(w)
  BY <1>2 DEF BlockSucceeds, BlockFails, RecordFailure, WriteReason
<1>3. CASE Retire(w) \/ StartCommit(w) \/ SkipCommit(w)
  BY <1>3 DEF Retire, StartCommit, SkipCommit
<1>4. CASE CommitSucceeds(w) \/ CommitFails(w) \/ Publish(w)
  BY <1>4 DEF CommitSucceeds, CommitFails, Publish
<1> QED
  BY <1>1, <1>2, <1>3, <1>4 DEF Worker

LEMMA SpawnStep == Inv /\ [Next]_vars => SpawnInv'
<1> SUFFICES ASSUME Inv, [Next]_vars PROVE SpawnInv'
  OBVIOUS
<1> USE ParallelismAssumption
<1>0. TypeOK /\ SpawnInv /\ CloseInv /\ CommitInv
  BY DEF Inv
<1>1. ASSUME RejectTooBig \/ Prepare PROVE SpawnInv'
  BY <1>0, <1>1 DEF SpawnInv, Started, RejectTooBig, Prepare, serviceVars
<1>2. ASSUME SpawnWorker PROVE SpawnInv'
  <2>1. spawned \in 0..Parallelism /\ spawned < Parallelism
        /\ spawned + 1 \in Workers
    BY <1>0, <1>2 DEF TypeOK, SpawnWorker, Workers
  <2>2. /\ pc' = [pc EXCEPT ![spawned + 1] = "claim"]
        /\ spawned' = spawned + 1
        /\ caller = "spawning" /\ UNCHANGED <<caller, task_promise, commit>>
    BY <1>2 DEF SpawnWorker, Goto, sharedVars, serviceVars
  <2>3. \A w \in Workers : pc'[w] = "unborn" <=> w > spawned'
    BY <1>0, <2>1, <2>2 DEF TypeOK, SpawnInv, Workers
  <2>4. Started /\ Started'
    BY <1>0, <2>2 DEF SpawnInv, Started, CloseInv
  <2> QED
    BY <1>0, <2>2, <2>3, <2>4 DEF SpawnInv, Started
<1>3. ASSUME SpawnThrows \/ ReturnFuture PROVE SpawnInv'
  <2>1. /\ UNCHANGED <<pc, spawned, task_promise, commit>>
        /\ caller = "spawning" /\ caller' # "start"
        /\ caller' = "threw" => spawned < Parallelism
    BY <1>3 DEF SpawnThrows, ReturnFuture, sharedVars, serviceVars
  <2> QED
    BY <1>0, <2>1 DEF SpawnInv, Started
<1>4. ASSUME Service \/ UNCHANGED vars PROVE SpawnInv'
  BY <1>0, <1>4 DEF SpawnInv, Started, Service, ApplyPutBlock,
     ApplyPutBlockList, vars, callerVars, sharedVars, serviceVars
<1>5. ASSUME NEW w \in Workers, Worker(w) PROVE SpawnInv'
  <2>1. /\ UNCHANGED callerVars
        /\ pc' = [pc EXCEPT ![w] = pc'[w]]
        /\ pc[w] # "unborn" /\ pc'[w] # "unborn"
    BY <1>0, <1>5, WorkerMoves
  <2>2. \A v \in Workers : pc'[v] = "unborn" <=> pc[v] = "unborn"
    BY <1>0, <2>1 DEF TypeOK
  <2>3. spawned \in 0..Parallelism /\ spawned # 0
    BY <1>0, <2>1 DEF SpawnInv, TypeOK, Workers
  <2>4. Started
    BY <1>0, <2>3 DEF SpawnInv
  <2>5. task_promise' # "blob_too_big"
    <3>1. CASE pc[w] = "publish"
      <4>1. Publish(w)
        BY <1>5, <3>1 DEF Worker, ClaimBlock, LeaveLoop, SendBlock,
           BlockSucceeds, BlockFails, RecordFailure, WriteReason, Retire,
           StartCommit, SkipCommit, CommitSucceeds, CommitFails
      <4> QED
        BY <1>0, <4>1 DEF Publish, Verdict, TypeOK
    <3>2. CASE pc[w] # "publish"
      BY <1>0, <1>5, <2>4, <3>2, WorkerMoves DEF Started
    <3> QED
      BY <3>1, <3>2
  <2> QED
    BY <1>0, <2>1, <2>2, <2>4, <2>5 DEF SpawnInv, Started, callerVars
<1> QED
  BY <1>1, <1>2, <1>3, <1>4, <1>5 DEF Next, Caller, Finished

LEMMA CountStep == Inv /\ [Next]_vars => CountInv'
<1> SUFFICES ASSUME Inv, [Next]_vars PROVE CountInv'
  OBVIOUS
<1>0. TypeOK /\ SpawnInv /\ CountInv /\ CloseInv /\ SpawnInv' /\ TypeOK'
  BY SpawnStep, TypeStep DEF Inv
<1>1. ASSUME RejectTooBig PROVE CountInv'
  BY <1>1 DEF CountInv, Started, RejectTooBig
<1>2. ASSUME Prepare PROVE CountInv'
  <2>1. Active' = Workers
    <3>1. ~Started
      BY <1>2 DEF Prepare, Started
    <3>2. \A w \in Workers : pc[w] = "unborn"
      BY <1>0, <3>1 DEF SpawnInv, Workers
    <3> QED
      BY <1>2, <3>2 DEF Prepare, Active, Looping
  <2> QED
    BY <1>2, <2>1, WorkersFinite DEF CountInv, Prepare, WorkersAtStart
<1>3. ASSUME SpawnWorker PROVE CountInv'
  <2>1. Active' = Active /\ UNCHANGED num_workers
    <3>1. spawned + 1 \in Workers /\ spawned + 1 > spawned
      BY <1>0, <1>3, ParallelismAssumption DEF TypeOK, SpawnWorker, Workers
    <3>2. pc[spawned + 1] = "unborn"
      BY <1>0, <3>1 DEF SpawnInv
    <3> QED
      BY <1>0, <1>3, <3>1, <3>2
         DEF TypeOK, SpawnWorker, Goto, Active, Looping, sharedVars
  <2>2. Started
    BY <1>0, <1>3 DEF SpawnWorker, Started, SpawnInv, CloseInv, TypeOK
  <2> QED
    BY <1>0, <2>1, <2>2 DEF CountInv
<1>4. ASSUME SpawnThrows \/ ReturnFuture \/ Service \/ UNCHANGED vars
      PROVE  CountInv'
  <2>1. Active' = Active /\ UNCHANGED <<num_workers, task_promise>>
    BY <1>4 DEF SpawnThrows, ReturnFuture, Service, ApplyPutBlock,
       ApplyPutBlockList, vars, callerVars, sharedVars, serviceVars, Active
  <2>2. Started' => Started
    BY <1>4, <2>1 DEF SpawnThrows, ReturnFuture, Service, ApplyPutBlock,
       ApplyPutBlockList, vars, callerVars, Started
  <2> QED
    BY <1>0, <2>1, <2>2 DEF CountInv
<1>5. ASSUME NEW w \in Workers, Worker(w) PROVE CountInv'
  <2>1. /\ UNCHANGED callerVars
        /\ pc' = [pc EXCEPT ![w] = pc'[w]]
        /\ pc[w] \notin {"unborn", "done"}
        /\ pc[w] # "retire" => UNCHANGED num_workers
    BY <1>0, <1>5, WorkerMoves
  <2>2. Started
    BY <1>0, <2>1, ParallelismAssumption DEF SpawnInv, TypeOK, Workers
  <2>3. num_workers = Cardinality(Active)
    BY <1>0, <2>2 DEF CountInv
  <2>4. CASE Retire(w)
    <3>1. w \in Active /\ num_workers' = num_workers - 1
      BY <2>4 DEF Retire, Active, Looping
    <3>2. Active' = Active \ {w}
      BY <1>0, <2>4 DEF Retire, Goto, Active, Looping, Transferring, TypeOK
    <3> QED
      BY <2>3, <3>1, <3>2, ActiveMinusOne DEF CountInv
  <2>5. CASE ~Retire(w)
    <3>1. pc[w] # "retire" /\ (pc'[w] \in Looping <=> pc[w] \in Looping)
      BY <1>0, <1>5, <2>5 DEF Worker, ClaimBlock, LeaveLoop, SendBlock,
         BlockSucceeds, BlockFails, RecordFailure, WriteReason, StartCommit,
         SkipCommit, CommitSucceeds, CommitFails, Publish, Goto, Looping,
         Transferring, TypeOK
    <3>2. Active' = Active
      BY <1>0, <2>1, <3>1 DEF Active, TypeOK
    <3> QED
      BY <2>1, <2>3, <3>1, <3>2 DEF CountInv
  <2> QED
    BY <2>4, <2>5
<1> QED
  BY <1>1, <1>2, <1>3, <1>4, <1>5 DEF Next, Caller, Finished

\* A worker closes the upload only from "retire", when the count is one.
LEMMA CloseStep == Inv /\ [Next]_vars => CloseInv'
<1> SUFFICES ASSUME Inv, [Next]_vars PROVE CloseInv'
  OBVIOUS
<1>0. /\ TypeOK /\ SpawnInv /\ CountInv /\ CloseInv
      /\ TypeOK' /\ SpawnInv' /\ CountInv'
  BY TypeStep, SpawnStep, CountStep DEF Inv
<1>1. ASSUME RejectTooBig \/ Prepare PROVE CloseInv'
  <2>1. \A w \in Workers : pc'[w] = "unborn"
    <3>1. ~Started /\ UNCHANGED pc
      BY <1>0, <1>1 DEF RejectTooBig, Prepare, Started
    <3> QED
      BY <1>0, <3>1 DEF SpawnInv, Workers
  <2>2. ~Started' \/ task_promise' = "unset"
    BY <1>0, <1>1 DEF RejectTooBig, Prepare, Started, SpawnInv
  <2> QED
    BY <2>1, <2>2 DEF CloseInv, Closing
<1>2. ASSUME SpawnWorker PROVE CloseInv'
  <2>1. spawned + 1 \in Workers /\ spawned + 1 > spawned
    BY <1>0, <1>2, ParallelismAssumption DEF TypeOK, SpawnWorker, Workers
  <2>2. pc[spawned + 1] = "unborn"
    BY <1>0, <2>1 DEF SpawnInv
  <2>3. Started
    BY <1>0, <1>2 DEF SpawnWorker, Started, SpawnInv
  <2>4. /\ task_promise = "unset"
        /\ \A w \in Workers : pc[w] \notin Closing
    BY <1>0, <2>1, <2>2, <2>3 DEF CloseInv, Closing, TypeOK
  <2>5. /\ task_promise' = "unset"
        /\ \A w \in Workers : pc'[w] \notin Closing
    BY <1>0, <1>2, <2>1, <2>4 DEF SpawnWorker, Goto, sharedVars, Closing, TypeOK
  <2> QED
    BY <2>5 DEF CloseInv
<1>3. ASSUME SpawnThrows \/ ReturnFuture \/ Service \/ UNCHANGED vars
      PROVE  CloseInv'
  <2>1. UNCHANGED <<pc, num_workers, task_promise>>
    BY <1>3 DEF SpawnThrows, ReturnFuture, Service, ApplyPutBlock,
       ApplyPutBlockList, vars, callerVars, sharedVars
  <2>2. Started' => Started
    BY <1>3, <2>1 DEF SpawnThrows, ReturnFuture, Service, ApplyPutBlock,
       ApplyPutBlockList, vars, callerVars, Started
  <2> QED
    BY <1>0, <2>1, <2>2 DEF CloseInv
<1>4. ASSUME NEW w \in Workers, Worker(w) PROVE CloseInv'
  <2>0. /\ pc' = [pc EXCEPT ![w] = pc'[w]]
        /\ pc[w] \notin {"unborn", "done"}
        /\ pc[w] # "publish" => UNCHANGED task_promise
        /\ pc[w] # "retire" => UNCHANGED num_workers
    BY <1>0, <1>4, WorkerMoves
  <2>1. task_promise = "unset"
    BY <1>0, <2>0 DEF CloseInv
  <2>2. CASE Retire(w)
    <3>1. /\ w \in Active /\ num_workers = Cardinality(Active)
          /\ Cardinality(Active) \in 0..Parallelism
      BY <1>0, <2>0, <2>2, ParallelismAssumption, ActiveFinite
         DEF Retire, Active, Looping, CountInv, SpawnInv, TypeOK, Workers
    <3>2. CASE num_workers = 1
      <4>1. \A v \in Workers \ {w} : pc[v] \notin Looping
        BY <3>1, <3>2, ActiveMinusOne DEF Active
      <4>2. \A v \in Workers : pc[v] \notin Closing
        BY <1>0, <3>2 DEF CloseInv
      <4>3. \A v \in Workers \ {w} : pc[v] = "done"
        BY <1>0, <4>1, <4>2 DEF TypeOK, Places
      <4>4. /\ num_workers' = 0 /\ task_promise' = "unset"
            /\ \A v \in Workers \ {w} : pc'[v] = "done"
            /\ pc'[w] = "last"
        BY <1>0, <2>0, <2>1, <2>2, <3>2, <4>3 DEF Retire, IsLast, Goto, TypeOK
      <4> QED
        BY <4>4 DEF CloseInv, Closing
    <3>3. CASE num_workers # 1
      <4>1. \A v \in Workers : pc[v] \notin Closing
        <5>1. num_workers # 0
          <6>1. w \in Active
            BY <3>1
          <6>2. Cardinality(Active) >= 1
            BY <6>1, ActiveMinusOne
          <6>3. Cardinality(Active) # 0
            BY <6>2
          <6> QED
            BY <3>1, <6>3
        <5> QED
          BY <1>0, <5>1 DEF CloseInv
      <4>2. pc'[w] = "done" /\ task_promise' = "unset"
        BY <1>0, <2>0, <2>1, <2>2, <3>3 DEF Retire, IsLast, Goto, TypeOK
      <4> QED
        BY <1>0, <2>0, <4>1, <4>2 DEF CloseInv, Closing, TypeOK
    <3> QED
      BY <3>2, <3>3
  <2>3. CASE Publish(w)
    <3>1. \A v \in Workers \ {w} : pc[v] = "done"
      BY <1>0, <2>3 DEF Publish, CloseInv, Closing
    <3>2. \A v \in Workers : pc'[v] = "done"
      BY <1>0, <2>0, <2>3, <3>1 DEF Publish, Goto, TypeOK
    <3> QED
      BY <3>2 DEF CloseInv, Closing
  <2>4. CASE ~Retire(w) /\ ~Publish(w)
    <3>1. /\ pc[w] \notin {"retire", "publish"}
          /\ pc'[w] \in Closing <=> pc[w] \in Closing
      BY <1>0, <1>4, <2>4 DEF Worker, ClaimBlock, LeaveLoop, SendBlock,
         BlockSucceeds, BlockFails, RecordFailure, WriteReason, StartCommit,
         SkipCommit, CommitSucceeds, CommitFails, Goto, Closing, TypeOK
    <3>2. /\ task_promise' = "unset" /\ num_workers' = num_workers
      BY <2>0, <2>1, <3>1
    <3> QED
      BY <1>0, <2>0, <3>1, <3>2 DEF CloseInv, TypeOK
  <2> QED
    BY <2>2, <2>3, <2>4
<1> QED
  BY <1>1, <1>2, <1>3, <1>4 DEF Next, Caller, Finished

\* A worker takes a number no other worker has, and gives one back only with an
\* answer.
LEMMA BlockStep == Inv /\ [Next]_vars => BlockInv'
<1> SUFFICES ASSUME Inv, [Next]_vars PROVE BlockInv'
  OBVIOUS
<1>0. TypeOK /\ SpawnInv /\ BlockInv
  BY DEF Inv
<1> USE DEF BlockInv, ClaimedBelow, NothingDropped, LeftForReason, HandsDisjoint,
            InHand, Left, Closing, Claimed
<1>1. ASSUME RejectTooBig \/ Prepare \/ SpawnThrows \/ ReturnFuture
             \/ Service \/ UNCHANGED vars
      PROVE  BlockInv'
  <2>1. UNCHANGED <<pc, idx, block_index, failed>> /\ staged \subseteq staged'
    BY <1>1 DEF RejectTooBig, Prepare, SpawnThrows, ReturnFuture, Service,
       ApplyPutBlock, ApplyPutBlockList, vars, sharedVars, serviceVars
  <2> QED
    BY <1>0, <2>1
<1>2. ASSUME SpawnWorker PROVE BlockInv'
  <2>1. spawned + 1 \in Workers /\ spawned + 1 > spawned
    BY <1>0, <1>2, ParallelismAssumption DEF TypeOK, SpawnWorker, Workers
  <2>2. /\ pc[spawned + 1] = "unborn"
        /\ pc' = [pc EXCEPT ![spawned + 1] = "claim"]
        /\ UNCHANGED <<idx, block_index, failed, staged>>
    BY <1>0, <1>2, <2>1 DEF SpawnInv, SpawnWorker, Goto, sharedVars, serviceVars
  <2> QED
    BY <1>0, <2>1, <2>2 DEF TypeOK
<1>3. ASSUME NEW w \in Workers, ClaimBlock(w) PROVE BlockInv'
  <2>1. /\ pc[w] = "claim"
        /\ pc' = [pc EXCEPT ![w] = "check"]
        /\ idx' = [idx EXCEPT ![w] = block_index]
        /\ block_index' = block_index + 1
        /\ UNCHANGED <<failed, staged>>
    BY <1>3 DEF ClaimBlock, Goto, serviceVars
  <2>2. block_index \in Nat /\ idx \in [Workers -> Nat]
        /\ pc \in [Workers -> Places]
    BY <1>0 DEF TypeOK
  <2>3. ClaimedBelow'
    BY <1>0, <2>1, <2>2
  <2>4. NothingDropped'
    <3> SUFFICES ASSUME NEW b \in Blocks, b < block_index + 1, b \notin staged, ~failed
                 PROVE  \E v \in Workers : idx'[v] = b /\ pc'[v] \in InHand
      BY <2>1
    <3>1. b < block_index \/ b = block_index
      BY <2>2, NumBlocksAssumption DEF Blocks
    <3>2. CASE b = block_index
      BY <2>1, <2>2, <3>2
    <3>3. CASE b < block_index
      <4>1. PICK v \in Workers : idx[v] = b /\ pc[v] \in InHand
        BY <1>0, <3>3
      <4>2. v # w
        BY <2>1, <4>1
      <4> QED
        BY <2>1, <2>2, <4>1, <4>2
    <3> QED
      BY <3>1, <3>2, <3>3
  <2>5. LeftForReason'
    BY <1>0, <2>1, <2>2
  <2>6. HandsDisjoint'
    <3>1. \A v \in Workers : pc[v] \in Claimed => idx[v] # block_index
      BY <1>0, <2>2
    <3> QED
      BY <1>0, <2>1, <2>2, <3>1
  <2> QED
    BY <2>3, <2>4, <2>5, <2>6
<1>4. ASSUME NEW w \in Workers, Worker(w), ~ClaimBlock(w) PROVE BlockInv'
  <2>1. /\ UNCHANGED <<idx, block_index, staged>>
        /\ failed => failed'
    BY <1>4 DEF Worker, LeaveLoop, SendBlock, BlockSucceeds, BlockFails,
       RecordFailure, WriteReason, Retire, StartCommit, SkipCommit,
       CommitSucceeds, CommitFails, Publish, sharedVars, serviceVars
  <2>2. /\ pc' = [pc EXCEPT ![w] = pc'[w]]
        /\ pc[w] \notin {"unborn", "done"}
    BY <1>0, <1>4, WorkerMoves
  <2>3. /\ pc[w] \in Claimed
        /\ pc'[w] \in InHand \cup {"reason"} => pc[w] \in InHand \cup {"reason"}
        /\ pc'[w] \in Left => pc[w] \in Left \/ MustLeave(w)
        /\ pc[w] \in InHand => \/ pc'[w] \in InHand
                               \/ idx[w] \in staged
                               \/ failed'
                               \/ MustLeave(w)
    BY <1>0, <1>4 DEF Worker, LeaveLoop, SendBlock, BlockSucceeds, BlockFails,
       RecordFailure, WriteReason, Retire, StartCommit, SkipCommit,
       CommitSucceeds, CommitFails, Publish, Goto, TypeOK
  <2>4. ClaimedBelow'
    BY <1>0, <2>1, <2>2, <2>3 DEF TypeOK
  <2>5. NothingDropped'
    <3> SUFFICES ASSUME NEW b \in Blocks, b < block_index, b \notin staged, ~failed'
                 PROVE  \E v \in Workers : idx'[v] = b /\ pc'[v] \in InHand
      BY <2>1
    <3>1. PICK v \in Workers : idx[v] = b /\ pc[v] \in InHand
      BY <1>0, <2>1
    <3>2. ~(idx[v] >= NumBlocks)
      BY <3>1, NumBlocksAssumption DEF Blocks
    <3>3. pc'[v] \in InHand
      BY <1>0, <2>1, <2>2, <2>3, <3>1, <3>2 DEF TypeOK, MustLeave
    <3> QED
      BY <2>1, <3>1, <3>3
  <2>6. LeftForReason'
    BY <1>0, <2>1, <2>2, <2>3 DEF TypeOK, MustLeave
  <2>7. HandsDisjoint'
    BY <1>0, <2>1, <2>2, <2>3 DEF TypeOK
  <2> QED
    BY <2>4, <2>5, <2>6, <2>7
<1> QED
  BY <1>1, <1>2, <1>3, <1>4 DEF Next, Caller, Finished

\* The failure has no reason only while its one writer has yet to write it.
LEMMA ReasonStep == Inv /\ [Next]_vars => ReasonInv'
<1> SUFFICES ASSUME Inv, [Next]_vars PROVE ReasonInv'
  OBVIOUS
<1>0. TypeOK /\ SpawnInv /\ ReasonInv
  BY DEF Inv
<1>1. ASSUME RejectTooBig \/ Prepare \/ SpawnThrows \/ ReturnFuture
             \/ Service \/ UNCHANGED vars
      PROVE  ReasonInv'
  <2>1. UNCHANGED <<pc, failed, failed_reason>>
    BY <1>1 DEF RejectTooBig, Prepare, SpawnThrows, ReturnFuture, Service,
       ApplyPutBlock, ApplyPutBlockList, vars, sharedVars
  <2> QED
    BY <1>0, <2>1 DEF ReasonInv
<1>2. ASSUME SpawnWorker PROVE ReasonInv'
  <2>1. spawned + 1 \in Workers /\ spawned + 1 > spawned
    BY <1>0, <1>2, ParallelismAssumption DEF TypeOK, SpawnWorker, Workers
  <2>2. /\ pc[spawned + 1] = "unborn"
        /\ pc' = [pc EXCEPT ![spawned + 1] = "claim"]
        /\ UNCHANGED <<failed, failed_reason>>
    BY <1>0, <1>2, <2>1 DEF SpawnInv, SpawnWorker, Goto, sharedVars
  <2> QED
    BY <1>0, <2>1, <2>2 DEF ReasonInv, TypeOK
<1>3. ASSUME NEW w \in Workers, Worker(w) PROVE ReasonInv'
  <2>1. pc' = [pc EXCEPT ![w] = pc'[w]]
    BY <1>0, <1>3, WorkerMoves
  <2>2. CASE RecordFailure(w)
    <3>1. /\ pc[w] = "exchange" /\ failed' /\ UNCHANGED failed_reason
          /\ failed => pc'[w] = "claim"
          /\ ~failed => pc'[w] = "reason"
      BY <1>0, <2>2 DEF RecordFailure, Goto, TypeOK
    <3> QED
      BY <1>0, <2>1, <3>1 DEF ReasonInv, TypeOK
  <2>3. CASE WriteReason(w)
    <3>1. /\ pc[w] = "reason" /\ pc'[w] = "claim"
          /\ UNCHANGED failed /\ failed_reason' = "put_block"
      BY <1>0, <2>3 DEF WriteReason, Goto, TypeOK
    <3> QED
      BY <1>0, <2>1, <3>1 DEF ReasonInv, TypeOK
  <2>4. CASE CommitFails(w)
    BY <1>0, <2>1, <2>4 DEF CommitFails, ReasonInv
  <2>5. CASE ~RecordFailure(w) /\ ~WriteReason(w) /\ ~CommitFails(w)
    <3>1. /\ UNCHANGED <<failed, failed_reason>>
          /\ pc[w] # "reason" /\ pc'[w] # "reason"
      BY <1>0, <1>3, <2>5 DEF Worker, ClaimBlock, LeaveLoop, SendBlock,
         BlockSucceeds, BlockFails, Retire, StartCommit, SkipCommit,
         CommitSucceeds, Publish, Goto, sharedVars, TypeOK
    <3> QED
      BY <1>0, <2>1, <3>1 DEF ReasonInv, TypeOK
  <2> QED
    BY <2>2, <2>3, <2>4, <2>5
<1> QED
  BY <1>1, <1>2, <1>3 DEF Next, Caller, Finished

\* The commit waits for every block, and its place belongs to the last worker.
LEMMA CommitStep == Inv /\ [Next]_vars => CommitInv'
<1> SUFFICES ASSUME Inv, [Next]_vars PROVE CommitInv'
  OBVIOUS
<1>0. TypeOK /\ SpawnInv /\ CloseInv /\ BlockInv /\ ReasonInv /\ CommitInv
  BY DEF Inv
<1>1. ASSUME RejectTooBig \/ Prepare \/ SpawnThrows \/ ReturnFuture
             \/ Service \/ UNCHANGED vars
      PROVE  CommitInv'
  <2>1. /\ UNCHANGED <<pc, failed, failed_reason>>
        /\ staged \subseteq staged'
        /\ commit' = commit \/ (commit = "sent" /\ commit' = "applied")
    BY <1>1 DEF RejectTooBig, Prepare, SpawnThrows, ReturnFuture, Service,
       ApplyPutBlock, ApplyPutBlockList, vars, sharedVars, serviceVars
  <2> QED
    BY <1>0, <2>1 DEF CommitInv
<1>2. ASSUME SpawnWorker PROVE CommitInv'
  <2>1. spawned + 1 \in Workers /\ spawned + 1 > spawned
    BY <1>0, <1>2, ParallelismAssumption DEF TypeOK, SpawnWorker, Workers
  <2>2. /\ pc[spawned + 1] = "unborn"
        /\ pc' = [pc EXCEPT ![spawned + 1] = "claim"]
        /\ UNCHANGED <<failed, failed_reason, commit, staged>>
    BY <1>0, <1>2, <2>1 DEF SpawnInv, SpawnWorker, Goto, sharedVars, serviceVars
  <2>3. commit = "none"
    BY <1>0, <2>1, <2>2 DEF CommitInv
  <2> QED
    BY <1>0, <2>1, <2>2, <2>3 DEF CommitInv, TypeOK
<1>3. ASSUME NEW w \in Workers, Worker(w) PROVE CommitInv'
  <2>1. pc' = [pc EXCEPT ![w] = pc'[w]]
    BY <1>0, <1>3, WorkerMoves
  <2>2. pc[w] \in Closing =>
            \A v \in Workers \ {w} : pc[v] = "done" /\ pc'[v] = "done"
    BY <1>0, <2>1 DEF CloseInv, TypeOK
  <2>3. CASE StartCommit(w)
    <3>1. /\ pc[w] = "last" /\ pc'[w] = "commit" /\ ~failed /\ commit' = "sent"
          /\ UNCHANGED <<failed, failed_reason, staged>>
      BY <1>0, <2>3 DEF StartCommit, MayCommit, Goto, sharedVars, TypeOK
    <3>2. idx[w] >= NumBlocks /\ idx[w] < block_index
      BY <1>0, <3>1
         DEF BlockInv, ClaimedBelow, LeftForReason, Claimed, Left, Closing
    <3>3. Blocks \subseteq staged
      <4> SUFFICES ASSUME NEW b \in Blocks PROVE b \in staged
        OBVIOUS
      <4>1. b < block_index
        BY <1>0, <3>2, NumBlocksAssumption DEF Blocks, TypeOK
      <4>2. \A v \in Workers : pc[v] \notin InHand
        BY <2>2, <3>1 DEF Closing, InHand
      <4> QED
        BY <1>0, <3>1, <4>1, <4>2 DEF BlockInv, NothingDropped
    <3> QED
      BY <1>0, <2>1, <2>2, <3>1, <3>3 DEF CommitInv, ReasonInv, Closing, TypeOK
  <2>4. CASE SkipCommit(w)
    <3>1. /\ pc[w] = "last" /\ pc'[w] = "publish" /\ failed
          /\ UNCHANGED <<failed, failed_reason, staged, commit>>
      BY <1>0, <2>4 DEF SkipCommit, MayCommit, Goto, sharedVars, serviceVars, TypeOK
    <3> QED
      BY <1>0, <2>1, <3>1 DEF CommitInv, TypeOK
  <2>5. CASE CommitSucceeds(w)
    <3>1. /\ pc[w] = "commit" /\ pc'[w] = "publish" /\ commit = "applied"
          /\ UNCHANGED <<failed, failed_reason, staged, commit>>
      BY <1>0, <2>5 DEF CommitSucceeds, Goto, sharedVars, serviceVars, TypeOK
    <3> QED
      BY <1>0, <2>1, <3>1 DEF CommitInv, TypeOK
  <2>6. CASE CommitFails(w)
    <3>1. /\ pc[w] = "commit" /\ pc'[w] = "publish"
          /\ failed' /\ failed_reason' = "put_block_list"
          /\ UNCHANGED <<staged, commit>>
      BY <1>0, <2>6 DEF CommitFails, Goto, serviceVars, TypeOK
    <3> QED
      BY <1>0, <2>1, <2>2, <3>1 DEF CommitInv, Closing, TypeOK
  <2>7. CASE Publish(w)
    <3>1. /\ pc[w] = "publish" /\ pc'[w] = "done"
          /\ UNCHANGED <<failed, failed_reason, staged, commit>>
      BY <1>0, <2>7 DEF Publish, Goto, serviceVars, TypeOK
    <3> QED
      BY <1>0, <2>1, <3>1 DEF CommitInv, TypeOK
  <2>8. CASE pc[w] \notin Closing
    <3>1. /\ pc'[w] \notin {"commit", "publish"} /\ UNCHANGED <<staged, commit>>
          /\ failed => failed'
          /\ failed_reason' \in {failed_reason, "put_block"}
      BY <1>0, <1>3, <2>8 DEF Worker, ClaimBlock, LeaveLoop, SendBlock,
         BlockSucceeds, BlockFails, RecordFailure, WriteReason, Retire,
         StartCommit, SkipCommit, CommitSucceeds, CommitFails, Publish,
         Goto, Closing, sharedVars, serviceVars, TypeOK
    <3>2. commit = "none"
      BY <1>0, <1>3, <2>8, WorkerMoves DEF CommitInv, Closing
    <3>3. \A v \in Workers : pc[v] # "commit"
      BY <1>0, <3>2 DEF CommitInv
    <3> QED
      BY <1>0, <2>1, <3>1, <3>2, <3>3 DEF CommitInv, TypeOK
  <2> QED
    BY <1>3, <2>3, <2>4, <2>5, <2>6, <2>7, <2>8 DEF Worker, ClaimBlock,
       LeaveLoop, SendBlock, BlockSucceeds, BlockFails, RecordFailure,
       WriteReason, Retire, Closing
<1> QED
  BY <1>1, <1>2, <1>3 DEF Next, Caller, Finished

\* The promise is set from atomics that no one changes any more.
LEMMA VerdictStep == Inv /\ [Next]_vars => VerdictInv'
<1> SUFFICES ASSUME Inv, [Next]_vars PROVE VerdictInv'
  OBVIOUS
<1>0. TypeOK /\ SpawnInv /\ CloseInv /\ ReasonInv /\ CommitInv /\ VerdictInv
  BY DEF Inv
<1>1. ASSUME RejectTooBig PROVE VerdictInv'
  BY <1>1 DEF RejectTooBig, VerdictInv
<1>2. ASSUME Prepare \/ SpawnWorker \/ SpawnThrows \/ ReturnFuture
             \/ Service \/ UNCHANGED vars
      PROVE  VerdictInv'
  <2>1. /\ UNCHANGED <<failed, failed_reason, task_promise>>
        /\ commit = "applied" => commit' = "applied"
    BY <1>2 DEF Prepare, SpawnWorker, SpawnThrows, ReturnFuture, Service,
       ApplyPutBlock, ApplyPutBlockList, vars, sharedVars, serviceVars
  <2> QED
    BY <1>0, <2>1 DEF VerdictInv
<1>3. ASSUME NEW w \in Workers, Worker(w) PROVE VerdictInv'
  <2>1. task_promise = "unset"
    BY <1>0, <1>3, WorkerMoves DEF CloseInv
  <2>2. CASE pc[w] # "publish"
    BY <1>0, <1>3, <2>1, <2>2, WorkerMoves DEF VerdictInv
  <2>3. CASE Publish(w)
    <3>1. /\ pc[w] = "publish" /\ UNCHANGED <<failed, failed_reason, commit>>
          /\ failed => task_promise' = failed_reason
          /\ ~failed => task_promise' = "ok"
      BY <2>3 DEF Publish, Verdict, serviceVars
    <3>2. \A v \in Workers : pc[v] # "reason"
      BY <1>0, <3>1 DEF CloseInv, Closing
    <3>3. failed \/ commit = "applied"
      BY <1>0, <3>1 DEF CommitInv
    <3>4. failed => failed_reason \in {"put_block", "put_block_list"}
      BY <1>0, <3>2 DEF ReasonInv, TypeOK
    <3> QED
      BY <3>1, <3>3, <3>4 DEF VerdictInv
  <2> QED
    BY <1>3, <2>2, <2>3 DEF Worker, ClaimBlock, LeaveLoop, SendBlock,
       BlockSucceeds, BlockFails, RecordFailure, WriteReason, Retire,
       StartCommit, SkipCommit, CommitSucceeds, CommitFails
<1> QED
  BY <1>1, <1>2, <1>3 DEF Next, Caller, Finished

-----------------------------------------------------------------------------
(* The theorems. *)

\* The invariant holds in every reachable state, whatever the number of threads
\* and blocks.
THEOREM Invariance == Safety => []Inv
<1>1. Init => Inv
  BY InitInv
<1>2. Inv /\ [Next]_vars => Inv'
  BY TypeStep, SpawnStep, CountStep, CloseStep, BlockStep, ReasonStep,
     CommitStep, VerdictStep DEF Inv
<1> QED
  BY <1>1, <1>2, PTL DEF Safety

\* Every variable keeps to its values; num_workers never goes below zero, and
\* every block that is sent is a block of the blob.
THEOREM TypeCorrect == Safety => []TypeOK
<1>1. Inv => TypeOK
  BY DEF Inv
<1> QED
  BY <1>1, Invariance, PTL

\* The block list is put only when the service has every block of it.
THEOREM CommitIsComplete == Safety => []CommitOnlyComplete
<1>1. Inv => CommitOnlyComplete
  BY DEF Inv, CommitInv, CommitOnlyComplete
<1> QED
  BY <1>1, Invariance, PTL

\* The future never holds a success that did not happen, an error of a block
\* after a commit was sent, or an error without its reason.
THEOREM FutureIsTruthful == Safety => []VerdictIsTruthful
<1>1. Inv => VerdictIsTruthful
  BY DEF Inv, VerdictInv, CommitInv, VerdictIsTruthful
<1> QED
  BY <1>1, Invariance, PTL

\* The worker that commits and fulfils the promise is the only one left, so that
\* its plain reads and writes of failed_reason race with nothing.
THEOREM LastWorkerIsAlone == Safety => []LastIsAlone
<1>1. Inv => LastIsAlone
  BY DEF Inv, CloseInv, LastIsAlone
<1> QED
  BY <1>1, Invariance, PTL

\* A ready future means that no thread uses the caller's buffer any more.
THEOREM ReadyMeansQuiet == Safety => []QuietWhenReady
<1>1. Inv => QuietWhenReady
  BY DEF Inv, CloseInv, QuietWhenReady
<1> QED
  BY <1>1, Invariance, PTL

\* No block is in the hands of two threads.
THEOREM BlocksAreUploadedOnce == Safety => []EachBlockOnce
<1>1. Inv => EachBlockOnce
  BY DEF Inv, BlockInv, HandsDisjoint, InHand, Transferring, EachBlockOnce
<1> QED
  BY <1>1, Invariance, PTL

\* The count stays above zero while a thread is missing, so that no worker finds
\* itself last.
LEMMA UnbornHoldsTheCount ==
    ASSUME Inv, Started, spawned < Parallelism
    PROVE  /\ commit = "none" /\ task_promise = "unset"
           /\ \A w \in Workers : pc[w] \notin Closing
<1>1. Parallelism \in Workers /\ Parallelism > spawned
  BY ParallelismAssumption DEF Inv, TypeOK, Workers
<1>2. pc[Parallelism] = "unborn"
  BY <1>1 DEF Inv, SpawnInv
<1>3. commit = "none"
  BY <1>1, <1>2 DEF Inv, CommitInv
<1>4. task_promise = "unset"
  BY <1>1, <1>2 DEF Inv, CloseInv
<1>5. \A w \in Workers : pc[w] \notin Closing
  BY <1>1, <1>2 DEF Inv, CloseInv, Closing
<1> QED
  BY <1>3, <1>4, <1>5

LEMMA ThrowHoldsTheCount == Inv => ThrowNeverCommits
<1> SUFFICES ASSUME Inv, caller = "threw" PROVE commit = "none" /\ task_promise = "unset"
  BY DEF ThrowNeverCommits
<1>1. Started /\ spawned < Parallelism
  BY DEF Inv, SpawnInv, Started
<1> QED
  BY <1>1, UnbornHoldsTheCount

\* A call that threw commits nothing, whatever the threads it started do.
THEOREM ThrowsCleanly == Safety => []ThrowNeverCommits
  BY Invariance, ThrowHoldsTheCount, PTL

\* The last worker is alone, no block is uploaded twice, and a call that threw
\* does not commit.
THEOREM WorkersStayInOrder == Safety => []WorkersInOrder
<1>1. LastIsAlone /\ EachBlockOnce /\ ThrowNeverCommits => WorkersInOrder
  BY DEF WorkersInOrder
<1> QED
  BY <1>1, LastWorkerIsAlone, BlocksAreUploadedOnce, ThrowsCleanly, PTL

-----------------------------------------------------------------------------
(* Refinement: every step of the upload is a step of AtomicUpload, or none. *)

\* A told outcome, other than one of a lost commit, leaves no commit to apply.
LEMMA OutcomeLeavesNoCommit ==
    ASSUME Inv
    PROVE  /\ ~Started => commit = "none"
           /\ caller = "threw" => commit = "none" /\ task_promise = "unset"
           /\ task_promise = "put_block" => commit = "none"
           /\ task_promise = "blob_too_big" => commit = "none"
           /\ task_promise = "ok" => commit = "applied"
BY ThrowHoldsTheCount
   DEF Inv, SpawnInv, Started, CommitInv, VerdictInv, ThrowNeverCommits

\* The steps that neither tell the caller anything nor change the blob.
LEMMA SilentStep ==
    ASSUME UNCHANGED task_promise,
           (caller' = "threw") <=> (caller = "threw"),
           (commit' = "applied") <=> (commit = "applied")
    PROVE  UNCHANGED Abstract!vars
BY DEF Abstract!vars

LEMMA AtomicStep == Inv /\ [Next]_vars => [Abstract!Next]_(Abstract!vars)
<1> SUFFICES ASSUME Inv, [Next]_vars PROVE Abstract!Next \/ UNCHANGED Abstract!vars
  OBVIOUS
<1>0. TypeOK /\ SpawnInv /\ CloseInv /\ CommitInv /\ VerdictInv
  BY DEF Inv
<1>1. ASSUME RejectTooBig PROVE Abstract!Next
  <2>1. caller = "start" /\ task_promise = "unset" /\ commit = "none"
    BY <1>0, <1>1 DEF RejectTooBig, SpawnInv, Started
  <2>2. caller' = "returned" /\ task_promise' = "blob_too_big" /\ commit' = commit
    BY <1>1 DEF RejectTooBig, serviceVars
  <2> QED
    BY <2>1, <2>2 DEF Abstract!Next, Abstract!Refuse
<1>2. ASSUME SpawnThrows PROVE Abstract!Next
  <2>1. /\ caller = "spawning" /\ caller' = "threw" /\ spawned < Parallelism
        /\ UNCHANGED <<task_promise, commit>>
    BY <1>2 DEF SpawnThrows, sharedVars, serviceVars
  <2>2. Started
    BY <1>0, <2>1 DEF Started, SpawnInv
  <2>3. task_promise = "unset" /\ commit = "none"
    BY <2>1, <2>2, UnbornHoldsTheCount
  <2> QED
    BY <2>1, <2>3 DEF Abstract!Next, Abstract!Refuse
<1>3. ASSUME ApplyPutBlockList PROVE Abstract!Next
  <2>1. /\ commit = "sent" /\ commit' = "applied"
        /\ UNCHANGED <<caller, task_promise>>
    BY <1>3 DEF ApplyPutBlockList, callerVars, sharedVars
  <2>2. caller # "threw" /\ task_promise \notin {"put_block", "blob_too_big", "ok"}
    BY <2>1, OutcomeLeavesNoCommit
  <2> QED
    BY <2>1, <2>2 DEF Abstract!Next, Abstract!Apply
<1>4. ASSUME NEW w \in Workers, Publish(w) PROVE Abstract!Next
  <2>1. /\ pc[w] = "publish" /\ UNCHANGED <<caller, commit>>
        /\ task_promise' = IF failed THEN failed_reason ELSE "ok"
    BY <1>4 DEF Publish, Verdict, callerVars, serviceVars
  <2>2. task_promise = "unset"
    BY <1>0, <2>1 DEF CloseInv, Closing
  <2>3. VerdictInv' /\ CommitInv'
    BY VerdictStep, CommitStep
  <2>4. caller # "threw"
    <3> SUFFICES ASSUME caller = "threw" PROVE FALSE
      OBVIOUS
    <3>1. Started /\ spawned < Parallelism
      BY <1>0 DEF SpawnInv, Started
    <3> QED
      BY <2>1, <3>1, UnbornHoldsTheCount DEF Closing
  <2>5. CASE task_promise' = "ok"
    BY <2>1, <2>2, <2>3, <2>4, <2>5
       DEF VerdictInv, Abstract!Next, Abstract!Succeed
  <2>6. CASE task_promise' = "put_block"
    <3>1. commit = "none"
      BY <2>1, <2>3, <2>6 DEF VerdictInv, CommitInv
    <3> QED
      BY <2>1, <2>2, <2>4, <2>6, <3>1 DEF Abstract!Next, Abstract!Refuse
  <2>7. CASE task_promise' = "put_block_list"
    BY <2>1, <2>2, <2>4, <2>7 DEF Abstract!Next, Abstract!GiveUp
  <2>8. task_promise' \in {"ok", "put_block", "put_block_list"}
    BY <1>0, <2>1, <2>3 DEF VerdictInv, TypeOK
  <2> QED
    BY <2>5, <2>6, <2>7, <2>8
<1>5. ASSUME NEW w \in Workers, Worker(w), ~Publish(w)
      PROVE  UNCHANGED Abstract!vars
  <2>1. UNCHANGED <<task_promise, caller>>
    BY <1>5 DEF Worker, ClaimBlock, LeaveLoop, SendBlock, BlockSucceeds,
       BlockFails, RecordFailure, WriteReason, Retire, StartCommit, SkipCommit,
       CommitSucceeds, CommitFails, callerVars, sharedVars
  <2>2. CASE StartCommit(w)
    <3>1. pc[w] = "last" /\ commit' = "sent"
      BY <2>2 DEF StartCommit
    <3>2. commit = "none"
      BY <1>0, <3>1 DEF CommitInv
    <3> QED
      BY <2>1, <3>1, <3>2, SilentStep
  <2>3. CASE ~StartCommit(w)
    <3>1. commit' = commit
      BY <1>5, <2>3 DEF Worker, ClaimBlock, LeaveLoop, SendBlock, BlockSucceeds,
         BlockFails, RecordFailure, WriteReason, Retire, SkipCommit,
         CommitSucceeds, CommitFails, serviceVars
    <3> QED
      BY <2>1, <3>1, SilentStep
  <2> QED
    BY <2>2, <2>3
<1>6. ASSUME \/ Prepare \/ SpawnWorker \/ ReturnFuture
             \/ \E b \in Blocks : ApplyPutBlock(b)
             \/ UNCHANGED vars
      PROVE  UNCHANGED Abstract!vars
  <2>1. /\ UNCHANGED <<task_promise, commit>>
        /\ (caller' = "threw") <=> (caller = "threw")
    BY <1>6 DEF Prepare, SpawnWorker, ReturnFuture, ApplyPutBlock, vars,
       callerVars, sharedVars, serviceVars
  <2> QED
    BY <2>1, SilentStep
<1> QED
  BY <1>1, <1>2, <1>3, <1>4, <1>5, <1>6 DEF Next, Caller, Service, Finished

\* The upload does what AtomicUpload allows: the blob changes at most once, only
\* as a whole, and never after the caller was told that the upload stopped before
\* its commit.
THEOREM UploadIsAtomic == Safety => Abstract!Safety
<1>1. Init => Abstract!Init
  BY DEF Init, Abstract!Init
<1>2. Inv /\ [Next]_vars => [Abstract!Next]_(Abstract!vars)
  BY AtomicStep
<1> QED
  BY <1>1, <1>2, Invariance, PTL DEF Safety, Abstract!Safety
=============================================================================
