----------------------- MODULE ParallelDownloadProofs -----------------------
(***************************************************************************)
(* What ParallelDownload's run shows for two workers and four bytes, for   *)
(* any number of workers, length, block size and versions of the blob.     *)
(***************************************************************************)
EXTENDS ParallelDownload, FiniteSetTheorems, TLAPS

\* Workers that have not yet left their loop, those not yet started included.
Looping == {"unborn", "claim", "check", "retire"} \cup Reading
Active == {w \in Workers : pc[w] \in Looping}

\* The places of a worker that has claimed a number, still has to answer for it,
\* may still write its cells, or has left the loop.
InHand == {"check", "read", "exchange"}
Writing == {"check", "read"}
Left == {"retire", "publish", "done"}
Claimed == InHand \cup {"reason"} \cup Left

\* The caller's place and the threads it started.
SpawnInv ==
    /\ \A w \in Workers : pc[w] = "unborn" <=> w > spawned
    /\ caller = "start" => spawned = 0 /\ task_promise = "unset"
    /\ caller = "threw" => spawned < Parallelism

\* num_workers counts the workers still active.
CountInv == caller # "start" => num_workers = Cardinality(Active)

\* The worker that fulfils the promise is alone, and leaves nobody.
CloseInv ==
    /\ \A w \in Workers : pc[w] = "publish" =>
           /\ num_workers = 0
           /\ task_promise = "unset"
           /\ \A v \in Workers \ {w} : pc[v] = "done"
    /\ task_promise # "unset" => \A w \in Workers : pc[w] = "done"

\* A claimed block is answered, in some worker's hands, or failed; no worker
\* leaves the loop before the blocks or the luck run out.
BlockInv ==
    /\ \A w \in Workers : pc[w] \in Claimed => idx[w] < block_index
    /\ \A b \in Blocks : b < block_index =>
           answered[b] # "none" \/ failed \/ \E w \in Workers : idx[w] = b /\ pc[w] \in InHand
    /\ \A w \in Workers : pc[w] \in Left => idx[w] >= num_blocks \/ failed

\* Each block is written by one worker, before it is answered.
WriterInv ==
    /\ \A w \in Workers : pc[w] = "read" => idx[w] \in Blocks
    /\ \A b \in Blocks : answered[b] # "none" => b < block_index
    /\ \A w \in Workers : pc[w] \in Writing /\ idx[w] \in Blocks => answered[idx[w]] = "none"
    /\ \A v, w \in Workers :
           v # w /\ pc[v] \in Writing /\ pc[w] \in Writing => idx[v] # idx[w]

\* What an answer holds is in its place.
Placed(b) ==
    \A c \in Cells :
        c - First(b) \in 0..(Reached(b, answered[b]) - 1) => buffer[c] = answered[b]
DataInv ==
    \A b \in Blocks :
        answered[b] # "none" => answered[b] \in (replaced \cup {blob}) /\ Placed(b)

\* A failure has its reason, or a worker is about to write it.
ReasonInv ==
    /\ \A w \in Workers : pc[w] = "reason" => failed
    /\ failed /\ failed_reason = "none" => \E w \in Workers : pc[w] = "reason"

\* A success has every answer.
VerdictInv ==
    /\ task_promise = "ok" => \A b \in Blocks : answered[b] # "none"
    /\ task_promise # "none"

Inv ==
    /\ TypeOK
    /\ SpawnInv /\ CountInv /\ CloseInv
    /\ BlockInv /\ WriterInv /\ DataInv
    /\ ReasonInv /\ VerdictInv

-----------------------------------------------------------------------------
(* The blocks cut the buffer. *)

LEMMA NumBlocksNat == num_blocks \in Nat /\ Blocks \subseteq Nat
BY DownloadAssumption DEF num_blocks, Blocks

\* The cells of two blocks are different.
LEMMA BlocksApart ==
    ASSUME NEW i \in Nat, NEW j \in Nat, i < j, NEW c \in Int,
           c - First(i) < BlockSize
    PROVE  c - First(j) < 0
<1>1. BlockSize * (i + 1) <= BlockSize * j
  BY DownloadAssumption
<1>2. BlockSize * (i + 1) = BlockSize * i + BlockSize
  BY DownloadAssumption
<1> QED
  BY <1>1, <1>2, DownloadAssumption DEF First

\* Every cell belongs to a block.
LEMMA BlockOfCell ==
    ASSUME NEW c \in Cells
    PROVE  \E i \in Blocks : c - First(i) \in 0..(Wanted(i) - 1)
<1> USE DownloadAssumption
<1> DEFINE i == c \div BlockSize
           m == c % BlockSize
<1>1. c \in Nat /\ c < Size
  BY DEF Cells
<1>2. i \in Nat /\ m \in 0..(BlockSize - 1) /\ c = BlockSize * i + m
  BY <1>1
<1>3. (Size + BlockSize - 1) >= BlockSize * (i + 1)
  BY <1>1, <1>2
<1>4. num_blocks >= i + 1
  <2> DEFINE X == Size + BlockSize - 1
  <2>1. num_blocks \in Nat /\ X < BlockSize * num_blocks + BlockSize
    BY DEF num_blocks
  <2>2. ASSUME num_blocks <= i PROVE FALSE
    <3>1. BlockSize * num_blocks <= BlockSize * i
      BY <1>2, <2>1, <2>2
    <3> QED
      BY <1>2, <1>3, <2>1, <3>1
  <2> QED
    BY <1>2, <2>1, <2>2
<1> QED
  BY <1>1, <1>2, <1>4, NumBlocksNat DEF Blocks, First, Wanted, Least

\* What a worker delivers leaves the cells of every other block alone.
LEMMA DeliverElsewhere ==
    ASSUME NEW w \in Workers, NEW n \in Nat, NEW b \in Blocks, NEW v \in Versions,
           idx[w] \in Blocks, b # idx[w], n <= Reached(idx[w], blob), blob \in Versions,
           Deliver(w, n)
    PROVE  \A c \in Cells : c - First(b) \in 0..(Reached(b, v) - 1) => buffer'[c] = buffer[c]
<1> SUFFICES ASSUME NEW c \in Cells, c - First(b) \in 0..(Reached(b, v) - 1)
             PROVE  ~(c - First(idx[w]) \in 0..(n - 1))
  BY DEF Deliver
<1> USE DownloadAssumption
<1>1. c \in Int /\ b \in Nat /\ idx[w] \in Nat /\ Size \in Int /\ BlockSize \in Int
  <2>1. Cells \subseteq Int
    BY DEF Cells
  <2>2. Blocks \subseteq Nat
    BY NumBlocksNat
  <2>3. c \in Int
    BY <2>1
  <2>4. b \in Nat
    BY <2>2
  <2>5. idx[w] \in Nat
    BY <2>2
  <2> QED
    BY <2>3, <2>4, <2>5
<1>2. First(b) \in Int /\ First(idx[w]) \in Int /\ LengthOf[v] \in Nat /\ LengthOf[blob] \in Nat
  BY <1>1 DEF First
<1>3. Reached(b, v) <= BlockSize /\ Reached(idx[w], blob) <= BlockSize
      /\ Reached(b, v) \in Int /\ Reached(idx[w], blob) \in Int
  BY <1>1, <1>2 DEF Reached, Wanted, Least
<1>4. c - First(b) < BlockSize /\ c - First(b) >= 0
  BY <1>1, <1>2, <1>3
<1>5. CASE b < idx[w]
  BY <1>1, <1>2, <1>4, <1>5, BlocksApart
<1>6. CASE idx[w] < b
  <2> SUFFICES ASSUME c - First(idx[w]) \in 0..(n - 1) PROVE FALSE
    OBVIOUS
  <2>1. c - First(idx[w]) < BlockSize
    BY <1>1, <1>2, <1>3
  <2>2. c - First(b) < 0
    BY <1>1, <1>6, <2>1, BlocksApart
  <2> QED
    BY <1>1, <1>2, <1>4, <2>2
<1> QED
  BY <1>1, <1>5, <1>6

-----------------------------------------------------------------------------
(* Counting the workers. *)

LEMMA WorkersFinite == IsFiniteSet(Workers) /\ Cardinality(Workers) = Parallelism
<1>1. 1 \in Int /\ Parallelism \in Int /\ 1 <= Parallelism
  BY DownloadAssumption
<1> QED
  BY <1>1, FS_Interval DEF Workers

LEMMA ActiveFinite == IsFiniteSet(Active) /\ Cardinality(Active) \in 0..Parallelism
<1>1. Active \subseteq Workers
  BY DEF Active
<1>2. IsFiniteSet(Active) /\ Cardinality(Active) <= Cardinality(Workers)
  BY <1>1, WorkersFinite, FS_Subset
<1>3. Cardinality(Active) \in Nat
  BY <1>2, FS_CardinalityType
<1> QED
  BY <1>2, <1>3, WorkersFinite, DownloadAssumption

\* The count is one exactly when the worker that retires is the only one active.
LEMMA ActiveMinusOne ==
    ASSUME NEW w \in Active
    PROVE  /\ Cardinality(Active) >= 1
           /\ Cardinality(Active \ {w}) = Cardinality(Active) - 1
           /\ Cardinality(Active) = 1 => Active = {w}
<1>1. Cardinality(Active \ {w}) = Cardinality(Active) - 1
  BY ActiveFinite, FS_RemoveElement
<1>2. IsFiniteSet(Active \ {w}) /\ Cardinality(Active \ {w}) \in Nat
  BY ActiveFinite, FS_Subset, FS_CardinalityType
<1>3. Cardinality(Active) >= 1
  BY <1>1, <1>2, ActiveFinite
<1>4. ASSUME Cardinality(Active) = 1 PROVE Active = {w}
  <2>1. Cardinality(Active \ {w}) = 0
    BY <1>1, <1>4, ActiveFinite
  <2>2. Active \ {w} = {}
    BY <1>2, <2>1, FS_EmptySet
  <2> QED
    BY <2>2
<1> QED
  BY <1>1, <1>3, <1>4

-----------------------------------------------------------------------------
(* The initial states, and the shapes of the steps. *)

LEMMA InitInv == Init => Inv
<1> SUFFICES ASSUME Init PROVE Inv
  OBVIOUS
<1> USE DownloadAssumption DEF Init
<1>1. TypeOK
  <2>1. /\ pc \in [Workers -> {"unborn", "claim", "check", "retire", "publish", "done"}
                                \cup Reading]
        /\ idx \in [Workers -> Nat]
    OBVIOUS
  <2>2. /\ buffer \in [Cells -> Versions \cup {"old"}]
        /\ answered \in [Blocks -> Versions \cup {"none"}]
    OBVIOUS
  <2>3. /\ spawned \in 0..Parallelism /\ block_index \in Nat /\ cuts \in 0..MaxCuts
        /\ num_workers \in 0..Parallelism
    OBVIOUS
  <2>4. /\ blob \in Versions \ replaced /\ replaced \subseteq Versions
        /\ caller \in {"start", "spawning", "returned", "threw"} /\ failed \in BOOLEAN
        /\ failed_reason \in {"none", "get_blob"}
        /\ task_promise \in {"unset", "ok", "none", "get_blob"}
    OBVIOUS
  <2> QED
    BY <2>1, <2>2, <2>3, <2>4 DEF TypeOK
<1>2. SpawnInv /\ CountInv /\ CloseInv /\ ReasonInv /\ VerdictInv
  BY DEF SpawnInv, CountInv, CloseInv, ReasonInv, VerdictInv, Workers
<1>3. BlockInv
  BY NumBlocksNat DEF BlockInv, Claimed, InHand, Left
<1>4. WriterInv /\ DataInv
  BY DEF WriterInv, Writing, DataInv
<1> QED
  BY <1>1, <1>2, <1>3, <1>4 DEF Inv

\* The steps that leave the workers alone.
LEMMA Others ==
    ASSUME [Next]_vars, \A w \in Workers : ~Worker(w), ~SpawnWorker
    PROVE  /\ UNCHANGED <<pc, idx, spawned, block_index, failed, failed_reason,
                          task_promise, dataVars>>
           /\ \/ UNCHANGED <<num_workers, serviceVars>>
              \/ Prepare /\ UNCHANGED serviceVars
              \/ Replace /\ UNCHANGED num_workers
           /\ \/ Prepare
              \/ UNCHANGED caller
              \/ caller = "spawning" /\ caller' = "returned"
              \/ caller = "spawning" /\ caller' = "threw" /\ SpawnThrows
BY DEF Next, Caller, Prepare, SpawnThrows, ReturnFuture, Replace, vars,
   callerVars, sharedVars, serviceVars

\* A new worker has not claimed anything.
LEMMA Spawn ==
    ASSUME Inv, SpawnWorker
    PROVE  /\ spawned + 1 \in Workers /\ spawned' = spawned + 1
           /\ pc[spawned + 1] = "unborn" /\ pc' = [pc EXCEPT ![spawned + 1] = "claim"]
           /\ caller = "spawning" /\ task_promise = "unset"
           /\ \A w \in Workers : pc[w] # "publish"
           /\ UNCHANGED <<caller, idx, sharedVars, dataVars, serviceVars>>
<1>1. /\ spawned + 1 \in Workers /\ spawned + 1 > spawned /\ spawned' = spawned + 1
      /\ pc' = [pc EXCEPT ![spawned + 1] = "claim"] /\ caller = "spawning"
      /\ UNCHANGED <<caller, idx, sharedVars, dataVars, serviceVars>>
  BY DownloadAssumption DEF Inv, TypeOK, SpawnWorker, Goto, Workers
<1>2. pc[spawned + 1] = "unborn"
  BY <1>1 DEF Inv, SpawnInv
<1> QED
  BY <1>1, <1>2 DEF Inv, CloseInv

\* What every step of a worker leaves alone: the caller, the service, and the
\* other workers.
LEMMA WorkerMoves ==
    ASSUME NEW w \in Workers, TypeOK, Worker(w)
    PROVE  /\ UNCHANGED <<callerVars, serviceVars>>
           /\ pc' = [pc EXCEPT ![w] = pc'[w]]
           /\ pc[w] \notin {"unborn", "done"}
           /\ pc'[w] # "unborn"
           /\ pc[w] # "publish" => UNCHANGED task_promise
           /\ pc[w] # "retire" => UNCHANGED num_workers
           /\ pc[w] # "read" => UNCHANGED dataVars
           /\ pc[w] # "claim" => UNCHANGED <<idx, block_index>>
           /\ pc[w] \notin {"exchange", "reason"} => UNCHANGED <<failed, failed_reason>>
<1> USE DEF TypeOK, Goto, sharedVars, dataVars
<1>1. CASE ClaimBlock(w) \/ LeaveLoop(w) \/ StartRead(w)
  BY <1>1 DEF ClaimBlock, LeaveLoop, StartRead
<1>2. CASE AttemptCut(w) \/ ReadSucceeds(w) \/ ReadFails(w)
  BY <1>2 DEF AttemptCut, ReadSucceeds, ReadFails
<1>3. CASE RecordFailure(w) \/ WriteReason(w) \/ Retire(w) \/ Publish(w)
  BY <1>3 DEF RecordFailure, WriteReason, Retire, Publish
<1> QED
  BY <1>1, <1>2, <1>3 DEF Worker

\* The places a worker moves between.
LEMMA Places ==
    ASSUME NEW w \in Workers, TypeOK, Worker(w)
    PROVE  /\ pc[w] = "claim" => ClaimBlock(w) /\ pc'[w] = "check"
           /\ pc[w] = "check" => \/ LeaveLoop(w) /\ pc'[w] = "retire"
                                 \/ StartRead(w) /\ pc'[w] = "read"
           /\ pc[w] = "read" => \/ AttemptCut(w) /\ pc'[w] = "read"
                                \/ ReadSucceeds(w) /\ pc'[w] = "claim"
                                \/ ReadFails(w) /\ pc'[w] = "exchange"
           /\ pc[w] = "exchange" => RecordFailure(w) /\ pc'[w] \in {"claim", "reason"}
           /\ pc[w] = "reason" => WriteReason(w) /\ pc'[w] = "claim"
           /\ pc[w] = "retire" => Retire(w) /\ pc'[w] \in {"publish", "done"}
           /\ pc[w] = "publish" => Publish(w) /\ pc'[w] = "done"
           /\ pc[w] \in {"claim", "check", "read", "exchange", "reason", "retire", "publish"}
<1> USE DEF TypeOK, Goto
<1>1. CASE ClaimBlock(w) \/ LeaveLoop(w) \/ StartRead(w)
  BY <1>1 DEF ClaimBlock, LeaveLoop, StartRead
<1>2. CASE AttemptCut(w) \/ ReadSucceeds(w) \/ ReadFails(w)
  BY <1>2 DEF AttemptCut, ReadSucceeds, ReadFails
<1>3. CASE RecordFailure(w) \/ WriteReason(w) \/ Retire(w) \/ Publish(w)
  BY <1>3 DEF RecordFailure, WriteReason, Retire, Publish
<1> QED
  BY <1>1, <1>2, <1>3 DEF Worker

\* No worker is at work before the call began.
LEMMA Called == ASSUME Inv, NEW w \in Workers, Worker(w) PROVE caller # "start"
<1>1. pc[w] # "unborn"
  BY WorkerMoves DEF Inv
<1>2. ~(w > spawned) /\ w \in Nat /\ w >= 1
  BY <1>1, DownloadAssumption DEF Inv, SpawnInv, Workers
<1> QED
  BY <1>2 DEF Inv, SpawnInv

-----------------------------------------------------------------------------
(* Each part of the invariant is kept by every step. *)

\* A worker at "read" holds a block of the buffer.
LEMMA ReadsBlock ==
    ASSUME Inv, NEW w \in Workers, pc[w] = "read"
    PROVE  idx[w] \in Blocks /\ answered[idx[w]] = "none"
BY DEF Inv, WriterInv, Writing

LEMMA TypeStep == ASSUME Inv, [Next]_vars PROVE TypeOK'
<1> USE DownloadAssumption DEF Reading
<1>0. TypeOK
  BY DEF Inv
<1>1. CASE SpawnWorker
  <2>1. /\ spawned' \in 0..Parallelism
        /\ pc' \in [Workers -> {"unborn", "claim", "check", "retire", "publish", "done"}
                                  \cup Reading]
    BY <1>0, <1>1, Spawn DEF TypeOK, Workers
  <2>2. UNCHANGED <<caller, idx, sharedVars, dataVars, serviceVars>>
    BY <1>1, Spawn
  <2> QED
    BY <1>0, <2>1, <2>2 DEF TypeOK, sharedVars, dataVars, serviceVars
<1>2. ASSUME \A w \in Workers : ~Worker(w), ~SpawnWorker PROVE TypeOK'
  <2>1. /\ UNCHANGED <<pc, idx, spawned, block_index, failed, failed_reason,
                       task_promise, dataVars>>
        /\ caller' \in {"start", "spawning", "returned", "threw"}
    BY <1>0, <1>2, Others DEF TypeOK, Prepare
  <2>2. num_workers' \in 0..Parallelism
    BY <1>0, <1>2, Others DEF TypeOK, Prepare, WorkersAtStart
  <2>3. blob' \in Versions \ replaced' /\ replaced' \subseteq Versions
    BY <1>0, <1>2, Others DEF TypeOK, Replace, serviceVars
  <2> QED
    BY <1>0, <2>1, <2>2, <2>3 DEF TypeOK, dataVars
<1>3. ASSUME NEW w \in Workers, Worker(w) PROVE TypeOK'
  <2> USE <1>0, <1>3 DEF TypeOK
  <2>1. pc' \in [Workers -> {"unborn", "claim", "check", "retire", "publish", "done"}
                                \cup Reading]
    BY WorkerMoves, Places
  <2>2. idx' \in [Workers -> Nat] /\ block_index' \in Nat
    <3>1. CASE ClaimBlock(w)
      BY <3>1 DEF ClaimBlock
    <3>2. CASE ~ClaimBlock(w)
      BY <3>2, WorkerMoves, Places
    <3> QED
      BY <3>1, <3>2
  <2>3. failed' \in BOOLEAN /\ failed_reason' \in {"none", "get_blob"}
    <3>1. CASE RecordFailure(w) \/ WriteReason(w)
      BY <3>1 DEF RecordFailure, WriteReason
    <3>2. CASE ~RecordFailure(w) /\ ~WriteReason(w)
      BY <3>2, WorkerMoves, Places
    <3> QED
      BY <3>1, <3>2
  <2>4. num_workers' \in 0..Parallelism
    <3>1. CASE Retire(w)
      <4>1. w \in Active /\ caller # "start"
        BY <3>1, Called DEF Retire, Active, Looping
      <4>2. num_workers = Cardinality(Active) /\ Cardinality(Active) >= 1
        BY <4>1, ActiveMinusOne DEF Inv, CountInv
      <4> QED
        BY <3>1, <4>2 DEF Retire
    <3>2. CASE ~Retire(w)
      BY <3>2, WorkerMoves, Places
    <3> QED
      BY <3>1, <3>2
  <2>5. task_promise' \in {"unset", "ok", "none", "get_blob"}
    <3>1. CASE Publish(w)
      BY <3>1 DEF Publish
    <3>2. CASE ~Publish(w)
      BY <3>2, WorkerMoves, Places
    <3> QED
      BY <3>1, <3>2
  <2>6. /\ buffer' \in [Cells -> Versions \cup {"old"}]
        /\ answered' \in [Blocks -> Versions \cup {"none"}]
        /\ cuts' \in 0..MaxCuts
    <3>1. CASE AttemptCut(w)
      BY <3>1 DEF AttemptCut, Deliver
    <3>2. CASE ReadSucceeds(w)
      BY <3>2 DEF ReadSucceeds, Deliver
    <3>3. CASE ~AttemptCut(w) /\ ~ReadSucceeds(w)
      <4>1. UNCHANGED dataVars
        BY <3>3, WorkerMoves, Places DEF ReadFails
      <4> QED
        BY <4>1 DEF dataVars
    <3> QED
      BY <3>1, <3>2, <3>3
  <2> QED
    BY <2>1, <2>2, <2>3, <2>4, <2>5, <2>6, WorkerMoves DEF callerVars, serviceVars
<1> QED
  BY <1>1, <1>2, <1>3

LEMMA SpawnStep == ASSUME Inv, [Next]_vars PROVE SpawnInv'
<1> USE DownloadAssumption
<1>0. TypeOK /\ SpawnInv
  BY DEF Inv
<1>1. CASE SpawnWorker
  BY <1>0, <1>1, Spawn DEF SpawnInv, TypeOK, Workers
<1>2. ASSUME \A w \in Workers : ~Worker(w), ~SpawnWorker PROVE SpawnInv'
  BY <1>0, <1>2, Others DEF SpawnInv, Prepare, SpawnThrows
<1>3. ASSUME NEW w \in Workers, Worker(w) PROVE SpawnInv'
  <2>1. caller # "start"
    BY <1>3, Called
  <2> QED
    BY <1>0, <1>3, <2>1, WorkerMoves DEF SpawnInv, TypeOK, callerVars
<1> QED
  BY <1>1, <1>2, <1>3

LEMMA CountStep == ASSUME Inv, [Next]_vars PROVE CountInv'
<1>0. TypeOK /\ SpawnInv /\ CountInv
  BY DEF Inv
<1>1. CASE SpawnWorker
  <2>1. Active' = Active
    BY <1>0, <1>1, Spawn DEF Active, Looping, TypeOK
  <2> QED
    BY <1>0, <1>1, <2>1, Spawn DEF CountInv, sharedVars
<1>2. ASSUME \A w \in Workers : ~Worker(w), ~SpawnWorker PROVE CountInv'
  <2>1. Active' = Active
    BY <1>2, Others DEF Active
  <2>2. CASE Prepare
    <3>1. Active = Workers
      BY <1>0, <2>2 DEF Prepare, SpawnInv, Active, Looping, Workers
    <3> QED
      BY <2>1, <2>2, <3>1, WorkersFinite DEF CountInv, Prepare, WorkersAtStart
  <2>3. CASE ~Prepare
    BY <1>0, <1>2, <2>1, <2>3, Others DEF CountInv
  <2> QED
    BY <2>2, <2>3
<1>3. ASSUME NEW w \in Workers, Worker(w) PROVE CountInv'
  <2>1. caller # "start" /\ num_workers = Cardinality(Active)
    BY <1>0, <1>3, Called DEF CountInv
  <2>2. CASE Retire(w)
    <3>1. w \in Active /\ num_workers' = num_workers - 1
      BY <2>2 DEF Retire, Active, Looping
    <3>2. Active' = Active \ {w}
      BY <1>0, <2>2 DEF Retire, Goto, Active, Looping, Reading, TypeOK
    <3> QED
      BY <2>1, <3>1, <3>2, ActiveMinusOne DEF CountInv
  <2>3. CASE ~Retire(w)
    <3>1. pc[w] # "retire" /\ (pc'[w] \in Looping <=> pc[w] \in Looping)
      BY <1>0, <1>3, <2>3, Places DEF Looping, Reading
    <3>2. Active' = Active
      BY <1>0, <1>3, <3>1, WorkerMoves DEF Active, TypeOK
    <3> QED
      BY <1>0, <1>3, <2>1, <3>1, <3>2, WorkerMoves DEF CountInv
  <2> QED
    BY <2>2, <2>3
<1> QED
  BY <1>1, <1>2, <1>3

\* A worker comes to "publish" only from "retire", when the count is one.
LEMMA CloseStep == ASSUME Inv, [Next]_vars PROVE CloseInv'
<1>0. TypeOK /\ SpawnInv /\ CountInv /\ CloseInv
  BY DEF Inv
<1>1. CASE SpawnWorker
  <2>1. \A w \in Workers : pc'[w] # "publish"
    BY <1>0, <1>1, Spawn DEF TypeOK
  <2> QED
    BY <1>1, <2>1, Spawn DEF CloseInv, sharedVars
<1>2. ASSUME \A w \in Workers : ~Worker(w), ~SpawnWorker PROVE CloseInv'
  <2>1. CASE Prepare
    <3>1. \A w \in Workers : pc[w] = "unborn"
      BY <1>0, <2>1 DEF Prepare, SpawnInv, Workers
    <3> QED
      BY <1>0, <2>1, <3>1 DEF Prepare, SpawnInv, CloseInv
  <2>2. CASE ~Prepare
    BY <1>0, <1>2, <2>2, Others DEF CloseInv
  <2> QED
    BY <2>1, <2>2
<1>3. ASSUME NEW w \in Workers, Worker(w) PROVE CloseInv'
  <2>1. task_promise = "unset"
    BY <1>0, <1>3, WorkerMoves DEF CloseInv
  <2>2. CASE Retire(w)
    <3>1. w \in Active /\ num_workers = Cardinality(Active) /\ num_workers >= 1
      <4>1. w \in Active
        BY <2>2 DEF Retire, Active, Looping
      <4>2. caller # "start"
        BY <1>3, Called
      <4>3. Cardinality(Active) >= 1
        BY <4>1, ActiveMinusOne
      <4>4. num_workers = Cardinality(Active)
        BY <1>0, <4>2 DEF CountInv
      <4> QED
        BY <1>0, <4>1, <4>3, <4>4, ActiveFinite DEF TypeOK
    <3>2. \A v \in Workers : pc[v] # "publish"
      BY <1>0, <3>1 DEF CloseInv, TypeOK
    <3>3. CASE num_workers = 1
      <4>1. \A v \in Workers \ {w} : pc[v] = "done"
        <5>1. Active = {w}
          BY <3>1, <3>3, ActiveMinusOne
        <5>2. \A v \in Workers : pc[v] \in Looping \cup {"publish", "done"}
          BY <1>0 DEF TypeOK, Looping, Reading
        <5> QED
          BY <3>2, <5>1, <5>2 DEF Active
      <4>2. num_workers' = 0 /\ task_promise' = "unset"
        BY <2>1, <2>2, <3>3 DEF Retire
      <4> QED
        BY <1>0, <1>3, <4>1, <4>2, WorkerMoves DEF CloseInv, TypeOK
    <3>4. CASE num_workers # 1
      <4>1. pc'[w] = "done" /\ task_promise' = "unset"
        BY <1>0, <2>1, <2>2, <3>4 DEF Retire, IsLast, Goto, TypeOK
      <4> QED
        BY <1>0, <1>3, <3>2, <4>1, WorkerMoves DEF CloseInv, TypeOK
    <3> QED
      BY <3>3, <3>4
  <2>3. CASE Publish(w)
    <3>1. \A v \in Workers \ {w} : pc[v] = "done"
      BY <1>0, <2>3 DEF Publish, CloseInv
    <3> QED
      BY <1>0, <1>3, <2>3, <3>1, WorkerMoves, Places DEF CloseInv, TypeOK, Publish
  <2>4. CASE ~Retire(w) /\ ~Publish(w)
    <3>1. pc[w] \notin {"retire", "publish"} /\ pc'[w] # "publish"
      BY <1>0, <1>3, <2>4, Places
    <3> QED
      BY <1>0, <1>3, <2>1, <3>1, WorkerMoves DEF CloseInv, TypeOK
  <2> QED
    BY <2>2, <2>3, <2>4
<1> QED
  BY <1>1, <1>2, <1>3

\* What a successful read does.
LEMMA Success ==
    ASSUME Inv, NEW w \in Workers, ReadSucceeds(w)
    PROVE  /\ pc[w] = "read" /\ pc' = [pc EXCEPT ![w] = "claim"] /\ pc'[w] = "claim"
           /\ UNCHANGED <<idx, block_index, failed, blob, replaced>>
           /\ idx[w] \in Blocks /\ answered[idx[w]] = "none"
           /\ blob \in Versions /\ blob # "none"
           /\ answered' = [answered EXCEPT ![idx[w]] = blob]
           /\ answered'[idx[w]] = blob
<1>1. pc[w] = "read" /\ pc' = [pc EXCEPT ![w] = "claim"]
      /\ UNCHANGED <<idx, block_index, failed, blob, replaced>>
      /\ answered' = [answered EXCEPT ![idx[w]] = blob]
  BY DEF ReadSucceeds, Goto, sharedVars, serviceVars
<1>2. idx[w] \in Blocks /\ answered[idx[w]] = "none"
  BY <1>1, ReadsBlock
<1>3. blob \in Versions /\ blob # "none"
  BY VersionsAssumption DEF Inv, TypeOK
<1>4. pc'[w] = "claim"
  BY <1>1 DEF Inv, TypeOK
<1>5. answered'[idx[w]] = blob
  BY <1>1, <1>2 DEF Inv, TypeOK
<1> QED
  BY <1>1, <1>2, <1>3, <1>4, <1>5

\* An answer is kept; only a worker that reads its block gives one.
LEMMA Answers ==
    ASSUME Inv, NEW w \in Workers, Worker(w)
    PROVE  \/ UNCHANGED answered
           \/ /\ ReadSucceeds(w) /\ blob \in Versions /\ blob # "none"
              /\ answered' = [answered EXCEPT ![idx[w]] = blob]
<1>1. CASE ReadSucceeds(w)
  BY <1>1, VersionsAssumption DEF ReadSucceeds, Inv, TypeOK
<1>2. CASE AttemptCut(w) \/ ReadFails(w)
  BY <1>2 DEF AttemptCut, ReadFails, dataVars
<1>3. CASE ~ReadSucceeds(w) /\ ~AttemptCut(w) /\ ~ReadFails(w)
  BY <1>3, WorkerMoves, Places DEF dataVars, Inv
<1> QED
  BY <1>1, <1>2, <1>3

LEMMA BlockStep == ASSUME Inv, [Next]_vars PROVE BlockInv'
<1>0. /\ TypeOK /\ SpawnInv /\ BlockInv /\ Blocks \subseteq Nat /\ num_blocks \in Nat
      /\ block_index \in Nat /\ idx \in [Workers -> Nat]
      /\ answered \in [Blocks -> Versions \cup {"none"}]
  BY NumBlocksNat DEF Inv, TypeOK
<1> USE DEF InHand, Left, Claimed
<1>1. CASE SpawnWorker
  BY <1>0, <1>1, Spawn DEF BlockInv, TypeOK, sharedVars, dataVars
<1>2. ASSUME \A w \in Workers : ~Worker(w), ~SpawnWorker PROVE BlockInv'
  BY <1>0, <1>2, Others DEF BlockInv, dataVars
<1>3. ASSUME NEW w \in Workers, Worker(w) PROVE BlockInv'
  <2>0. pc' = [pc EXCEPT ![w] = pc'[w]] /\ pc \in [Workers -> {"unborn", "claim",
            "check", "retire", "publish", "done"} \cup Reading]
    BY <1>0, <1>3, WorkerMoves DEF TypeOK
  <2>1. CASE ClaimBlock(w)
    <3>1. /\ pc[w] = "claim" /\ pc'[w] = "check"
          /\ idx' = [idx EXCEPT ![w] = block_index] /\ block_index' = block_index + 1
          /\ UNCHANGED <<failed, answered>>
      BY <1>0, <1>3, <2>1, Places DEF ClaimBlock, dataVars
    <3>2. \A b \in Blocks : b < block_index' => b < block_index \/ b = block_index
      BY <1>0, <3>1
    <3>3. \A v \in Workers : pc'[v] \in Claimed => idx'[v] < block_index'
      BY <1>0, <2>0, <3>1 DEF BlockInv
    <3>4. \A b \in Blocks : b < block_index' =>
              answered'[b] # "none" \/ failed' \/
              \E v \in Workers : idx'[v] = b /\ pc'[v] \in InHand
      <4> SUFFICES ASSUME NEW b \in Blocks, b < block_index', answered[b] = "none", ~failed
                   PROVE  \E v \in Workers : idx'[v] = b /\ pc'[v] \in InHand
        BY <3>1
      <4>1. CASE b = block_index
        BY <1>0, <2>0, <3>1, <4>1
      <4>2. CASE b < block_index
        <5>1. PICK v \in Workers : idx[v] = b /\ pc[v] \in InHand
          BY <1>0, <4>2 DEF BlockInv
        <5>2. v # w
          BY <3>1, <5>1
        <5> QED
          BY <1>0, <2>0, <3>1, <5>1, <5>2
      <4> QED
        BY <3>2, <4>1, <4>2
    <3>5. \A v \in Workers : pc'[v] \in Left => idx'[v] >= num_blocks \/ failed'
      BY <1>0, <2>0, <3>1 DEF BlockInv
    <3> QED
      BY <3>3, <3>4, <3>5 DEF BlockInv
  <2>2. CASE ~ClaimBlock(w)
    <3>1. UNCHANGED <<idx, block_index>> /\ pc[w] \in Claimed
      BY <1>0, <1>3, <2>2, WorkerMoves, Places
    <3>2. failed => failed'
      <4>1. CASE RecordFailure(w) \/ WriteReason(w)
        BY <4>1 DEF RecordFailure, WriteReason
      <4>2. CASE ~RecordFailure(w) /\ ~WriteReason(w)
        BY <1>0, <1>3, <4>2, WorkerMoves, Places
      <4> QED
        BY <4>1, <4>2
    <3>3. \A b \in Blocks : answered[b] # "none" => answered'[b] # "none"
      BY <1>0, <1>3, Answers
    <3>4. pc'[w] \in Left => pc[w] \in Left \/ MustLeave(w)
      BY <1>0, <1>3, Places DEF LeaveLoop
    <3>5. pc[w] \in InHand => \/ pc'[w] \in InHand
                              \/ idx[w] \in Blocks /\ answered'[idx[w]] # "none"
                              \/ failed'
                              \/ MustLeave(w)
      <4>1. CASE ReadSucceeds(w)
        BY <4>1, Success
      <4>2. CASE RecordFailure(w)
        BY <4>2 DEF RecordFailure
      <4>3. CASE ~ReadSucceeds(w) /\ ~RecordFailure(w)
        BY <1>0, <1>3, <4>3, Places DEF LeaveLoop
      <4> QED
        BY <4>1, <4>2, <4>3
    <3>6. \A v \in Workers : pc'[v] \in Claimed => idx'[v] < block_index'
      BY <1>0, <2>0, <3>1 DEF BlockInv
    <3>7. \A b \in Blocks : b < block_index' =>
              answered'[b] # "none" \/ failed' \/
              \E v \in Workers : idx'[v] = b /\ pc'[v] \in InHand
      <4> SUFFICES ASSUME NEW b \in Blocks, b < block_index, answered'[b] = "none", ~failed'
                   PROVE  \E v \in Workers : idx'[v] = b /\ pc'[v] \in InHand
        BY <3>1
      <4>1. PICK v \in Workers : idx[v] = b /\ pc[v] \in InHand
        BY <1>0, <3>2, <3>3 DEF BlockInv
      <4>2. ~(idx[v] >= num_blocks)
        BY <1>0, <4>1 DEF Blocks
      <4>3. CASE v = w
        BY <2>0, <3>1, <3>2, <3>5, <4>1, <4>2, <4>3 DEF MustLeave
      <4>4. CASE v # w
        BY <2>0, <3>1, <4>1, <4>4
      <4> QED
        BY <4>3, <4>4
    <3>8. \A v \in Workers : pc'[v] \in Left => idx'[v] >= num_blocks \/ failed'
      BY <1>0, <2>0, <3>1, <3>2, <3>4 DEF BlockInv, MustLeave
    <3> QED
      BY <3>6, <3>7, <3>8 DEF BlockInv
  <2> QED
    BY <2>1, <2>2
<1> QED
  BY <1>1, <1>2, <1>3

LEMMA WriterStep == ASSUME Inv, [Next]_vars PROVE WriterInv'
<1>0. /\ TypeOK /\ BlockInv /\ WriterInv /\ Blocks \subseteq Nat /\ num_blocks \in Nat
      /\ block_index \in Nat /\ idx \in [Workers -> Nat]
      /\ answered \in [Blocks -> Versions \cup {"none"}]
  BY NumBlocksNat DEF Inv, TypeOK
<1> USE DEF Writing
<1>1. CASE SpawnWorker
  BY <1>0, <1>1, Spawn DEF WriterInv, TypeOK, sharedVars, dataVars
<1>2. ASSUME \A w \in Workers : ~Worker(w), ~SpawnWorker PROVE WriterInv'
  BY <1>0, <1>2, Others DEF WriterInv, dataVars
<1>3. ASSUME NEW w \in Workers, Worker(w) PROVE WriterInv'
  <2>0. pc' = [pc EXCEPT ![w] = pc'[w]] /\ pc \in [Workers -> {"unborn", "claim",
            "check", "retire", "publish", "done"} \cup Reading]
    BY <1>0, <1>3, WorkerMoves DEF TypeOK
  <2>1. CASE ClaimBlock(w)
    <3>1. /\ pc[w] = "claim" /\ pc'[w] = "check"
          /\ idx' = [idx EXCEPT ![w] = block_index] /\ block_index' = block_index + 1
          /\ UNCHANGED <<failed, answered>>
      BY <1>0, <1>3, <2>1, Places DEF ClaimBlock, dataVars
    <3>2. \A v \in Workers : pc[v] \in Writing => idx[v] # block_index
      BY <1>0 DEF BlockInv, Claimed, InHand
    <3>3. \A b \in Blocks : answered[b] # "none" => b < block_index
      BY <1>0 DEF WriterInv
    <3>4. block_index \in Blocks => answered[block_index] = "none"
      BY <1>0, <3>3
    <3>5. \A b \in Blocks : answered'[b] # "none" => b < block_index'
      BY <1>0, <3>1, <3>3
    <3>6. \A v \in Workers : pc'[v] \in Writing /\ idx'[v] \in Blocks => answered'[idx'[v]] = "none"
      BY <1>0, <2>0, <3>1, <3>4 DEF WriterInv
    <3>7. \A v, u \in Workers :
             v # u /\ pc'[v] \in Writing /\ pc'[u] \in Writing => idx'[v] # idx'[u]
      BY <1>0, <2>0, <3>1, <3>2 DEF WriterInv
    <3>8. \A v \in Workers : pc'[v] = "read" => idx'[v] \in Blocks
      BY <1>0, <2>0, <3>1 DEF WriterInv
    <3> QED
      BY <3>5, <3>6, <3>7, <3>8 DEF WriterInv
  <2>2. CASE ReadSucceeds(w)
    <3>1. /\ pc[w] = "read" /\ pc'[w] = "claim" /\ UNCHANGED <<idx, block_index>>
          /\ answered' = [answered EXCEPT ![idx[w]] = blob] /\ idx[w] \in Blocks
      BY <2>2, Success
    <3>2. idx[w] < block_index
      BY <1>0, <3>1 DEF BlockInv, Claimed, InHand
    <3> QED
      BY <1>0, <2>0, <3>1, <3>2 DEF WriterInv
  <2>3. CASE ~ClaimBlock(w) /\ ~ReadSucceeds(w)
    <3>1. UNCHANGED <<idx, block_index, answered>> /\ (pc'[w] \in Writing => pc[w] \in Writing)
      BY <1>0, <1>3, <2>3, WorkerMoves, Places, Answers
    <3>2. pc'[w] = "read" => idx[w] \in Blocks
      <4>1. CASE StartRead(w)
        BY <1>0, <4>1 DEF StartRead, MustLeave, Blocks
      <4>2. CASE ~StartRead(w)
        BY <1>0, <1>3, <4>2, Places DEF WriterInv
      <4> QED
        BY <4>1, <4>2
    <3> QED
      BY <1>0, <2>0, <3>1, <3>2 DEF WriterInv
  <2> QED
    BY <2>1, <2>2, <2>3
<1> QED
  BY <1>1, <1>2, <1>3

\* A worker writes to no cell of a block that was answered.
LEMMA DataStep == ASSUME Inv, [Next]_vars PROVE DataInv'
<1>0. /\ TypeOK /\ DataInv /\ blob \in Versions
      /\ answered \in [Blocks -> Versions \cup {"none"}]
  BY DEF Inv, TypeOK
<1>1. CASE SpawnWorker
  BY <1>0, <1>1, Spawn DEF DataInv, Placed, dataVars, serviceVars
<1>2. ASSUME \A w \in Workers : ~Worker(w), ~SpawnWorker PROVE DataInv'
  <2>1. UNCHANGED <<answered, buffer>> /\ replaced \cup {blob} \subseteq replaced' \cup {blob'}
    BY <1>2, Others DEF Replace, serviceVars, dataVars
  <2> QED
    BY <1>0, <2>1 DEF DataInv, Placed
<1>3. ASSUME NEW w \in Workers, Worker(w) PROVE DataInv'
  <2>1. UNCHANGED <<blob, replaced>>
    BY <1>0, <1>3, WorkerMoves DEF serviceVars
  <2>2. ASSUME NEW n \in Nat, NEW b \in Blocks, pc[w] = "read", b # idx[w],
               n <= Reached(idx[w], blob), Deliver(w, n), answered[b] # "none"
        PROVE  answered[b] \in (replaced \cup {blob}) /\
               \A c \in Cells : c - First(b) \in 0..(Reached(b, answered[b]) - 1)
                                    => buffer'[c] = answered[b]
    <3>1. idx[w] \in Blocks /\ answered[b] \in Versions
      BY <1>0, <2>2, ReadsBlock
    <3>2. answered[b] \in (replaced \cup {blob}) /\ Placed(b)
      BY <1>0, <2>2 DEF DataInv
    <3>3. \A c \in Cells : c - First(b) \in 0..(Reached(b, answered[b]) - 1)
                               => buffer'[c] = buffer[c]
      BY <1>0, <2>2, <3>1, DeliverElsewhere
    <3> QED
      BY <3>2, <3>3 DEF Placed
  <2>3. CASE AttemptCut(w)
    <3>1. /\ pc[w] = "read" /\ answered' = answered
          /\ idx[w] \in Blocks /\ answered[idx[w]] = "none"
      BY <2>3, ReadsBlock DEF AttemptCut
    <3>2. PICK n \in 1..Reached(idx[w], blob) : Deliver(w, n)
      BY <2>3 DEF AttemptCut
    <3>3. n \in Nat /\ n <= Reached(idx[w], blob)
      BY <3>2
    <3> QED
      BY <2>1, <2>2, <3>1, <3>2, <3>3 DEF DataInv, Placed
  <2>4. CASE ReadSucceeds(w)
    <3> DEFINE n == Reached(idx[w], blob)
    <3>1. /\ pc[w] = "read" /\ idx[w] \in Blocks
          /\ answered' = [answered EXCEPT ![idx[w]] = blob] /\ answered'[idx[w]] = blob
      BY <2>4, Success
    <3>2. n \in Nat /\ Deliver(w, n)
      <4>1. n > 0 /\ Deliver(w, n)
        BY <2>4 DEF ReadSucceeds
      <4>2. First(idx[w]) \in Int /\ LengthOf[blob] \in Nat
        <5>1. idx[w] \in Nat
          BY <3>1, NumBlocksNat
        <5>2. LengthOf[blob] \in Nat
          BY <1>0, DownloadAssumption
        <5> QED
          BY <5>1, <5>2, DownloadAssumption DEF First
      <4>3. n \in Int
        BY <4>2, DownloadAssumption DEF Reached, Wanted, Least
      <4> QED
        BY <4>1, <4>3
    <3>3. \A b \in Blocks : b # idx[w] => answered'[b] = answered[b]
      BY <1>0, <3>1
    <3>4. ASSUME NEW c \in Cells, c - First(idx[w]) \in 0..(n - 1) PROVE buffer'[c] = blob
      BY <3>2, <3>4 DEF Deliver
    <3>5. ASSUME NEW b \in Blocks, b # idx[w], answered[b] # "none"
          PROVE  answered[b] \in (replaced \cup {blob}) /\
                 \A c \in Cells : c - First(b) \in 0..(Reached(b, answered[b]) - 1)
                                      => buffer'[c] = answered[b]
      <4>1. n <= Reached(idx[w], blob)
        BY <3>2
      <4> HIDE DEF n
      <4> QED
        BY <2>2, <3>1, <3>2, <3>5, <4>1
    <3> QED
      BY <2>1, <3>1, <3>3, <3>4, <3>5 DEF DataInv, Placed
  <2>5. CASE ~AttemptCut(w) /\ ~ReadSucceeds(w)
    <3>1. UNCHANGED dataVars
      BY <1>0, <1>3, <2>5, WorkerMoves, Places DEF ReadFails
    <3> QED
      BY <1>0, <2>1, <3>1 DEF DataInv, Placed, dataVars
  <2> QED
    BY <2>3, <2>4, <2>5
<1> QED
  BY <1>1, <1>2, <1>3

LEMMA ReasonStep == ASSUME Inv, [Next]_vars PROVE ReasonInv'
<1>0. /\ TypeOK /\ ReasonInv
      /\ pc \in [Workers -> {"unborn", "claim", "check", "retire", "publish", "done"}
                                \cup Reading]
  BY DEF Inv, TypeOK
<1>1. CASE SpawnWorker
  BY <1>0, <1>1, Spawn DEF ReasonInv, sharedVars
<1>2. ASSUME \A w \in Workers : ~Worker(w), ~SpawnWorker PROVE ReasonInv'
  BY <1>0, <1>2, Others DEF ReasonInv
<1>3. ASSUME NEW w \in Workers, Worker(w) PROVE ReasonInv'
  <2>0. pc' = [pc EXCEPT ![w] = pc'[w]]
    BY <1>0, <1>3, WorkerMoves
  <2>1. CASE RecordFailure(w)
    <3>1. /\ pc[w] = "exchange" /\ failed' /\ failed_reason' = failed_reason
          /\ pc'[w] = IF failed THEN "claim" ELSE "reason"
      BY <1>0, <2>1 DEF RecordFailure, Goto
    <3> QED
      BY <1>0, <2>0, <3>1 DEF ReasonInv
  <2>2. CASE WriteReason(w)
    <3>1. /\ pc[w] = "reason" /\ pc'[w] = "claim" /\ failed' = failed
          /\ failed_reason' = "get_blob"
      BY <1>0, <2>2 DEF WriteReason, Goto
    <3> QED
      BY <1>0, <2>0, <3>1 DEF ReasonInv
  <2>3. CASE ~RecordFailure(w) /\ ~WriteReason(w)
    <3>1. /\ pc[w] # "reason" /\ pc'[w] # "reason"
          /\ UNCHANGED <<failed, failed_reason>>
      BY <1>0, <1>3, <2>3, WorkerMoves, Places
    <3> QED
      BY <1>0, <2>0, <3>1 DEF ReasonInv
  <2> QED
    BY <2>1, <2>2, <2>3
<1> QED
  BY <1>1, <1>2, <1>3

\* A worker that publishes is alone with the last number: every block before it
\* was answered, or something failed and its reason is written.
LEMMA VerdictStep == ASSUME Inv, [Next]_vars PROVE VerdictInv'
<1>0. TypeOK /\ VerdictInv /\ answered \in [Blocks -> Versions \cup {"none"}]
  BY DEF Inv, TypeOK
<1>1. CASE SpawnWorker
  BY <1>0, <1>1, Spawn DEF VerdictInv, sharedVars, dataVars
<1>2. ASSUME \A w \in Workers : ~Worker(w), ~SpawnWorker PROVE VerdictInv'
  BY <1>0, <1>2, Others DEF VerdictInv, dataVars
<1>3. ASSUME NEW w \in Workers, Worker(w) PROVE VerdictInv'
  <2>1. CASE Publish(w)
    <3>1. /\ pc[w] = "publish" /\ answered' = answered
          /\ task_promise' = IF failed THEN failed_reason ELSE "ok"
      BY <2>1 DEF Publish, dataVars
    <3>2. \A v \in Workers : pc[v] \notin InHand \cup {"reason"}
      BY <3>1 DEF Inv, CloseInv, InHand
    <3>3. failed => failed_reason = "get_blob"
      BY <1>0, <3>2 DEF Inv, ReasonInv, TypeOK
    <3>4. ASSUME ~failed, NEW b \in Blocks PROVE answered[b] # "none"
      <4>1. idx[w] >= num_blocks /\ idx[w] < block_index
        BY <3>1, <3>4 DEF Inv, BlockInv, Left, Claimed
      <4>2. b < block_index
        BY <4>1, NumBlocksNat DEF Blocks, Inv, TypeOK
      <4> QED
        BY <3>2, <3>4, <4>2 DEF Inv, BlockInv
    <3> QED
      BY <3>1, <3>3, <3>4 DEF VerdictInv
  <2>2. CASE ~Publish(w)
    <3>1. task_promise' = task_promise
      BY <1>0, <1>3, <2>2, WorkerMoves, Places
    <3>2. \A b \in Blocks : answered[b] # "none" => answered'[b] # "none"
      BY <1>0, <1>3, Answers
    <3> QED
      BY <1>0, <3>1, <3>2 DEF VerdictInv
  <2> QED
    BY <2>1, <2>2
<1> QED
  BY <1>1, <1>2, <1>3

-----------------------------------------------------------------------------
(* The theorems. *)

\* Inv is an inductive invariant.
THEOREM Invariance == Safety => []Inv
<1>1. Inv /\ [Next]_vars => Inv'
  BY TypeStep, SpawnStep, CountStep, CloseStep, BlockStep, WriterStep, DataStep,
     ReasonStep, VerdictStep DEF Inv
<1> QED
  BY <1>1, InitInv, PTL DEF Safety

\* Every variable keeps its type: in particular num_workers never goes below zero.
THEOREM TypeCorrect == Safety => []TypeOK
<1>1. Inv => TypeOK
  BY DEF Inv
<1> QED
  BY <1>1, Invariance, PTL

LEMMA AnswersAreVersions ==
    ASSUME Inv, NEW b \in Blocks, answered[b] # "none"
    PROVE  answered[b] \in Versions /\ Placed(b) /\ (replaced = {} => answered[b] = blob)
BY DEF Inv, TypeOK, DataInv

\* Success means that every range was answered and lies in its place in the
\* caller's buffer, and that the buffer holds the blob when it was not replaced; a
\* failure carries its reason.
THEOREM FutureIsTruthful == Safety => []VerdictIsTruthful
<1>1. ASSUME Inv PROVE VerdictIsTruthful
  <2>1. ASSUME task_promise = "ok", NEW i \in Blocks
        PROVE  /\ answered[i] \in Versions /\ Placed(i)
               /\ replaced = {} => answered[i] = blob
    BY <1>1, <2>1, AnswersAreVersions DEF Inv, VerdictInv
  <2>2. ASSUME task_promise = "ok", replaced = {}, NEW c \in Cells, c < LengthOf[blob]
        PROVE  buffer[c] = blob
    <3>1. PICK i \in Blocks : c - First(i) \in 0..(Wanted(i) - 1)
      BY BlockOfCell
    <3>2. answered[i] = blob /\ Placed(i)
      BY <2>1, <2>2
    <3>3. blob \in Versions
      BY <1>1 DEF Inv, TypeOK
    <3>4. /\ c \in Int /\ LengthOf[blob] \in Nat /\ First(i) \in Int /\ Wanted(i) \in Int
      <4>1. i \in Nat /\ Cells \subseteq Int
        BY NumBlocksNat DEF Cells
      <4> QED
        BY <3>3, <4>1, DownloadAssumption DEF First, Wanted, Least
    <3>5. c - First(i) \in 0..(Reached(i, blob) - 1)
      BY <2>2, <3>1, <3>4 DEF Reached, Least
    <3> QED
      BY <3>2, <3>5 DEF Placed
  <2>3. task_promise # "none"
    BY <1>1 DEF Inv, VerdictInv
  <2> QED
    BY <2>1, <2>2, <2>3 DEF VerdictIsTruthful, Placed
<1> QED
  BY <1>1, Invariance, PTL

\* A ready future leaves no thread at work on the caller's buffer.
THEOREM ReadyMeansQuiet == Safety => []QuietWhenReady
<1>1. Inv => QuietWhenReady
  BY DEF Inv, CloseInv, QuietWhenReady
<1> QED
  BY <1>1, Invariance, PTL

-----------------------------------------------------------------------------
(* Refinement: the call, seen from outside, reads each block at one moment.  *)

\* While a thread is missing the promise is not fulfilled, nor will be.
LEMMA Incomplete ==
    ASSUME Inv, spawned < Parallelism
    PROVE  task_promise = "unset" /\ \A w \in Workers : pc[w] # "publish"
<1>1. Parallelism \in Workers /\ pc[Parallelism] = "unborn"
  BY DownloadAssumption DEF Inv, SpawnInv, Workers
<1> QED
  BY <1>1 DEF Inv, CloseInv

\* What a worker at work finds: no verdict, and unless the call threw a promise
\* that is pending.
LEMMA AtWork ==
    ASSUME Inv, NEW w \in Workers, Worker(w)
    PROVE  /\ task_promise = "unset" /\ UNCHANGED <<callerVars, serviceVars>>
           /\ pc[w] = "publish" => Pending
<1>1. pc[w] # "done" /\ UNCHANGED <<callerVars, serviceVars>>
  BY WorkerMoves DEF Inv
<1>2. task_promise = "unset"
  BY <1>1 DEF Inv, CloseInv
<1>3. caller = "threw" => pc[w] # "publish"
  BY Incomplete DEF Inv, SpawnInv
<1> QED
  BY <1>1, <1>2, <1>3 DEF Pending

\* A step that answers, tells and replaces nothing is a stutter.
LEMMA SilentStep ==
    ASSUME UNCHANGED <<answered, task_promise, serviceVars>>, Pending' = Pending,
           task_promise # "ok"
    PROVE  UNCHANGED Abstract!vars
<1>1. UNCHANGED Answered
  BY DEF Answered
<1>2. UNCHANGED <<Copy, Moved, Delivered, Told>>
  BY <1>1 DEF Copy, Moved, Delivered, Told, serviceVars
<1> QED
  BY <1>2 DEF Abstract!vars, serviceVars

\* The call, or the promise, fails: nothing is delivered.
LEMMA FailStep ==
    ASSUME Pending, ~Pending', task_promise' \in {"unset", "get_blob"}, blob' = blob
    PROVE  Abstract!Fail
<1>1. Told = "pending" /\ Told' = "failed"
  BY DEF Told
<1>2. Delivered' = {} /\ Copy' = {} /\ Moved' = FALSE
  BY DEF Delivered, Copy, Moved
<1> QED
  BY <1>1, <1>2 DEF Abstract!Fail, Abstract!End

\* What was answered of a block is in the buffer.
LEMMA BlockDelivered ==
    ASSUME Inv, NEW i \in Blocks, answered[i] # "none"
    PROVE  InBuffer(i, answered[i]) = Piece(i, answered[i])
<1> USE DownloadAssumption
<1> DEFINE n == Reached(i, answered[i])
<1>1. answered[i] \in Versions /\ Placed(i)
  BY AnswersAreVersions
<1>2. LengthOf[answered[i]] \in Nat /\ First(i) \in Nat /\ i \in Nat
  BY <1>1, NumBlocksNat DEF First
<1>3. n \in Int /\ First(i) + n <= Size
  BY <1>2 DEF Reached, Wanted, Least
<1>4. ASSUME NEW k \in 1..n PROVE buffer[First(i) + k - 1] = answered[i]
  <2> DEFINE c == First(i) + k - 1
  <2>1. c \in Cells /\ c - First(i) \in 0..(n - 1)
    BY <1>2, <1>3 DEF Cells
  <2> HIDE DEF c
  <2>2. buffer[c] = answered[i]
    BY <1>1, <2>1 DEF Placed
  <2> QED
    BY <2>2 DEF c
<1> HIDE DEF n
<1>5. [k \in 1..n |-> buffer[First(i) + k - 1]] = [k \in 1..n |-> answered[i]]
  BY <1>4
<1> QED
  BY <1>5 DEF InBuffer, Piece, n

\* The last worker finds every block answered, or a reason.
LEMMA PublishStep ==
    ASSUME Inv, Inv', NEW w \in Workers, Publish(w)
    PROVE  Abstract!Succeed \/ Abstract!Fail
<1>1. /\ pc[w] = "publish" /\ UNCHANGED <<callerVars, answered, buffer, serviceVars>>
      /\ Worker(w)
  BY DEF Publish, dataVars, Worker
<1>2. Pending
  BY <1>1, AtWork
<1>3. task_promise' \in {"ok", "get_blob"}
  BY DEF Inv, VerdictInv, TypeOK, Publish, ReasonInv
<1>4. ~Pending'
  BY <1>3 DEF Pending
<1>5. CASE task_promise' = "get_blob"
  BY <1>1, <1>2, <1>4, <1>5, FailStep DEF serviceVars
<1>6. CASE task_promise' = "ok"
  <2>1. \A i \in Blocks : answered[i] # "none"
    BY <1>1, <1>6 DEF Inv, VerdictInv
  <2>2. Answered = Blocks
    BY <2>1 DEF Answered
  <2>3. Copy = {<<i, Piece(i, answered[i])>> : i \in Blocks}
    BY <1>2, <2>2 DEF Copy
  <2>4. Delivered' = {<<i, InBuffer(i, answered[i])>> : i \in Blocks}
    BY <1>1, <1>6 DEF Delivered, InBuffer
  <2>5. Delivered' = Copy
    BY <2>1, <2>3, <2>4, BlockDelivered
  <2>6. ASSUME NEW i \in Blocks PROVE \E piece \in Copy : piece[1] = i
    <3>1. <<i, Piece(i, answered[i])>> \in Copy
      BY <2>3
    <3> QED
      BY <3>1
  <2>7. Told = "pending" /\ Told' = "ok" /\ Copy' = {} /\ Moved' = FALSE
    BY <1>2, <1>4, <1>6 DEF Told, Copy, Moved
  <2> QED
    BY <1>1, <2>5, <2>6, <2>7 DEF Abstract!Succeed, Abstract!End, serviceVars
<1> QED
  BY <1>3, <1>5, <1>6

\* The answer to a range is the moment its block is read.
LEMMA ReadStep ==
    ASSUME Inv, NEW w \in Workers, ReadSucceeds(w), Pending
    PROVE  Abstract!Read(idx[w])
<1> DEFINE i == idx[w]
<1>1. /\ i \in Blocks /\ answered[i] = "none" /\ blob \in Versions /\ blob # "none"
      /\ answered' = [answered EXCEPT ![i] = blob] /\ answered'[i] = blob
      /\ blob \notin replaced
  BY Success DEF Inv, TypeOK
<1>2. Worker(w) /\ task_promise' = task_promise
  BY DEF Worker, ReadSucceeds, sharedVars
<1>3. Pending' /\ UNCHANGED <<blob, replaced>> /\ task_promise = "unset"
  BY <1>2, AtWork DEF Pending, callerVars, serviceVars
<1> HIDE DEF i
<1>4. \A j \in Blocks : j # i => answered'[j] = answered[j]
  BY <1>1 DEF Inv, TypeOK
<1>5. Answered' = Answered \cup {i} /\ i \notin Answered
  BY <1>1, <1>4 DEF Answered
<1>6. Copy = {<<j, Piece(j, answered[j])>> : j \in Answered}
      /\ Copy' = {<<j, Piece(j, answered'[j])>> : j \in Answered'}
  BY <1>3 DEF Copy, Piece
<1>7. \A j \in Answered : answered'[j] = answered[j]
  BY <1>4, <1>5 DEF Answered
<1>8. Copy' = Copy \cup {<<i, Piece(i, blob)>>}
  BY <1>1, <1>5, <1>6, <1>7
<1>9. \A piece \in Copy : piece[1] # i
  BY <1>5, <1>6
<1>10. [v \in Versions |-> [j \in Blocks |-> Piece(j, v)]][blob][i] = Piece(i, blob)
  BY <1>1
<1>11. Moved' = Moved
  <2>1. Moved <=> \E j \in Answered : answered[j] \in replaced
    BY DEF Moved
  <2>2. Moved' <=> \E j \in Answered' : answered'[j] \in replaced
    BY <1>3 DEF Moved
  <2>3. Moved \in BOOLEAN /\ Moved' \in BOOLEAN
    BY DEF Moved
  <2> QED
    BY <1>1, <1>5, <1>7, <2>1, <2>2, <2>3
<1>12. Told = "pending" /\ UNCHANGED <<Told, Delivered>>
  BY <1>2, <1>3 DEF Told, Delivered
<1> QED
  BY <1>3, <1>8, <1>9, <1>10, <1>11, <1>12 DEF Abstract!Read, i

LEMMA ReplaceStep == ASSUME Inv, Replace PROVE Abstract!Replace
<1>1. /\ UNCHANGED <<caller, task_promise, answered, buffer>>
      /\ replaced \subseteq replaced' /\ blob' \in Versions \ {blob}
  BY DEF Replace, callerVars, sharedVars, dataVars
<1>2. UNCHANGED <<Answered, Pending, Told>>
  BY <1>1 DEF Answered, Pending, Told
<1>3. UNCHANGED <<Copy, Delivered>>
  BY <1>1, <1>2 DEF Copy, Delivered, InBuffer, Piece
<1>4. Moved' \in BOOLEAN /\ (Moved => Moved')
  BY <1>1, <1>2 DEF Moved
<1>5. Moved' => Copy # {}
  BY <1>1, <1>2 DEF Moved, Copy
<1> QED
  BY <1>1, <1>2, <1>3, <1>4, <1>5 DEF Abstract!Replace

LEMMA AtomicStep == ASSUME Inv, Inv', [Next]_vars PROVE [Abstract!Next]_(Abstract!vars)
<1>1. CASE SpawnWorker
  <2>1. /\ UNCHANGED <<caller, answered, task_promise, serviceVars>>
        /\ task_promise = "unset"
    BY <1>1, Spawn DEF sharedVars, dataVars
  <2> QED
    BY <2>1, SilentStep DEF Pending
<1>2. CASE SpawnThrows
  <2>1. /\ caller = "spawning" /\ caller' = "threw" /\ spawned < Parallelism
        /\ UNCHANGED <<task_promise, blob>>
    BY <1>2 DEF SpawnThrows, sharedVars, serviceVars
  <2>2. task_promise = "unset"
    BY <2>1, Incomplete
  <2> QED
    BY <2>1, <2>2, FailStep DEF Pending, Abstract!Next
<1>3. CASE Replace
  BY <1>3, ReplaceStep DEF Abstract!Next
<1>4. ASSUME \A w \in Workers : ~Worker(w), ~SpawnWorker, ~SpawnThrows, ~Replace
      PROVE  UNCHANGED Abstract!vars
  <2>1. UNCHANGED <<answered, buffer, task_promise, serviceVars>>
    BY <1>4, Others DEF dataVars
  <2>2. UNCHANGED caller \/ (caller # "threw" /\ caller' # "threw")
    BY <1>4, Others DEF Prepare
  <2>3. UNCHANGED <<Answered, Pending, Told>>
    BY <2>1, <2>2 DEF Answered, Pending, Told
  <2>4. UNCHANGED <<Copy, Moved, Delivered>>
    BY <2>1, <2>3 DEF Copy, Moved, Delivered, InBuffer, Piece, serviceVars
  <2> QED
    BY <2>1, <2>3, <2>4 DEF Abstract!vars, serviceVars
<1>5. ASSUME NEW w \in Workers, Worker(w) PROVE [Abstract!Next]_(Abstract!vars)
  <2>1. /\ task_promise = "unset" /\ UNCHANGED <<callerVars, serviceVars>>
        /\ TypeOK
    BY <1>5, AtWork DEF Inv
  <2>2. CASE Publish(w)
    BY <2>2, PublishStep DEF Abstract!Next
  <2>3. CASE ReadSucceeds(w) /\ Pending
    <3>1. idx[w] \in Blocks
      BY <2>3, Success
    <3> QED
      BY <2>3, <3>1, ReadStep DEF Abstract!Next
  <2>4. CASE ~Publish(w) /\ ~(ReadSucceeds(w) /\ Pending)
    <3>1. task_promise' = task_promise
      BY <1>5, <2>1, <2>4, WorkerMoves, Places
    <3>2. Pending' = Pending
      BY <2>1, <3>1 DEF Pending, callerVars
    <3>3. CASE Pending
      <4>1. answered' = answered
        BY <1>5, <2>4, <3>3, Answers
      <4> QED
        BY <2>1, <3>1, <3>2, <4>1, SilentStep
    <3>4. CASE ~Pending
      <4>1. UNCHANGED <<Copy, Moved, Delivered, Told>>
        BY <2>1, <3>1, <3>2, <3>4 DEF Copy, Moved, Delivered, Told
      <4> QED
        BY <2>1, <4>1 DEF Abstract!vars, serviceVars
    <3> QED
      BY <3>3, <3>4
  <2> QED
    BY <2>2, <2>3, <2>4
<1> QED
  BY <1>1, <1>2, <1>3, <1>4, <1>5

\* The download to a buffer does what AtomicDownload allows of a blob in blocks: a
\* promise fulfilled with success finds in the buffer what the blob held of each
\* range at one moment of the call, and nothing changes it afterwards.
THEOREM DownloadIsAtomic == Safety => AtomicOutcome
<1>1. ASSUME Init PROVE Abstract!Init
  <2>1. Answered = {}
    BY <1>1 DEF Init, Answered
  <2>2. Pending /\ Copy = {} /\ Moved = FALSE /\ Delivered = {} /\ Told = "pending"
    BY <1>1, <2>1 DEF Init, Pending, Copy, Moved, Delivered, Told
  <2> QED
    BY <1>1, <2>2 DEF Init, Abstract!Init
<1>2. Inv /\ Inv' /\ [Next]_vars => [Abstract!Next]_(Abstract!vars)
  BY AtomicStep
<1> QED
  BY <1>1, <1>2, Invariance, PTL DEF Safety, AtomicOutcome, Abstract!Safety
=============================================================================
