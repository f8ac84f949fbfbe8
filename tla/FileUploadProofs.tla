--------------------------- MODULE FileUploadProofs ---------------------------
(***************************************************************************)
(* What FileUpload's run shows for five blocks and a window of three, for  *)
(* any file, concurrency and number of permits.  The uncollected threads   *)
(* are those of the last blocks, in order: that is what bounds the buffers *)
(* and what makes a drained loop know every block's answer.                *)
(***************************************************************************)
EXTENDS FileUpload, FiniteSetTheorems, SequenceTheorems, TLAPS

\* The oldest block whose thread has not been collected.
Front == idx - Len(task_list)

\* Places of a thread that has yet to free its buffer.
Holding == {"enter", "park", "asleep", "handle", "upload"}

WindowInv ==
    /\ Len(task_list) <= idx
    /\ Len(task_list) <= m_concurrency + 1
    /\ \A i \in 1..Len(task_list) : task_list[i] = Front + i - 1

ListInv ==
    main \notin {"unwind", "threw"} =>
        /\ Len(block_list) = idx
        /\ \A i \in 1..idx : block_list[i] = i - 1

\* A collected thread has finished, and without an error if result says so.
TaskInv ==
    \A b \in Blocks :
        /\ task[b] = "none" <=> b >= idx
        /\ b < Front => task[b] = "finished"
        /\ b < Front /\ result = "0" => answer[b] = "0"
        /\ task[b] \in {"none"} \cup Holding => answer[b] = "0"
        /\ task[b] \in {"release", "finished"} /\ answer[b] = "0" => b \in staged

\* A buffer has a thread that frees it, but for the last one when its block could
\* not be read or its thread not be started.
BufferInv ==
    \A b \in buffers :
        \/ task[b] \in Holding
        \/ /\ b = idx
           /\ main \notin {"start", "loop"}
           /\ Len(task_list) <= m_concurrency

CallInv ==
    /\ main = "start" => idx = 0
    /\ main \in {"start", "finish"} => result = "0"
    /\ main # "done" => err = "unset"
    /\ main \in {"start", "loop", "drain", "unwind", "threw"} => final.op = "none"
    /\ main = "finish" => final.op # "none"
    /\ main = "drain" /\ result = "0" => idx = NumBlocks
    /\ final.op = "none" => ~final.applied
    /\ main # "done" => result \notin {"put_blob", "put_block_list"}

\* errno 0 means that the final request was applied, and an error of anything
\* else that it was never sent.
ErrnoInv ==
    main \in {"done", "threw"} =>
        /\ err = "0" => final.applied
        /\ err \notin {"0", "put_blob", "put_block_list"} => final.op = "none"

Inv ==
    /\ TypeOK /\ WindowInv /\ ListInv /\ TaskInv /\ BufferInv
    /\ PermitsConserved /\ CallInv
    /\ CommitOnlyComplete /\ ErrnoInv /\ NoTaskOutlivesCall

-----------------------------------------------------------------------------
(* Finite sets and the steps. *)

LEMMA BlocksFinite ==
    ASSUME NEW S \in SUBSET Blocks
    PROVE  IsFiniteSet(S) /\ Cardinality(S) \in Nat
<1>1. IsFiniteSet(Blocks)
  BY FileUploadAssumption, FS_Interval DEF Blocks
<1> QED
  BY <1>1, FS_Subset, FS_CardinalityType

LEMMA PermittedFinite == IsFiniteSet(Permitted) /\ Cardinality(Permitted) \in Nat
<1>1. Permitted \in SUBSET Blocks
  BY DEF Permitted, At
<1> QED
  BY <1>1, BlocksFinite

\* What the remaining steps of the calling thread and of the service leave alone.
Frame == <<limit, idx, task_list, task, answer, parallel>>

Kept ==
    \/ Reject \/ PutSmallFile \/ StartLoop \/ NoMemory \/ ReadFails \/ SpawnThrows
    \/ Unwound \/ EndLoop \/ PutBlockList \/ GiveUp \/ FinishOk \/ FinishError
    \/ ApplyFinal \/ UNCHANGED vars

LEMMA StepCases ==
    ASSUME [Next]_vars
    PROVE  \/ Kept \/ StartTask \/ (CollectFront /\ main \in {"loop", "drain"})
           \/ \E b \in Blocks : Task(b) \/ SpuriousWakeup(b) \/ ApplyPutBlock(b)
BY DEF Next, Main, Kept, MakeRoom, Drain

LEMMA KeptFrame == ASSUME Kept PROVE UNCHANGED Frame /\ UNCHANGED <<sent, staged>>
BY DEF Kept, Frame, vars, callVars, taskVars, serviceVars, Reject, PutSmallFile,
   StartLoop, NoMemory, ReadFails, SpawnThrows, Unwound, EndLoop, PutBlockList,
   GiveUp, FinishOk, FinishError, ApplyFinal

LEMMA SmallFile ==
    ASSUME PutSmallFile
    PROVE  /\ final' \in [op : {"put_blob"}, applied : {FALSE}, whole : BOOLEAN]
           /\ final'.op = "put_blob"
<1> DEFINE r == Request("put_blob")
<1>1. r \in [op : {"put_blob"}, applied : {FALSE}, whole : BOOLEAN]
  BY DEF Request
<1> HIDE DEF r
<1>2. \A o \in BOOLEAN : [r EXCEPT !.whole = o] \in
          [op : {"put_blob"}, applied : {FALSE}, whole : BOOLEAN]
  BY <1>1
<1>3. PICK o \in BOOLEAN : final' = [r EXCEPT !.whole = o]
  BY DEF PutSmallFile, r
<1> QED
  BY <1>2, <1>3

LEMMA InitInv == Init => Inv
<1> SUFFICES ASSUME Init PROVE Inv
  OBVIOUS
<1> USE FileUploadAssumption DEF Init
<1>1. TypeOK
  BY DEF TypeOK, Request, Errors, Blocks
<1>2. WindowInv /\ ListInv /\ BufferInv /\ CallInv
  BY DEF WindowInv, ListInv, BufferInv, CallInv, Request
<1>3. TaskInv
  BY DEF TaskInv, Front, Blocks, Holding
<1>4. PermitsConserved
  <2>1. Permitted = {}
    BY DEF Permitted, At
  <2> QED
    BY <2>1, FS_EmptySet DEF PermitsConserved
<1>5. CommitOnlyComplete /\ ErrnoInv /\ NoTaskOutlivesCall
  BY DEF CommitOnlyComplete, ErrnoInv, NoTaskOutlivesCall, Request
<1> QED
  BY <1>1, <1>2, <1>3, <1>4, <1>5 DEF Inv

\* What collecting the oldest thread does to the window.
LEMMA Collect ==
    ASSUME Inv, CollectFront
    PROVE  /\ Front \in Blocks /\ Front < idx /\ task[Front] = "finished"
           /\ task_list' \in Seq(Blocks)
           /\ Len(task_list') = Len(task_list) - 1 /\ Len(task_list') \in Nat
           /\ Front' = Front + 1
           /\ result' = First(answer[Front])
           /\ WindowInv'
<1> USE DEF Inv, TypeOK, CollectFront
<1> DEFINE n == Len(task_list)
<1>1. n \in Nat \ {0} /\ task_list \in Seq(Blocks) /\ idx \in Nat
  BY EmptySeq, LenProperties, FileUploadAssumption
<1>2. /\ Head(task_list) = task_list[1] /\ task_list' \in Seq(Blocks)
      /\ Len(task_list') = n - 1
      /\ \A i \in 1..(n - 1) : task_list'[i] = task_list[i + 1]
  BY <1>1, HeadTailProperties
<1>3. Head(task_list) = Front /\ Front \in Blocks /\ Front < idx
  <2>1. task_list[1] = Front + 1 - 1
    BY <1>1 DEF WindowInv
  <2>2. Front \in Int /\ Front < idx
    BY <1>1 DEF Front
  <2>3. Head(task_list) \in Blocks
    BY <1>1, HeadTailProperties
  <2> QED
    BY <1>2, <2>1, <2>2, <2>3
<1>4. Front' = Front + 1
  BY <1>1, <1>2 DEF Front
<1>5. WindowInv'
  <2>1. \A i \in 1..(n - 1) : task_list'[i] = Front' + i - 1
    <3> SUFFICES ASSUME NEW i \in 1..(n - 1) PROVE task_list'[i] = Front' + i - 1
      OBVIOUS
    <3>1. i + 1 \in 1..n /\ task_list'[i] = task_list[i + 1]
      BY <1>1, <1>2
    <3>2. task_list[i + 1] = Front + (i + 1) - 1
      BY <3>1 DEF WindowInv
    <3> QED
      BY <1>1, <1>4, <3>1, <3>2 DEF Front
  <2> QED
    BY <1>1, <1>2, <2>1, FileUploadAssumption DEF WindowInv
<1> QED
  BY <1>1, <1>2, <1>3, <1>4, <1>5

\* What starting a thread does to the window.
LEMMA Start ==
    ASSUME Inv, StartTask
    PROVE  /\ idx \in Blocks /\ idx' = idx + 1 /\ idx' \in 0..NumBlocks
           /\ task_list' \in Seq(Blocks) /\ block_list' \in Seq(Blocks)
           /\ Len(task_list') = Len(task_list) + 1 /\ Len(task_list) \in Nat
           /\ Front' = Front
           /\ WindowInv' /\ ListInv'
<1> USE FileUploadAssumption DEF Inv, TypeOK, StartTask, NextBlock
<1> DEFINE n == Len(task_list)
<1>1. idx \in Blocks /\ idx' = idx + 1 /\ idx' \in 0..NumBlocks
  BY DEF Blocks
<1>2. n \in Nat /\ n <= m_concurrency /\ task_list \in Seq(Blocks)
  BY LenProperties DEF WindowFull
<1>3. /\ task_list' \in Seq(Blocks) /\ Len(task_list') = n + 1
      /\ task_list'[n + 1] = idx /\ \A i \in 1..n : task_list'[i] = task_list[i]
  BY <1>1, <1>2, AppendProperties
<1>4. Front' = Front
  BY <1>1, <1>2, <1>3 DEF Front
<1>5. WindowInv'
  <2>1. \A i \in 1..n : task_list'[i] = Front' + i - 1
    BY <1>3, <1>4 DEF WindowInv
  <2>2. task_list'[n + 1] = Front' + (n + 1) - 1
    BY <1>1, <1>2, <1>3, <1>4 DEF Front
  <2>3. \A i \in 1..(n + 1) : i \in 1..n \/ i = n + 1
    BY <1>2
  <2>4. \A i \in 1..Len(task_list') : task_list'[i] = Front' + i - 1
    BY <1>3, <2>1, <2>2, <2>3
  <2>5. Len(task_list') <= idx' /\ Len(task_list') <= m_concurrency + 1
    BY <1>1, <1>2, <1>3 DEF WindowInv
  <2> QED
    BY <2>4, <2>5 DEF WindowInv
<1>6. block_list' \in Seq(Blocks) /\ ListInv'
  <2>1. Len(block_list) = idx /\ \A i \in 1..idx : block_list[i] = i - 1
    BY DEF ListInv
  <2>2. /\ block_list' \in Seq(Blocks) /\ Len(block_list') = idx + 1
        /\ block_list'[idx + 1] = idx /\ \A i \in 1..idx : block_list'[i] = block_list[i]
    BY <1>1, <2>1, AppendProperties
  <2>3. \A i \in 1..(idx + 1) : i \in 1..idx \/ i = idx + 1
    BY <1>1
  <2> QED
    BY <1>1, <2>1, <2>2, <2>3 DEF ListInv
<1> QED
  BY <1>1, <1>2, <1>3, <1>4, <1>5, <1>6

-----------------------------------------------------------------------------
(* Each conjunct is kept by every step. *)

\* A thread in the right place holds a permit, so giving it back is not one too
\* many.
LEMMA PermitStep == ASSUME Inv, [Next]_vars PROVE PermitsConserved' /\ parallel' \in 0..limit'
<1> USE FileUploadAssumption
<1>1. limit \in Nat /\ parallel \in Nat /\ parallel <= limit
      /\ Cardinality(Permitted) + parallel = limit
      /\ IsFiniteSet(Permitted) /\ Cardinality(Permitted) \in Nat
  BY PermittedFinite DEF Inv, TypeOK, PermitsConserved
<1>2. /\ task \in [Blocks -> {"none", "enter", "park", "asleep", "handle",
                             "upload", "release", "finished"}]
  BY DEF Inv, TypeOK
<1>3. CASE Kept \/ CollectFront \/ \E b \in Blocks : ApplyPutBlock(b)
  <2>1. UNCHANGED <<limit, task, parallel>>
    BY <1>3, KeptFrame DEF CollectFront, ApplyPutBlock, Frame, taskVars, callVars
  <2> QED
    BY <1>1, <2>1 DEF PermitsConserved, Permitted, At
<1>4. CASE StartTask
  <2>1. idx \in Blocks /\ task[idx] = "none" /\ task' = [task EXCEPT ![idx] = "enter"]
        /\ limit' = limit /\ parallel' = parallel
    BY <1>4, Start DEF StartTask, Inv, TaskInv, Blocks
  <2>2. Permitted' = Permitted
    BY <1>2, <2>1 DEF Permitted, At
  <2> QED
    BY <1>1, <2>1, <2>2 DEF PermitsConserved
<1>5. ASSUME NEW b \in Blocks, Task(b) \/ SpuriousWakeup(b)
      PROVE  PermitsConserved' /\ parallel' \in 0..limit'
  <2>1. limit' = limit
    BY <1>5 DEF Task, SpuriousWakeup, TakePermit, FindNoPermit, FallAsleep, SendBlock,
       BlockOk, BlockError, ReleasePermit, callVars
  <2>2. CASE TakePermit(b)
    <3>1. b \notin Permitted /\ Permitted' = Permitted \cup {b}
      BY <1>2, <1>5, <2>2 DEF TakePermit, Move, Permitted, At
    <3>2. Cardinality(Permitted') = Cardinality(Permitted) + 1
      BY <1>1, <3>1, FS_AddElement
    <3> QED
      BY <1>1, <2>1, <2>2, <3>2 DEF PermitsConserved, TakePermit
  <2>3. CASE ReleasePermit(b)
    <3>1. b \in Permitted /\ Permitted' = Permitted \ {b}
      BY <1>2, <1>5, <2>3 DEF ReleasePermit, Move, Permitted, At
    <3>2. Cardinality(Permitted') = Cardinality(Permitted) - 1 /\ Cardinality(Permitted') \in Nat
      BY <1>1, <3>1, FS_RemoveElement, FS_CardinalityType
    <3> QED
      BY <1>1, <2>1, <2>3, <3>2 DEF PermitsConserved, ReleasePermit
  <2>4. CASE FindNoPermit(b) \/ FallAsleep(b) \/ SpuriousWakeup(b)
             \/ SendBlock(b) \/ BlockOk(b) \/ BlockError(b)
    <3>1. Permitted' = Permitted /\ parallel' = parallel
      BY <1>2, <1>5, <2>4 DEF FindNoPermit, FallAsleep, SpuriousWakeup, SendBlock,
         BlockOk, BlockError, Move, Permitted, At
    <3> QED
      BY <1>1, <2>1, <3>1 DEF PermitsConserved
  <2> QED
    BY <1>5, <2>2, <2>3, <2>4 DEF Task
<1> QED
  BY <1>3, <1>4, <1>5, StepCases

LEMMA WindowStep == ASSUME Inv, [Next]_vars PROVE WindowInv' /\ ListInv'
<1>1. CASE Kept \/ \E b \in Blocks : Task(b) \/ SpuriousWakeup(b) \/ ApplyPutBlock(b)
  <2>1. UNCHANGED <<idx, task_list>>
    BY <1>1, KeptFrame DEF Frame, Task, SpuriousWakeup, TakePermit, FindNoPermit,
       FallAsleep, SendBlock, BlockOk, BlockError, ReleasePermit, ApplyPutBlock, callVars
  <2>2. \/ main' \in {"unwind", "threw"}
        \/ main \notin {"unwind", "threw"} /\ block_list' = block_list
    BY <1>1 DEF Kept, vars, Reject, PutSmallFile, StartLoop, NextBlock,
       NoMemory, ReadFails, SpawnThrows, Unwound, EndLoop, PutBlockList, GiveUp,
       FinishOk, FinishError, ApplyFinal, Task, SpuriousWakeup, TakePermit,
       FindNoPermit, FallAsleep, SendBlock, BlockOk, BlockError, ReleasePermit,
       ApplyPutBlock, callVars
  <2> QED
    BY <2>1, <2>2 DEF Inv, WindowInv, ListInv, Front
<1>2. CASE CollectFront
  BY <1>2, Collect DEF CollectFront, Inv, ListInv
<1>3. CASE StartTask
  BY <1>3, Start
<1> QED
  BY <1>1, <1>2, <1>3, StepCases

LEMMA TypeStep == ASSUME Inv, [Next]_vars PROVE TypeOK'
<1> USE FileUploadAssumption DEF Inv, TypeOK, Errors
<1>1. parallel' \in 0..limit'
  BY PermitStep
<1>2. CASE Kept
  <2>1. UNCHANGED Frame /\ UNCHANGED <<sent, staged>>
    BY <1>2, KeptFrame
  <2>2. block_list' \in Seq(Blocks)
    <3>1. CASE SpawnThrows
      <4>1. idx \in Blocks
        BY <3>1 DEF SpawnThrows, NextBlock, Blocks
      <4> QED
        BY <3>1, <4>1, AppendProperties DEF SpawnThrows
    <3>2. CASE ~SpawnThrows
      BY <1>2, <3>2 DEF Kept, vars, Reject, PutSmallFile, StartLoop,
         NoMemory, ReadFails, Unwound, EndLoop, PutBlockList, GiveUp,
         FinishOk, FinishError, ApplyFinal, callVars
    <3> QED
      BY <3>1, <3>2
  <2>3. /\ main' \in {"start", "loop", "drain", "finish", "done", "unwind", "threw"}
        /\ buffers' \subseteq Blocks
    BY <1>2 DEF Kept, vars, Reject, PutSmallFile, StartLoop, NoMemory, ReadFails,
       SpawnThrows, Unwound, EndLoop, PutBlockList, GiveUp, FinishOk, FinishError,
       ApplyFinal, callVars, taskVars, NextBlock, Blocks
  <2>4. final' \in [op : {"none", "put_blob", "put_block_list"},
                    applied : BOOLEAN, whole : BOOLEAN]
    <3>1. CASE PutSmallFile
      BY <3>1, SmallFile
    <3>2. CASE ApplyFinal
      BY <3>2 DEF ApplyFinal
    <3>3. CASE PutBlockList
      BY <3>3 DEF PutBlockList, Request
    <3>4. CASE ~PutSmallFile /\ ~ApplyFinal /\ ~PutBlockList
      <4>1. UNCHANGED final
        BY <1>2, <3>4 DEF Kept, vars, Reject, StartLoop, NoMemory, ReadFails,
           SpawnThrows, Unwound, EndLoop, GiveUp, FinishOk, FinishError, serviceVars
      <4> QED
        BY <4>1
    <3> QED
      BY <3>1, <3>2, <3>3, <3>4
  <2>5. result' \in Errors \cup {"0"}
    <3>1. CASE FinishError
      BY <3>1, <2>4 DEF FinishError, CallInv
    <3>2. CASE ~FinishError
      BY <1>2, <3>2 DEF Kept, vars, Reject, PutSmallFile, StartLoop, NoMemory, ReadFails,
         SpawnThrows, Unwound, EndLoop, PutBlockList, GiveUp, FinishOk,
         ApplyFinal, callVars
    <3> QED
      BY <3>1, <3>2
  <2>6. err' \in Errors \cup {"unset", "0", "client_not_init",
                              "invalid_parameters", "stat", "EFBIG"}
    BY <1>2, <2>5 DEF Kept, vars, Reject, PutSmallFile, StartLoop, NoMemory, ReadFails,
       SpawnThrows, Unwound, EndLoop, PutBlockList, GiveUp, FinishOk, FinishError,
       ApplyFinal, callVars, CallInv
  <2> QED
    BY <1>1, <2>1, <2>2, <2>3, <2>4, <2>5, <2>6 DEF Frame
<1>3. CASE CollectFront
  <2>1. task_list' \in Seq(Blocks) /\ result' \in Errors \cup {"0"}
    BY <1>3, Collect DEF First
  <2> QED
    BY <1>1, <1>3, <2>1 DEF CollectFront, taskVars, serviceVars
<1>4. CASE StartTask
  <2>1. task_list' \in Seq(Blocks) /\ block_list' \in Seq(Blocks) /\ idx' \in 0..NumBlocks
        /\ idx \in Blocks
    BY <1>4, Start
  <2> QED
    BY <1>1, <1>4, <2>1 DEF StartTask, serviceVars
<1>5. ASSUME NEW b \in Blocks, Task(b) \/ SpuriousWakeup(b) \/ ApplyPutBlock(b)
      PROVE  TypeOK'
  <2>1. UNCHANGED <<callVars, final>>
    BY <1>5 DEF Task, SpuriousWakeup, TakePermit, FindNoPermit, FallAsleep, SendBlock,
       BlockOk, BlockError, ReleasePermit, ApplyPutBlock, callVars, serviceVars
  <2>2. task' \in [Blocks -> {"none", "enter", "park", "asleep", "handle",
                              "upload", "release", "finished"}]
    BY <1>5 DEF Task, SpuriousWakeup, TakePermit, FindNoPermit, FallAsleep, SendBlock,
       BlockOk, BlockError, ReleasePermit, ApplyPutBlock, taskVars, Move, At
  <2>3. answer' \in [Blocks -> {"0", "put_block"}] /\ buffers' \subseteq Blocks
        /\ sent' \subseteq Blocks /\ staged' \subseteq sent'
    BY <1>5 DEF Task, SpuriousWakeup, TakePermit, FindNoPermit, FallAsleep, SendBlock,
       BlockOk, BlockError, ReleasePermit, ApplyPutBlock, taskVars, serviceVars
  <2> QED
    BY <1>1, <2>1, <2>2, <2>3 DEF callVars
<1> QED
  BY <1>2, <1>3, <1>4, <1>5, StepCases

LEMMA TaskStep == ASSUME Inv, [Next]_vars PROVE TaskInv'
<1> USE FileUploadAssumption
<1>1. /\ task \in [Blocks -> {"none", "enter", "park", "asleep", "handle",
                             "upload", "release", "finished"}]
      /\ answer \in [Blocks -> {"0", "put_block"}]
      /\ TaskInv /\ idx \in Nat /\ Len(task_list) \in Nat /\ Front \in Int /\ Front <= idx
  BY LenProperties DEF Inv, TypeOK, Front
<1>2. CASE Kept
  <2>1. UNCHANGED <<idx, task_list, task, answer, staged>>
    BY <1>2, KeptFrame DEF Frame
  <2>2. result' = "0" => result = "0"
    <3>1. CASE FinishError
      BY <3>1 DEF FinishError, Inv, TypeOK
    <3>2. CASE ~FinishError
      BY <1>2, <3>2 DEF Kept, vars, Reject, PutSmallFile, StartLoop, NoMemory, ReadFails,
         SpawnThrows, Unwound, EndLoop, PutBlockList, GiveUp, FinishOk, ApplyFinal,
         callVars
    <3> QED
      BY <3>1, <3>2
  <2> QED
    BY <1>1, <2>1, <2>2 DEF TaskInv, Front
<1>3. CASE CollectFront
  <2>1. /\ Front' = Front + 1 /\ task[Front] = "finished"
        /\ result' = First(answer[Front]) /\ Front \in Blocks
        /\ UNCHANGED <<idx, task, answer, staged>>
    BY <1>3, Collect DEF CollectFront, taskVars, serviceVars
  <2>2. result' = "0" => result = "0" /\ answer[Front] = "0"
    BY <2>1 DEF First
  <2>3. \A b \in Blocks : b < Front' => b < Front \/ b = Front
    BY <1>1, <2>1 DEF Blocks
  <2> HIDE DEF Front
  <2> QED
    BY <1>1, <1>3, <2>1, <2>2, <2>3 DEF TaskInv
<1>4. CASE StartTask
  <2>1. /\ idx \in Blocks /\ idx' = idx + 1 /\ Front' = Front
        /\ task' = [task EXCEPT ![idx] = "enter"]
        /\ UNCHANGED <<answer, staged, result>>
    BY <1>4, Start DEF StartTask, serviceVars
  <2>2. \A b \in Blocks : b \in Int /\ (b >= idx' <=> b >= idx /\ b # idx)
    BY <1>1, <2>1 DEF Blocks
  <2>3. task[idx] = "none" /\ answer[idx] = "0"
    BY <1>1, <2>1 DEF TaskInv
  <2> QED
    BY <1>1, <2>1, <2>2, <2>3 DEF TaskInv, Holding
<1>5. ASSUME NEW b \in Blocks, Task(b) \/ SpuriousWakeup(b) \/ ApplyPutBlock(b)
      PROVE  TaskInv'
  <2>1. UNCHANGED <<idx, task_list, result>> /\ staged \subseteq staged' /\ Front' = Front
    BY <1>5 DEF Task, SpuriousWakeup, TakePermit, FindNoPermit, FallAsleep, SendBlock,
       BlockOk, BlockError, ReleasePermit, ApplyPutBlock, callVars, serviceVars, Front
  <2>2. CASE TakePermit(b) \/ FindNoPermit(b) \/ FallAsleep(b) \/ SpuriousWakeup(b)
             \/ SendBlock(b)
    BY <1>1, <2>1, <2>2 DEF TaskInv, Holding, Move, TakePermit, FindNoPermit,
       FallAsleep, SpuriousWakeup, SendBlock
  <2>3. CASE BlockOk(b) \/ BlockError(b)
    BY <1>1, <2>1, <2>3 DEF TaskInv, Holding, Move, BlockOk, BlockError, serviceVars
  <2>4. CASE ReleasePermit(b)
    BY <1>1, <2>1, <2>4 DEF TaskInv, Holding, Move, ReleasePermit, At
  <2>5. CASE ApplyPutBlock(b)
    BY <1>1, <2>1, <2>5 DEF TaskInv, ApplyPutBlock, taskVars
  <2> QED
    BY <1>5, <2>2, <2>3, <2>4, <2>5 DEF Task
<1> QED
  BY <1>2, <1>3, <1>4, <1>5, StepCases

LEMMA BufferStep == ASSUME Inv, [Next]_vars PROVE BufferInv'
<1> USE FileUploadAssumption
<1>1. /\ task \in [Blocks -> {"none", "enter", "park", "asleep", "handle",
                             "upload", "release", "finished"}]
      /\ buffers \subseteq Blocks /\ BufferInv /\ idx \in Nat /\ Len(task_list) \in Nat
  BY LenProperties DEF Inv, TypeOK
<1>2. CASE Kept
  <2>1. UNCHANGED <<idx, task_list, task>>
    BY <1>2, KeptFrame DEF Frame
  <2>2. CASE ReadFails \/ SpawnThrows
    <3>1. /\ buffers' = buffers \cup {idx} /\ main' \notin {"start", "loop"}
          /\ Len(task_list) <= m_concurrency
      BY <1>1, <2>2 DEF ReadFails, SpawnThrows, NextBlock, WindowFull
    <3> QED
      BY <1>1, <2>1, <3>1 DEF BufferInv
  <2>3. CASE ~ReadFails /\ ~SpawnThrows
    <3>1. buffers' = buffers /\ (main \notin {"start", "loop"} => main' \notin {"start", "loop"})
      BY <1>2, <2>3 DEF Kept, vars, Reject, PutSmallFile, StartLoop, NoMemory,
         Unwound, EndLoop, PutBlockList, GiveUp, FinishOk, FinishError, ApplyFinal,
         callVars, taskVars
    <3> QED
      BY <1>1, <2>1, <3>1 DEF BufferInv
  <2> QED
    BY <2>2, <2>3
<1>3. CASE CollectFront
  <2>1. Len(task_list') = Len(task_list) - 1
    BY <1>3, Collect
  <2> QED
    BY <1>1, <1>3, <2>1 DEF BufferInv, CollectFront, taskVars
<1>4. CASE StartTask
  <2>1. idx \in Blocks /\ task' = [task EXCEPT ![idx] = "enter"]
        /\ buffers' = buffers \cup {idx} /\ main = "loop"
    BY <1>4, Start DEF StartTask, NextBlock
  <2> QED
    BY <1>1, <2>1 DEF BufferInv, Holding
<1>5. ASSUME NEW b \in Blocks, Task(b) \/ SpuriousWakeup(b) \/ ApplyPutBlock(b)
      PROVE  BufferInv'
  <2>1. UNCHANGED <<idx, task_list, main>>
    BY <1>5 DEF Task, SpuriousWakeup, TakePermit, FindNoPermit, FallAsleep, SendBlock,
       BlockOk, BlockError, ReleasePermit, ApplyPutBlock, callVars
  <2>2. CASE TakePermit(b) \/ FindNoPermit(b) \/ FallAsleep(b) \/ SpuriousWakeup(b)
             \/ SendBlock(b)
    BY <1>1, <2>1, <2>2 DEF BufferInv, Holding, Move, TakePermit, FindNoPermit,
       FallAsleep, SpuriousWakeup, SendBlock
  <2>3. CASE BlockOk(b) \/ BlockError(b)
    BY <1>1, <2>1, <2>3 DEF BufferInv, Holding, Move, BlockOk, BlockError
  <2>4. CASE ReleasePermit(b)
    BY <1>1, <2>1, <2>4 DEF BufferInv, Holding, Move, ReleasePermit, At
  <2>5. CASE ApplyPutBlock(b)
    BY <1>1, <2>1, <2>5 DEF BufferInv, ApplyPutBlock, taskVars
  <2> QED
    BY <1>5, <2>2, <2>3, <2>4, <2>5 DEF Task
<1> QED
  BY <1>2, <1>3, <1>4, <1>5, StepCases

\* A drained window holds no unknown answer.
LEMMA Drained ==
    ASSUME Inv, task_list = <<>>
    PROVE  /\ \A b \in Blocks : task[b] \in {"none", "finished"}
           /\ result = "0" /\ idx = NumBlocks => Blocks \subseteq staged
<1> USE FileUploadAssumption
<1>1. Front = idx /\ idx \in Nat /\ Blocks \subseteq Nat /\ TaskInv
  BY EmptySeq DEF Inv, TypeOK, Front, Blocks
<1>2. \A b \in Blocks : task[b] \in {"none", "finished"}
  BY <1>1 DEF TaskInv
<1>3. ASSUME result = "0", idx = NumBlocks, NEW b \in Blocks PROVE b \in staged
  <2>1. b < Front
    BY <1>1, <1>3 DEF Blocks
  <2> QED
    BY <1>1, <1>3, <2>1 DEF TaskInv
<1> QED
  BY <1>2, <1>3

LEMMA CallStep == ASSUME Inv, [Next]_vars PROVE CallInv' /\ ErrnoInv'
<1> USE FileUploadAssumption DEF Inv, CallInv
<1>1. /\ main \in {"start", "loop", "drain", "finish", "done", "unwind", "threw"}
      /\ result \in Errors \cup {"0"} /\ idx \in 0..NumBlocks
      /\ final \in [op : {"none", "put_blob", "put_block_list"},
                    applied : BOOLEAN, whole : BOOLEAN]
  BY DEF TypeOK
<1>2. CASE PutSmallFile
  BY <1>1, <1>2, SmallFile DEF PutSmallFile, ErrnoInv
<1>3. CASE ApplyFinal
  <2>1. final'.op = final.op /\ final'.applied = TRUE
    BY <1>1, <1>3 DEF ApplyFinal
  <2> QED
    BY <1>1, <1>3, <2>1 DEF ApplyFinal, callVars, ErrnoInv
<1>4. CASE PutBlockList
  BY <1>1, <1>4 DEF PutBlockList, MayCommit, Request, ErrnoInv
<1>5. CASE FinishOk \/ FinishError
  BY <1>1, <1>5 DEF FinishOk, FinishError, serviceVars, ErrnoInv
<1>6. CASE Reject \/ StartLoop \/ NoMemory \/ ReadFails \/ SpawnThrows
           \/ Unwound \/ EndLoop \/ GiveUp \/ UNCHANGED vars
  BY <1>1, <1>6 DEF vars, Reject, StartLoop, NoMemory, ReadFails,
     SpawnThrows, Unwound, EndLoop, GiveUp, MayCommit, NextBlock, WindowFull,
     ErrnoInv, callVars, serviceVars, Errors
<1>7. CASE CollectFront /\ main \in {"loop", "drain"}
  <2>1. result' = result \/ (result = "0" /\ result' \in {"0", "put_block"})
    <3>1. result' = First(answer[Front]) /\ Front \in Blocks
      BY <1>7, Collect
    <3>2. answer[Front] \in {"0", "put_block"}
      BY <3>1 DEF TypeOK
    <3> QED
      BY <3>1, <3>2 DEF First
  <2> QED
    BY <1>1, <1>7, <2>1 DEF CollectFront, serviceVars, ErrnoInv
<1>8. CASE StartTask
  BY <1>1, <1>8 DEF StartTask, NextBlock, serviceVars, ErrnoInv
<1>9. ASSUME NEW b \in Blocks, Task(b) \/ SpuriousWakeup(b) \/ ApplyPutBlock(b)
      PROVE  CallInv' /\ ErrnoInv'
  <2>1. UNCHANGED <<callVars, final>>
    BY <1>9 DEF Task, SpuriousWakeup, TakePermit, FindNoPermit, FallAsleep, SendBlock,
       BlockOk, BlockError, ReleasePermit, ApplyPutBlock, callVars, serviceVars
  <2> QED
    BY <2>1 DEF callVars, ErrnoInv
<1> QED
  BY <1>2, <1>3, <1>4, <1>5, <1>6, <1>7, <1>8, <1>9, StepCases DEF Kept

LEMMA CommitStep == ASSUME Inv, [Next]_vars PROVE CommitOnlyComplete'
<1> USE FileUploadAssumption
<1>1. CASE PutBlockList
  <2>1. main = "drain" /\ result = "0" /\ idx = NumBlocks /\ task_list = <<>>
        /\ UNCHANGED <<block_list, staged>>
    BY <1>1 DEF PutBlockList, MayCommit, Inv, CallInv
  <2>2. Blocks \subseteq staged'
    BY <2>1, Drained
  <2>3. block_list = [i \in 1..NumBlocks |-> i - 1]
    <3>1. /\ block_list \in Seq(Blocks) /\ Len(block_list) = NumBlocks
          /\ \A i \in 1..NumBlocks : block_list[i] = i - 1
      BY <2>1 DEF Inv, TypeOK, ListInv
    <3>2. block_list = [i \in 1..Len(block_list) |-> block_list[i]]
      BY <3>1, LenProperties
    <3> QED
      BY <3>1, <3>2
  <2> QED
    BY <2>1, <2>2, <2>3 DEF CommitOnlyComplete
<1>2. CASE ~PutBlockList
  <2>1. final'.op = "put_block_list" =>
            /\ final.op = "put_block_list" /\ block_list' = block_list
            /\ staged \subseteq staged'
    <3>1. CASE PutSmallFile
      BY <3>1, SmallFile
    <3>2. CASE ApplyFinal
      <4>1. final'.op = final.op
        BY <3>2 DEF ApplyFinal, Inv, TypeOK
      <4> QED
        BY <3>2, <4>1 DEF ApplyFinal, callVars
    <3>3. CASE Reject \/ StartLoop \/ NoMemory \/ ReadFails \/ SpawnThrows
               \/ Unwound \/ EndLoop \/ GiveUp \/ FinishOk \/ FinishError
               \/ UNCHANGED vars
      BY <3>3 DEF vars, Reject, StartLoop, NoMemory, ReadFails, SpawnThrows, Unwound,
         EndLoop, GiveUp, FinishOk, FinishError, NextBlock, callVars, serviceVars,
         Inv, CallInv
    <3>4. CASE CollectFront
      BY <3>4 DEF CollectFront, serviceVars
    <3>5. CASE StartTask
      BY <3>5 DEF StartTask, NextBlock, serviceVars, Inv, CallInv
    <3>6. ASSUME NEW b \in Blocks, Task(b) \/ SpuriousWakeup(b) \/ ApplyPutBlock(b)
          PROVE  UNCHANGED <<block_list, final>> /\ staged \subseteq staged'
      BY <3>6 DEF Task, SpuriousWakeup, TakePermit, FindNoPermit, FallAsleep, SendBlock,
         BlockOk, BlockError, ReleasePermit, ApplyPutBlock, callVars, serviceVars
    <3> QED
      BY <1>2, <3>1, <3>2, <3>3, <3>4, <3>5, <3>6, StepCases DEF Kept
  <2> QED
    BY <2>1 DEF CommitOnlyComplete, Inv
<1> QED
  BY <1>1, <1>2

LEMMA NoTaskStep == ASSUME Inv, [Next]_vars PROVE NoTaskOutlivesCall'
<1> USE FileUploadAssumption
<1> DEFINE Over == \A b \in Blocks : task[b] \in {"none", "finished"}
<1>1. main \in {"finish", "done", "threw"} => Over
  BY DEF Inv, NoTaskOutlivesCall
<1>2. CASE Kept
  <2>1. task' = task
    BY <1>2, KeptFrame DEF Frame
  <2>2. CASE main = "start"
    <3>1. Over
      BY <2>2 DEF Inv, CallInv, TaskInv, Blocks
    <3> QED
      BY <2>1, <3>1 DEF NoTaskOutlivesCall
  <2>3. CASE Unwound
    BY <2>1, <2>3 DEF Unwound, At, NoTaskOutlivesCall
  <2>4. CASE PutBlockList \/ GiveUp
    <3>1. Over
      BY <2>4, Drained DEF PutBlockList, GiveUp
    <3> QED
      BY <2>1, <3>1 DEF NoTaskOutlivesCall
  <2>5. CASE main # "start" /\ ~Unwound /\ ~PutBlockList /\ ~GiveUp
    <3>1. main' \in {"finish", "done", "threw"} => main \in {"finish", "done", "threw"}
      BY <1>2, <2>5 DEF Kept, vars, Reject, PutSmallFile, StartLoop, NoMemory, ReadFails,
         SpawnThrows, EndLoop, FinishOk, FinishError, ApplyFinal, callVars
    <3> QED
      BY <1>1, <2>1, <3>1 DEF NoTaskOutlivesCall
  <2> QED
    BY <2>2, <2>3, <2>4, <2>5
<1>3. CASE CollectFront \/ StartTask
  BY <1>1, <1>3, StepCases DEF CollectFront, StartTask, NextBlock, taskVars,
     NoTaskOutlivesCall
<1>4. ASSUME NEW b \in Blocks, Task(b) \/ SpuriousWakeup(b) \/ ApplyPutBlock(b)
      PROVE  NoTaskOutlivesCall'
  <2>1. main' = main
    BY <1>4 DEF Task, SpuriousWakeup, TakePermit, FindNoPermit, FallAsleep, SendBlock,
       BlockOk, BlockError, ReleasePermit, ApplyPutBlock, callVars
  <2>2. ApplyPutBlock(b) \/ task[b] \notin {"none", "finished"}
    BY <1>4 DEF Task, SpuriousWakeup, TakePermit, FindNoPermit, FallAsleep, SendBlock,
       BlockOk, BlockError, ReleasePermit
  <2> QED
    BY <1>1, <1>4, <2>1, <2>2 DEF ApplyPutBlock, taskVars, NoTaskOutlivesCall
<1> QED
  BY <1>2, <1>3, <1>4, StepCases

-----------------------------------------------------------------------------
(* The theorems. *)

\* Inv is an inductive invariant of the specification.
THEOREM Invariance == Spec => []Inv
<1>1. Inv /\ [Next]_vars => Inv'
  BY PermitStep, WindowStep, TypeStep, TaskStep, BufferStep, CallStep, CommitStep,
     NoTaskStep DEF Inv
<1> QED
  BY <1>1, InitInv, PTL DEF Spec

\* Every variable keeps its type: in particular the counter of permits stays
\* between 0 and the value `parallel' had when the call began.
THEOREM TypeCorrect == Spec => []TypeOK
BY Invariance, PTL DEF Inv

LEMMA BuffersFit == ASSUME Inv PROVE BuffersBounded
<1> USE FileUploadAssumption
<1> DEFINE n == Len(task_list)
           last == IF n <= m_concurrency THEN idx ELSE idx - 1
<1>1. /\ idx \in Nat /\ n \in Nat /\ n <= idx /\ n <= m_concurrency + 1
      /\ Front = idx - n /\ Front \in Nat /\ last \in Int /\ buffers \subseteq Blocks
      /\ Blocks \subseteq Nat
  BY LenProperties DEF Inv, TypeOK, WindowInv, Front, Blocks
<1>2. ASSUME NEW b \in buffers PROVE b \in Front..last
  <2>1. CASE task[b] \in Holding
    <3>1. ~(b >= idx) /\ ~(b < Front)
      BY <1>1, <1>2, <2>1 DEF Inv, TaskInv, Holding
    <3> QED
      BY <1>1, <3>1
  <2>2. CASE b = idx /\ n <= m_concurrency
    BY <1>1, <2>2
  <2> QED
    BY <2>1, <2>2, <1>2 DEF Inv, BufferInv
<1>3. /\ IsFiniteSet(Front..last)
      /\ Cardinality(Front..last) = IF Front > last THEN 0 ELSE last - Front + 1
  <2> HIDE DEF last, Front
  <2>1. Front \in Int /\ last \in Int
    BY <1>1
  <2> QED
    BY <2>1, FS_Interval
<1>4. Cardinality(Front..last) <= m_concurrency + 1
  BY <1>1, <1>3
<1>5. Cardinality(buffers) <= Cardinality(Front..last) /\ Cardinality(buffers) \in Nat
      /\ Cardinality(Front..last) \in Nat
  BY <1>2, <1>3, FS_Subset, FS_CardinalityType
<1> QED
  BY <1>4, <1>5 DEF BuffersBounded

\* At most `parallel' blocks are in flight, and at most one buffer more than the
\* client's concurrency is allocated, however large the file is.
THEOREM ResourcesAreBounded == Spec => []ResourcesBounded
<1>1. Inv => ResourcesBounded
  BY BuffersFit DEF Inv, ResourcesBounded
<1> QED
  BY <1>1, Invariance, PTL

\* The block list is committed when every block of the file was acknowledged, and
\* names them all in order, whatever failed or was late before.
THEOREM CommitIsComplete == Spec => []CommitOnlyComplete
BY Invariance, PTL DEF Inv

\* No thread that uses the call's locals runs when it commits, returns or has
\* thrown.
THEOREM NoTaskIsLeft == Spec => []NoTaskOutlivesCall
BY Invariance, PTL DEF Inv

-----------------------------------------------------------------------------
(* Refinement: errno and the blob do what AtomicUpload allows.               *)

\* A step that tells the caller nothing and leaves the blob alone is a stutter.
LEMMA SilentStep ==
    ASSUME main \notin {"done", "threw"}, main' \notin {"done", "threw"},
           final'.applied = final.applied
    PROVE  UNCHANGED Abstract!vars
BY DEF Abstract!vars

\* Before the call returns the outcome is pending, and the blob old unless the
\* request that replaces it was sent.
LEMMA Pending ==
    ASSUME Inv, main # "done"
    PROVE  /\ main # "threw" => main \in {"start", "loop", "drain", "finish", "unwind"}
           /\ main # "finish" => final.op = "none" /\ ~final.applied
           /\ final.applied \in BOOLEAN
BY DEF Inv, CallInv, TypeOK

LEMMA AtomicStep == ASSUME Inv, [Next]_vars PROVE [Abstract!Next]_(Abstract!vars)
<1>1. CASE Reject \/ GiveUp
  <2>1. /\ main \in {"start", "drain"} /\ main' = "done" /\ final' = final
        /\ err' \notin {"0", "put_blob", "put_block_list"}
    BY <1>1 DEF Reject, GiveUp, MayCommit, serviceVars, Inv, CallInv
  <2> QED
    BY <2>1, Pending DEF Abstract!Next, Abstract!Refuse
<1>2. CASE Unwound
  BY <1>2, Pending DEF Unwound, serviceVars, Abstract!Next, Abstract!Refuse
<1>3. CASE FinishOk
  <2>1. err' = "0" /\ main = "finish" /\ main' = "done" /\ final' = final /\ final.applied
    BY <1>3 DEF FinishOk, serviceVars, Inv, CallInv
  <2> QED
    BY <2>1 DEF Abstract!Next, Abstract!Succeed
<1>4. CASE FinishError
  <2>1. /\ err' \in {"put_blob", "put_block_list"} /\ main = "finish" /\ main' = "done"
        /\ final' = final
    BY <1>4 DEF FinishError, serviceVars, Inv, CallInv, TypeOK
  <2> QED
    BY <2>1 DEF Abstract!Next, Abstract!GiveUp
<1>5. CASE ApplyFinal
  <2>1. /\ ~final.applied /\ final.op # "none" /\ final'.applied = TRUE
        /\ main' = main /\ err' = err
    BY <1>5 DEF ApplyFinal, callVars, Inv, TypeOK
  <2>2. main # "threw" /\ (main = "done" => err \in {"put_blob", "put_block_list"})
    BY <2>1 DEF Inv, CallInv, ErrnoInv
  <2> QED
    BY <2>1, <2>2 DEF Abstract!Next, Abstract!Apply
<1>6. CASE PutSmallFile
  <2>1. final'.applied = FALSE
    BY <1>6, SmallFile
  <2> QED
    BY <1>6, <2>1, SilentStep, Pending DEF PutSmallFile
<1>7. CASE PutBlockList
  <2>1. final'.applied = FALSE
    BY <1>7 DEF PutBlockList, Request
  <2> QED
    BY <1>7, <2>1, SilentStep, Pending DEF PutBlockList
<1>8. CASE StartLoop \/ NoMemory \/ ReadFails \/ SpawnThrows \/ EndLoop \/ StartTask
           \/ (CollectFront /\ main \in {"loop", "drain"})
  <2>1. /\ main \notin {"done", "threw"} /\ main' \notin {"done", "threw"}
        /\ final' = final
    BY <1>8 DEF StartLoop, NoMemory, ReadFails, SpawnThrows, EndLoop, StartTask,
       CollectFront, NextBlock, serviceVars
  <2> QED
    BY <2>1, SilentStep
<1>9. ASSUME \/ \E b \in Blocks : Task(b) \/ SpuriousWakeup(b) \/ ApplyPutBlock(b)
             \/ UNCHANGED vars
      PROVE  UNCHANGED Abstract!vars
  <2>1. UNCHANGED <<main, err, final>>
    BY <1>9 DEF Task, SpuriousWakeup, TakePermit, FindNoPermit, FallAsleep, SendBlock,
       BlockOk, BlockError, ReleasePermit, ApplyPutBlock, vars, callVars, serviceVars
  <2> QED
    BY <2>1 DEF Abstract!vars
<1> QED
  BY <1>1, <1>2, <1>3, <1>4, <1>5, <1>6, <1>7, <1>8, <1>9, StepCases DEF Kept

\* The upload of a file does what AtomicUpload allows: the blob changes at most
\* once, and never after errno or an exception said that it did not.
THEOREM UploadIsAtomic == Spec => AtomicOutcome
<1>1. Init => Abstract!Init
  BY DEF Init, Request, Abstract!Init
<1> QED
  BY <1>1, AtomicStep, Invariance, PTL DEF Spec, AtomicOutcome, Abstract!Safety

=============================================================================
