------------------------- MODULE FileDownloadProofs -------------------------
(***************************************************************************)
(* What FileDownload's run shows for chunks of two bytes and versions of   *)
(* seven at most, for chunks and versions of any length and any number of  *)
(* downloaders.                                                            *)
(***************************************************************************)
EXTENDS FileDownload, FiniteSetTheorems, TLAPS

\* What the first chunk told is true of a version that was current.
ChunkInv ==
    /\ main \in {"start", "first"} => first = NoChunk
    /\ first.totalSize > 0 =>
           /\ first.etag \in replaced \cup {blob}
           /\ LengthOf[first.etag] = first.totalSize
    /\ main \in {"resize", "spawn", "collect"} \/ err = "0" =>
           \E v \in replaced \cup {blob} : LengthOf[v] = first.totalSize

\* The threads' ranges lie side by side behind the first chunk, as many as were
\* planned at most.
PlanInv ==
    /\ main \in {"start", "first", "resize"} => tasks = {}
    /\ IsFiniteSet(tasks) /\ Cardinality(tasks) <= downloaders
    /\ main = "spawn" => offset = first.size + Cardinality(tasks) * chunk_size
    /\ \A o \in tasks : /\ first.size <= o /\ o < first.totalSize
                        /\ o + chunk_size <= offset
    /\ \A o, p \in tasks : o < p => o + chunk_size <= p

\* Every byte between the first chunk and the offset is in some thread's range.
CoverInv ==
    /\ main \in {"spawn", "collect"} \/ err = "0" =>
           \A i \in (first.size + 1)..offset :
               \E o \in tasks : o < i /\ i <= o + chunk_size
    /\ main = "collect" \/ err = "0" => offset >= first.totalSize

\* What the threads have answered, and what the call makes of it.
AnswerInv ==
    /\ \A o \in Offsets : o \in tasks <=> task[o] # "unborn"
    /\ \A o \in Offsets : task[o] # "done" => answer[o] = "0"
    /\ \A o \in tasks : answer[o] = "EAGAIN" => first.etag \in replaced
    /\ main # "returned" => err = "unset"
    /\ main = "returned" => TasksDone
    /\ err = "0" => main = "returned" /\ \A o \in tasks : answer[o] = "0"
    /\ err = "EAGAIN" => first.etag \in replaced

\* The cells of the first chunk, and of each range that arrived, hold the first
\* chunk's version.
Holds(low, high) ==
    \A i \in (low + 1)..high : i <= Len(file) /\ file[i] = first.etag
FileInv ==
    /\ Holds(0, first.size)
    /\ \A o \in tasks : task[o] = "done" /\ answer[o] = "0" => Holds(o, o + range(o))
    /\ resized => Len(file) = first.totalSize
    /\ main \in {"start", "first", "resize"} => ~resized

Inv == TypeOK /\ ChunkInv /\ PlanInv /\ CoverInv /\ AnswerInv /\ FileInv

-----------------------------------------------------------------------------
(* Sizes. *)

LEMMA OffsetsNat == Offsets \subseteq Nat
BY FileDownloadAssumption DEF Offsets

\* The chunks are not empty, and downloaders of them reach the end.
LEMMA ChunkSize ==
    ASSUME TypeOK
    PROVE  /\ left \in Nat /\ chunk_size \in Nat /\ chunk_size > 0
           /\ downloaders * chunk_size >= left
<1> USE FileDownloadAssumption
<1>1. first.totalSize \in Nat /\ first.size \in Nat /\ first.size <= first.totalSize
  BY DEF TypeOK, Least
<1>2. left \in Nat
  BY <1>1 DEF left
<1> DEFINE X == left + downloaders - 1
           q == X \div downloaders
<1>3. X \in Nat
  BY <1>2
<1>4. q \in Nat /\ X < downloaders * q + downloaders
  BY <1>3
<1>5. downloaders * q \in Nat
  BY <1>4
<1>6. left <= downloaders * q
  BY <1>2, <1>4, <1>5
<1>7. chunk_size \in Nat /\ chunk_size > 0 /\ chunk_size >= q
  BY <1>4 DEF chunk_size, Greatest
<1>8. downloaders * chunk_size \in Nat
  BY <1>7
<1>9. downloaders * q <= downloaders * chunk_size
  BY <1>4, <1>7
<1> HIDE DEF q, X
<1> QED
  BY <1>2, <1>5, <1>6, <1>7, <1>8, <1>9

\* The range of a thread is not empty, within its chunk and within the blob.
LEMMA RangeSize ==
    ASSUME TypeOK, NEW o \in Nat, o < first.totalSize
    PROVE  /\ range(o) \in Nat /\ range(o) <= chunk_size
           /\ o + range(o) <= first.totalSize
           /\ \A i \in Nat : i <= first.totalSize /\ i <= o + chunk_size => i <= o + range(o)
<1>1. first.totalSize \in Nat
  BY DEF TypeOK
<1> QED
  BY <1>1, ChunkSize DEF range, Least

LEMMA AvailableSize ==
    ASSUME TypeOK, NEW o \in Nat, NEW n \in Nat
    PROVE  /\ Available(o, n) \in 0..n
           /\ o + n <= LengthOf[blob] => Available(o, n) = n
<1>1. LengthOf[blob] \in Nat
  BY FileDownloadAssumption DEF TypeOK
<1> QED
  BY <1>1 DEF Available, Greatest, Least

\* A write fills its cells with the current version and leaves the others alone.
LEMMA Writing ==
    ASSUME TypeOK, NEW o \in Nat, NEW n \in Nat, file' = Written(o, n)
    PROVE  /\ file' \in Seq(Versions \cup {"hole", "old"})
           /\ n = 0 => file' = file
           /\ Len(file') = IF n = 0 THEN Len(file) ELSE Greatest(Len(file), o + n)
           /\ \A i \in (o + 1)..(o + n) : i <= Len(file') /\ file'[i] = blob
           /\ \A i \in 1..Len(file) :
                  i <= Len(file') /\ (i <= o \/ i > o + n => file'[i] = file[i])
<1>1. Len(file) \in Nat /\ blob \in Versions
      /\ \A i \in 1..Len(file) : file[i] \in Versions \cup {"hole", "old"}
  BY DEF TypeOK
<1>2. CASE n = 0
  BY <1>1, <1>2 DEF Written, TypeOK
<1>3. CASE n # 0
  <2> DEFINE len == Greatest(Len(file), o + n)
             Cell(i) == CASE i > o /\ i <= o + n -> blob
                          [] i <= Len(file) /\ (i <= o \/ i > o + n) -> file[i]
                          [] OTHER -> "hole"
  <2>1. len \in Nat /\ len >= Len(file) /\ len >= o + n
    BY <1>1 DEF Greatest
  <2>2. file' = [i \in 1..len |-> Cell(i)]
    BY <1>3 DEF Written
  <2>3. ASSUME NEW i \in 1..len
        PROVE  /\ Cell(i) \in Versions \cup {"hole", "old"}
               /\ i > o /\ i <= o + n => Cell(i) = blob
               /\ i <= Len(file) /\ (i <= o \/ i > o + n) => Cell(i) = file[i]
    BY <1>1, <2>1
  <2> HIDE DEF len, Cell
  <2>4. file' \in Seq(Versions \cup {"hole", "old"}) /\ Len(file') = len
    BY <2>1, <2>2, <2>3
  <2>5. \A i \in 1..len : file'[i] = Cell(i)
    BY <2>2
  <2>6. ASSUME NEW i \in (o + 1)..(o + n) PROVE i <= len /\ file'[i] = blob
    BY <2>1, <2>3, <2>5
  <2>7. ASSUME NEW i \in 1..Len(file)
        PROVE  i <= len /\ (i <= o \/ i > o + n => file'[i] = file[i])
    BY <1>1, <2>1, <2>3, <2>5
  <2> QED
    BY <1>3, <2>4, <2>6, <2>7 DEF len
<1> QED
  BY <1>2, <1>3

-----------------------------------------------------------------------------
(* The initial states, and the shapes of the steps. *)

LEMMA InitInv == Init => Inv
<1> SUFFICES ASSUME Init PROVE Inv
  OBVIOUS
<1> USE FileDownloadAssumption DEF Init, NoChunk
<1>1. TypeOK
  <2>1. first \in [etag : Versions \cup {"none"}, totalSize : Nat, size : Nat]
    OBVIOUS
  <2>2. first.size \in 0..Least(DOWNLOAD_CHUNK_SIZE, first.totalSize)
    BY DEF Least
  <2>3. file \in Seq(Versions \cup {"hole", "old"})
    <3>1. file = <<>> \/ file = [i \in 1..4 |-> "old"]
      OBVIOUS
    <3> HIDE DEF Init
    <3>2. CASE file = <<>>
      BY <3>2
    <3>3. CASE file = [i \in 1..4 |-> "old"]
      BY <3>3
    <3> QED
      BY <3>1, <3>2, <3>3
  <2>4. /\ task \in [Offsets -> {"unborn", "read", "done"}]
        /\ answer \in [Offsets -> {"0", "EAGAIN", "service", "unknown_error"}]
    OBVIOUS
  <2>5. offset \in Nat /\ tasks \subseteq Offsets /\ cuts \in 0..MaxCuts
    OBVIOUS
  <2>6. /\ blob \in Versions \ replaced /\ replaced \subseteq Versions
        /\ resized \in BOOLEAN /\ main = "start" /\ err = "unset"
    OBVIOUS
  <2> HIDE DEF Init
  <2> QED
    BY <2>1, <2>2, <2>3, <2>4, <2>5, <2>6 DEF TypeOK
<1>2. ChunkInv /\ CoverInv /\ AnswerInv
  BY DEF ChunkInv, CoverInv, AnswerInv
<1>3. PlanInv
  BY FS_EmptySet DEF PlanInv
<1>4. FileInv
  BY DEF FileInv, Holds
<1> QED
  BY <1>1, <1>2, <1>3, <1>4 DEF Inv

\* Another client, and the steps of the call that start no thread and leave the
\* file alone.
Still == \/ Reject \/ SpawnThrows \/ AllStarted \/ Collect \/ Unwind
         \/ Replace \/ UNCHANGED vars

\* The steps before the first thread.
Early == \/ OpenFile \/ FirstCut \/ FirstAnswered \/ FirstEmpty \/ FirstFails
         \/ ResizeFile

LEMMA Steps ==
    ASSUME [Next]_vars
    PROVE  \/ Still \/ Early \/ StartTask
           \/ \E o \in Offsets : Task(o) \/ PartCut(o)
BY DEF Next, Main, Still, Early

\* While the first chunk's outcome stands, so do the sizes made from it.
LEMMA SameSizes ==
    ASSUME first' = first
    PROVE  left' = left /\ chunk_size' = chunk_size /\ \A o \in Nat : range(o)' = range(o)
BY DEF left, chunk_size, range

\* What the steps that leave the threads and the file alone do.
LEMMA StillMoves ==
    ASSUME Inv, Still
    PROVE  /\ UNCHANGED <<first, offset, tasks, task, answer, file, resized, cuts>>
           /\ \/ UNCHANGED serviceVars
              \/ Replace /\ UNCHANGED <<main, err>>
           /\ \/ UNCHANGED <<main, err>>
              \/ /\ main = "start" /\ main' = "returned"
                 /\ err' \in {"client_not_init", "unknown_error"}
              \/ main = "spawn" /\ main' = "unwind" /\ err' = err
              \/ main = "spawn" /\ ~MoreToRead /\ main' = "collect" /\ err' = err
              \/ /\ main = "unwind" /\ main' = "returned" /\ err' = "unknown_error"
                 /\ TasksDone
              \/ /\ main = "collect" /\ main' = "returned" /\ TasksDone
                 /\ \/ err' = "0" /\ \A o \in tasks : answer[o] = "0"
                    \/ \E o \in tasks : answer[o] # "0" /\ err' = answer[o]
<1> USE DEF callVars, taskVars, serviceVars, Return
<1>1. CASE Reject \/ SpawnThrows \/ AllStarted
  BY <1>1 DEF Reject, SpawnThrows, AllStarted
<1>2. CASE Collect
  BY <1>2 DEF Collect
<1>3. CASE Unwind
  BY <1>3 DEF Unwind
<1>4. CASE Replace
  BY <1>4 DEF Replace
<1>5. CASE UNCHANGED vars
  BY <1>5 DEF vars
<1> QED
  BY <1>1, <1>2, <1>3, <1>4, <1>5 DEF Still

\* What the early steps do: there is no thread yet.
LEMMA EarlyMoves ==
    ASSUME Inv, Early
    PROVE  /\ UNCHANGED <<tasks, taskVars, serviceVars>> /\ tasks = {}
           /\ main \in {"start", "first", "resize"}
           /\ ~resized /\ err = "unset"
           /\ \/ main' \in {"first", "resize", "spawn"} /\ err' = err
              \/ /\ main' = "returned"
                 /\ err' \in {"unknown_error", "service", "blob_no_content_range"}
           /\ main' # "spawn" => offset' = offset /\ ~resized'
           /\ main' = "spawn" => offset' = first.size
           /\ resized' = resized \/ resized' = TRUE
           /\ cuts' = cuts \/ (cuts < MaxCuts /\ cuts' = cuts + 1)
           /\ main # "first" => first' = first
           /\ main' \in {"first", "returned"} => first' = NoChunk
           /\ main' = "spawn" => first' = first
<1> USE DEF callVars, taskVars, serviceVars, Return
<1>1. CASE OpenFile
  BY <1>1 DEF OpenFile, Inv, ChunkInv, PlanInv, AnswerInv, FileInv
<1>2. CASE FirstCut
  BY <1>2 DEF FirstCut, Inv, ChunkInv, PlanInv, AnswerInv, FileInv
<1>3. CASE FirstAnswered
  BY <1>3 DEF FirstAnswered, Inv, ChunkInv, PlanInv, AnswerInv, FileInv
<1>4. CASE FirstEmpty
  BY <1>4 DEF FirstEmpty, Inv, ChunkInv, PlanInv, AnswerInv, FileInv
<1>5. CASE FirstFails
  BY <1>5 DEF FirstFails, Inv, ChunkInv, PlanInv, AnswerInv, FileInv
<1>6. CASE ResizeFile
  BY <1>6 DEF ResizeFile, Inv, ChunkInv, PlanInv, AnswerInv, FileInv
<1> QED
  BY <1>1, <1>2, <1>3, <1>4, <1>5, <1>6 DEF Early

\* What the file and the first chunk are after an early step.
LEMMA EarlyFile ==
    ASSUME Inv, Early
    PROVE  /\ file' \in Seq(Versions \cup {"hole", "old"})
           /\ first' \in [etag : Versions \cup {"none"}, totalSize : Nat, size : Nat]
           /\ first'.size <= DOWNLOAD_CHUNK_SIZE /\ first'.size <= first'.totalSize
           /\ \A i \in 1..first'.size : i <= Len(file') /\ file'[i] = first'.etag
           /\ resized' => Len(file') = first'.totalSize
           /\ first'.totalSize > 0 =>
                  first'.etag \in replaced \cup {blob} /\ LengthOf[first'.etag] = first'.totalSize
           /\ main' \in {"resize", "spawn"} =>
                  \E v \in replaced \cup {blob} : LengthOf[v] = first'.totalSize
<1> USE FileDownloadAssumption
<1>1. /\ file \in Seq(Versions \cup {"hole", "old"}) /\ Len(file) \in Nat
      /\ first \in [etag : Versions \cup {"none"}, totalSize : Nat, size : Nat]
      /\ first.size <= DOWNLOAD_CHUNK_SIZE /\ first.size <= first.totalSize
      /\ blob \in Versions /\ LengthOf[blob] \in Nat
      /\ \A i \in 1..first.size : i <= Len(file) /\ file[i] = first.etag
      /\ first.totalSize > 0 =>
             first.etag \in replaced \cup {blob} /\ LengthOf[first.etag] = first.totalSize
  BY DEF Inv, TypeOK, Least, ChunkInv, FileInv, Holds
<1>2. main = "first" => first = NoChunk
  BY DEF Inv, ChunkInv
<1> DEFINE n0 == Available(0, DOWNLOAD_CHUNK_SIZE)
<1>3. n0 \in Nat /\ n0 <= DOWNLOAD_CHUNK_SIZE /\ n0 <= LengthOf[blob]
  BY <1>1 DEF Available, Greatest, Least
<1>4. TypeOK
  BY DEF Inv
<1>5. CASE OpenFile
  <2>1. file' = <<>> /\ first' = first /\ main' = "first" /\ first = NoChunk
        /\ resized' = resized /\ ~resized
    BY <1>5 DEF OpenFile, Inv, ChunkInv, FileInv
  <2> QED
    BY <2>1 DEF NoChunk
<1>6. CASE FirstCut \/ FirstFails
  <2>1. PICK n \in 0..n0 : file' = Written(0, n)
    BY <1>3, <1>6 DEF FirstCut, FirstFails
  <2>2. first' = NoChunk /\ main' \in {"first", "returned"} /\ ~resized'
    BY <1>2, <1>6 DEF FirstCut, FirstFails, callVars, Return, Inv, FileInv
  <2>3. file' \in Seq(Versions \cup {"hole", "old"})
    BY <1>3, <1>4, <2>1, Writing
  <2> QED
    BY <2>2, <2>3 DEF NoChunk
<1>7. CASE FirstAnswered
  <2>1. file' = Written(0, n0) /\ first' = Chunk(n0) /\ main' = "resize" /\ ~resized'
    BY <1>7 DEF FirstAnswered, Inv, FileInv
  <2>2. /\ file' \in Seq(Versions \cup {"hole", "old"})
        /\ \A i \in 1..n0 : i <= Len(file') /\ file'[i] = blob
    BY <1>3, <1>4, <2>1, Writing
  <2> HIDE DEF n0
  <2> QED
    BY <1>1, <1>3, <2>1, <2>2 DEF Chunk
<1>8. CASE FirstEmpty
  <2>1. first' = first /\ file' = file /\ LengthOf[blob] = 0 /\ first = NoChunk /\ ~resized'
    BY <1>2, <1>8 DEF FirstEmpty, Inv, FileInv
  <2> QED
    BY <1>1, <2>1 DEF NoChunk
<1>9. CASE ResizeFile
  <2>1. /\ first' = first
        /\ \/ file' = Truncated
           \/ file' = file /\ resized' = resized
        /\ ~resized /\ \E v \in replaced \cup {blob} : LengthOf[v] = first.totalSize
    BY <1>9 DEF ResizeFile, Inv, FileInv, ChunkInv
  <2>2. CASE file' = Truncated
    <3>1. file' = [i \in 1..first.totalSize |-> IF i <= Len(file) THEN file[i] ELSE "hole"]
      BY <2>2 DEF Truncated
    <3>2. \A i \in 1..Len(file) : file[i] \in Versions \cup {"hole", "old"}
      BY <1>1
    <3>3. file' \in Seq(Versions \cup {"hole", "old"}) /\ Len(file') = first.totalSize
      BY <1>1, <3>1, <3>2
    <3>4. \A i \in 1..first.size : i <= Len(file') /\ file'[i] = first.etag
      BY <1>1, <3>1, <3>3
    <3> QED
      BY <1>1, <2>1, <3>3, <3>4
  <2>3. CASE file' = file /\ resized' = resized
    BY <1>1, <2>1, <2>3
  <2> QED
    BY <2>1, <2>2, <2>3
<1> QED
  BY <1>5, <1>6, <1>7, <1>8, <1>9 DEF Early

\* A new thread's range begins where the last one's ends.
LEMMA StartMoves ==
    ASSUME Inv, StartTask
    PROVE  /\ main = "spawn" /\ err = "unset"
           /\ offset \in Offsets /\ offset < first.totalSize /\ offset >= first.size
           /\ \A o \in tasks : o < offset
           /\ offset \notin tasks /\ task[offset] = "unborn"
           /\ tasks' = tasks \cup {offset}
           /\ task' = [task EXCEPT ![offset] = "read"]
           /\ offset' = offset + chunk_size
           /\ UNCHANGED <<main, first, err, resized, answer, file, serviceVars, cuts>>
<1> USE FileDownloadAssumption
<1>1. /\ main = "spawn" /\ offset < first.totalSize
      /\ tasks' = tasks \cup {offset}
      /\ task' = [task EXCEPT ![offset] = "read"]
      /\ offset' = offset + chunk_size
      /\ UNCHANGED <<main, first, err, resized, answer, file, serviceVars, cuts>>
  BY DEF StartTask, MoreToRead
<1>2. /\ offset \in Nat /\ first.totalSize \in Nat /\ first.size \in Nat
      /\ blob \in Versions /\ replaced \subseteq Versions
  BY DEF Inv, TypeOK
<1>3. first.etag \in Versions /\ LengthOf[first.etag] = first.totalSize
  BY <1>1, <1>2 DEF Inv, ChunkInv
<1>4. offset \in 0..LengthOf[first.etag]
  BY <1>1, <1>2, <1>3
<1>5. offset \in Offsets
  BY <1>3, <1>4 DEF Offsets
<1>6. chunk_size \in Nat /\ chunk_size > 0
  BY ChunkSize DEF Inv
<1>7. \A o \in tasks : o < offset
  <2>1. \A o \in tasks : o \in Nat /\ o + chunk_size <= offset
    BY OffsetsNat DEF Inv, TypeOK, PlanInv
  <2> QED
    BY <1>2, <1>6, <2>1
<1>8. offset >= first.size
  <2>1. offset = first.size + Cardinality(tasks) * chunk_size /\ Cardinality(tasks) \in Nat
    BY <1>1, FS_CardinalityType DEF Inv, PlanInv
  <2>2. Cardinality(tasks) * chunk_size \in Nat
    BY <1>6, <2>1
  <2> QED
    BY <1>2, <2>1, <2>2
<1>9. offset \notin tasks /\ task[offset] = "unborn" /\ err = "unset"
  BY <1>1, <1>2, <1>5, <1>7 DEF Inv, AnswerInv
<1> QED
  BY <1>1, <1>5, <1>7, <1>8, <1>9

\* What a thread does: it writes a part of its range; when it ends with 0 the
\* whole, and of the first chunk's version.
LEMMA PartMoves ==
    ASSUME Inv, NEW o \in Offsets, Task(o) \/ PartCut(o)
    PROVE  /\ o \in Nat /\ o \in tasks /\ task[o] = "read"
           /\ main # "returned" /\ o < first.totalSize
           /\ UNCHANGED <<callVars, serviceVars>> /\ cuts' \in 0..MaxCuts
           /\ \E n \in 0..range(o) : file' = Written(o, n)
           /\ \/ UNCHANGED taskVars
              \/ /\ task' = [task EXCEPT ![o] = "done"]
                 /\ \E e \in {"0", "EAGAIN", "service", "unknown_error"} :
                       /\ answer' = [answer EXCEPT ![o] = e]
                       /\ e = "EAGAIN" => first.etag \in replaced
                       /\ e = "0" => blob = first.etag /\ file' = Written(o, range(o))
<1> USE FileDownloadAssumption
<1>1. task[o] = "read" /\ UNCHANGED <<callVars, serviceVars>>
  BY DEF Task, PartCut, PartAnswered, PartPastEnd, PartFails, PartNotWritten, Finish
<1>2. o \in Nat /\ o \in tasks
  BY <1>1, OffsetsNat DEF Inv, AnswerInv
<1>3. /\ first.totalSize \in Nat /\ blob \in Versions /\ replaced \subseteq Versions
      /\ first.size \in Nat
  BY DEF Inv, TypeOK
<1>4. o < first.totalSize /\ TypeOK
  BY <1>2 DEF Inv, PlanInv
<1>5. main # "returned"
  BY <1>1, <1>2 DEF Inv, AnswerInv, TasksDone
<1>6. first.etag \in replaced \cup {blob} /\ LengthOf[first.etag] = first.totalSize
  BY <1>2, <1>3, <1>4 DEF Inv, ChunkInv
<1>7. range(o) \in Nat /\ o + range(o) <= first.totalSize
  BY <1>2, <1>4, RangeSize
<1> DEFINE n0 == Available(o, range(o))
<1>8. n0 \in 0..range(o) /\ (blob = first.etag => n0 = range(o))
  BY <1>2, <1>4, <1>6, <1>7, AvailableSize
<1>9. \A n \in 0..n0 : n \in 0..range(o)
  BY <1>7, <1>8
<1>10. 0 \in 0..range(o) /\ file = Written(o, 0)
  BY <1>7 DEF Written
<1>11. cuts \in 0..MaxCuts
  BY DEF Inv, TypeOK
<1>12. CASE PartCut(o)
  <2>1. PICK n \in 1..n0 : file' = Written(o, n)
    BY <1>12 DEF PartCut
  <2>2. n \in 0..range(o)
    BY <1>8, <1>9
  <2>3. UNCHANGED taskVars /\ cuts' \in 0..MaxCuts
    BY <1>11, <1>12 DEF PartCut
  <2> QED
    BY <1>1, <1>2, <1>4, <1>5, <2>1, <2>2, <2>3
<1>13. CASE PartAnswered(o)
  <2>1. /\ task' = [task EXCEPT ![o] = "done"]
        /\ answer' = [answer EXCEPT ![o] = IF blob = first.etag THEN "0" ELSE "EAGAIN"]
        /\ file' = Written(o, n0) /\ cuts' = cuts
    BY <1>13 DEF PartAnswered, Finish, SameEtag
  <2> HIDE DEF n0
  <2>2. CASE blob = first.etag
    BY <1>1, <1>2, <1>4, <1>5, <1>8, <1>11, <2>1, <2>2
  <2>3. CASE blob # first.etag
    <3>1. first.etag \in replaced
      BY <1>6, <2>3
    <3> QED
      BY <1>1, <1>2, <1>4, <1>5, <1>8, <1>11, <2>1, <2>3, <3>1
  <2> QED
    BY <2>2, <2>3
<1>14. CASE PartPastEnd(o)
  <2>1. /\ task' = [task EXCEPT ![o] = "done"] /\ answer' = [answer EXCEPT ![o] = "EAGAIN"]
        /\ file' = file /\ cuts' = cuts /\ LengthOf[blob] <= o
    BY <1>14 DEF PartPastEnd, Finish
  <2>2. first.etag \in replaced
    BY <1>2, <1>3, <1>4, <1>6, <2>1
  <2> QED
    BY <1>1, <1>2, <1>4, <1>5, <1>10, <1>11, <2>1, <2>2
<1>15. CASE PartFails(o)
  BY <1>1, <1>2, <1>4, <1>5, <1>10, <1>11, <1>15 DEF PartFails, Finish
<1>16. CASE PartNotWritten(o)
  <2>1. PICK n \in 0..n0 : file' = Written(o, n)
    BY <1>16 DEF PartNotWritten
  <2>2. n \in 0..range(o)
    BY <1>9
  <2>3. /\ task' = [task EXCEPT ![o] = "done"] /\ cuts' = cuts
        /\ answer' = [answer EXCEPT
               ![o] = IF blob = first.etag THEN "unknown_error" ELSE "EAGAIN"]
    BY <1>16 DEF PartNotWritten, Finish, SameEtag
  <2>4. blob # first.etag => first.etag \in replaced
    BY <1>6
  <2> QED
    BY <1>1, <1>2, <1>4, <1>5, <1>11, <2>1, <2>2, <2>3, <2>4
<1> QED
  BY <1>12, <1>13, <1>14, <1>15, <1>16 DEF Task

-----------------------------------------------------------------------------
(* Each part of the invariant is kept by every step. *)

LEMMA TypeStep == Inv /\ [Next]_vars => TypeOK'
<1> SUFFICES ASSUME Inv, [Next]_vars PROVE TypeOK'
  OBVIOUS
<1> USE FileDownloadAssumption
<1>1. TypeOK
  BY DEF Inv
<1>2. CASE Still
  <2>1. /\ main' \in {"start", "first", "resize", "spawn", "collect", "unwind", "returned"}
        /\ err' \in {"unset", "client_not_init", "blob_no_content_range", "0",
                     "EAGAIN", "service", "unknown_error"}
    <3>1. \A o \in tasks : answer[o] \in {"0", "EAGAIN", "service", "unknown_error"}
      BY <1>1 DEF TypeOK
    <3> QED
      BY <1>1, <1>2, <3>1, StillMoves DEF TypeOK
  <2>2. blob' \in Versions \ replaced' /\ replaced' \subseteq Versions
    BY <1>1, <1>2, StillMoves DEF TypeOK, Replace, serviceVars
  <2> QED
    BY <1>1, <1>2, <2>1, <2>2, StillMoves DEF TypeOK, Least
<1>3. CASE Early
  <2>1. cuts' \in 0..MaxCuts /\ offset' \in Nat /\ resized' \in BOOLEAN
    <3>1. cuts \in 0..MaxCuts /\ offset \in Nat /\ first.size \in Nat
      BY <1>1 DEF TypeOK
    <3>2. cuts' = cuts \/ (cuts < MaxCuts /\ cuts' = cuts + 1)
      BY <1>3, EarlyMoves
    <3>3. cuts' \in 0..MaxCuts
      BY <3>1, <3>2
    <3>4. offset' \in Nat
      BY <1>3, <3>1, EarlyMoves
    <3>5. resized' = resized \/ resized' = TRUE
      BY <1>3, EarlyMoves
    <3>6. resized' \in BOOLEAN
      BY <1>1, <3>5 DEF TypeOK
    <3> QED
      BY <3>3, <3>4, <3>6
  <2>2. /\ main' \in {"start", "first", "resize", "spawn", "collect", "unwind", "returned"}
        /\ err' \in {"unset", "client_not_init", "blob_no_content_range", "0",
                     "EAGAIN", "service", "unknown_error"}
        /\ UNCHANGED <<tasks, task, answer, blob, replaced>>
    BY <1>1, <1>3, EarlyMoves DEF TypeOK, taskVars, serviceVars
  <2>3. first'.size \in 0..Least(DOWNLOAD_CHUNK_SIZE, first'.totalSize)
    BY <1>3, EarlyFile DEF Least
  <2> QED
    BY <1>1, <1>3, <2>1, <2>2, <2>3, EarlyFile DEF TypeOK, Least
<1>4. CASE StartTask
  <2>1. offset' \in Nat
    BY <1>1, <1>4, StartMoves, ChunkSize DEF TypeOK
  <2>2. tasks' \subseteq Offsets /\ task' \in [Offsets -> {"unborn", "read", "done"}]
    BY <1>1, <1>4, StartMoves DEF TypeOK
  <2> QED
    BY <1>1, <1>4, <2>1, <2>2, StartMoves DEF TypeOK, serviceVars, Least
<1>5. ASSUME NEW o \in Offsets, Task(o) \/ PartCut(o) PROVE TypeOK'
  <2>1. PICK n \in 0..range(o) : file' = Written(o, n)
    BY <1>5, PartMoves
  <2>2. o \in Nat /\ n \in Nat
    BY <1>1, <1>5, PartMoves, RangeSize
  <2>3. file' \in Seq(Versions \cup {"hole", "old"})
    BY <1>1, <2>1, <2>2, Writing
  <2>4. /\ task' \in [Offsets -> {"unborn", "read", "done"}]
        /\ answer' \in [Offsets -> {"0", "EAGAIN", "service", "unknown_error"}]
    BY SMTT(30), <1>1, <1>5, PartMoves DEF TypeOK, taskVars
  <2>5. UNCHANGED <<callVars, serviceVars>> /\ cuts' \in 0..MaxCuts
    BY <1>5, PartMoves
  <2> QED
    BY <1>1, <2>3, <2>4, <2>5 DEF TypeOK, callVars, serviceVars, Least
<1> QED
  BY <1>2, <1>3, <1>4, <1>5, Steps

LEMMA ChunkStep == Inv /\ [Next]_vars => ChunkInv'
<1> SUFFICES ASSUME Inv, [Next]_vars PROVE ChunkInv'
  OBVIOUS
<1>1. ChunkInv /\ AnswerInv
  BY DEF Inv
<1>2. CASE Still
  <2>1. /\ first' = first
        /\ replaced \cup {blob} \subseteq replaced' \cup {blob'}
    BY <1>2, StillMoves DEF Replace, serviceVars
  <2>2. main' \in {"start", "first"} => main \in {"start", "first"}
    BY <1>2, StillMoves
  <2>3. main' \in {"resize", "spawn", "collect"} \/ err' = "0" =>
            main \in {"resize", "spawn", "collect"} \/ err = "0"
    BY <1>2, StillMoves
  <2> QED
    BY <1>1, <2>1, <2>2, <2>3 DEF ChunkInv
<1>3. CASE Early
  <2>1. UNCHANGED <<blob, replaced>> /\ err' # "0" /\ main' # "start" /\ main' # "collect"
        /\ (main' = "first" => first' = NoChunk)
    BY <1>3, EarlyMoves DEF serviceVars
  <2> QED
    BY <1>3, <2>1, EarlyFile DEF ChunkInv
<1>4. CASE StartTask
  BY <1>1, <1>4, StartMoves DEF ChunkInv, serviceVars
<1>5. ASSUME NEW o \in Offsets, Task(o) \/ PartCut(o) PROVE ChunkInv'
  BY <1>1, <1>5, PartMoves DEF ChunkInv, callVars, serviceVars
<1> QED
  BY <1>2, <1>3, <1>4, <1>5, Steps

LEMMA PlanStep == Inv /\ [Next]_vars => PlanInv'
<1> SUFFICES ASSUME Inv, [Next]_vars PROVE PlanInv'
  OBVIOUS
<1> USE FileDownloadAssumption
<1>1. PlanInv /\ TypeOK
  BY DEF Inv
<1>2. ASSUME UNCHANGED <<first, offset, tasks>>,
             main' \in {"start", "first", "resize"} => main \in {"start", "first", "resize"},
             main' = "spawn" => main = "spawn"
      PROVE  PlanInv'
  BY <1>1, <1>2, SameSizes DEF PlanInv
<1>3. CASE Still
  BY <1>2, <1>3, StillMoves
<1>4. CASE Early
  <2>1. tasks = {} /\ tasks' = {} /\ (main' = "spawn" => offset' = first'.size)
    BY <1>4, EarlyMoves
  <2>2. IsFiniteSet({}) /\ Cardinality({}) = 0
    BY FS_EmptySet
  <2>3. main' = "spawn" => chunk_size' \in Nat
    <3>1. main' = "spawn" => first' = first
      BY <1>4, EarlyMoves
    <3> QED
      BY <1>1, <3>1, ChunkSize, SameSizes
  <2>4. first'.size \in Nat
    BY <1>4, EarlyFile
  <2>5. main' = "spawn" => offset' = first'.size + Cardinality(tasks') * chunk_size'
    BY <2>1, <2>2, <2>3, <2>4
  <2> QED
    BY <2>1, <2>2, <2>5 DEF PlanInv
<1>5. CASE StartTask
  <2> DEFINE n == Cardinality(tasks)
  <2>1. /\ offset = first.size + n * chunk_size /\ n \in Nat /\ IsFiniteSet(tasks)
        /\ n <= downloaders
    BY <1>1, <1>5, StartMoves, FS_CardinalityType DEF PlanInv
  <2>2. IsFiniteSet(tasks') /\ Cardinality(tasks') = n + 1
    BY <1>5, <2>1, StartMoves, FS_AddElement
  <2>3. /\ chunk_size \in Nat /\ chunk_size > 0 /\ left \in Nat
        /\ downloaders * chunk_size >= left
        /\ first.size \in Nat /\ first.totalSize \in Nat /\ offset \in Nat
    BY <1>1, ChunkSize DEF TypeOK
  <2>4. n * chunk_size < left
    BY <1>5, <2>1, <2>3, StartMoves DEF left
  <2>5. n < downloaders
    <3>1. SUFFICES ASSUME n >= downloaders PROVE FALSE
      BY <2>1
    <3>2. downloaders * chunk_size <= n * chunk_size
      BY <2>1, <2>3, <3>1
    <3>3. downloaders * chunk_size \in Nat /\ n * chunk_size \in Nat
      BY <2>1, <2>3
    <3> QED
      BY <2>3, <2>4, <3>2, <3>3
  <2>6. (n + 1) * chunk_size = n * chunk_size + chunk_size /\ n * chunk_size \in Nat
    BY <2>1, <2>3
  <2>7. offset' = first.size + (n + 1) * chunk_size
    BY <1>5, <2>1, <2>3, <2>6, StartMoves
  <2>8. first' = first /\ chunk_size' = chunk_size /\ main' = "spawn"
        /\ offset' = offset + chunk_size /\ tasks' = tasks \cup {offset}
    BY <1>5, StartMoves, SameSizes
  <2> HIDE DEF n
  <2>9. \A o \in tasks : o \in Nat /\ first.size <= o /\ o < first.totalSize
                          /\ o + chunk_size <= offset /\ o < offset
    BY <1>1, <1>5, OffsetsNat, StartMoves DEF PlanInv, TypeOK
  <2>10. offset < first.totalSize /\ first.size <= offset
    BY <1>5, StartMoves
  <2>11. \A o \in tasks' : /\ first.size <= o /\ o < first.totalSize
                           /\ o + chunk_size <= offset'
    BY <2>3, <2>8, <2>9, <2>10
  <2>12. \A o, p \in tasks' : o < p => o + chunk_size <= p
    BY <1>1, <2>3, <2>8, <2>9 DEF PlanInv
  <2>13. n + 1 <= downloaders
    BY <2>1, <2>5
  <2> QED
    BY <2>2, <2>7, <2>8, <2>11, <2>12, <2>13 DEF PlanInv
<1>6. ASSUME NEW o \in Offsets, Task(o) \/ PartCut(o) PROVE PlanInv'
  BY <1>2, <1>6, PartMoves DEF callVars
<1> QED
  BY <1>3, <1>4, <1>5, <1>6, Steps

LEMMA CoverStep == Inv /\ [Next]_vars => CoverInv'
<1> SUFFICES ASSUME Inv, [Next]_vars PROVE CoverInv'
  OBVIOUS
<1> USE FileDownloadAssumption
<1>1. CoverInv /\ TypeOK
  BY DEF Inv
<1>2. /\ first.size \in Nat /\ offset \in Nat /\ first.totalSize \in Nat
      /\ chunk_size \in Nat /\ chunk_size > 0
  BY <1>1, ChunkSize DEF TypeOK
<1>3. CASE Still
  <2>1. UNCHANGED <<first, offset, tasks>> /\ chunk_size' = chunk_size
    BY <1>3, StillMoves, SameSizes
  <2>2. main' \in {"spawn", "collect"} \/ err' = "0" =>
            main \in {"spawn", "collect"} \/ err = "0"
    BY <1>3, StillMoves
  <2>3. main' = "collect" \/ err' = "0" => offset >= first.totalSize
    BY <1>1, <1>2, <1>3, StillMoves DEF CoverInv, MoreToRead
  <2> QED
    BY <1>1, <2>1, <2>2, <2>3 DEF CoverInv
<1>4. CASE Early
  <2>1. /\ main' # "collect" /\ err' # "0"
        /\ main' = "spawn" => offset' = first'.size /\ first'.size \in Nat
    BY <1>2, <1>4, EarlyMoves
  <2>2. main' = "spawn" => (first'.size + 1)..offset' = {}
    BY <2>1
  <2> QED
    BY <2>1, <2>2 DEF CoverInv
<1>5. CASE StartTask
  <2>1. /\ main = "spawn" /\ main' = "spawn" /\ err' = "unset" /\ first' = first
        /\ chunk_size' = chunk_size /\ offset' = offset + chunk_size
        /\ tasks' = tasks \cup {offset}
    BY <1>5, StartMoves, SameSizes
  <2>2. ASSUME NEW i \in (first.size + 1)..(offset + chunk_size)
        PROVE  \E o \in tasks \cup {offset} : o < i /\ i <= o + chunk_size
    <3>1. CASE i <= offset
      <4>1. i \in (first.size + 1)..offset
        BY <1>2, <3>1
      <4> QED
        BY <1>1, <2>1, <4>1 DEF CoverInv
    <3>2. CASE offset < i
      <4>1. i <= offset + chunk_size
        BY <1>2
      <4>2. WITNESS offset \in tasks \cup {offset}
      <4> QED
        BY <3>2, <4>1
    <3> QED
      BY <1>2, <3>1, <3>2
  <2> QED
    BY <2>1, <2>2 DEF CoverInv
<1>6. ASSUME NEW o \in Offsets, Task(o) \/ PartCut(o) PROVE CoverInv'
  BY <1>1, <1>6, PartMoves, SameSizes DEF CoverInv, callVars
<1> QED
  BY <1>3, <1>4, <1>5, <1>6, Steps

LEMMA AnswerStep == Inv /\ [Next]_vars => AnswerInv'
<1> SUFFICES ASSUME Inv, [Next]_vars PROVE AnswerInv'
  OBVIOUS
<1>1. AnswerInv /\ TypeOK /\ PlanInv
  BY DEF Inv
<1>2. CASE Still
  <2>1. UNCHANGED <<first, tasks, task, answer>> /\ replaced \subseteq replaced'
    BY <1>2, StillMoves DEF Replace, serviceVars
  <2>2. TasksDone' = TasksDone
    BY <2>1 DEF TasksDone
  <2>3. main' = "returned" => TasksDone
    <3>1. main = "start" => tasks = {}
      BY <1>1 DEF PlanInv
    <3> QED
      BY <1>1, <1>2, <3>1, StillMoves DEF AnswerInv, TasksDone
  <2>4. main' # "returned" => err' = "unset"
    BY <1>1, <1>2, StillMoves DEF AnswerInv
  <2>5. err' = "0" => main' = "returned" /\ \A o \in tasks : answer[o] = "0"
    BY <1>1, <1>2, StillMoves DEF AnswerInv
  <2>6. err' = "EAGAIN" => first.etag \in replaced
    BY <1>1, <1>2, StillMoves DEF AnswerInv
  <2> QED
    BY <1>1, <2>1, <2>2, <2>3, <2>4, <2>5, <2>6 DEF AnswerInv
<1>3. CASE Early
  BY <1>1, <1>3, EarlyMoves DEF AnswerInv, TasksDone, taskVars, serviceVars
<1>4. CASE StartTask
  <2>1. \A o \in Offsets : o \in tasks' <=> task'[o] # "unborn"
    BY <1>1, <1>4, StartMoves DEF AnswerInv, TypeOK
  <2>2. answer[offset] = "0"
    BY <1>1, <1>4, StartMoves DEF AnswerInv, TypeOK
  <2> QED
    BY <1>1, <1>4, <2>1, <2>2, StartMoves DEF AnswerInv, TypeOK, serviceVars
<1>5. ASSUME NEW o \in Offsets, Task(o) \/ PartCut(o) PROVE AnswerInv'
  <2>1. /\ o \in tasks /\ task[o] = "read" /\ main # "returned" /\ err = "unset"
        /\ UNCHANGED <<main, err, tasks, first, replaced>>
    BY <1>1, <1>5, PartMoves DEF callVars, serviceVars, AnswerInv
  <2>2. CASE UNCHANGED taskVars
    BY <1>1, <2>1, <2>2 DEF AnswerInv, taskVars, TasksDone
  <2>3. ASSUME NEW e, task' = [task EXCEPT ![o] = "done"],
               answer' = [answer EXCEPT ![o] = e], e = "EAGAIN" => first.etag \in replaced
        PROVE  AnswerInv'
    BY <1>1, <2>1, <2>3 DEF AnswerInv, TypeOK
  <2> QED
    BY <1>5, <2>2, <2>3, PartMoves
<1> QED
  BY <1>2, <1>3, <1>4, <1>5, Steps

LEMMA FileStep == Inv /\ [Next]_vars => FileInv'
<1> SUFFICES ASSUME Inv, [Next]_vars PROVE FileInv'
  OBVIOUS
<1> USE FileDownloadAssumption
<1>1. FileInv /\ TypeOK /\ PlanInv /\ AnswerInv
  BY DEF Inv
<1>2. ASSUME UNCHANGED <<first, tasks, task, answer, file, resized>>,
             main' \in {"start", "first", "resize"} => main \in {"start", "first", "resize"}
      PROVE  FileInv'
  <2>1. \A o \in tasks : o \in Nat
    BY <1>1, OffsetsNat DEF TypeOK
  <2>2. \A o \in tasks : range(o)' = range(o)
    BY <1>2, <2>1, SameSizes
  <2> QED
    BY <1>1, <1>2, <2>2 DEF FileInv, Holds
<1>3. CASE Still
  BY <1>2, <1>3, StillMoves
<1>4. CASE Early
  <2>1. tasks' = {} /\ (main' # "spawn" => ~resized')
    BY <1>4, EarlyMoves
  <2>2. \A i \in 1..first'.size : i <= Len(file') /\ file'[i] = first'.etag
    BY <1>4, EarlyFile
  <2>3. resized' => Len(file') = first'.totalSize
    BY <1>4, EarlyFile
  <2> QED
    BY <2>1, <2>2, <2>3 DEF FileInv, Holds
<1>5. CASE StartTask
  <2>1. \A o \in tasks : o \in Nat
    BY <1>1, OffsetsNat DEF TypeOK
  <2>2. \A o \in tasks : range(o)' = range(o)
    BY <1>5, <2>1, StartMoves, SameSizes
  <2>3. task'[offset] = "read" /\ \A o \in tasks : task'[o] = task[o]
    BY <1>1, <1>5, StartMoves DEF TypeOK
  <2>4. UNCHANGED <<main, first, answer, file, resized>> /\ tasks' = tasks \cup {offset}
    BY <1>5, StartMoves
  <2> QED
    BY <1>1, <2>2, <2>3, <2>4 DEF FileInv, Holds
<1>6. ASSUME NEW o \in Offsets, Task(o) \/ PartCut(o) PROVE FileInv'
  <2>1. /\ o \in Nat /\ o \in tasks /\ task[o] = "read" /\ o < first.totalSize
        /\ UNCHANGED <<main, first, tasks, resized>>
    BY <1>6, PartMoves DEF callVars
  <2>2. PICK n \in 0..range(o) : file' = Written(o, n)
    BY <1>6, PartMoves
  <2>3. /\ range(o) \in Nat /\ range(o) <= chunk_size /\ o + range(o) <= first.totalSize
        /\ chunk_size \in Nat /\ n \in Nat /\ Len(file) \in Nat
        /\ first.size \in Nat /\ first.size <= o
    BY SMTT(30), <1>1, <2>1, <2>2, RangeSize, ChunkSize DEF TypeOK, PlanInv
  <2>4. \A i \in 1..Len(file) : i <= Len(file') /\ (i <= o \/ i > o + n => file'[i] = file[i])
    BY <1>1, <2>1, <2>2, <2>3, Writing
  <2>5. Holds(0, first.size)'
    <3>1. ASSUME NEW i \in (0 + 1)..first.size PROVE i <= Len(file') /\ file'[i] = first.etag
      <4>1. i \in 1..Len(file) /\ file[i] = first.etag /\ i <= o
        BY <1>1, <2>1, <2>3 DEF FileInv, Holds
      <4> QED
        BY <2>4, <4>1
    <3> QED
      BY <2>1, <3>1 DEF Holds
  <2>6. ASSUME NEW p \in tasks, p # o, task[p] = "done" /\ answer[p] = "0"
        PROVE  Holds(p, p + range(p))'
    <3>1. p \in Nat /\ p < first.totalSize
      BY <1>1, OffsetsNat DEF TypeOK, PlanInv
    <3>2. range(p) \in Nat /\ range(p) <= chunk_size /\ range(p)' = range(p)
      BY <1>1, <2>1, <3>1, RangeSize, SameSizes
    <3>3. p + chunk_size <= o \/ o + chunk_size <= p
      <4>1. p < o \/ o < p
        BY <2>1, <2>6, <3>1
      <4> QED
        BY <1>1, <2>1, <4>1 DEF PlanInv
    <3>4. ASSUME NEW i \in (p + 1)..(p + range(p))
          PROVE  i <= Len(file') /\ file'[i] = first.etag
      <4>1. i \in 1..Len(file) /\ file[i] = first.etag
        BY <1>1, <2>3, <2>6, <3>1, <3>2 DEF FileInv, Holds
      <4>2. i <= o \/ i > o + n
        BY <2>1, <2>2, <2>3, <3>1, <3>2, <3>3
      <4> QED
        BY <2>4, <4>1, <4>2
    <3> QED
      BY <2>1, <3>2, <3>4 DEF Holds
  <2>7. ASSUME task'[o] = "done", answer'[o] = "0" PROVE Holds(o, o + range(o))'
    <3>1. blob = first.etag /\ file' = Written(o, range(o))
      BY <1>1, <1>6, <2>1, <2>7, PartMoves DEF TypeOK, taskVars
    <3>2. \A i \in (o + 1)..(o + range(o)) : i <= Len(file') /\ file'[i] = blob
      BY <1>1, <2>1, <2>3, <3>1, Writing
    <3>3. range(o)' = range(o)
      BY <2>1, SameSizes
    <3> QED
      BY <2>1, <3>1, <3>2, <3>3 DEF Holds
  <2>8. \A p \in tasks : p # o => task'[p] = task[p] /\ answer'[p] = answer[p]
    BY <1>1, <1>6, PartMoves DEF TypeOK, taskVars
  <2>9. resized' => Len(file') = first'.totalSize
    <3>1. Len(file') = IF n = 0 THEN Len(file) ELSE Greatest(Len(file), o + n)
      BY <1>1, <2>1, <2>2, <2>3, Writing
    <3>2. first.totalSize \in Nat /\ o + n <= first.totalSize
      BY <1>1, <2>1, <2>2, <2>3 DEF TypeOK
    <3> QED
      BY <1>1, <2>1, <2>3, <3>1, <3>2 DEF FileInv, Greatest
  <2>10. \A p \in tasks' : task'[p] = "done" /\ answer'[p] = "0" => Holds(p, p + range(p))'
    BY <2>1, <2>6, <2>7, <2>8
  <2> QED
    BY <1>1, <2>1, <2>5, <2>9, <2>10 DEF FileInv
<1> QED
  BY <1>3, <1>4, <1>5, <1>6, Steps

-----------------------------------------------------------------------------
(* The theorems. *)

\* The inductive invariant: for chunks and versions of any length and any number
\* of downloaders, the threads' ranges lie side by side behind the first chunk,
\* and what has arrived of download_blob_to_file is in its place.
THEOREM Invariance == Safety => []Inv
<1>1. Inv /\ [Next]_vars => Inv'
  BY TypeStep, ChunkStep, PlanStep, CoverStep, AnswerStep, FileStep DEF Inv
<1> QED
  BY <1>1, InitInv, PTL DEF Safety

\* Every variable keeps to its values; no thread starts outside the blob.
THEOREM TypeCorrect == Safety => []TypeOK
<1>1. Inv => TypeOK
  BY DEF Inv
<1> QED
  BY <1>1, Invariance, PTL

\* At most min(parallel, m_concurrency) threads are started, and none of them
\* outlives the call, not even when one could not be started.
THEOREM ThreadsAreOwned == Safety => []ThreadsOwned
<1>1. Inv => ThreadsBounded
  BY DEF Inv, PlanInv, ThreadsBounded
<1>2. Inv => NoTaskOutlivesCall
  BY DEF Inv, AnswerInv, NoTaskOutlivesCall, TasksDone, TypeOK
<1> QED
  BY <1>1, <1>2, Invariance, PTL DEF ThreadsOwned
-----------------------------------------------------------------------------
(* Refinement: the call, seen from outside, reads the blob at one moment.    *)

\* When all ranges have arrived the file holds the first chunk's version from
\* the first byte to the last.
LEMMA FileIsWhole ==
    ASSUME Inv, main = "collect", TasksDone, \A o \in tasks : answer[o] = "0"
    PROVE  InFile = Whole(first.etag, first.totalSize)
<1>1. /\ TypeOK /\ FileInv /\ (resized => Len(file) = first.totalSize)
      /\ first.totalSize \in Nat /\ first.size \in Nat /\ offset \in Nat
      /\ file \in Seq(Versions \cup {"hole", "old"}) /\ offset >= first.totalSize
  BY DEF Inv, FileInv, TypeOK, CoverInv
<1>2. ASSUME NEW i \in 1..first.totalSize PROVE file[i] = first.etag
  <2>1. CASE i <= first.size
    BY <1>1, <2>1 DEF FileInv, Holds
  <2>2. CASE i > first.size
    <3>1. i \in (first.size + 1)..offset
      BY <1>1, <2>2
    <3>2. PICK o \in tasks : o < i /\ i <= o + chunk_size
      BY <3>1 DEF Inv, CoverInv
    <3>3. o \in Nat /\ o < first.totalSize
      BY OffsetsNat DEF Inv, TypeOK, PlanInv
    <3>4. range(o) \in Nat /\ i <= o + range(o)
      BY <1>1, <3>2, <3>3, RangeSize
    <3>5. Holds(o, o + range(o))
      BY <1>1 DEF FileInv, TasksDone
    <3>6. i \in (o + 1)..(o + range(o))
      BY <3>2, <3>3, <3>4
    <3> QED
      BY <3>5, <3>6 DEF Holds
  <2> QED
    BY <1>1, <2>1, <2>2
<1>3. resized => file = [i \in 1..first.totalSize |-> file[i]]
  BY <1>1
<1> QED
  BY <1>2, <1>3 DEF InFile, Whole

\* A step that neither tells nor reads nor replaces anything is a stutter.
LEMMA SilentStep ==
    ASSUME UNCHANGED <<blob, replaced, err>>, HasRead' = HasRead,
           HasRead => first' = first, err # "0"
    PROVE  UNCHANGED Abstract!vars
BY DEF Abstract!vars, Copy, Moved, Delivered, Told

\* The answer to the first chunk is the moment the blob is read.
LEMMA ReadStep ==
    ASSUME Inv, main = "first", main' = "resize",
           UNCHANGED <<err, serviceVars>>,
           \/ first' = Chunk(first'.size)
           \/ first' = first /\ LengthOf[blob] = 0
    PROVE  Abstract!Read("blob")
<1>1. /\ first = NoChunk /\ err = "unset" /\ ~HasRead /\ HasRead'
      /\ blob \in Versions /\ blob \notin replaced
  BY DEF Inv, TypeOK, ChunkInv, AnswerInv, HasRead
<1>2. Whole(first'.etag, first'.totalSize) = Whole(blob, LengthOf[blob])
  <2>1. CASE first' = Chunk(first'.size)
    BY <2>1 DEF Chunk
  <2>2. CASE first' = first /\ LengthOf[blob] = 0
    BY <1>1, <2>2 DEF NoChunk, Whole
  <2> QED
    BY <2>1, <2>2
<1>3. Copy = {} /\ Copy' = {<<"blob", Whole(blob, LengthOf[blob])>>}
  BY <1>1, <1>2 DEF Copy
<1>4. Moved = FALSE /\ Moved' = FALSE
  BY <1>1 DEF Moved, serviceVars, Chunk, NoChunk
<1>5. Told = "pending" /\ UNCHANGED <<Told, Delivered>>
  BY <1>1 DEF Told, Delivered
<1>6. [v \in Versions |-> [p \in {"blob"} |-> Whole(v, LengthOf[v])]][blob]["blob"]
          = Whole(blob, LengthOf[blob])
  BY <1>1
<1>7. Copy' = Copy \cup {<<"blob", Whole(blob, LengthOf[blob])>>}
  BY <1>3
<1>8. \A piece \in Copy : piece[1] # "blob"
  BY <1>3
<1>9. UNCHANGED <<blob, Moved, Delivered, Told>>
  BY <1>4, <1>5 DEF serviceVars
<1> HIDE DEF Whole
<1> QED
  BY <1>5, <1>6, <1>7, <1>8, <1>9 DEF Abstract!Read

\* The call returns an error: nothing is delivered.
LEMMA FailStep ==
    ASSUME Inv, main # "returned", main' = "returned", UNCHANGED serviceVars,
           err' \notin {"unset", "0"}, err' = "EAGAIN" => Moved
    PROVE  Abstract!Again \/ Abstract!Fail
<1>1. err = "unset" /\ ~HasRead'
  BY DEF Inv, AnswerInv, HasRead
<1>2. Told = "pending" /\ Told' \in {"again", "failed"} /\ (Told' = "again" => Moved)
  BY <1>1 DEF Told
<1>3. Delivered' = {} /\ Copy' = {} /\ ~Moved'
  BY <1>1 DEF Delivered, Copy, Moved
<1> QED
  BY <1>2, <1>3 DEF Abstract!Again, Abstract!Fail, Abstract!End, serviceVars

\* The call returns 0: what was read is in the file.
LEMMA SucceedStep ==
    ASSUME Inv, main = "collect", TasksDone, \A o \in tasks : answer[o] = "0",
           main' = "returned", err' = "0", UNCHANGED <<first, file, resized, serviceVars>>
    PROVE  Abstract!Succeed
<1>1. err = "unset" /\ HasRead /\ ~HasRead'
  BY DEF Inv, AnswerInv, HasRead
<1>2. Told = "pending" /\ Told' = "ok" /\ Copy' = {} /\ ~Moved'
  BY <1>1 DEF Told, Copy, Moved
<1>3. Copy = {<<"blob", InFile>>} /\ Delivered' = {<<"blob", InFile>>}
  BY <1>1, FileIsWhole DEF Copy, Delivered, InFile
<1> QED
  BY <1>2, <1>3 DEF Abstract!Succeed, Abstract!End, serviceVars

LEMMA ReplaceStep == ASSUME Inv, Replace PROVE Abstract!Replace
<1>1. /\ UNCHANGED <<main, first, err, file, resized>>
      /\ replaced \subseteq replaced' /\ blob' \in Versions \ {blob}
  BY DEF Replace, callVars
<1>2. UNCHANGED <<Copy, Delivered, Told>>
  BY <1>1 DEF Copy, Delivered, Told, HasRead, InFile
<1>3. Moved' \in BOOLEAN /\ (Moved => Moved') /\ (Moved' => Copy # {})
  BY <1>1 DEF Moved, Copy, HasRead
<1> QED
  BY <1>1, <1>2, <1>3 DEF Abstract!Replace

LEMMA AtomicStep == ASSUME Inv, [Next]_vars PROVE [Abstract!Next]_(Abstract!vars)
<1>1. /\ main # "returned" => err = "unset"
      /\ \A o \in tasks : answer[o] = "EAGAIN" =>
            first.totalSize > 0 /\ first.etag \in replaced
  <2>1. first.totalSize \in Nat /\ tasks \subseteq Nat
    BY OffsetsNat DEF Inv, TypeOK
  <2> QED
    BY <2>1 DEF Inv, AnswerInv, PlanInv
<1>2. CASE Still
  <2>1. CASE Replace
    BY <2>1, ReplaceStep DEF Abstract!Next
  <2>2. CASE UNCHANGED <<main, err, serviceVars>>
    BY <1>2, <2>2, StillMoves DEF Abstract!vars, Copy, Moved, Delivered, Told, HasRead,
       InFile, serviceVars
  <2>3. CASE /\ main \in {"start", "unwind"} /\ main' = "returned" /\ UNCHANGED serviceVars
             /\ err' \in {"client_not_init", "unknown_error"}
    BY <2>3, FailStep DEF Abstract!Next
  <2>4. CASE /\ main = "spawn" /\ main' \in {"unwind", "collect"} /\ err' = err
             /\ UNCHANGED <<first, serviceVars>>
    BY <1>1, <2>4, SilentStep DEF HasRead, serviceVars
  <2>5. CASE /\ main = "collect" /\ main' = "returned" /\ TasksDone /\ err' = "0"
             /\ \A o \in tasks : answer[o] = "0"
             /\ UNCHANGED <<first, file, resized, serviceVars>>
    BY <2>5, SucceedStep DEF Abstract!Next
  <2>6. ASSUME NEW o \in tasks, answer[o] # "0", err' = answer[o],
               main = "collect", main' = "returned", UNCHANGED serviceVars
        PROVE  Abstract!Next
    <3>1. answer[o] # "unset" /\ (answer[o] = "EAGAIN" => Moved)
      BY <1>1, <2>6 DEF Inv, TypeOK, Moved, HasRead
    <3> QED
      BY <2>6, <3>1, FailStep DEF Abstract!Next
  <2> QED
    BY <1>2, <2>1, <2>2, <2>3, <2>4, <2>5, <2>6, StillMoves
<1>3. CASE OpenFile \/ FirstCut \/ ResizeFile
  BY <1>1, <1>3, SilentStep DEF OpenFile, FirstCut, ResizeFile, callVars, serviceVars, HasRead
<1>4. CASE FirstAnswered \/ FirstEmpty
  <2>1. /\ main = "first" /\ main' = "resize" /\ UNCHANGED <<err, serviceVars>>
        /\ \/ first' = Chunk(first'.size)
           \/ first' = first /\ LengthOf[blob] = 0
    BY <1>4 DEF FirstAnswered, FirstEmpty, Chunk
  <2> QED
    BY <2>1, ReadStep DEF Abstract!Next
<1>5. CASE FirstFails
  <2>1. /\ main # "returned" /\ main' = "returned" /\ UNCHANGED serviceVars
        /\ err' \in {"unknown_error", "service", "blob_no_content_range"}
    BY <1>5 DEF FirstFails, Return
  <2> QED
    BY <2>1, FailStep DEF Abstract!Next
<1>6. CASE StartTask
  BY <1>1, <1>6, SilentStep DEF StartTask, serviceVars, HasRead
<1>7. ASSUME NEW o \in Offsets, Task(o) \/ PartCut(o) PROVE UNCHANGED Abstract!vars
  <2>1. UNCHANGED <<callVars, serviceVars>> /\ main # "returned"
    BY <1>7, PartMoves DEF Inv, AnswerInv
  <2> QED
    BY <1>1, <2>1, SilentStep DEF callVars, serviceVars, HasRead
<1> QED
  BY <1>2, <1>3, <1>4, <1>5, <1>6, <1>7, Steps DEF Early

\* The download to a file does what AtomicDownload allows of a blob in one piece:
\* with 0 in errno the file is what the blob was at one moment of the call, and
\* EAGAIN means that the blob was replaced after that moment.
THEOREM DownloadIsAtomic == Safety => AtomicOutcome
<1>1. ASSUME Init PROVE Abstract!Init
  BY <1>1 DEF Init, Abstract!Init, Copy, Moved, Delivered, Told, HasRead
<1> QED
  BY <1>1, AtomicStep, Invariance, PTL DEF Safety, AtomicOutcome, Abstract!Safety

=============================================================================
