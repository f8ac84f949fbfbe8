---------------------------- MODULE RequestProofs ----------------------------
(***************************************************************************)
(* How a length becomes requests, and how each request is built and        *)
(* signed, for all lengths, threads, metadata and constants: what the runs *)
(* of BlockMath and SignedRequest show on small instances.                 *)
(***************************************************************************)
EXTENDS BlockMath, SignedRequest, TLAPS, SequenceTheorems, WellFoundedInduction

-----------------------------------------------------------------------------
(* Part 1.  BlockMath: for the code's own numbers and all others in their    *)
(* proportions.                                                              *)

Cutting == {"buffer", "download", "file"}

\* Nothing is cut before there is a plan, and a plan has blocks.
PlanInv ==
    /\ stage \in {"start", "rejected", "trapped", "short"} => idx = 0
    /\ stage = "start" => covered = 0
    /\ stage = "slicing" => path \in Cutting /\ block_size > 0
    /\ stage = "done" => path \in Cutting \/ idx = 0

\* The count of the blocks is the least that reaches the end.
CountInv ==
    stage = "slicing" /\ path # "file" =>
        /\ length <= block_size * num_blocks
        /\ \A n \in Nat : n < num_blocks => block_size * n < length

\* As many blocks of a file as allowed reach its end, and every block taken
\* began inside it.
FileInv ==
    path = "file" /\ stage \in {"slicing", "done"} /\ idx > 0 =>
        /\ block_size > 0 /\ length <= max_num_blocks * block_size
        /\ block_size * (idx - 1) < length
FilePlan ==
    path = "file" /\ stage = "slicing" => length <= max_num_blocks * block_size

CutInv ==
    /\ CutTypeOK
    /\ PlanInv /\ CountInv /\ FilePlan /\ FileInv
    /\ SideBySide /\ RangeIsAsked
    /\ MissesByOneAtMost

-----------------------------------------------------------------------------
(* Quotients, and the block sizes made from them. *)

\* The quotient rounded up is the least multiplier that reaches the dividend.
LEMMA CeilIsLeast ==
    ASSUME NEW a \in Nat, NEW b \in Nat \ {0}
    PROVE  /\ CeilDiv(a, b) \in Nat /\ a <= b * CeilDiv(a, b)
           /\ \A n \in Nat : n < CeilDiv(a, b) => b * n < a
<1> DEFINE q == CeilDiv(a, b)
           X == a + b - 1
<1>1. q \in Nat /\ b * q <= X /\ X < b * q + b
  <2>1. X \in Nat
    OBVIOUS
  <2> HIDE DEF X
  <2>2. X \div b \in Nat /\ b * (X \div b) <= X /\ X < b * (X \div b) + b
    BY <2>1
  <2> QED
    BY <2>2 DEF CeilDiv, X
<1>2. b * q \in Nat
  BY <1>1
<1>3. a <= b * q
  BY <1>1, <1>2
<1>4. ASSUME NEW n \in Nat, n < q PROVE b * n < a
  <2>1. b * (n + 1) <= b * q
    BY <1>1, <1>4
  <2>2. b * (n + 1) = b * n + b /\ b * n \in Nat
    OBVIOUS
  <2> QED
    BY <1>1, <1>2, <2>1, <2>2
<1> QED
  BY <1>1, <1>3, <1>4

LEMMA RoundUpReaches ==
    ASSUME NEW a \in Nat, NEW grain \in Nat \ {0}
    PROVE  RoundUp(a, grain) \in Nat /\ RoundUp(a, grain) >= a
<1>1. CeilDiv(a, grain) \in Nat /\ a <= grain * CeilDiv(a, grain)
  BY CeilIsLeast
<1>2. CeilDiv(a, grain) * grain = grain * CeilDiv(a, grain)
      /\ CeilDiv(a, grain) * grain \in Nat
  BY <1>1
<1> QED
  BY <1>1, <1>2 DEF RoundUp

\* What the variables and constants are as numbers.
LEMMA Numbers ==
    ASSUME CutTypeOK
    PROVE  /\ length \in Nat /\ start \in Nat /\ block_size \in Nat
           /\ num_blocks \in Nat /\ idx \in Nat /\ covered \in Nat
           /\ Mi \in Nat /\ Mi > 0 /\ KiGrain \in Nat \ {0}
           /\ max_num_blocks \in Nat /\ max_num_blocks > 0 /\ max_num_blocks <= 8 * Mi
           /\ UnsignedInt \in Nat /\ UnsignedInt > 104 * Mi
           /\ parallelism \in Nat \ {0}
BY BlockMathAssumption DEF CutTypeOK, max_block_size

\* A length divided by the number of blocks.
LEMMA Quotient ==
    ASSUME CutTypeOK, NEW q, q = length \div max_num_blocks
    PROVE  /\ q \in Nat
           /\ max_num_blocks * q <= length /\ length < max_num_blocks * (q + 1)
<1>1. length \in Nat /\ max_num_blocks \in Nat \ {0}
  BY Numbers
<1>2. q \in Nat /\ max_num_blocks * q <= length /\ length < max_num_blocks * q + max_num_blocks
  BY <1>1
<1>3. max_num_blocks * (q + 1) = max_num_blocks * q + max_num_blocks
      /\ max_num_blocks * q \in Nat
  BY <1>1, <1>2
<1> QED
  BY <1>1, <1>2, <1>3

\* A buffer's block is within the limits, and falls short of the quotient only
\* at the largest size.
LEMMA BufferBlockSize ==
    ASSUME CutTypeOK
    PROVE  /\ BufferBlock \in Nat /\ 8 * Mi <= BufferBlock /\ BufferBlock <= 100 * Mi
           /\ BufferBlock >= length \div max_num_blocks \/ BufferBlock = 100 * Mi
<1> DEFINE q == length \div max_num_blocks
           r == RoundUp(q, 4 * Mi)
<1>1. Mi \in Nat /\ Mi > 0 /\ 4 * Mi \in Nat \ {0}
  BY Numbers
<1>2. q \in Nat
  BY Quotient
<1>3. r \in Nat /\ r >= q
  BY <1>1, <1>2, RoundUpReaches
<1>4. BufferBlock = Greatest(Least(r, 100 * Mi), 8 * Mi)
  BY DEF BufferBlock, max_block_size, default_block_size
<1> HIDE DEF q, r
<1>5. /\ BufferBlock \in Nat /\ 8 * Mi <= BufferBlock /\ BufferBlock <= 100 * Mi
      /\ BufferBlock >= q \/ BufferBlock = 100 * Mi
  BY <1>1, <1>2, <1>3, <1>4 DEF Greatest, Least
<1> QED
  BY <1>5 DEF q

\* At most one block more than there may be.
LEMMA BufferBlockCount ==
    ASSUME CutTypeOK, length <= MAX_BLOB_SIZE
    PROVE  BlockCount(BufferBlock) <= max_num_blocks + 1
<1> DEFINE b == BufferBlock
           c == BlockCount(b)
           q == length \div max_num_blocks
           N == max_num_blocks
<1>1. /\ length \in Nat /\ Mi \in Nat /\ Mi > 0 /\ N \in Nat /\ N > 0 /\ N <= 8 * Mi
      /\ b \in Nat /\ 8 * Mi <= b /\ b <= 100 * Mi
      /\ b >= q \/ b = 100 * Mi
  BY Numbers, BufferBlockSize
<1>2. q \in Nat /\ length < N * (q + 1)
  BY Quotient
<1>3. c \in Nat /\ \A n \in Nat : n < c => b * n < length
  BY <1>1, CeilIsLeast DEF BlockCount
<1>4. length <= N * (100 * Mi)
  BY DEF MAX_BLOB_SIZE, max_block_size
<1> HIDE DEF b, c, q, N
<1>5. ASSUME c > N + 1 PROVE FALSE
  <2>1. b * (N + 1) < length
    BY <1>1, <1>3, <1>5
  <2>2. b * (N + 1) = b * N + b /\ b * N = N * b /\ N * b \in Nat
    BY <1>1
  <2>3. CASE b >= q
    <3>1. N * (q + 1) = N * q + N /\ N * q \in Nat
      BY <1>1, <1>2
    <3>2. N * q <= N * b
      BY <1>1, <1>2, <2>3
    <3> QED
      BY <1>1, <1>2, <2>1, <2>2, <3>1, <3>2
  <2>4. CASE b = 100 * Mi
    BY <1>1, <1>4, <2>1, <2>2, <2>4
  <2> QED
    BY <1>1, <2>3, <2>4
<1>6. c <= N + 1
  BY <1>1, <1>3, <1>5
<1> QED
  BY <1>6 DEF b, c, N

\* A file's block exceeds the limit by one grain at most, and as many blocks as
\* there may be reach the end of the file.
LEMMA FileBlockSize ==
    ASSUME CutTypeOK, length <= MAX_BLOB_SIZE
    PROVE  /\ FileBlock \in Nat /\ FileBlock > 0 /\ FileBlock <= 104 * Mi
           /\ length <= max_num_blocks * FileBlock
<1> DEFINE N == max_num_blocks
           q == length \div max_num_blocks
           r == q % 4
           b == FileBlock
<1>1. length \in Nat /\ Mi \in Nat /\ Mi > 0 /\ N \in Nat /\ N > 0
  BY Numbers
<1>2. q \in Nat /\ N * q <= length /\ length < N * (q + 1) /\ r \in 0..3
  BY Quotient
<1>3. length <= N * (100 * Mi)
  BY DEF MAX_BLOB_SIZE, max_block_size
<1>4. b = IF length > N * (16 * Mi) THEN Greatest(q + 4 * Mi - r * Mi, 16 * Mi) ELSE 16 * Mi
  BY DEF FileBlock, MIN_UPLOAD_CHUNK_SIZE
<1> HIDE DEF N, q, r, b
<1>5. CASE length > N * (16 * Mi)
  <2>1. q <= 100 * Mi
    <3>1. SUFFICES ASSUME q > 100 * Mi PROVE FALSE
      BY <1>1, <1>2
    <3>2. q >= 100 * Mi + 1 /\ N * (100 * Mi + 1) <= N * q
      BY <1>1, <1>2, <3>1
    <3>3. N * (100 * Mi + 1) = N * (100 * Mi) + N /\ N * (100 * Mi) \in Nat /\ N * q \in Nat
      BY <1>1, <1>2
    <3> QED
      BY <1>1, <1>2, <1>3, <3>2, <3>3
  <2>2. r * Mi \in 0..(3 * Mi)
    <3>1. r = 0 \/ r = 1 \/ r = 2 \/ r = 3
      BY <1>2
    <3> QED
      BY <1>1, <3>1
  <2>3. b \in Nat /\ b > 0 /\ b <= 104 * Mi /\ b >= q + 1
    BY <1>1, <1>2, <1>4, <1>5, <2>1, <2>2 DEF Greatest
  <2>4. N * (q + 1) <= N * b
    BY <1>1, <1>2, <2>3
  <2>5. N * (q + 1) \in Nat /\ N * b \in Nat
    BY <1>1, <1>2, <2>3
  <2> QED
    BY <1>1, <1>2, <2>3, <2>4, <2>5 DEF b, N
<1>6. CASE ~(length > N * (16 * Mi))
  <2>1. b = 16 * Mi /\ N * (16 * Mi) \in Nat
    BY <1>1, <1>4, <1>6
  <2>2. b \in Nat /\ b > 0 /\ b <= 104 * Mi /\ length <= N * b
    BY <1>1, <1>6, <2>1
  <2> QED
    BY <2>2 DEF b, N
<1> QED
  BY <1>5, <1>6

LEMMA DownloadBlockSize ==
    ASSUME CutTypeOK
    PROVE  DownloadBlock \in Nat /\ DownloadBlock <= 8 * Mi
<1>1. length \in Nat /\ parallelism \in Nat \ {0} /\ KiGrain \in Nat \ {0} /\ Mi \in Nat
  BY Numbers
<1>2. length \div parallelism \in Nat
  BY <1>1
<1>3. RoundUp(length \div parallelism, KiGrain) \in Nat
  BY <1>1, <1>2, RoundUpReaches
<1> QED
  BY <1>1, <1>3 DEF DownloadBlock, default_block_size, Least

\* A length is kept by the cast exactly when it fits.
LEMMA Narrowing ==
    ASSUME CutTypeOK, NEW n \in Nat
    PROVE  Narrowed(n) \in 0..n /\ (Narrowed(n) = n <=> n < UnsignedInt)
<1> DEFINE U == UnsignedInt
           d == n \div U
           m == n % U
<1>1. U \in Nat \ {0}
  BY Numbers
<1>2. d \in Nat /\ m \in 0..(U - 1) /\ n = U * d + m
  BY <1>1
<1>3. Narrowed(n) = m
  BY DEF Narrowed
<1> HIDE DEF U, d, m
<1>4. U * d \in Nat
  BY <1>1, <1>2
<1>5. ASSUME n < U PROVE d = 0
  <2>1. SUFFICES ASSUME d >= 1 PROVE FALSE
    BY <1>2
  <2>2. U * 1 <= U * d
    BY <1>1, <1>2, <2>1
  <2> QED
    BY <1>1, <1>2, <1>4, <1>5, <2>2
<1>6. d = 0 => U * d = 0
  BY <1>1
<1>7. m \in 0..n /\ (m = n <=> n < U)
  BY <1>1, <1>2, <1>4, <1>5, <1>6
<1> QED
  BY <1>3, <1>7 DEF U

-----------------------------------------------------------------------------
(* The initial states and the steps. *)

LEMMA CutInitInv == CutInit => CutInv
<1> SUFFICES ASSUME CutInit PROVE CutInv
  OBVIOUS
<1>1. CutTypeOK
  BY BlockMathAssumption DEF CutInit, CutTypeOK, Downloads, max_block_size
<1>2. PlanInv /\ CountInv /\ FilePlan /\ FileInv /\ SideBySide /\ MissesByOneAtMost
  BY DEF CutInit, PlanInv, CountInv, FilePlan, FileInv, SideBySide, MissesByOneAtMost
<1>3. RangeIsAsked
  BY DEF CutInit, RangeIsAsked
<1> QED
  BY <1>1, <1>2, <1>3 DEF CutInv

\* A plan: blocks that reach the end, and none of them taken yet.
LEMMA Planned ==
    ASSUME CutInv, stage = "start", path \in Cutting, stage' = "slicing",
           UNCHANGED <<given, idx, covered, asked>>,
           NEW b \in Nat, block_size' = b, b > 0, b <= 104 * Mi,
           path # "file" => num_blocks' = BlockCount(b),
           path = "file" => num_blocks' = num_blocks /\ length <= max_num_blocks * b,
           path = "buffer" => num_blocks' <= max_num_blocks + 1 /\ b <= 100 * Mi
    PROVE  CutInv'
<1>0. /\ path' = path /\ length' = length /\ start' = start /\ parallelism' = parallelism
      /\ idx' = idx /\ covered' = covered /\ asked' = asked /\ block_size' = b
  BY DEF given
<1>1. CutTypeOK /\ idx = 0 /\ covered = 0
  BY DEF CutInv, PlanInv
<1>2. length \in Nat /\ Mi \in Nat /\ num_blocks \in Nat /\ max_num_blocks \in Nat
  BY <1>1, Numbers
<1>3. path # "file" => /\ num_blocks' \in Nat /\ length <= b * num_blocks'
                       /\ \A n \in Nat : n < num_blocks' => b * n < length
  <2>1. b \in Nat \ {0}
    OBVIOUS
  <2>2. /\ BlockCount(b) \in Nat /\ length <= b * BlockCount(b)
        /\ \A n \in Nat : n < BlockCount(b) => b * n < length
    BY <1>2, <2>1, CeilIsLeast DEF BlockCount
  <2> QED
    BY <2>2
<1>4. b * 0 = 0
  OBVIOUS
<1>5. CutTypeOK'
  <2>1. block_size' \in 0..(max_block_size + 4 * Mi)
    BY <1>2 DEF max_block_size
  <2>2. num_blocks' \in Nat
    BY <1>2, <1>3
  <2> QED
    BY <1>0, <1>1, <2>1, <2>2 DEF CutTypeOK
<1>6. PlanInv' /\ FilePlan' /\ FileInv'
  BY <1>0, <1>1 DEF PlanInv, FilePlan, FileInv
<1>7. CountInv'
  BY <1>0, <1>3 DEF CountInv
<1>8. Offset' = 0
  BY <1>0, <1>1, <1>4 DEF Offset
<1>9. SideBySide'
  <2>1. covered' = Least(Offset', length')
    BY <1>0, <1>1, <1>2, <1>8 DEF Least
  <2>2. MoreBlocks' => Offset' < length'
    <3>1. CASE path = "file"
      BY <1>0, <3>1 DEF MoreBlocks
    <3>2. CASE path # "file"
      BY <1>0, <1>1, <1>3, <1>4, <1>8, <3>2 DEF MoreBlocks
    <3> QED
      BY <3>1, <3>2
  <2> QED
    BY <2>1, <2>2 DEF SideBySide
<1>10. RangeIsAsked'
  BY <1>0, <1>1 DEF RangeIsAsked, Cutting
<1>11. MissesByOneAtMost'
  BY <1>0, <1>1, <1>2 DEF MissesByOneAtMost, max_block_size
<1> QED
  BY <1>5, <1>6, <1>7, <1>9, <1>10, <1>11 DEF CutInv

\* A call that ends without cutting anything.
LEMMA AtOnce ==
    ASSUME CutInv, stage = "start", stage' \in {"rejected", "trapped", "done", "short"},
           UNCHANGED <<given, plan, idx>>, covered' \in 0..length,
           asked'.first \in Nat, asked'.last \in Nat \cup {EndOfBlob},
           stage' = "done" => /\ path # "buffer"
                              /\ covered' = length <=> path # "stream" \/ length < UnsignedInt,
           stage' = "short" => path = "append" /\ length >= UnsignedInt,
           RangeIsAsked'
    PROVE  CutInv'
<1> USE DEF given, plan
<1>1. CutTypeOK /\ idx = 0
  BY DEF CutInv, PlanInv
<1>2. /\ max_num_blocks \in Nat /\ Mi \in Nat /\ block_size \in Nat
      /\ block_size <= max_block_size + 4 * Mi
  BY <1>1, Numbers DEF CutTypeOK
<1>3. CutTypeOK'
  BY <1>1 DEF CutTypeOK
<1>4. PlanInv' /\ CountInv' /\ FilePlan' /\ FileInv'
  BY <1>1 DEF PlanInv, CountInv, FilePlan, FileInv
<1>5. SideBySide'
  BY DEF SideBySide
<1>6. MissesByOneAtMost'
  BY <1>1, <1>2 DEF MissesByOneAtMost
<1> QED
  BY <1>3, <1>4, <1>5, <1>6 DEF CutInv

\* A block that the loop still takes begins in the data and is not empty.
LEMMA SliceSize ==
    ASSUME CutInv, stage = "slicing", MoreBlocks
    PROVE  /\ Offset \in Nat /\ Offset < length /\ covered = Offset
           /\ Slice \in Nat /\ Slice > 0 /\ Slice <= block_size /\ Offset + Slice <= length
           /\ Offset + Slice = Least(Offset + block_size, length)
           /\ Offset + block_size = block_size * (idx + 1)
           /\ Narrowed(Slice) = Slice
<1>1. /\ length \in Nat /\ block_size \in Nat /\ idx \in Nat /\ block_size > 0
      /\ block_size <= 104 * Mi /\ UnsignedInt \in Nat /\ UnsignedInt > 104 * Mi /\ Mi \in Nat
  BY Numbers DEF CutInv, PlanInv, CutTypeOK, max_block_size
<1>2. Offset \in Nat /\ Offset + block_size = block_size * (idx + 1)
  BY <1>1 DEF Offset
<1>3. Offset < length /\ covered = Offset
  BY <1>1, <1>2 DEF CutInv, SideBySide, Least
<1>4. /\ Slice \in Nat /\ Slice > 0 /\ Slice <= block_size /\ Offset + Slice <= length
      /\ Offset + Slice = Least(Offset + block_size, length)
  BY <1>1, <1>2, <1>3 DEF Slice, Least
<1>5. Narrowed(Slice) = Slice
  BY <1>1, <1>4, Narrowing DEF CutInv
<1> QED
  BY <1>2, <1>3, <1>4, <1>5

\* One more block.
LEMMA Taken ==
    ASSUME CutInv, stage = "slicing", MoreBlocks, covered' = covered + Slice, idx' = idx + 1,
           UNCHANGED <<given, stage, plan>>,
           asked'.first \in Nat, asked'.last \in Nat \cup {EndOfBlob}, RangeIsAsked'
    PROVE  CutInv'
<1> USE DEF given, plan
<1>1. /\ CutTypeOK /\ length \in Nat /\ block_size \in Nat /\ idx \in Nat /\ block_size > 0
      /\ path \in Cutting /\ max_num_blocks \in Nat /\ num_blocks \in Nat
  BY Numbers DEF CutInv, PlanInv
<1>2. /\ Offset \in Nat /\ Offset < length /\ covered = Offset
      /\ Slice \in Nat /\ Offset + Slice <= length
      /\ Offset + Slice = Least(Offset + block_size, length)
      /\ Offset + block_size = block_size * (idx + 1)
  BY SliceSize
<1>3. covered' = Offset + Slice /\ covered' \in 0..length /\ idx' \in Nat
  BY <1>1, <1>2
<1>4. CutTypeOK'
  BY <1>1, <1>3 DEF CutTypeOK
<1>5. PlanInv' /\ CountInv' /\ FilePlan'
  BY DEF CutInv, PlanInv, CountInv, FilePlan
<1>6. Offset' = block_size * (idx + 1) /\ block_size * (idx' - 1) = Offset
  BY <1>1 DEF Offset
<1>7. FileInv'
  BY <1>1, <1>2, <1>6 DEF CutInv, FilePlan, FileInv
<1>8. SideBySide'
  <2>1. covered' = Least(Offset', length)
    BY <1>2, <1>3, <1>6
  <2>2. MoreBlocks' => Offset' < length
    <3>1. CASE path = "file"
      BY <3>1 DEF MoreBlocks, Offset
    <3>2. CASE path # "file"
      <4>1. MoreBlocks' => idx + 1 < num_blocks
        BY <3>2 DEF MoreBlocks
      <4>2. idx + 1 < num_blocks => block_size * (idx + 1) < length
        BY <1>1, <3>2 DEF CutInv, CountInv
      <4> QED
        BY <1>6, <4>1, <4>2
    <3> QED
      BY <3>1, <3>2
  <2> QED
    BY <2>1, <2>2 DEF SideBySide
<1>9. MissesByOneAtMost'
  <2>1. path = "file" => idx + 1 <= max_num_blocks
    <3>1. SUFFICES ASSUME path = "file", idx >= max_num_blocks PROVE FALSE
      BY <1>1
    <3>2. length <= max_num_blocks * block_size
      BY <3>1 DEF CutInv, FilePlan
    <3>3. max_num_blocks * block_size <= block_size * idx /\ block_size * idx \in Nat
          /\ max_num_blocks * block_size \in Nat
      <4>1. block_size * max_num_blocks <= block_size * idx
        BY <1>1, <3>1
      <4> QED
        BY <1>1, <4>1
    <3> QED
      BY <1>1, <1>2, <3>2, <3>3 DEF Offset
  <2> QED
    BY <2>1 DEF CutInv, MissesByOneAtMost
<1> QED
  BY <1>4, <1>5, <1>7, <1>8, <1>9 DEF CutInv

LEMMA PlanSteps ==
    ASSUME CutInv, PlanBuffer \/ PlanDownload \/ PlanFile
    PROVE  CutInv'
<1>1. CutTypeOK /\ Mi \in Nat /\ Mi > 0
  BY Numbers DEF CutInv
<1>2. CASE PlanBuffer
  <2>1. /\ BufferBlock \in Nat /\ BufferBlock > 0 /\ BufferBlock <= 100 * Mi
        /\ BufferBlock <= 104 * Mi
    BY <1>1, BufferBlockSize
  <2>2. BlockCount(BufferBlock) <= max_num_blocks + 1
    BY <1>1, <1>2, BufferBlockCount DEF PlanBuffer
  <2>3. /\ stage = "start" /\ path = "buffer" /\ stage' = "slicing"
        /\ UNCHANGED <<given, idx, covered, asked>>
        /\ block_size' = BufferBlock /\ num_blocks' = BlockCount(BufferBlock)
    BY <1>2 DEF PlanBuffer
  <2>4. path \in Cutting /\ path # "file"
    BY <2>3 DEF Cutting
  <2> QED
    BY <2>1, <2>2, <2>3, <2>4, Planned
<1>3. CASE PlanDownload
  <2>1. /\ stage = "start" /\ path = "download" /\ stage' = "slicing"
        /\ UNCHANGED <<given, idx, covered, asked>>
        /\ block_size' = DownloadBlock /\ num_blocks' = BlockCount(DownloadBlock)
        /\ DownloadBlock > 0
    BY <1>3 DEF PlanDownload
  <2>2. DownloadBlock \in Nat /\ DownloadBlock <= 104 * Mi
    BY <1>1, DownloadBlockSize
  <2>3. path \in Cutting /\ path # "file" /\ path # "buffer"
    BY <2>1 DEF Cutting
  <2> QED
    BY <2>1, <2>2, <2>3, Planned
<1>4. CASE PlanFile
  <2>1. /\ stage = "start" /\ path = "file" /\ stage' = "slicing"
        /\ UNCHANGED <<given, idx, covered, asked>>
        /\ block_size' = FileBlock /\ num_blocks' = num_blocks
        /\ length <= MAX_BLOB_SIZE
    BY <1>4 DEF PlanFile
  <2>2. /\ FileBlock \in Nat /\ FileBlock > 0 /\ FileBlock <= 104 * Mi
        /\ length <= max_num_blocks * FileBlock
    BY <1>1, <2>1, FileBlockSize
  <2>3. path \in Cutting /\ path # "buffer"
    BY <2>1 DEF Cutting
  <2> QED
    BY <2>1, <2>2, <2>3, Planned
<1> QED
  BY <1>2, <1>3, <1>4

\* What get_ms_range asks for.
LEMMA RangeType ==
    ASSUME NEW first \in Nat, NEW last \in Nat
    PROVE  /\ get_ms_range(first, last).first = first
           /\ get_ms_range(first, last).last = IF last = 0 THEN EndOfBlob ELSE last
           /\ get_ms_range(first, last).last \in Nat \cup {EndOfBlob}
BY DEF get_ms_range

LEMMA WholeSteps ==
    ASSUME CutInv, RejectTooBig \/ DivideByZero \/ SendWhole \/ SendStream \/ AppendStream
    PROVE  CutInv'
<1>1. /\ CutTypeOK /\ stage = "start" /\ idx = 0 /\ covered = 0 /\ length \in Nat
      /\ UnsignedInt \in Nat /\ UnsignedInt > 104 * Mi /\ Mi \in Nat /\ Mi > 0
      /\ asked.first \in Nat /\ asked.last \in Nat \cup {EndOfBlob}
  BY Numbers DEF CutInv, PlanInv, CutTypeOK, RejectTooBig, DivideByZero, SendWhole,
                 SendStream, AppendStream
<1>2. /\ UNCHANGED <<given, plan, idx>> /\ asked' = asked
      /\ path' = path /\ idx' = idx
  BY DEF RejectTooBig, DivideByZero, SendWhole, SendStream, AppendStream, given
<1>3. path # "range"
  BY DEF RejectTooBig, DivideByZero, SendWhole, SendStream, AppendStream, Downloads
<1>4. RangeIsAsked'
  BY <1>1, <1>2, <1>3 DEF RangeIsAsked
<1>5. CASE RejectTooBig \/ DivideByZero
  <2>1. stage' \in {"rejected", "trapped"} /\ covered' = 0 /\ 0 \in 0..length
    BY <1>1, <1>5 DEF RejectTooBig, DivideByZero
  <2> QED
    BY <1>1, <1>2, <1>4, <2>1, AtOnce
<1>6. CASE SendWhole
  <2>1. stage' = "done" /\ path = "file" /\ covered' = Narrowed(length) /\ length <= 64 * Mi
    BY <1>6 DEF SendWhole, SmallFile
  <2>2. Narrowed(length) = length /\ length \in 0..length
    BY <1>1, <2>1, Narrowing
  <2> QED
    BY <1>1, <1>2, <1>4, <2>1, <2>2, AtOnce
<1>7. CASE SendStream
  <2>1. stage' = "done" /\ path = "stream" /\ covered' = Narrowed(length)
    BY <1>7 DEF SendStream
  <2>2. Narrowed(length) \in 0..length /\ (Narrowed(length) = length <=> length < UnsignedInt)
    BY <1>1, Narrowing
  <2> QED
    BY <1>1, <1>2, <1>4, <2>1, <2>2, AtOnce
<1>8. CASE AppendStream
  <2>1. /\ path = "append" /\ covered' = Parsed(length)
        /\ stage' = IF Parsed(length) = length THEN "done" ELSE "short"
    BY <1>8 DEF AppendStream
  <2>2. Parsed(length) \in 0..length /\ (Parsed(length) # length => length >= UnsignedInt)
    BY <1>1 DEF Parsed, Least
  <2> QED
    BY <1>1, <1>2, <1>4, <2>1, <2>2, AtOnce
<1> QED
  BY <1>5, <1>6, <1>7, <1>8

LEMMA AskStep == ASSUME CutInv, AskRange PROVE CutInv'
<1> DEFINE last == IF length > 0 THEN EndByte(start, length) ELSE 0
<1>1. /\ CutTypeOK /\ idx = 0 /\ length \in Nat /\ start \in Nat
  BY Numbers DEF CutInv, PlanInv, AskRange
<1>2. /\ stage = "start" /\ path = "range" /\ stage' = "done" /\ covered' = length
      /\ asked' = get_ms_range(start, last) /\ UNCHANGED <<given, plan, idx>>
      /\ path' = path /\ length' = length /\ start' = start
  BY DEF AskRange, given
<1>3. last \in Nat /\ (length > 0 => last = start + length - 1) /\ (length = 0 => last = 0)
  BY <1>1 DEF EndByte
<1> HIDE DEF last
<1>4. /\ asked'.first = start /\ asked'.last = IF last = 0 THEN EndOfBlob ELSE last
      /\ asked'.last \in Nat \cup {EndOfBlob}
  BY <1>1, <1>2, <1>3, RangeType
<1>5. last = 0 <=> length = 0 \/ (start = 0 /\ length = 1)
  BY <1>1, <1>3
<1>6. asked'.last = IF length = 0 \/ (start = 0 /\ length = 1) THEN EndOfBlob
                    ELSE start + length - 1
  BY <1>1, <1>3, <1>4, <1>5
<1>7. RangeIsAsked'
  BY <1>2, <1>4, <1>6 DEF RangeIsAsked
<1> QED
  BY <1>1, <1>2, <1>4, <1>7, AtOnce

LEMMA TakeStep == ASSUME CutInv, TakeSlice PROVE CutInv'
<1>1. /\ stage = "slicing" /\ MoreBlocks /\ path \in {"buffer", "file"}
      /\ covered' = covered + Narrowed(Slice) /\ idx' = idx + 1
      /\ UNCHANGED <<given, stage, plan>> /\ asked' = asked /\ path' = path
  BY DEF TakeSlice, CutInv, PlanInv, Cutting, given
<1>2. asked'.first \in Nat /\ asked'.last \in Nat \cup {EndOfBlob}
  BY <1>1 DEF CutInv, CutTypeOK
<1>3. RangeIsAsked'
  BY <1>1 DEF RangeIsAsked
<1>4. Narrowed(Slice) = Slice
  BY <1>1, SliceSize
<1> QED
  BY <1>1, <1>2, <1>3, <1>4, Taken

LEMMA ReadStep == ASSUME CutInv, ReadSlice PROVE CutInv'
<1> DEFINE first == start + Offset
           last == EndByte(first, Slice)
           count == IF asked'.last = EndOfBlob THEN Slice + 1
                    ELSE asked'.last - asked'.first + 1
<1>1. /\ stage = "slicing" /\ MoreBlocks /\ path = "download"
      /\ asked' = get_ms_range(first, last)
      /\ covered' = covered + xsputn(count, Slice) /\ idx' = idx + 1
      /\ UNCHANGED <<given, stage, plan>>
      /\ path' = path /\ length' = length /\ start' = start /\ block_size' = block_size
  BY DEF ReadSlice, given, plan
<1>2. /\ start \in Nat /\ Offset \in Nat /\ Slice \in Nat /\ Slice > 0
      /\ idx \in Nat /\ block_size \in Nat
  BY <1>1, SliceSize, Numbers DEF CutInv
<1>3. first \in Nat /\ last \in Nat /\ last = first + Slice - 1
  BY <1>2 DEF EndByte
<1>4. /\ asked'.first = first /\ asked'.last = IF last = 0 THEN EndOfBlob ELSE last
      /\ asked'.last \in Nat \cup {EndOfBlob}
  BY <1>1, <1>3, RangeType
<1>5. last # EndOfBlob
  BY <1>3 DEF EndOfBlob
<1>6. first = start + block_size * (idx' - 1)
      /\ Slice = Least(block_size, length - block_size * (idx' - 1)) /\ idx' > 0
  BY <1>1, <1>2 DEF Offset, Slice
<1> HIDE DEF first, last
<1>7. xsputn(count, Slice) = Slice
  BY <1>2, <1>3, <1>4, <1>5 DEF xsputn, Least
<1>8. covered' = covered + Slice
  BY <1>1, <1>7
<1>9. last = 0 <=> first = 0 /\ Slice = 1
  BY <1>2, <1>3
<1>10. asked'.last = IF Slice = 0 \/ (first = 0 /\ Slice = 1) THEN EndOfBlob
                     ELSE first + Slice - 1
  BY <1>2, <1>3, <1>4, <1>9
<1>11. RangeIsAsked'
  <2>1. /\ asked'.first = start' + block_size' * (idx' - 1)
        /\ Slice = Least(block_size', length' - block_size' * (idx' - 1))
    BY <1>1, <1>4, <1>6
  <2> QED
    BY <1>1, <1>4, <1>6, <1>10, <2>1 DEF RangeIsAsked
<1> QED
  BY <1>1, <1>3, <1>4, <1>8, <1>11, Taken

\* When no block is left the blocks that were taken reach the end.
LEMMA LastStep == ASSUME CutInv, NoMoreBlocks PROVE CutInv'
<1>1. /\ stage = "slicing" /\ ~MoreBlocks /\ stage' = "done" /\ UNCHANGED <<given, plan>>
      /\ idx' = idx /\ covered' = covered /\ asked' = asked /\ path' = path
      /\ length' = length /\ start' = start /\ parallelism' = parallelism
      /\ block_size' = block_size /\ num_blocks' = num_blocks
  BY DEF NoMoreBlocks, given, plan
<1>2. /\ CutTypeOK /\ path \in Cutting /\ length \in Nat /\ block_size \in Nat
      /\ idx \in Nat /\ num_blocks \in Nat /\ block_size > 0
  BY <1>1, Numbers DEF CutInv, PlanInv
<1>3. Offset \in Nat
  BY <1>2 DEF Offset
<1>4. length <= Offset
  <2>1. CASE path = "file"
    BY <1>1, <1>2, <1>3, <2>1 DEF MoreBlocks
  <2>2. CASE path # "file"
    <3>1. idx >= num_blocks /\ length <= block_size * num_blocks
      BY <1>1, <1>2, <2>2 DEF MoreBlocks, CutInv, CountInv
    <3>2. block_size * num_blocks <= block_size * idx /\ block_size * num_blocks \in Nat
      BY <1>2, <3>1
    <3> QED
      BY <1>2, <1>3, <3>1, <3>2 DEF Offset
  <2> QED
    BY <2>1, <2>2
<1>5. covered = length
  BY <1>1, <1>2, <1>3, <1>4 DEF CutInv, SideBySide, Least
<1>6. CutTypeOK'
  BY <1>1, <1>2 DEF CutTypeOK
<1>7. PlanInv' /\ CountInv' /\ FilePlan'
  BY <1>1, <1>2 DEF PlanInv, CountInv, FilePlan
<1>8. FileInv'
  BY <1>1 DEF CutInv, FileInv
<1>9. SideBySide'
  BY <1>1, <1>2, <1>5 DEF SideBySide, Cutting
<1>10. RangeIsAsked'
  BY <1>1, <1>2 DEF CutInv, RangeIsAsked, Cutting
<1>11. MissesByOneAtMost'
  BY <1>1 DEF CutInv, MissesByOneAtMost
<1> QED
  BY <1>6, <1>7, <1>8, <1>9, <1>10, <1>11 DEF CutInv

LEMMA StutterStep == ASSUME CutInv, UNCHANGED cutVars PROVE CutInv'
BY DEF cutVars, given, plan, CutInv, CutTypeOK, PlanInv, CountInv, FilePlan, FileInv, SideBySide,
       RangeIsAsked, MissesByOneAtMost, MoreBlocks, Offset

-----------------------------------------------------------------------------

\* Every plan reaches the end with blocks that all begin inside the data, and
\* every step of the loops keeps it so.
THEOREM CutInvariance == CutSpec => []CutInv
<1>1. CutInv /\ [CutNext]_cutVars => CutInv'
  <2> SUFFICES ASSUME CutInv, [CutNext]_cutVars PROVE CutInv'
    OBVIOUS
  <2>1. CASE PlanBuffer \/ PlanDownload \/ PlanFile
    BY <2>1, PlanSteps
  <2>2. CASE RejectTooBig \/ DivideByZero \/ SendWhole \/ SendStream \/ AppendStream
    BY <2>2, WholeSteps
  <2>3. CASE AskRange
    BY <2>3, AskStep
  <2>4. CASE TakeSlice
    BY <2>4, TakeStep
  <2>5. CASE ReadSlice
    BY <2>5, ReadStep
  <2>6. CASE NoMoreBlocks
    BY <2>6, LastStep
  <2>7. CASE UNCHANGED cutVars
    BY <2>7, StutterStep
  <2> QED
    BY <2>1, <2>2, <2>3, <2>4, <2>5, <2>6, <2>7 DEF CutNext
<1> QED
  BY CutInitInv, <1>1, PTL DEF CutSpec

\* The values of the variables of BlockMath, for any length.
THEOREM CutTypeCorrect == CutSpec => []CutTypeOK
BY CutInvariance, PTL DEF CutInv

\* The blocks of a buffer, a file or a download lie side by side and end where the
\* data ends, and a request asks for the bytes of its block; only the body of a
\* single request that is too long for an unsigned int is cut short.
THEOREM BlocksAreTiled == CutSpec => []BlocksTile
<1>1. CutInv => BlocksTile
  BY DEF CutInv, BlocksTile
<1> QED
  BY <1>1, CutInvariance, PTL

\* A buffer has one block more than allowed at most, a file never has, and its
\* blocks are longer than allowed by one grain at most.
THEOREM MissIsBounded == CutSpec => []MissesByOneAtMost
BY CutInvariance, PTL DEF CutInv

-----------------------------------------------------------------------------
(* Part 2.  SignedRequest: for any threads, metadata, tokens and clock.      *)

HeaderNames == MetaNames \cup DateNames \cup OtherNames \cup {"content-length"}
Pairs == HeaderNames \X Seq(Nat)

\* No two places of a sequence hold the same.
Distinct(s) == \A i, j \in 1..Len(s) : s[i] = s[j] => i = j

\* Lines of the library's own headers: each name once, with a value.
Plain(s) ==
    /\ s \in Seq(Pairs)
    /\ \A i \in 1..Len(s) : s[i][1] \notin MetaNames /\ s[i][2] # Blank
    /\ \A i, j \in 1..Len(s) : s[i][1] = s[j][1] => i = j

Building == {"clock", "gmtime", "day", "time", "late"}
Built == Building \cup {"sign", "sent"}

Reflects(ms, lines) ==
    /\ DOMAIN ms = NamesIn(lines) \ {"content-length"}
    /\ \A i \in 1..Len(lines) :
           lines[i][1] # "content-length" /\ IsLast(lines, i) => ms[lines[i][1]] = lines[i][2]

-----------------------------------------------------------------------------
(* Orders. *)

LEMMA LeastNatural ==
    ASSUME NEW T, T \subseteq Nat, T # {}
    PROVE  \E x \in T : \A y \in T : x <= y
<1> DEFINE R == {p \in Nat \X Nat : p[1] < p[2]}
<1>1. IsWellFoundedOn(R, Nat)
  BY NatLessThanWellFounded DEF OpToRel
<1>2. PICK x \in T : \A y \in T : ~(<<y, x>> \in R)
  BY <1>1, WFMin
<1>3. \A y \in T : ~(y < x)
  BY <1>2
<1> QED
  BY <1>3

\* Every name that is given has a last value.
LEMMA LastExists ==
    ASSUME NEW s, Len(s) \in Nat, NEW i \in 1..Len(s)
    PROVE  \E j \in 1..Len(s) : s[j][1] = s[i][1] /\ IsLast(s, j)
<1> DEFINE T == {Len(s) - j : j \in {k \in 1..Len(s) : s[k][1] = s[i][1]}}
<1>1. T \subseteq Nat /\ T # {}
  OBVIOUS
<1>2. PICK x \in T : \A y \in T : x <= y
  BY <1>1, LeastNatural
<1>3. PICK j \in 1..Len(s) : s[j][1] = s[i][1] /\ x = Len(s) - j
  OBVIOUS
<1>4. ASSUME NEW k \in 1..Len(s), s[k][1] = s[j][1] PROVE k <= j
  <2>1. Len(s) - k \in T
    BY <1>3, <1>4
  <2> HIDE DEF T
  <2> QED
    BY <1>2, <1>3, <2>1
<1> QED
  BY <1>3, <1>4 DEF IsLast

\* Of the spellings of a name one comes first.
LEMMA FirstExists ==
    ASSUME NEW names \in SUBSET MetaNames, NEW m \in names
    PROVE  \E f \in names :
              /\ to_lowercase(f) = to_lowercase(m)
              /\ \A k \in names : to_lowercase(k) = to_lowercase(m) => Before(f, k)
<1> DEFINE S == {k \in names : to_lowercase(k) = to_lowercase(m)}
           T == {NameOrder[k] : k \in S}
<1>1. T \subseteq Nat /\ T # {}
  BY SignedRequestAssumption
<1>2. PICK x \in T : \A y \in T : x <= y
  BY <1>1, LeastNatural
<1>3. PICK f \in S : x = NameOrder[f]
  OBVIOUS
<1>4. ASSUME NEW k \in S PROVE Before(f, k)
  <2>1. NameOrder[f] <= NameOrder[k]
    BY <1>2, <1>3
  <2>2. f \in MetaNames /\ k \in MetaNames
    OBVIOUS
  <2> QED
    BY <2>1, <2>2, SignedRequestAssumption DEF Before
<1> QED
  BY <1>3, <1>4

-----------------------------------------------------------------------------
(* The builders. *)

\* The headers a builder adds around the date: no name twice, and none that
\* another part of the request uses.
Headers(names) == names \in Seq(OtherNames) /\ Distinct(names)
ShapeOf(b) ==
    /\ Headers(b.late)
    /\ \A ms \in b.ms : Headers(ms) /\ (ms = <<>> \/ b.late = <<>>)
    /\ b.meta \in {"never", "before", "after"}
    /\ b.length \in {"none", "zero", "body"}
    /\ "%41" \notin b.query

LEMMA HeaderLists ==
    /\ Headers(<<>>)
    /\ \A n \in OtherNames : Headers(<<n>>)
    /\ Headers(<<"x-ms-blob-type", "x-ms-blob-content-length", "x-ms-blob-sequence-number">>)
    /\ Headers(<<"x-ms-range", "x-ms-page-write">>)
    /\ Headers(<<"x-ms-owner", "x-ms-group", "x-ms-permissions", "x-ms-acl">>)
<1> USE DEF Headers, Distinct
<1>1. Headers(<<>>)
  OBVIOUS
<1>2. ASSUME NEW n \in OtherNames PROVE Headers(<<n>>)
  OBVIOUS
<1>3. Headers(<<"x-ms-blob-type", "x-ms-blob-content-length", "x-ms-blob-sequence-number">>)
  BY DEF OtherNames
<1>4. Headers(<<"x-ms-range", "x-ms-page-write">>)
  BY DEF OtherNames
<1>5. Headers(<<"x-ms-owner", "x-ms-group", "x-ms-permissions", "x-ms-acl">>)
  BY DEF OtherNames
<1> QED
  BY <1>1, <1>2, <1>3, <1>4, <1>5

LEMMA SingleHeaders ==
    /\ Headers(<<"x-ms-blob-type">>) /\ Headers(<<"x-ms-copy-source">>)
    /\ Headers(<<"x-ms-range">>) /\ Headers(<<"x-ms-delete-snapshots">>)
    /\ Headers(<<"x-ms-blob-public-access">>) /\ Headers(<<"x-ms-rename-source">>)
BY HeaderLists DEF OtherNames

LEMMA BuilderShape == \A op \in DOMAIN Builders : ShapeOf(Builders[op])
<1> USE HeaderLists, SingleHeaders DEF Builder, WithMeta, WithLate, Only, Maybe, ShapeOf
<1>1. ShapeOf(put_blob)
  BY DEF put_blob
<1>2. ShapeOf(put_block)
  BY DEF put_block
<1>3. ShapeOf(put_block_list)
  BY DEF put_block_list
<1>4. ShapeOf(append_block)
  BY DEF append_block
<1>5. ShapeOf(put_page)
  BY DEF put_page
<1>6. ShapeOf(copy_blob)
  BY DEF copy_blob
<1>7. ShapeOf(get_blob)
  BY DEF get_blob
<1>8. ShapeOf(get_page_ranges)
  BY DEF get_page_ranges
<1>9. ShapeOf(get_block_list)
  BY DEF get_block_list
<1>10. ShapeOf(get_blob_property)
  BY DEF get_blob_property
<1>11. ShapeOf(set_blob_metadata)
  BY DEF set_blob_metadata
<1>12. ShapeOf(delete_blob)
  BY DEF delete_blob
<1>13. ShapeOf(list_blobs)
  BY DEF list_blobs
<1>14. ShapeOf(list_blobs_segmented)
  BY DEF list_blobs_segmented
<1>15. ShapeOf(list_containers)
  BY DEF list_containers
<1>16. ShapeOf(create_container)
  BY DEF create_container
<1>17. ShapeOf(get_container_property)
  BY DEF get_container_property
<1>18. ShapeOf(set_container_metadata)
  BY DEF set_container_metadata
<1>19. ShapeOf(delete_container)
  BY DEF delete_container
<1>20. ShapeOf(create_directory)
  BY DEF create_directory
<1>21. ShapeOf(create_file)
  BY DEF create_file
<1>22. ShapeOf(delete_directory)
  BY DEF delete_directory
<1>23. ShapeOf(append_data)
  BY DEF append_data
<1>24. ShapeOf(flush_data)
  BY DEF flush_data
<1>25. ShapeOf(get_access_control)
  BY DEF get_access_control
<1>26. ShapeOf(set_access_control)
  BY DEF set_access_control
<1>27. ShapeOf(list_paths)
  BY DEF list_paths
<1>28. ShapeOf(rename_file)
  BY DEF rename_file
<1> QED
  BY ONLY <1>1, <1>2, <1>3, <1>4, <1>5, <1>6, <1>7, <1>8, <1>9, <1>10, <1>11, <1>12, <1>13, <1>14, <1>15, <1>16, <1>17, <1>18, <1>19, <1>20, <1>21, <1>22, <1>23, <1>24, <1>25, <1>26, <1>27, <1>28 DEF Builders

-----------------------------------------------------------------------------
(* The lines of a request. *)

LEMMA PlainConstants ==
    ASSUME NEW names, Headers(names)
    PROVE  Plain(Constants(names)) /\ NamesIn(Constants(names)) \subseteq OtherNames
<1> DEFINE s == Constants(names)
<1>1. names \in Seq(OtherNames) /\ Len(names) \in Nat
  BY DEF Headers
<1>2. \A i \in 1..Len(names) : names[i] \in OtherNames /\ <<names[i], Const>> \in Pairs
  <2>1. Const \in Seq(Nat)
    BY DEF Const
  <2> QED
    BY <1>1, <2>1 DEF Pairs, HeaderNames
<1>3. s \in Seq(Pairs) /\ Len(s) = Len(names) /\ \A i \in 1..Len(s) : s[i] = <<names[i], Const>>
  <2>1. s = [i \in 1..Len(names) |-> <<names[i], Const>>]
    BY DEF Constants
  <2> HIDE DEF s
  <2>2. \A i \in 1..Len(names) : s[i] = <<names[i], Const>> /\ s[i] \in Pairs
    BY <1>2, <2>1
  <2>3. s \in [1..Len(names) -> Pairs]
    BY <2>1, <2>2
  <2>4. s \in Seq(Pairs) /\ Len(s) = Len(names)
    BY <1>1, <2>3
  <2> QED
    BY <2>2, <2>4
<1> HIDE DEF s
<1>4. \A i \in 1..Len(s) : s[i][1] = names[i] /\ s[i][2] = Const
  BY <1>3
<1>5. Const # Blank
  BY DEF Const, Blank
<1>6. Plain(s)
  <2>1. \A i \in 1..Len(s) : s[i][1] \notin MetaNames /\ s[i][2] # Blank
    BY ZenonT(30), <1>2, <1>3, <1>4, <1>5, SignedRequestAssumption
  <2>2. \A i, j \in 1..Len(s) : s[i][1] = s[j][1] => i = j
    BY <1>3, <1>4 DEF Headers, Distinct
  <2> QED
    BY <1>3, <2>1, <2>2 DEF Plain
<1>7. NamesIn(s) \subseteq OtherNames
  <2>1. \A i \in 1..Len(s) : s[i][1] \in OtherNames
    BY <1>2, <1>3, <1>4
  <2> QED
    BY <2>1 DEF NamesIn
<1> QED
  BY <1>6, <1>7 DEF s

LEMMA PlainConcat ==
    ASSUME NEW s, NEW t, Plain(s), Plain(t), NamesIn(s) \cap NamesIn(t) = {}
    PROVE  Plain(s \o t)
<1> DEFINE u == s \o t
<1>1. s \in Seq(Pairs) /\ t \in Seq(Pairs) /\ Len(s) \in Nat /\ Len(t) \in Nat
  BY DEF Plain
<1>2. u \in Seq(Pairs) /\ Len(u) = Len(s) + Len(t)
  BY <1>1
<1>3. \A i \in 1..Len(u) : \/ i \in 1..Len(s) /\ u[i] = s[i]
                           \/ i - Len(s) \in 1..Len(t) /\ u[i] = t[i - Len(s)]
  BY <1>1
<1> HIDE DEF u
<1>4. ASSUME NEW i \in 1..Len(u) PROVE u[i][1] \notin MetaNames /\ u[i][2] # Blank
  BY <1>1, <1>3 DEF Plain
<1>5. ASSUME NEW i \in 1..Len(u), NEW j \in 1..Len(u), u[i][1] = u[j][1] PROVE i = j
  <2>1. \A k \in 1..Len(s), l \in 1..Len(t) : s[k][1] # t[l][1]
    BY DEF NamesIn
  <2>2. \A k, l \in 1..Len(s) : s[k][1] = s[l][1] => k = l
    BY DEF Plain
  <2>3. \A k, l \in 1..Len(t) : t[k][1] = t[l][1] => k = l
    BY DEF Plain
  <2>4. CASE i \in 1..Len(s) /\ u[i] = s[i]
    BY <1>3, <1>5, <2>1, <2>2, <2>4
  <2>5. CASE i - Len(s) \in 1..Len(t) /\ u[i] = t[i - Len(s)]
    <3>1. j - Len(s) \in 1..Len(t) /\ u[j] = t[j - Len(s)]
      BY <1>3, <1>5, <2>1, <2>5
    <3>2. i - Len(s) = j - Len(s)
      BY <1>5, <2>3, <2>5, <3>1
    <3> QED
      BY <1>1, <3>2
  <2> QED
    BY <1>3, <2>4, <2>5
<1>6. Plain(u)
  BY <1>2, <1>4, <1>5 DEF Plain
<1> QED
  BY <1>6 DEF u

LEMMA Regroup ==
    ASSUME NEW a \in Seq(Pairs), NEW b \in Seq(Pairs), NEW m \in Seq(Pairs)
    PROVE  a \o (b \o m) = (a \o b) \o m /\ a \o <<>> = a /\ a \o b \in Seq(Pairs)
BY ConcatAssociative, ConcatEmptySeq, ConcatProperties

LEMMA ConcatAssoc == \A a, b, d \in Seq(Pairs) : a \o (b \o d) = (a \o b) \o d
BY Regroup

LinesOf(s) == {s[i] : i \in 1..Len(s)}

LEMMA LinesConcat ==
    ASSUME NEW s \in Seq(Pairs), NEW t \in Seq(Pairs)
    PROVE  LinesOf(s) \subseteq LinesOf(s \o t) /\ LinesOf(t) \subseteq LinesOf(s \o t)
<1> DEFINE u == s \o t
<1>1. (\A i \in 1..Len(s) : i \in 1..Len(u) /\ u[i] = s[i])
      /\ \A i \in 1..Len(t) : Len(s) + i \in 1..Len(u) /\ u[Len(s) + i] = t[i]
  OBVIOUS
<1> HIDE DEF u
<1> QED
  BY <1>1 DEF LinesOf, u

LEMMA NamesConcat ==
    ASSUME NEW s \in Seq(Pairs), NEW t \in Seq(Pairs)
    PROVE  NamesIn(s \o t) = NamesIn(s) \cup NamesIn(t)
<1> DEFINE u == s \o t
<1>1. Len(s) \in Nat /\ Len(t) \in Nat /\ Len(u) = Len(s) + Len(t)
  OBVIOUS
<1>2. \A i \in 1..Len(u) : \/ i \in 1..Len(s) /\ u[i] = s[i]
                           \/ i - Len(s) \in 1..Len(t) /\ u[i] = t[i - Len(s)]
  OBVIOUS
<1>3. (\A i \in 1..Len(s) : i \in 1..Len(u) /\ u[i] = s[i])
      /\ \A i \in 1..Len(t) : Len(s) + i \in 1..Len(u) /\ u[Len(s) + i] = t[i]
  OBVIOUS
<1> HIDE DEF u
<1>4. NamesIn(u) \subseteq NamesIn(s) \cup NamesIn(t)
  BY <1>2 DEF NamesIn
<1>5. NamesIn(s) \subseteq NamesIn(u)
  BY <1>3 DEF NamesIn
<1>6. NamesIn(t) \subseteq NamesIn(u)
  BY SMTT(30), <1>3 DEF NamesIn
<1> QED
  BY <1>4, <1>5, <1>6 DEF u

\* What is collected from more lines is what is collected from all of them.
LEMMA CollectReflects ==
    ASSUME NEW ms, NEW s \in Seq(Pairs), NEW t \in Seq(Pairs),
           Reflects(ms, s), "content-length" \notin NamesIn(t)
    PROVE  Reflects(Collect(ms, t), s \o t)
<1> DEFINE u == s \o t
           cs == Collect(ms, t)
<1>1. Len(s) \in Nat /\ Len(t) \in Nat /\ Len(u) = Len(s) + Len(t)
  OBVIOUS
<1>2. \A i \in 1..Len(u) : \/ i \in 1..Len(s) /\ u[i] = s[i]
                           \/ i - Len(s) \in 1..Len(t) /\ u[i] = t[i - Len(s)]
  OBVIOUS
<1>3. (\A i \in 1..Len(s) : i \in 1..Len(u) /\ u[i] = s[i])
      /\ \A i \in 1..Len(t) : Len(s) + i \in 1..Len(u) /\ u[Len(s) + i] = t[i]
  OBVIOUS
<1>4. DOMAIN cs = NamesIn(u) \ {"content-length"}
  BY NamesConcat DEF Collect, Reflects
<1> HIDE DEF u
<1>5. ASSUME NEW i \in 1..Len(u), u[i][1] # "content-length", IsLast(u, i)
      PROVE  cs[u[i][1]] = u[i][2]
  <2> DEFINE n == u[i][1]
  <2>1. CASE n \in NamesIn(t)
    <3>1. \E l \in 1..Len(t) : t[l][1] = n /\ IsLast(t, l)
      <4>1. PICK k \in 1..Len(t) : t[k][1] = n
        BY <2>1 DEF NamesIn
      <4> QED
        BY <1>1, <4>1, LastExists
    <3> DEFINE l == CHOOSE l \in 1..Len(t) : t[l][1] = n /\ IsLast(t, l)
    <3>2. l \in 1..Len(t) /\ t[l][1] = n /\ IsLast(t, l)
      BY <3>1
    <3>3. cs[n] = t[l][2]
      BY <2>1 DEF Collect
    <3> HIDE DEF l
    <3>4. Len(s) + l <= i
      BY <1>3, <1>5, <3>2 DEF IsLast
    <3>5. i - Len(s) \in 1..Len(t) /\ u[i] = t[i - Len(s)]
      BY <1>1, <1>2, <3>2, <3>4
    <3>6. i - Len(s) <= l
      <4>1. t[i - Len(s)][1] = t[l][1]
        BY <3>2, <3>5
      <4> QED
        BY <3>2, <3>5, <4>1 DEF IsLast
    <3>7. i - Len(s) = l
      <4>1. i \in Int /\ l \in Int
        BY <1>1, <3>2
      <4> QED
        BY ONLY <1>1, <3>4, <3>6, <4>1
    <3> QED
      BY <3>3, <3>5, <3>7
  <2>2. CASE n \notin NamesIn(t)
    <3>1. i \in 1..Len(s) /\ u[i] = s[i]
      BY <1>1, <1>2, <2>2 DEF NamesIn
    <3>2. IsLast(s, i)
      BY <1>1, <1>3, <1>5, <3>1 DEF IsLast
    <3>3. n \in DOMAIN ms /\ ms[n] = s[i][2]
      BY <1>5, <3>1, <3>2 DEF Reflects, NamesIn
    <3> QED
      BY <2>2, <3>1, <3>3 DEF Collect
  <2> QED
    BY <2>1, <2>2
<1>6. Reflects(cs, u)
  BY <1>4, <1>5 DEF Reflects
<1> QED
  BY <1>6 DEF u

\* The caller's metadata among the library's own headers: it stands in one piece,
\* from the line after k on.
Around(lines, meta, k) ==
    /\ lines \in Seq(Pairs) /\ k \in Nat /\ k + Len(meta) <= Len(lines)
    /\ \A i \in 1..Len(meta) : lines[k + i] = meta[i]
    /\ \A i \in 1..Len(lines) : i \in (k + 1)..(k + Len(meta)) \/
           /\ lines[i][1] \notin MetaNames /\ lines[i][2] # Blank
           /\ \A j \in 1..Len(lines) : lines[j][1] = lines[i][1] => j = i

MetaPairs == MetaNames \X Seq(Nat)

LEMMA MetaArePairs ==
    ASSUME NEW meta \in Seq(MetaPairs)
    PROVE  /\ meta \in Seq(Pairs) /\ Len(meta) \in Nat
           /\ \A i \in 1..Len(meta) : meta[i] \in Pairs /\ meta[i][1] \in MetaNames
           /\ NamesIn(meta) \subseteq MetaNames
<1>1. MetaPairs \subseteq Pairs
  BY DEF MetaPairs, Pairs, HeaderNames
<1>2. meta \in Seq(Pairs)
  BY <1>1, SeqMonotonic
<1>3. \A i \in 1..Len(meta) : meta[i] \in MetaPairs
  OBVIOUS
<1> QED
  BY <1>1, <1>2, <1>3 DEF MetaPairs, NamesIn

LEMMA AroundConcat ==
    ASSUME NEW p, NEW q, Plain(p), Plain(q), NamesIn(p) \cap NamesIn(q) = {},
           NEW meta \in Seq(MetaPairs)
    PROVE  Around((p \o meta) \o q, meta, Len(p))
<1> DEFINE u == (p \o meta) \o q
           k == Len(p)
           n == Len(meta)
<1>1. p \in Seq(Pairs) /\ q \in Seq(Pairs) /\ meta \in Seq(Pairs)
      /\ k \in Nat /\ n \in Nat /\ Len(q) \in Nat
  BY MetaArePairs DEF Plain
<1>2. u \in Seq(Pairs) /\ Len(u) = k + n + Len(q)
  BY <1>1
<1>3. \A i \in 1..Len(u) : \/ i \in 1..k /\ u[i] = p[i]
                           \/ i - k \in 1..n /\ u[i] = meta[i - k]
                           \/ i - k - n \in 1..Len(q) /\ u[i] = q[i - k - n]
  BY <1>1
<1>4. \A i \in 1..n : u[k + i] = meta[i]
  BY <1>1
<1> HIDE DEF u
<1>5. /\ \A i \in 1..k : p[i][1] \notin MetaNames /\ p[i][2] # Blank
      /\ \A i, j \in 1..k : p[i][1] = p[j][1] => i = j
      /\ \A i \in 1..Len(q) : q[i][1] \notin MetaNames /\ q[i][2] # Blank
      /\ \A i, j \in 1..Len(q) : q[i][1] = q[j][1] => i = j
  BY DEF Plain
<1>6. \A i \in 1..n : meta[i][1] \in MetaNames
  BY MetaArePairs
<1>7. \A i \in 1..k, j \in 1..Len(q) : p[i][1] # q[j][1]
  BY DEF NamesIn
<1> HIDE DEF k, n
<1>8. ASSUME NEW i \in 1..Len(u), i \notin (k + 1)..(k + n)
      PROVE  /\ u[i][1] \notin MetaNames /\ u[i][2] # Blank
             /\ \A j \in 1..Len(u) : u[j][1] = u[i][1] => j = i
  <2>1. i \in Int /\ \A j \in 1..Len(u) : j \in Int
    BY <1>1, <1>2
  <2>2. CASE i \in 1..k /\ u[i] = p[i]
    <3>1. u[i][1] \notin MetaNames /\ u[i][2] # Blank
      BY <1>5, <2>2
    <3>2. ASSUME NEW j \in 1..Len(u), u[j][1] = u[i][1] PROVE j = i
      BY <1>3, <1>5, <1>6, <1>7, <2>2, <3>1, <3>2
    <3> QED
      BY <3>1, <3>2
  <2>3. CASE i - k - n \in 1..Len(q) /\ u[i] = q[i - k - n]
    <3>1. u[i][1] \notin MetaNames /\ u[i][2] # Blank
      BY <1>5, <2>3
    <3>2. ASSUME NEW j \in 1..Len(u), u[j][1] = u[i][1] PROVE j = i
      <4>1. j - k - n \in 1..Len(q) /\ u[j] = q[j - k - n]
        BY <1>3, <1>6, <1>7, <2>3, <3>1, <3>2
      <4>2. j - k - n = i - k - n
        BY <1>5, <2>3, <3>2, <4>1
      <4> QED
        BY <1>1, <2>1, <4>2
    <3> QED
      BY <3>1, <3>2
  <2> QED
    <3>1. ~(i - k \in 1..n)
      BY <1>1, <1>8, <2>1
    <3> QED
      BY <1>3, <2>2, <2>3, <3>1
<1>9. Around(u, meta, k)
  <2>1. n = Len(meta)
    BY DEF n
  <2>2. k + n <= Len(u)
    BY <1>1, <1>2
  <2> QED
    BY <1>1, <1>2, <1>4, <1>8, <2>1, <2>2 DEF Around
<1> QED
  BY <1>9 DEF u, k

DatePairs(d) == << <<"x-ms-date", d>>, <<"x-ms-version", Const>> >>

LEMMA PlainDate ==
    ASSUME NEW d \in Nat \X Nat
    PROVE  /\ Plain(DatePairs(d)) /\ NamesIn(DatePairs(d)) = DateNames
           /\ Len(DatePairs(d)) = 2 /\ DatePairs(d)[1] = <<"x-ms-date", d>>
<1> DEFINE s == DatePairs(d)
<1>1. d \in Seq(Nat) /\ d # <<>> /\ Const \in Seq(Nat) /\ Const # <<>>
  <2>1. d = <<d[1], d[2]>> /\ d[1] \in Nat /\ d[2] \in Nat
    OBVIOUS
  <2>2. \A x, y \in Nat : <<x, y>> \in Seq(Nat) /\ <<x, y>> # <<>>
    OBVIOUS
  <2>3. Const \in Seq(Nat) /\ Const # <<>>
    BY DEF Const
  <2> QED
    BY <2>1, <2>2, <2>3
<1>2. Len(s) = 2 /\ s[1] = <<"x-ms-date", d>> /\ s[2] = <<"x-ms-version", Const>>
  BY DEF DatePairs
<1>3. s[1] \in Pairs /\ s[2] \in Pairs
  BY <1>1, <1>2 DEF Pairs, HeaderNames, DateNames
<1>4. s \in Seq(Pairs)
  BY <1>2, <1>3 DEF DatePairs
<1> HIDE DEF s
<1>5. \A i \in 1..Len(s) : i = 1 \/ i = 2
  BY <1>2
<1>6. s[1][1] = "x-ms-date" /\ s[2][1] = "x-ms-version" /\ s[1][2] = d /\ s[2][2] = Const
  BY <1>2
<1>7. Plain(s)
  BY <1>1, <1>4, <1>5, <1>6, SignedRequestAssumption DEF Plain, DateNames, Blank
<1>8. NamesIn(s) = DateNames
  BY <1>2, <1>5, <1>6 DEF NamesIn, DateNames
<1> QED
  BY <1>2, <1>7, <1>8 DEF s

\* The Content-Length header is signed from what is sent of it.
LEMMA PlainLength ==
    ASSUME NEW c \in Clients, NEW op \in DOMAIN Builders, input[c] \in Inputs(op)
    PROVE  /\ Plain(ContentLength(c))
           /\ NamesIn(ContentLength(c)) \subseteq {"content-length"}
           /\ IF B(c).length = "none"
              THEN NamesIn(ContentLength(c)) = {} /\ input[c].length = 0
              ELSE /\ NamesIn(ContentLength(c)) = {"content-length"}
                   /\ Len(ContentLength(c)) = 1
                   /\ ContentLength(c)[1] = <<"content-length", <<input[c].length>> >>
                   /\ input[c].length \in Nat
<1> DEFINE n == input[c].length
           s == << <<"content-length", <<n>> >> >>
<1>1. B(c) = Builders[op] /\ n \in {0, 1} /\ (B(c).length = "none" => n = 0)
  BY DEF Inputs, B
<1>2. s \in Seq(Pairs) /\ Len(s) = 1 /\ s[1] = <<"content-length", <<n>> >> /\ <<n>> # <<>>
  <2>1. <<n>> \in Seq(Nat) /\ <<n>> # <<>>
    BY <1>1
  <2>2. <<"content-length", <<n>> >> \in Pairs
    BY <2>1 DEF Pairs, HeaderNames
  <2>3. \A x \in Pairs : <<x>> \in Seq(Pairs)
    OBVIOUS
  <2> QED
    BY <2>1, <2>2, <2>3
<1> HIDE DEF s
<1>3. \A i \in 1..Len(s) : i = 1
  BY <1>2
<1>4. Plain(s) /\ NamesIn(s) = {"content-length"}
  BY SMTT(30), <1>2, <1>3, SignedRequestAssumption DEF Plain, NamesIn, Blank
<1>5. Plain(<<>>) /\ NamesIn(<<>>) = {}
  BY DEF Plain, NamesIn
<1>6. CASE B(c).length = "none"
  BY <1>1, <1>5, <1>6 DEF ContentLength
<1>7. CASE B(c).length # "none"
  <2>1. ContentLength(c) = s
    BY <1>7 DEF ContentLength, s
  <2> QED
    BY <1>1, <1>2, <1>4, <1>7, <2>1
<1> QED
  BY <1>6, <1>7

LengthSent(c, lines, n) ==
    IF B(c).length = "none"
    THEN "content-length" \notin NamesIn(lines) /\ n = 0
    ELSE \E i \in 1..Len(lines) : lines[i] = <<"content-length", <<n>> >>

\* What the builder, the caller's arguments and the date make of a request.
LEMMA Anatomy ==
    ASSUME NEW c \in Clients, NEW op \in DOMAIN Builders, input[c] \in Inputs(op),
           date[c] \in Nat \X Nat,
           NEW lines, lines = (ContentLength(c) \o FirstHeaders(c)) \o LateHeaders(c)
    PROVE  /\ \E k \in Nat : Around(lines, input[c].meta, k)
           /\ input[c].meta \in Seq(MetaPairs)
           /\ \E i \in 1..Len(lines) : lines[i] = <<"x-ms-date", date[c]>>
           /\ LengthSent(c, lines, input[c].length) /\ input[c].length \in Nat
<1> DEFINE cl == ContentLength(c)
           ms == Constants(input[c].ms)
           dv == DatePairs(date[c])
           late == Constants(B(c).late)
           meta == input[c].meta
<1>1. B(c) = Builders[op] /\ input[c].ms \in Builders[op].ms /\ ShapeOf(Builders[op])
      /\ meta \in (IF B(c).meta = "never" THEN {<<>>} ELSE Metadata)
  <2>1. /\ input[c].op = op /\ input[c].ms \in Builders[op].ms
        /\ meta \in (IF Builders[op].meta = "never" THEN {<<>>} ELSE Metadata)
    BY DEF Inputs
  <2> QED
    BY <2>1, BuilderShape DEF B
<1>2. meta \in Seq(MetaPairs)
  <2>1. Metadata \subseteq Seq(MetaPairs)
    BY SignedRequestAssumption DEF MetaPairs
  <2>2. <<>> \in Seq(MetaPairs)
    OBVIOUS
  <2> QED
    BY <1>1, <2>1, <2>2
<1>3. /\ Plain(cl) /\ Plain(ms) /\ Plain(dv) /\ Plain(late)
      /\ NamesIn(cl) \subseteq {"content-length"} /\ NamesIn(dv) = DateNames
      /\ NamesIn(ms) \subseteq OtherNames /\ NamesIn(late) \subseteq OtherNames
  BY <1>1, PlainLength, PlainDate, PlainConstants DEF ShapeOf
<1>4. NamesIn(ms) \cap NamesIn(late) = {}
  <2>1. NamesIn(Constants(<<>>)) = {}
    BY DEF Constants, NamesIn
  <2> QED
    BY <1>1, <2>1 DEF ShapeOf
<1> DEFINE mb == Meta(c, "before")
           ma == Meta(c, "after")
           first == FirstHeaders(c)
           later == LateHeaders(c)
<1>5. first = ms \o mb /\ later = (dv \o late) \o ma /\ lines = (cl \o first) \o later
  BY DEF FirstHeaders, LateHeaders, DatePairs
<1>6. (mb = meta /\ ma = <<>>) \/ (mb = <<>> /\ ma = meta)
  BY <1>1 DEF Meta, ShapeOf
<1>7. "content-length" \notin DateNames \cup OtherNames /\ DateNames \cap OtherNames = {}
  BY DEF DateNames, OtherNames
<1>8. /\ cl \in Seq(Pairs) /\ ms \in Seq(Pairs) /\ dv \in Seq(Pairs) /\ late \in Seq(Pairs)
      /\ meta \in Seq(Pairs) /\ <<>> \in Seq(Pairs)
  BY <1>2, <1>3, MetaArePairs DEF Plain
<1> HIDE DEF cl, ms, dv, late, meta, mb, ma, first, later
<1>17. mb \in Seq(Pairs) /\ ma \in Seq(Pairs)
       /\ NamesIn(mb) \subseteq MetaNames /\ NamesIn(ma) \subseteq MetaNames
  <2>1. NamesIn(meta) \subseteq MetaNames /\ NamesIn(<<>>) = {}
    BY <1>2, MetaArePairs DEF NamesIn
  <2> QED
    BY <1>6, <1>8, <2>1
<1> DEFINE p1 == cl \o ms
           q1 == dv \o late
<1>9. /\ Plain(p1) /\ Plain(q1) /\ p1 \in Seq(Pairs) /\ q1 \in Seq(Pairs)
      /\ NamesIn(p1) = NamesIn(cl) \cup NamesIn(ms)
      /\ NamesIn(q1) = NamesIn(dv) \cup NamesIn(late)
      /\ NamesIn(p1) \cap NamesIn(q1) = {}
  <2>1. NamesIn(cl) \cap NamesIn(ms) = {} /\ NamesIn(dv) \cap NamesIn(late) = {}
    BY <1>3, <1>7
  <2>2. Plain(p1) /\ Plain(q1)
    BY <1>3, <2>1, PlainConcat
  <2>3. NamesIn(p1) = NamesIn(cl) \cup NamesIn(ms) /\ NamesIn(q1) = NamesIn(dv) \cup NamesIn(late)
    BY <1>8, NamesConcat
  <2>4. NamesIn(p1) \cap NamesIn(q1) = {}
    BY <1>3, <1>4, <1>7, <2>3
  <2> QED
    BY <1>8, <2>2, <2>3, <2>4 DEF Plain
<1> HIDE DEF p1, q1
<1>10. first \in Seq(Pairs) /\ later \in Seq(Pairs) /\ later = q1 \o ma
  <2>1. ms \o mb \in Seq(Pairs)
    BY <1>8, <1>17, Regroup
  <2>2. q1 \o ma \in Seq(Pairs)
    BY <1>9, <1>17, Regroup
  <2> QED
    BY <1>5, <2>1, <2>2 DEF q1
<1>11. \E k \in Nat : Around(lines, meta, k)
  <2>1. CASE mb = meta /\ ma = <<>>
    <3>1. later = q1
      BY <1>9, <1>10, <2>1, Regroup
    <3>2. cl \o (ms \o meta) = p1 \o meta
      <4>1. cl \in Seq(Pairs) /\ ms \in Seq(Pairs) /\ meta \in Seq(Pairs)
        BY <1>8
      <4>2. cl \o (ms \o meta) = (cl \o ms) \o meta
        BY <4>1, ConcatAssoc, Zenon
      <4> QED
        BY <4>2 DEF p1
    <3>3. lines = (p1 \o meta) \o q1
      BY <1>5, <2>1, <3>1, <3>2
    <3>4. Around(lines, meta, Len(p1))
      <4>1. Around((p1 \o meta) \o q1, meta, Len(p1))
        BY <1>2, <1>9, AroundConcat
      <4> QED
        BY <3>3, <4>1
    <3> QED
      BY <1>9, <3>4
  <2>2. CASE mb = <<>> /\ ma = meta
    <3> DEFINE p2 == p1 \o q1
    <3>1. first = ms
      BY <1>5, <1>8, <2>2, Regroup
    <3>2. lines = p1 \o (q1 \o meta)
      BY <1>5, <1>10, <2>2, <3>1 DEF p1
    <3>3. p1 \o (q1 \o meta) = p2 \o meta
      <4>1. p1 \in Seq(Pairs) /\ q1 \in Seq(Pairs) /\ meta \in Seq(Pairs)
        BY <1>8, <1>9
      <4> QED
        BY <4>1, ConcatAssoc, Zenon
    <3>4. Plain(p2) /\ p2 \in Seq(Pairs)
      BY <1>9, PlainConcat DEF Plain
    <3>5. Plain(<<>>) /\ NamesIn(<<>>) = {}
      BY DEF Plain, NamesIn
    <3> HIDE DEF p2
    <3>6. p2 \o meta \in Seq(Pairs)
      BY <1>8, <3>4, Regroup
    <3>7. (p2 \o meta) \o <<>> = p2 \o meta
      BY <3>6, Regroup
    <3>8. Around((p2 \o meta) \o <<>>, meta, Len(p2))
      BY <1>2, <3>4, <3>5, AroundConcat
    <3>9. Around(lines, meta, Len(p2)) /\ Len(p2) \in Nat
      BY <3>2, <3>3, <3>4, <3>7, <3>8
    <3> QED
      BY <3>9
  <2> QED
    BY <1>6, <2>1, <2>2
<1>18. cl \o first \in Seq(Pairs)
  BY <1>8, <1>10, Regroup
<1>12. LinesOf(cl) \subseteq LinesOf(lines) /\ LinesOf(dv) \subseteq LinesOf(lines)
  <2>1. LinesOf(cl) \subseteq LinesOf(cl \o first)
    BY <1>8, <1>10, LinesConcat
  <2>2. LinesOf(dv) \subseteq LinesOf(q1)
    BY <1>8, LinesConcat DEF q1
  <2>3. LinesOf(q1) \subseteq LinesOf(later)
    BY <1>9, <1>10, <1>17, LinesConcat
  <2>4. LinesOf(cl \o first) \subseteq LinesOf(lines) /\ LinesOf(later) \subseteq LinesOf(lines)
    BY <1>5, <1>10, <1>18, LinesConcat
  <2> QED
    BY <2>1, <2>2, <2>3, <2>4
<1>13. NamesIn(lines) \subseteq NamesIn(cl) \cup NamesIn(ms) \cup DateNames
                              \cup NamesIn(late) \cup MetaNames
  <2>1. NamesIn(first) = NamesIn(ms) \cup NamesIn(mb)
    BY <1>5, <1>8, <1>17, NamesConcat
  <2>2. NamesIn(later) = NamesIn(q1) \cup NamesIn(ma)
    BY <1>9, <1>10, <1>17, NamesConcat
  <2>3. NamesIn(cl \o first) = NamesIn(cl) \cup NamesIn(first)
    BY <1>8, <1>10, NamesConcat
  <2>4. NamesIn(lines) = NamesIn(cl \o first) \cup NamesIn(later)
    BY <1>5, <1>10, <1>18, NamesConcat
  <2> QED
    BY <1>3, <1>9, <1>17, <2>1, <2>2, <2>3, <2>4
<1>14. \E i \in 1..Len(lines) : lines[i] = <<"x-ms-date", date[c]>>
  <2>1. Len(dv) = 2 /\ dv[1] = <<"x-ms-date", date[c]>>
    BY PlainDate DEF dv
  <2>2. <<"x-ms-date", date[c]>> \in LinesOf(dv)
    BY <2>1 DEF LinesOf
  <2> QED
    BY <1>12, <2>2 DEF LinesOf
<1>15. CASE B(c).length = "none"
  <2>1. NamesIn(cl) = {} /\ input[c].length = 0
    BY <1>15, PlainLength DEF cl
  <2>2. "content-length" \notin MetaNames
    BY SignedRequestAssumption
  <2>3. "content-length" \notin NamesIn(lines)
    BY <1>3, <1>7, <1>13, <2>1, <2>2
  <2>4. LengthSent(c, lines, input[c].length)
    BY <1>15, <2>1, <2>3 DEF LengthSent
  <2>5. input[c].length \in Nat
    BY <2>1
  <2> QED
    BY <1>2, <1>11, <1>14, <2>4, <2>5 DEF meta
<1>16. CASE B(c).length # "none"
  <2>1. Len(cl) = 1 /\ cl[1] = <<"content-length", <<input[c].length>> >> /\ input[c].length \in Nat
    BY <1>16, PlainLength DEF cl
  <2>2. <<"content-length", <<input[c].length>> >> \in LinesOf(cl)
    BY <2>1 DEF LinesOf
  <2>3. \E i \in 1..Len(lines) : lines[i] = <<"content-length", <<input[c].length>> >>
    BY <1>12, <2>2 DEF LinesOf
  <2>4. LengthSent(c, lines, input[c].length)
    BY <1>16, <2>3 DEF LengthSent
  <2> QED
    BY <1>2, <1>11, <1>14, <2>1, <2>4 DEF meta
<1> QED
  BY <1>15, <1>16

-----------------------------------------------------------------------------
(* What is signed of the headers, and what the service reads of them. *)

LEMMA LowerCases ==
    /\ \A m \in MetaNames : to_lowercase(m) \in MetaNames /\ m # "content-length"
    /\ \A n : n \notin MetaNames => to_lowercase(n) = n
    /\ "content-length" \notin MetaNames
    /\ \A m, n \in MetaNames : Before(m, n) /\ Before(n, m) => m = n
BY SignedRequestAssumption DEF to_lowercase, Before

\* A header of the library's own is read as it is signed.
Own(c, meta, k, i) ==
    /\ Around(request[c].slist, meta, k)
    /\ i \in 1..Len(request[c].slist) /\ i \notin (k + 1)..(k + Len(meta))
Alone(c, i, name) ==
    request[c].slist[i][1] = name => i \in Wire(c) /\ Lines(c, name) = {i}

LEMMA OwnLine ==
    ASSUME NEW c, NEW meta, NEW k, NEW i, NEW n, Own(c, meta, k, i)
    PROVE  Alone(c, i, n)
<1> SUFFICES ASSUME n = request[c].slist[i][1]
             PROVE  i \in Wire(c) /\ Lines(c, n) = {i}
  BY DEF Alone
<1> DEFINE lines == request[c].slist
<1>1. n \notin MetaNames /\ lines[i][2] # Blank
      /\ \A j \in 1..Len(lines) : lines[j][1] = n => j = i
  BY DEF Around, Own
<1>2. i \in Wire(c) /\ NameOf(c, i) = n
  BY <1>1, LowerCases DEF Wire, NameOf, Own
<1>3. ASSUME NEW j \in Lines(c, n) PROVE j = i
  <2>1. j \in 1..Len(lines) /\ to_lowercase(lines[j][1]) = n
    BY DEF Lines, Wire, NameOf
  <2>2. lines[j][1] = n
    BY <1>1, <2>1, LowerCases
  <2> QED
    BY <1>1, <2>1, <2>2
<1>4. i \in Lines(c, n)
  BY <1>2 DEF Lines
<1> QED
  BY <1>2, <1>3, <1>4

LEMMA OwnHeader ==
    ASSUME NEW lines, NEW meta, NEW k, Around(lines, meta, k), NEW ms, Reflects(ms, lines),
           NEW i \in 1..Len(lines), i \notin (k + 1)..(k + Len(meta)),
           lines[i][1] # "content-length"
    PROVE  lines[i][1] \in DOMAIN Ordered(ms) /\ Ordered(ms)[lines[i][1]] = lines[i][2]
<1> DEFINE n == lines[i][1]
<1>1. n \notin MetaNames /\ \A j \in 1..Len(lines) : lines[j][1] = n => j = i
  BY DEF Around
<1>2. n \in DOMAIN ms
  BY DEF Reflects, NamesIn
<1>3. IsLast(lines, i)
  BY <1>1 DEF IsLast, Around
<1>4. ms[n] = lines[i][2]
  BY <1>3 DEF Reflects
<1>5. to_lowercase(n) = n /\ \A m : to_lowercase(m) = n => m = n
  BY <1>1, LowerCases
<1>6. n \in {to_lowercase(m) : m \in DOMAIN ms}
  BY <1>2, <1>5
<1>7. \A f \in DOMAIN ms : to_lowercase(f) = n => f = n
  BY <1>5
<1>8. FirstSpelling(DOMAIN ms, n) = n
  <2>1. to_lowercase(n) = n /\ \A m \in DOMAIN ms : to_lowercase(m) = n => Before(n, m)
    BY <1>5 DEF Before
  <2> QED
    BY <1>2, <1>7, <2>1 DEF FirstSpelling
<1> QED
  BY <1>4, <1>6, <1>8 DEF Ordered

\* What is signed for a name of the metadata: the last value of its first spelling.
Same(meta, i, j) == to_lowercase(meta[i][1]) = to_lowercase(meta[j][1])
Keeps(meta, i, j) ==
    /\ Same(meta, i, j) /\ IsLast(meta, j)
    /\ \A l \in 1..Len(meta) : Same(meta, i, l) => Before(meta[j][1], meta[l][1])

LEMMA KeepsOne ==
    ASSUME NEW meta \in Seq(MetaPairs), NEW i \in 1..Len(meta),
           NEW j \in 1..Len(meta), Keeps(meta, i, j),
           NEW l \in 1..Len(meta), Keeps(meta, i, l)
    PROVE  j = l
<1>1. meta[j][1] \in MetaNames /\ meta[l][1] \in MetaNames /\ Len(meta) \in Nat
  BY MetaArePairs
<1>2. Before(meta[j][1], meta[l][1]) /\ Before(meta[l][1], meta[j][1])
  BY DEF Keeps
<1>3. meta[j][1] = meta[l][1]
  BY <1>1, <1>2, LowerCases
<1>4. l <= j /\ j <= l
  BY <1>3 DEF Keeps, IsLast
<1> QED
  BY <1>1, <1>4

LEMMA MetaLines ==
    ASSUME NEW c, NEW lines, lines = request[c].slist, NEW meta \in Seq(MetaPairs),
           NEW k \in Nat, Around(lines, meta, k),
           NEW i \in 1..Len(meta), NEW n, n = to_lowercase(meta[i][1])
    PROVE  /\ n \in MetaNames /\ k \in Int
           /\ \A x \in Lines(c, n) : x - k \in 1..Len(meta) /\ Same(meta, i, x - k)
                                     /\ meta[x - k][2] # Blank /\ lines[x] = meta[x - k]
           /\ \A j \in 1..Len(meta) : Same(meta, i, j) /\ meta[j][2] # Blank => k + j \in Lines(c, n)
<1>1. n \in MetaNames
  BY MetaArePairs, LowerCases
<1>2. lines \in Seq(Pairs) /\ Len(lines) \in Nat /\ Len(meta) \in Nat /\ k + Len(meta) <= Len(lines)
  BY MetaArePairs DEF Around
<1>3. ASSUME NEW x \in Lines(c, n)
      PROVE  x - k \in 1..Len(meta) /\ Same(meta, i, x - k)
             /\ meta[x - k][2] # Blank /\ lines[x] = meta[x - k]
  <2>1. x \in 1..Len(lines) /\ lines[x][2] # Blank /\ to_lowercase(lines[x][1]) = n
    BY DEF Lines, Wire, NameOf
  <2>2. x \in (k + 1)..(k + Len(meta))
    BY <1>1, <2>1, LowerCases DEF Around
  <2>3. x - k \in 1..Len(meta) /\ k + (x - k) = x
    BY <1>2, <2>2
  <2>4. lines[x] = meta[x - k]
    BY <2>3 DEF Around
  <2> QED
    BY <2>1, <2>3, <2>4 DEF Same
<1>4. ASSUME NEW j \in 1..Len(meta), Same(meta, i, j), meta[j][2] # Blank
      PROVE  k + j \in Lines(c, n)
  <2>1. k + j \in 1..Len(lines) /\ lines[k + j] = meta[j]
    BY <1>2 DEF Around
  <2> QED
    BY <1>4, <2>1 DEF Lines, Wire, NameOf, Same
<1> QED
  BY <1>1, <1>3, <1>4

LEMMA MetaKept ==
    ASSUME NEW lines, NEW meta \in Seq(MetaPairs), NEW k \in Nat, Around(lines, meta, k),
           NEW ms, Reflects(ms, lines), NEW i \in 1..Len(meta)
    PROVE  \E j \in 1..Len(meta) :
              /\ Keeps(meta, i, j)
              /\ to_lowercase(meta[i][1]) \in DOMAIN Ordered(ms)
              /\ Ordered(ms)[to_lowercase(meta[i][1])] = meta[j][2]
<1> DEFINE n == to_lowercase(meta[i][1])
           names == DOMAIN ms \cap MetaNames
<1>1. lines \in Seq(Pairs) /\ Len(lines) \in Nat /\ Len(meta) \in Nat /\ k + Len(meta) <= Len(lines)
  BY MetaArePairs DEF Around
<1>2. \A j \in 1..Len(meta) : /\ meta[j][1] \in MetaNames
                              /\ k + j \in 1..Len(lines) /\ lines[k + j] = meta[j]
  BY <1>1, MetaArePairs DEF Around
<1>3. \A j \in 1..Len(meta) : meta[j][1] \in names
  <2>1. \A j \in 1..Len(meta) : meta[j][1] \in NamesIn(lines)
    BY <1>2 DEF NamesIn
  <2> QED
    BY <1>2, <2>1, LowerCases DEF Reflects
<1>4. \A m \in DOMAIN ms : to_lowercase(m) = n => m \in names
  BY <1>2, LowerCases
<1>5. PICK f \in names : to_lowercase(f) = n /\ \A m \in names : to_lowercase(m) = n => Before(f, m)
  BY ZenonT(30), <1>3, FirstExists
<1> DEFINE g == FirstSpelling(DOMAIN ms, n)
<1>6. g \in names /\ to_lowercase(g) = n /\ \A m \in names : to_lowercase(m) = n => Before(g, m)
  <2>1. f \in DOMAIN ms /\ to_lowercase(f) = n
        /\ \A m \in DOMAIN ms : to_lowercase(m) = n => Before(f, m)
    BY <1>4, <1>5
  <2>2. g \in DOMAIN ms /\ to_lowercase(g) = n
        /\ \A m \in DOMAIN ms : to_lowercase(m) = n => Before(g, m)
    BY <2>1 DEF FirstSpelling
  <2> QED
    BY <1>4, <2>2
<1>7. n \in DOMAIN Ordered(ms) /\ Ordered(ms)[n] = ms[g]
  <2>1. n \in {to_lowercase(m) : m \in DOMAIN ms}
    BY <1>6
  <2> QED
    BY <2>1 DEF Ordered
<1> HIDE DEF g
<1>8. PICK y \in 1..Len(lines) : lines[y][1] = g
  BY <1>6 DEF Reflects, NamesIn
<1>9. PICK x \in 1..Len(lines) : lines[x][1] = g /\ IsLast(lines, x)
  BY <1>1, <1>8, LastExists
<1>10. x \in (k + 1)..(k + Len(meta))
  BY <1>6, <1>9 DEF Around
<1> DEFINE j == x - k
<1>11. j \in 1..Len(meta) /\ k + j = x /\ meta[j] = lines[x]
  BY <1>1, <1>2, <1>10
<1>12. ms[g] = meta[j][2]
  BY <1>6, <1>9, <1>11, LowerCases DEF Reflects
<1> HIDE DEF j
<1>13. IsLast(meta, j)
  <2>1. ASSUME NEW l \in 1..Len(meta), meta[l][1] = meta[j][1] PROVE l <= j
    <3>1. k + l <= x
      BY <1>2, <1>9, <1>11, <2>1 DEF IsLast
    <3> QED
      BY <1>1, <1>11, <3>1
  <2> QED
    BY <2>1 DEF IsLast
<1>14. Keeps(meta, i, j)
  BY <1>3, <1>6, <1>9, <1>11, <1>13 DEF Keeps, Same
<1> QED
  BY <1>7, <1>11, <1>12, <1>14

\* The service reads the headers as they were signed when, and only when, the
\* metadata is unambiguous.
ReadAsSigned(c, ms) ==
    /\ DOMAIN Ordered(ms) = {NameOf(c, i) : i \in Wire(c)} \ {"content-length"}
    /\ \A n \in DOMAIN Ordered(ms) :
           \E i \in Wire(c) : Lines(c, n) = {i} /\ request[c].slist[i][2] = Ordered(ms)[n]

LEMMA UnambiguousIsRead ==
    ASSUME NEW c, NEW lines, lines = request[c].slist, NEW meta \in Seq(MetaPairs),
           NEW k \in Nat, Around(lines, meta, k), NEW ms, Reflects(ms, lines),
           Unambiguous(meta)
    PROVE  ReadAsSigned(c, ms)
<1>1. ASSUME NEW i \in 1..Len(meta), NEW n, n = to_lowercase(meta[i][1])
      PROVE  /\ n \in DOMAIN Ordered(ms)
             /\ \E x \in Wire(c) : Lines(c, n) = {x} /\ lines[x][2] = Ordered(ms)[n]
  <2>1. PICK j \in 1..Len(meta) :
           /\ Same(meta, i, j) /\ meta[j][2] # Blank /\ IsLast(meta, j)
           /\ \A l \in 1..Len(meta) : Same(meta, i, l) /\ l # j =>
                  meta[l][2] = Blank /\ Before(meta[j][1], meta[l][1])
    BY DEF Unambiguous, Same
  <2>2. Keeps(meta, i, j)
    BY <2>1 DEF Keeps, Before
  <2>3. n \in DOMAIN Ordered(ms) /\ Ordered(ms)[n] = meta[j][2]
    BY <1>1, <2>2, MetaKept, KeepsOne
  <2>4. k + j \in Lines(c, n)
    BY <1>1, <2>1, MetaLines
  <2>5. ASSUME NEW x \in Lines(c, n) PROVE x = k + j /\ lines[x] = meta[j]
    <3>1. /\ x - k \in 1..Len(meta) /\ Same(meta, i, x - k) /\ meta[x - k][2] # Blank
          /\ lines[x] = meta[x - k]
      BY <1>1, MetaLines
    <3>2. x - k = j
      BY <2>1, <3>1
    <3>3. x \in Int
      BY DEF Lines, Wire
    <3> QED
      BY <3>1, <3>2, <3>3
  <2>6. k + j \in Wire(c) /\ Lines(c, n) = {k + j} /\ lines[k + j][2] = meta[j][2]
    BY <2>4, <2>5 DEF Lines
  <2> QED
    BY <2>3, <2>6
<1>2. \A i \in 1..Len(lines) :
         \/ i \notin (k + 1)..(k + Len(meta))
         \/ i - k \in 1..Len(meta) /\ lines[i] = meta[i - k]
  <2>1. Len(meta) \in Nat
    BY MetaArePairs
  <2>2. \A i \in (k + 1)..(k + Len(meta)) : i - k \in 1..Len(meta) /\ k + (i - k) = i
    BY <2>1
  <2> QED
    BY <2>2 DEF Around
<1>3. ASSUME NEW i \in 1..Len(lines), NEW n, n = to_lowercase(lines[i][1]), n # "content-length"
      PROVE  /\ n \in DOMAIN Ordered(ms)
             /\ \E x \in Wire(c) : Lines(c, n) = {x} /\ lines[x][2] = Ordered(ms)[n]
  <2>1. CASE i \notin (k + 1)..(k + Len(meta))
    <3>1. n = lines[i][1]
      BY <1>3, <2>1, LowerCases DEF Around
    <3>2. i \in Wire(c) /\ Lines(c, n) = {i}
      <4>1. Own(c, meta, k, i)
        BY <2>1 DEF Own
      <4>2. Alone(c, i, n)
        BY <4>1, OwnLine
      <4> QED
        BY <3>1, <4>2 DEF Alone
    <3>3. n \in DOMAIN Ordered(ms) /\ Ordered(ms)[n] = lines[i][2]
      BY <1>3, <2>1, <3>1, OwnHeader
    <3> QED
      BY <3>2, <3>3
  <2>2. CASE i - k \in 1..Len(meta) /\ lines[i] = meta[i - k]
    BY <1>1, <1>3, <2>2
  <2> QED
    BY <1>2, <2>1, <2>2
<1>4. ASSUME NEW n \in DOMAIN Ordered(ms)
      PROVE  n # "content-length" /\ \E i \in 1..Len(lines) : n = to_lowercase(lines[i][1])
  <2>1. PICK m \in DOMAIN ms : n = to_lowercase(m)
    BY DEF Ordered
  <2>2. m # "content-length" /\ \E i \in 1..Len(lines) : m = lines[i][1]
    BY DEF Reflects, NamesIn
  <2>3. n # "content-length"
    BY <2>1, <2>2, LowerCases
  <2> QED
    BY <2>1, <2>2, <2>3
<1>5. \A n \in DOMAIN Ordered(ms) :
         \E x \in Wire(c) : Lines(c, n) = {x} /\ lines[x][2] = Ordered(ms)[n]
  <2>1. SUFFICES ASSUME NEW n \in DOMAIN Ordered(ms)
                 PROVE  \E x \in Wire(c) : Lines(c, n) = {x} /\ lines[x][2] = Ordered(ms)[n]
    OBVIOUS
  <2>2. PICK i \in 1..Len(lines) : n = to_lowercase(lines[i][1])
    BY <1>4
  <2> QED
    BY <1>3, <1>4, <2>2
<1>6. \A n \in DOMAIN Ordered(ms) : n \in {NameOf(c, i) : i \in Wire(c)} \ {"content-length"}
  <2>1. SUFFICES ASSUME NEW n \in DOMAIN Ordered(ms)
                 PROVE  n \in {NameOf(c, i) : i \in Wire(c)} \ {"content-length"}
    OBVIOUS
  <2>2. PICK x \in Wire(c) : Lines(c, n) = {x}
    BY <1>5
  <2> QED
    BY <1>4, <2>2 DEF Lines
<1>7. \A i \in Wire(c) : NameOf(c, i) # "content-length" => NameOf(c, i) \in DOMAIN Ordered(ms)
  BY <1>3 DEF Wire, NameOf
<1>8. DOMAIN Ordered(ms) = {NameOf(c, i) : i \in Wire(c)} \ {"content-length"}
  BY <1>6, <1>7
<1> QED
  BY <1>5, <1>8 DEF ReadAsSigned

LEMMA ReadIsUnambiguous ==
    ASSUME NEW c, NEW lines, lines = request[c].slist, NEW meta \in Seq(MetaPairs),
           NEW k \in Nat, Around(lines, meta, k), NEW ms, Reflects(ms, lines),
           ReadAsSigned(c, ms)
    PROVE  Unambiguous(meta)
<1>1. SUFFICES ASSUME NEW i \in 1..Len(meta)
               PROVE  \E j \in 1..Len(meta) :
                         /\ Same(meta, i, j) /\ meta[j][2] # Blank /\ IsLast(meta, j)
                         /\ \A l \in 1..Len(meta) : Same(meta, i, l) /\ l # j =>
                                meta[l][2] = Blank /\ Before(meta[j][1], meta[l][1])
  BY DEF Unambiguous, Same
<1> DEFINE n == to_lowercase(meta[i][1])
<1>2. PICK j \in 1..Len(meta) :
         Keeps(meta, i, j) /\ n \in DOMAIN Ordered(ms) /\ Ordered(ms)[n] = meta[j][2]
  BY MetaKept
<1>3. PICK x \in Wire(c) : Lines(c, n) = {x} /\ lines[x][2] = meta[j][2]
  BY <1>2 DEF ReadAsSigned
<1>4. meta[j][2] # Blank
  BY <1>3 DEF Wire
<1>5. \A l \in 1..Len(meta) : Same(meta, i, l) /\ meta[l][2] # Blank => k + l \in Lines(c, n)
  BY MetaLines
<1>6. k + j = x
  BY <1>2, <1>3, <1>4, <1>5 DEF Keeps
<1>7. ASSUME NEW l \in 1..Len(meta), Same(meta, i, l), l # j PROVE meta[l][2] = Blank
  <2>1. k + l # k + j
    BY <1>7
  <2> QED
    BY <1>3, <1>5, <1>6, <1>7, <2>1
<1> QED
  BY <1>2, <1>4, <1>7 DEF Keeps

\* The length is signed as it is read, and a query unless it is read differently.
LengthRead(c, signed) ==
    LET lengths == {request[c].slist[i][2] : i \in Lines(c, "content-length")}
    IN  IF signed = Blank THEN lengths \subseteq {<<0>>}
        ELSE lengths = {signed} /\ signed # <<0>>

LEMMA LengthIsRead ==
    ASSUME NEW c, NEW lines, lines = request[c].slist, NEW meta \in Seq(MetaPairs),
           NEW k \in Nat, Around(lines, meta, k), NEW n \in Nat,
           LengthSent(c, lines, n)
    PROVE  LengthRead(c, SignedLength(n))
<1> DEFINE lengths == {lines[i][2] : i \in Lines(c, "content-length")}
<1>1. CASE B(c).length = "none"
  <2>1. \A i \in Lines(c, "content-length") : FALSE
    BY <1>1, LowerCases DEF LengthSent, Lines, Wire, NameOf, NamesIn
  <2> QED
    BY <1>1, <2>1 DEF LengthSent, LengthRead, SignedLength
<1>2. CASE B(c).length # "none"
  <2>1. PICK i \in 1..Len(lines) : lines[i] = <<"content-length", <<n>> >>
    BY <1>2 DEF LengthSent
  <2>2. lines[i][1] = "content-length" /\ lines[i][2] = <<n>>
    BY <2>1
  <2>3. i \notin (k + 1)..(k + Len(meta))
    <3>1. SUFFICES ASSUME i \in (k + 1)..(k + Len(meta)) PROVE FALSE
      OBVIOUS
    <3>2. i - k \in 1..Len(meta) /\ k + (i - k) = i
      BY <3>1, MetaArePairs
    <3>3. lines[i] = meta[i - k]
      BY <3>2 DEF Around
    <3> QED
      BY <2>2, <3>2, <3>3, MetaArePairs, LowerCases
  <2>4. Lines(c, "content-length") = {i}
    <3>1. Own(c, meta, k, i)
      BY <2>3 DEF Own
    <3>2. Alone(c, i, "content-length")
      BY <3>1, OwnLine
    <3> QED
      BY <2>2, <3>2 DEF Alone
  <2>5. lengths = {<<n>>}
    BY <2>2, <2>4
  <2>6. n > 0 => <<n>> # <<0>> /\ <<n>> # <<>>
    OBVIOUS
  <2> QED
    BY <2>5, <2>6 DEF LengthRead, SignedLength, Blank
<1> QED
  BY <1>1, <1>2

LEMMA QueryIsRead ==
    ASSUME NEW c \in Clients, NEW op \in DOMAIN Builders, input[c] \in Inputs(op)
    PROVE  Query(c) = [q \in DOMAIN Query(c) |-> Received(Query(c)[q])]
              <=> input[c].prefix # "%41"
<1> DEFINE p == input[c].prefix
           names == B(c).query \ (IF p = "none" THEN {"prefix"} ELSE {})
<1>1. /\ B(c) = Builders[op] /\ "%41" \notin B(c).query
      /\ p \in QueryValues /\ ("prefix" \notin B(c).query => p = "none")
  <2>1. input[c].op = op /\ p \in (IF "prefix" \in Builders[op].query THEN QueryValues ELSE {"none"})
    BY DEF Inputs
  <2> QED
    BY <2>1, BuilderShape DEF B, ShapeOf, QueryValues
<1>2. DOMAIN Query(c) = names
      /\ \A q \in names : Query(c)[q] = IF q = "prefix" THEN p ELSE q
  BY DEF Query
<1>3. CASE p = "%41"
  <2>1. "prefix" \in names
    BY <1>1, <1>3
  <2>2. Query(c)["prefix"] = "%41"
    BY <1>2, <1>3, <2>1
  <2>3. Received("%41") # "%41"
    BY DEF Received
  <2> QED
    BY <1>2, <1>3, <2>1, <2>2, <2>3
<1>4. CASE p # "%41"
  <2>1. \A q \in names : Query(c)[q] # "%41"
    BY <1>1, <1>2, <1>4
  <2>2. \A q \in names : Received(Query(c)[q]) = Query(c)[q]
    BY <2>1 DEF Received
  <2>3. Query(c) = [q \in names |-> Query(c)[q]]
    BY DEF Query
  <2> QED
    BY <1>2, <1>4, <2>2, <2>3
<1> QED
  BY <1>3, <1>4

\* A request as it is when it is sent.
Complete(c) ==
    /\ request[c].slist = (ContentLength(c) \o FirstHeaders(c)) \o LateHeaders(c)
    /\ Reflects(headers[c].ms_headers, request[c].slist)
    /\ headers[c].content_length = SignedLength(input[c].length)
    /\ request[c].query = Query(c)

LEMMA SignedIsAccepted ==
    ASSUME NEW c \in Clients, NEW op \in DOMAIN Builders, input[c] \in Inputs(op),
           date[c] \in Nat \X Nat, Complete(c)
    PROVE  Accepts(c, StringToSign(c)) <=> WellFormed(c)
<1> SUFFICES ASSUME NEW lines, lines = request[c].slist, NEW ms, ms = headers[c].ms_headers,
                    NEW meta, meta = input[c].meta, NEW n, n = input[c].length
             PROVE  Accepts(c, StringToSign(c)) <=> WellFormed(c)
  OBVIOUS
<1>1. /\ meta \in Seq(MetaPairs) /\ \E k \in Nat : Around(lines, meta, k)
      /\ LengthSent(c, lines, n) /\ n \in Nat
  BY Anatomy DEF Complete
<1>2. PICK k \in Nat : Around(lines, meta, k)
  BY <1>1
<1>3. Reflects(ms, lines) /\ (WellFormed(c) <=> input[c].prefix # "%41" /\ Unambiguous(meta))
  BY DEF Complete, WellFormed
<1> DEFINE s == StringToSign(c)
<1>4. /\ s.verb = B(c).verb /\ s.content_length = SignedLength(n)
      /\ s.ms_headers = Ordered(ms) /\ s.query = Query(c)
  BY DEF StringToSign, Complete
<1> HIDE DEF s
<1>5. LengthRead(c, s.content_length)
  BY <1>1, <1>2, <1>4, LengthIsRead
<1>6. (s.query = [q \in DOMAIN request[c].query |-> Received(request[c].query[q])])
      <=> input[c].prefix # "%41"
  BY <1>4, QueryIsRead DEF Complete
<1>7. ReadAsSigned(c, ms) <=> Unambiguous(meta)
  BY <1>1, <1>2, <1>3, UnambiguousIsRead, ReadIsUnambiguous
<1>8. ReadAsSigned(c, ms) <=>
         /\ DOMAIN s.ms_headers = {NameOf(c, i) : i \in Wire(c)} \ {"content-length"}
         /\ \A h \in DOMAIN s.ms_headers :
               \E i \in Wire(c) : Lines(c, h) = {i} /\ request[c].slist[i][2] = s.ms_headers[h]
  BY <1>4 DEF ReadAsSigned
<1>9. Accepts(c, s) <=> input[c].prefix # "%41" /\ Unambiguous(meta)
  <2>1. Accepts(c, s) <=> ReadAsSigned(c, ms)
           /\ s.query = [q \in DOMAIN request[c].query |-> Received(request[c].query[q])]
    BY <1>4, <1>5, <1>8 DEF Accepts, LengthRead
  <2> QED
    BY <1>6, <1>7, <2>1
<1> QED
  BY <1>3, <1>9 DEF s

\* The date a request carries is the one that was formatted for it.
LEMMA DateIsCarried ==
    ASSUME NEW c \in Clients, NEW op \in DOMAIN Builders, input[c] \in Inputs(op),
           date[c] \in Nat \X Nat, Complete(c)
    PROVE  \E i \in Wire(c) : Lines(c, "x-ms-date") = {i} /\ request[c].slist[i][2] = date[c]
<1> SUFFICES ASSUME NEW lines, lines = request[c].slist, NEW meta, meta = input[c].meta
             PROVE  \E i \in Wire(c) : Lines(c, "x-ms-date") = {i} /\ lines[i][2] = date[c]
  OBVIOUS
<1>1. /\ meta \in Seq(MetaPairs) /\ \E k \in Nat : Around(lines, meta, k)
      /\ \E i \in 1..Len(lines) : lines[i] = <<"x-ms-date", date[c]>>
  BY Anatomy DEF Complete
<1>2. PICK k \in Nat : Around(lines, meta, k)
  BY <1>1
<1>3. PICK i \in 1..Len(lines) : lines[i] = <<"x-ms-date", date[c]>>
  BY <1>1
<1>4. lines[i][1] = "x-ms-date" /\ lines[i][2] = date[c]
  BY <1>3
<1>5. i \notin (k + 1)..(k + Len(meta))
  <2>1. SUFFICES ASSUME i \in (k + 1)..(k + Len(meta)) PROVE FALSE
    OBVIOUS
  <2>2. i - k \in 1..Len(meta) /\ k + (i - k) = i
    BY <1>1, <2>1, MetaArePairs
  <2>3. lines[i] = meta[i - k]
    BY <1>2, <2>2 DEF Around
  <2> QED
    BY <1>1, <1>4, <2>2, <2>3, MetaArePairs, SignedRequestAssumption DEF DateNames
<1>6. Own(c, meta, k, i)
  BY <1>2, <1>5 DEF Own
<1>7. Alone(c, i, "x-ms-date")
  BY <1>6, OwnLine
<1> QED
  BY <1>4, <1>7 DEF Alone

-----------------------------------------------------------------------------
(* Collecting, as the builders do. *)

LEMMA MetaParts ==
    ASSUME NEW c \in Clients, NEW op \in DOMAIN Builders, input[c] \in Inputs(op), NEW place
    PROVE  Meta(c, place) \in Seq(Pairs) /\ NamesIn(Meta(c, place)) \subseteq MetaNames
<1>1. input[c].meta = <<>> \/ input[c].meta \in Metadata
  BY DEF Inputs
<1>2. Metadata \subseteq Seq(MetaPairs) /\ <<>> \in Seq(MetaPairs)
  BY SignedRequestAssumption DEF MetaPairs
<1>3. Meta(c, place) \in Seq(MetaPairs)
  BY <1>1, <1>2 DEF Meta
<1> QED
  BY <1>3, MetaArePairs

LEMMA FirstReflected ==
    ASSUME NEW c \in Clients, NEW op \in DOMAIN Builders, input[c] \in Inputs(op)
    PROVE  /\ ContentLength(c) \o FirstHeaders(c) \in Seq(Pairs)
           /\ Reflects(Collect(<<>>, FirstHeaders(c)), ContentLength(c) \o FirstHeaders(c))
<1> DEFINE cl == ContentLength(c)
           ms == Constants(input[c].ms)
           mb == Meta(c, "before")
<1>1. cl \in Seq(Pairs) /\ NamesIn(cl) \subseteq {"content-length"}
  BY PlainLength DEF Plain
<1>2. ms \in Seq(Pairs) /\ NamesIn(ms) \subseteq OtherNames
  <2>1. input[c].ms \in Builders[op].ms
    BY DEF Inputs
  <2> QED
    BY <2>1, BuilderShape, PlainConstants DEF ShapeOf, Plain
<1>3. mb \in Seq(Pairs) /\ NamesIn(mb) \subseteq MetaNames
  BY MetaParts
<1>4. FirstHeaders(c) = ms \o mb
  BY DEF FirstHeaders
<1> HIDE DEF cl, ms, mb
<1>5. ms \o mb \in Seq(Pairs) /\ NamesIn(ms \o mb) = NamesIn(ms) \cup NamesIn(mb)
  BY <1>2, <1>3, NamesConcat, Regroup
<1>6. "content-length" \notin OtherNames \cup MetaNames
  BY SignedRequestAssumption DEF OtherNames
<1>7. Reflects(<<>>, cl)
  <2>1. \A i \in 1..Len(cl) : cl[i][1] = "content-length"
    BY <1>1 DEF NamesIn
  <2>2. DOMAIN <<>> = {}
    OBVIOUS
  <2> QED
    BY <1>1, <2>1, <2>2 DEF Reflects
<1>8. FirstHeaders(c) \in Seq(Pairs) /\ "content-length" \notin NamesIn(FirstHeaders(c))
  BY <1>2, <1>3, <1>4, <1>5, <1>6
<1>9. cl \o FirstHeaders(c) \in Seq(Pairs)
  BY <1>1, <1>8, Regroup
<1>10. Reflects(Collect(<<>>, FirstHeaders(c)), cl \o FirstHeaders(c))
  BY <1>1, <1>7, <1>8, CollectReflects
<1> QED
  BY <1>9, <1>10 DEF cl

LEMMA LateReflected ==
    ASSUME NEW c \in Clients, NEW op \in DOMAIN Builders, input[c] \in Inputs(op),
           date[c] \in Nat \X Nat, NEW s \in Seq(Pairs), NEW ms, Reflects(ms, s)
    PROVE  Reflects(Collect(ms, LateHeaders(c)), s \o LateHeaders(c))
<1> DEFINE dv == DatePairs(date[c])
           late == Constants(B(c).late)
           ma == Meta(c, "after")
<1>1. dv \in Seq(Pairs) /\ NamesIn(dv) = DateNames
  BY PlainDate DEF Plain
<1>2. late \in Seq(Pairs) /\ NamesIn(late) \subseteq OtherNames
  <2>1. B(c) = Builders[op]
    BY DEF Inputs, B
  <2> QED
    BY <2>1, BuilderShape, PlainConstants DEF ShapeOf, Plain
<1>3. ma \in Seq(Pairs) /\ NamesIn(ma) \subseteq MetaNames
  BY MetaParts
<1>4. LateHeaders(c) = (dv \o late) \o ma
  BY DEF LateHeaders, DatePairs
<1> HIDE DEF dv, late, ma
<1>5. dv \o late \in Seq(Pairs) /\ NamesIn(dv \o late) = DateNames \cup NamesIn(late)
  BY <1>1, <1>2, NamesConcat, Regroup
<1>6. (dv \o late) \o ma \in Seq(Pairs)
      /\ NamesIn((dv \o late) \o ma) = NamesIn(dv \o late) \cup NamesIn(ma)
  BY <1>3, <1>5, NamesConcat, Regroup
<1>7. "content-length" \notin DateNames \cup OtherNames \cup MetaNames
  BY SignedRequestAssumption DEF OtherNames, DateNames
<1>8. LateHeaders(c) \in Seq(Pairs) /\ "content-length" \notin NamesIn(LateHeaders(c))
  BY <1>2, <1>3, <1>4, <1>5, <1>6, <1>7
<1> QED
  BY <1>8, CollectReflects

-----------------------------------------------------------------------------
(* The inductive invariant. *)

\* The records and functions the variables are.
FieldsInv ==
    /\ request = [c \in Clients |-> request[c]]
    /\ headers = [c \in Clients |-> headers[c]]
    /\ \A c \in Clients : /\ DOMAIN request[c] = {"sas", "query", "slist", "authorization"}
                          /\ DOMAIN headers[c] = {"content_length", "ms_headers"}
    /\ credential \in {"shared_key", "sas", "token", "anonymous"}
    /\ raced \in [Clients -> BOOLEAN]
    /\ started \in [Clients -> 0..MaxTime]
    /\ current \in [Clients -> SUBSET (1..MaxTokens)]

\* A thread that runs has an operation and its arguments, and attempts left.
InputInv(c) ==
    /\ pc[c] # "idle" => \E op \in DOMAIN Builders : input[c] \in Inputs(op)
    /\ pc[c] = "build" => attempts[c] < MaxAttempts

\* The lines of the http object are those of this attempt, and storage_headers
\* reflects them.
LinesInv(c) ==
    /\ pc[c] \in Building => request[c].slist = ContentLength(c) \o FirstHeaders(c)
    /\ pc[c] \in {"sign", "sent"} =>
           request[c].slist = (ContentLength(c) \o FirstHeaders(c)) \o LateHeaders(c)
    /\ pc[c] \in Built =>
           /\ Reflects(headers[c].ms_headers, request[c].slist)
           /\ headers[c].content_length = SignedLength(input[c].length)
           /\ request[c].query = Query(c)

\* There are no credentials before the request is signed, and then this attempt's.
AuthorizationInv(c) ==
    /\ pc[c] \in Building \cup {"sign"} => request[c].sas = 0 /\ request[c].authorization = <<>>
    /\ pc[c] = "sent" =>
         /\ request[c].sas = IF credential = "sas" THEN 1 ELSE 0
         /\ credential \in {"sas", "anonymous"} => request[c].authorization = <<>>
         /\ credential = "shared_key" =>
               request[c].authorization = << [by |-> "key", signs |-> StringToSign(c)] >>
         /\ credential = "token" =>
               \E t \in current[c] : request[c].authorization = << [by |-> "token", token |-> t] >>
    /\ pc[c] \in Built => m_token \in current[c]

\* Unless another thread uses gmtime meanwhile, the date goes from the clock
\* through the buffer to the header as one moment of the attempt.
DateInv(c) ==
    LET Moment == started[c]..now
    IN  /\ started[c] <= now
        /\ pc[c] = "gmtime" => \E t \in Moment : date[c] = <<t, t>>
        /\ pc[c] = "day" =>
               \E t \in Moment : date[c] = <<t, t>> /\ (~raced[c] => tm = <<t, t>>)
        /\ pc[c] = "time" =>
               \E t \in Moment :
                  date[c][2] = t /\ (~raced[c] => tm = <<t, t>> /\ date[c][1] = t)
        /\ pc[c] \in {"late", "sign", "sent"} /\ ~raced[c] =>
               \E t \in Moment : date[c] = <<t, t>>

ThreadInv(c) == InputInv(c) /\ LinesInv(c) /\ AuthorizationInv(c) /\ DateInv(c)
Inv == TypeOK /\ FieldsInv /\ \A c \in Clients : ThreadInv(c)

\* What one thread does leaves the others' requests as they are.
Untouched(d) ==
    /\ credential' = credential /\ input' = input
    /\ pc'[d] = pc[d] /\ attempts'[d] = attempts[d]
    /\ request'[d] = request[d] /\ headers'[d] = headers[d] /\ date'[d] = date[d]
    /\ started'[d] = started[d]
    /\ now' \in Nat /\ now <= now'
    /\ raced[d] => raced'[d]
    /\ pc[d] \in {"day", "time"} => tm' = tm \/ raced'[d]
    /\ current[d] \subseteq current'[d]
    /\ pc[d] \in Built => m_token' \in current'[d]

LEMMA UntouchedThread ==
    ASSUME Inv, NEW d \in Clients, Untouched(d)
    PROVE  ThreadInv(d)'
<1>1. ThreadInv(d) /\ now \in Nat /\ started[d] \in Nat
  BY DEF Inv, TypeOK, FieldsInv
<1>2. B(d)' = B(d)
  BY DEF Untouched, B
<1>3. /\ ContentLength(d)' = ContentLength(d) /\ FirstHeaders(d)' = FirstHeaders(d)
      /\ LateHeaders(d)' = LateHeaders(d) /\ Query(d)' = Query(d)
  BY <1>2 DEF Untouched, ContentLength, FirstHeaders, LateHeaders, Query, Meta
<1>4. StringToSign(d)' = StringToSign(d)
  BY <1>2 DEF Untouched, StringToSign
<1>5. InputInv(d)'
  BY <1>1 DEF ThreadInv, InputInv, Untouched
<1>6. LinesInv(d)'
  BY <1>1, <1>3 DEF ThreadInv, LinesInv, Untouched
<1>7. AuthorizationInv(d)'
  BY <1>1, <1>4 DEF ThreadInv, AuthorizationInv, Untouched
<1>8. DateInv(d)'
  <2>1. \A t \in started[d]..now : t \in started'[d]..now'
    BY <1>1 DEF Untouched
  <2>2. started'[d] <= now'
    BY <1>1 DEF Untouched, ThreadInv, DateInv
  <2> QED
    BY <1>1, <2>1, <2>2 DEF ThreadInv, DateInv, Untouched
<1> QED
  BY <1>5, <1>6, <1>7, <1>8 DEF ThreadInv

LEMMA Initially == Init => Inv
<1> SUFFICES ASSUME Init PROVE Inv
  OBVIOUS
<1>1. \A c \in Clients : pc[c] \in {"idle", "build"}
                         /\ (pc[c] # "idle" => \E op \in DOMAIN Builders : input[c] \in Inputs(op))
  <2> SUFFICES ASSUME NEW c \in Clients
               PROVE  pc[c] \in {"idle", "build"}
                      /\ (pc[c] # "idle" => \E op \in DOMAIN Builders : input[c] \in Inputs(op))
    OBVIOUS
  <2>1. pc[c] = IF input[c] = Idle THEN "idle" ELSE "build"
    BY DEF Init
  <2>2. CASE \E d \in Clients, op \in DOMAIN Builders : \E i \in Inputs(op) :
              input = [e \in Clients |-> IF e = d THEN i ELSE Idle]
    BY <2>1, <2>2
  <2>3. CASE \E i \in Inputs("put_block") : input = [d \in Clients |-> i]
    <3>1. "put_block" \in DOMAIN Builders
      BY DEF Builders
    <3> QED
      BY <2>1, <2>3, <3>1
  <2> QED
    BY <2>2, <2>3 DEF Init
<1>2. pc = [c \in Clients |-> pc[c]]
  BY DEF Init
<1>3. TypeOK
  BY <1>1, <1>2, SignedRequestAssumption DEF Init, TypeOK, NoRequest
<1>4. FieldsInv
  BY SignedRequestAssumption DEF Init, FieldsInv, NoRequest, NoHeaders
<1>5. ASSUME NEW c \in Clients PROVE ThreadInv(c)
  <2>1. InputInv(c)
    BY <1>1, SignedRequestAssumption DEF InputInv, Init
  <2>2. pc[c] \notin Built /\ pc[c] \notin {"day", "time", "gmtime", "late", "sent", "sign"}
    BY <1>1 DEF Built, Building
  <2>3. LinesInv(c) /\ AuthorizationInv(c)
    BY <2>2 DEF LinesInv, AuthorizationInv, Built
  <2>4. DateInv(c)
    BY <2>2 DEF DateInv, Init
  <2> QED
    BY <2>1, <2>3, <2>4 DEF ThreadInv
<1> QED
  BY <1>3, <1>4, <1>5 DEF Inv

\* The invariant, of the state before a step of a thread that runs.
LEMMA Facts ==
    ASSUME Inv, NEW c \in Clients
    PROVE  /\ now \in 1..MaxTime /\ started[c] \in 0..MaxTime /\ started[c] <= now
           /\ date[c] \in (0..MaxTime) \X (0..MaxTime) /\ date[c] \in Nat \X Nat
           /\ m_token \in 1..MaxTokens /\ attempts[c] \in 0..MaxAttempts
           /\ MaxTime \in Nat /\ MaxTokens \in Nat /\ MaxAttempts \in Nat
           /\ request[c].sas \in {0, 1} /\ Len(request[c].authorization) <= 1
           /\ DOMAIN request = Clients /\ DOMAIN headers = Clients
           /\ DOMAIN request[c] = {"sas", "query", "slist", "authorization"}
           /\ DOMAIN headers[c] = {"content_length", "ms_headers"}
           /\ InputInv(c) /\ LinesInv(c) /\ AuthorizationInv(c) /\ DateInv(c)
<1>1. date[c] \in (0..MaxTime) \X (0..MaxTime) /\ MaxTime \in Nat
  BY SignedRequestAssumption DEF Inv, TypeOK
<1>2. date[c] \in Nat \X Nat
  BY <1>1
<1>3. DOMAIN request = Clients /\ DOMAIN headers = Clients
  BY DEF Inv, FieldsInv
<1> QED
  BY <1>1, <1>2, <1>3, SignedRequestAssumption DEF Inv, TypeOK, FieldsInv, ThreadInv, DateInv

LEMMA SameBuilder ==
    ASSUME NEW c, input' = input
    PROVE  /\ ContentLength(c)' = ContentLength(c) /\ FirstHeaders(c)' = FirstHeaders(c)
           /\ Query(c)' = Query(c) /\ B(c)' = B(c)
           /\ date'[c] = date[c] => LateHeaders(c)' = LateHeaders(c)
BY DEF B, ContentLength, FirstHeaders, Query, Meta, LateHeaders

LEMMA BuildRequestStep ==
    ASSUME Inv, NEW c \in Clients, BuildRequest(c)
    PROVE  Inv'
<1> USE DEF BuildRequest, Moves
<1>1. PICK op \in DOMAIN Builders : input[c] \in Inputs(op)
  BY Facts DEF InputInv
<1> DEFINE lines == ContentLength(c) \o FirstHeaders(c)
           h == Reset(request[c])
           r == [h EXCEPT !.sas = 0, !.query = Query(c),
                          !.slist = @ \o ContentLength(c) \o FirstHeaders(c)]
<1>2. lines \in Seq(Pairs) /\ Reflects(Collect(<<>>, FirstHeaders(c)), lines)
      /\ <<>> \o ContentLength(c) = ContentLength(c)
  BY <1>1, FirstReflected, PlainLength, ConcatEmptySeq DEF Plain
<1>3. request' = [request EXCEPT ![c] = r]
  OBVIOUS
<1>4. h.slist = <<>> /\ h.authorization = <<>> /\ DOMAIN h = DOMAIN request[c]
  BY Facts DEF Reset
<1> HIDE DEF h
<1>5. /\ r.sas = 0 /\ r.authorization = <<>> /\ r.query = Query(c)
      /\ r.slist = <<>> \o ContentLength(c) \o FirstHeaders(c) /\ DOMAIN r = DOMAIN request[c]
  BY <1>4, Facts
<1>6. r.slist = lines
  BY <1>2, <1>5
<1> HIDE DEF r, lines
<1>7. /\ request'[c] = r /\ \A d \in Clients \ {c} : request'[d] = request[d]
      /\ request' = [d \in Clients |-> request'[d]]
  BY <1>3, Facts DEF Inv, FieldsInv
<1>8. /\ headers'[c] = [content_length |-> SignedLength(input[c].length),
                        ms_headers |-> Collect(<<>>, FirstHeaders(c))]
      /\ \A d \in Clients \ {c} : headers'[d] = headers[d]
      /\ headers' = [d \in Clients |-> headers'[d]]
  BY Facts DEF Inv, FieldsInv
<1>9. /\ pc'[c] = "clock" /\ attempts'[c] = attempts[c] + 1 /\ started'[c] = now
      /\ raced'[c] = FALSE /\ current'[c] = {m_token} /\ pc[c] = "build"
      /\ \A d \in Clients \ {c} : /\ pc'[d] = pc[d] /\ attempts'[d] = attempts[d]
                                  /\ started'[d] = started[d] /\ raced'[d] = raced[d]
                                  /\ current'[d] = current[d]
  BY DEF Inv, TypeOK, FieldsInv
<1>10. TypeOK'
  <2>1. attempts[c] + 1 \in 0..MaxAttempts
    BY <1>9, Facts DEF InputInv
  <2>2. request'[c].sas \in {0, 1} /\ Len(request'[c].authorization) <= 1
    <3> HIDE DEF BuildRequest
    <3>1. request'[c].authorization = <<>> /\ request'[c].sas = 0
      BY <1>5, <1>7
    <3>2. Len(<<>>) = 0
      OBVIOUS
    <3>3. Len(request'[c].authorization) = 0
      BY <3>1, <3>2, Zenon
    <3> QED
      BY <3>1, <3>3
  <2>3. \A d \in Clients \ {c} : request'[d].sas \in {0, 1} /\ Len(request'[d].authorization) <= 1
    BY <1>7, Facts
  <2> QED
    BY <1>9, <2>1, <2>2, <2>3 DEF Inv, TypeOK
<1>11. FieldsInv'
  <2>1. \A d \in Clients : /\ DOMAIN request'[d] = {"sas", "query", "slist", "authorization"}
                           /\ DOMAIN headers'[d] = {"content_length", "ms_headers"}
    BY <1>5, <1>7, <1>8, Facts
  <2>2. now \in 0..MaxTime /\ {m_token} \in SUBSET (1..MaxTokens)
    BY Facts
  <2> QED
    BY <1>7, <1>8, <2>1, <2>2 DEF Inv, FieldsInv
<1>12. ThreadInv(c)'
  <2>1. InputInv(c)'
    BY <1>1, <1>9 DEF InputInv
  <2>2. LinesInv(c)'
    BY ZenonT(30), <1>2, <1>5, <1>6, <1>7, <1>8, <1>9, SameBuilder
       DEF LinesInv, Built, Building
  <2>3. AuthorizationInv(c)'
    BY <1>5, <1>7, <1>9 DEF AuthorizationInv, Built, Building
  <2>4. DateInv(c)'
    BY <1>9, Facts DEF DateInv
  <2> QED
    BY <2>1, <2>2, <2>3, <2>4 DEF ThreadInv
<1>13. ASSUME NEW d \in Clients \ {c} PROVE ThreadInv(d)'
  <2>1. /\ credential' = credential /\ input' = input /\ date' = date /\ tm' = tm
        /\ m_token' = m_token /\ now' = now
    OBVIOUS
  <2>2. now \in Nat /\ now <= now
    BY Facts
  <2>3. pc[d] \in Built => m_token \in current[d]
    BY Facts DEF AuthorizationInv
  <2>4. request'[d] = request[d] /\ headers'[d] = headers[d]
    BY <1>7, <1>8
  <2>5. Untouched(d)
    BY <1>9, <2>1, <2>2, <2>3, <2>4 DEF Untouched
  <2> QED
    BY <2>5, UntouchedThread
<1> QED
  BY <1>10, <1>11, <1>12, <1>13 DEF Inv

\* What c does without the clock, the token or the operations leaves the
\* invariant of another thread, whose date it may only race with.
LEMMA OthersKept ==
    ASSUME Inv, NEW c \in Clients, NEW d \in Clients \ {c},
           UNCHANGED <<credential, input, attempts, started, current, m_token, now>>,
           pc'[d] = pc[d], request'[d] = request[d], headers'[d] = headers[d],
           date'[d] = date[d], raced[d] => raced'[d],
           pc[d] \in {"day", "time"} => tm' = tm \/ raced'[d]
    PROVE  ThreadInv(d)'
<1>1. now \in Nat /\ now <= now
  BY Facts
<1>2. pc[d] \in Built => m_token \in current[d]
  BY Facts DEF AuthorizationInv
<1>3. Untouched(d)
  BY <1>1, <1>2 DEF Untouched
<1> QED
  BY <1>3, UntouchedThread

\* The conditions on c of a step that builds no line and signs nothing.
LEMMA SameLines ==
    ASSUME Inv, NEW c \in Clients,
           UNCHANGED <<credential, input, attempts, request, headers, started, current,
                       m_token, now>>,
           pc[c] \in Building, pc'[c] \in Building
    PROVE  InputInv(c)' /\ LinesInv(c)' /\ AuthorizationInv(c)'
<1>1. InputInv(c)'
  BY Facts DEF InputInv, Building
<1>2. LinesInv(c)'
  BY Facts, SameBuilder DEF LinesInv, Building, Built
<1>3. AuthorizationInv(c)'
  BY Facts DEF AuthorizationInv, Building, Built
<1> QED
  BY <1>1, <1>2, <1>3

\* A pair whose halves are replaced.
LEMMA Halves ==
    ASSUME NEW S, NEW p \in S \X S, NEW x \in S
    PROVE  /\ [p EXCEPT ![1] = x] = <<x, p[2]>> /\ [p EXCEPT ![2] = x] = <<p[1], x>>
           /\ p[1] \in S /\ p[2] \in S
OBVIOUS

LEMMA ReadClockStep ==
    ASSUME Inv, NEW c \in Clients, ReadClock(c)
    PROVE  Inv'
<1> USE DEF ReadClock, Moves
<1>1. /\ pc[c] = "clock" /\ pc'[c] = "gmtime" /\ date'[c] = <<now, now>>
      /\ \A d \in Clients \ {c} : pc'[d] = pc[d] /\ date'[d] = date[d]
  BY DEF Inv, TypeOK
<1>2. TypeOK'
  <2>1. <<now, now>> \in (0..MaxTime) \X (0..MaxTime)
    BY Facts
  <2> QED
    BY <2>1 DEF Inv, TypeOK
<1>3. FieldsInv'
  BY DEF Inv, FieldsInv, history
<1>4. ThreadInv(c)'
  <2>1. InputInv(c)' /\ LinesInv(c)' /\ AuthorizationInv(c)'
    BY <1>1, SameLines DEF Building, history
  <2>2. DateInv(c)'
    BY <1>1, Facts DEF DateInv, history
  <2> QED
    BY <2>1, <2>2 DEF ThreadInv
<1>5. ASSUME NEW d \in Clients \ {c} PROVE ThreadInv(d)'
  BY <1>1, OthersKept DEF history
<1> QED
  BY <1>2, <1>3, <1>4, <1>5 DEF Inv

LEMMA GmTimeStep ==
    ASSUME Inv, NEW c \in Clients, GmTime(c)
    PROVE  Inv'
<1> USE DEF GmTime, Moves
<1>1. /\ pc[c] = "gmtime" /\ pc'[c] = "day" /\ raced'[c] = raced[c]
      /\ \A d \in Clients \ {c} :
            pc'[d] = pc[d] /\ (raced[d] => raced'[d])
            /\ (pc[d] \in {"day", "time"} => raced'[d])
  BY DEF Inv, TypeOK, FieldsInv
<1>2. TypeOK'
  BY Facts DEF Inv, TypeOK, buildVars
<1>3. FieldsInv'
  <2>1. raced' \in [Clients -> BOOLEAN]
    BY DEF Inv, FieldsInv
  <2> QED
    BY <2>1 DEF Inv, FieldsInv, buildVars
<1>4. ThreadInv(c)'
  <2>1. InputInv(c)' /\ LinesInv(c)' /\ AuthorizationInv(c)'
    BY <1>1, SameLines DEF Building, buildVars
  <2>2. DateInv(c)'
    BY <1>1, Facts DEF DateInv, buildVars
  <2> QED
    BY <2>1, <2>2 DEF ThreadInv
<1>5. ASSUME NEW d \in Clients \ {c} PROVE ThreadInv(d)'
  BY <1>1, OthersKept DEF buildVars
<1> QED
  BY <1>2, <1>3, <1>4, <1>5 DEF Inv

LEMMA FormatDayStep ==
    ASSUME Inv, NEW c \in Clients, FormatDay(c)
    PROVE  Inv'
<1> USE DEF FormatDay, Moves
<1>1. tm \in (0..MaxTime) \X (0..MaxTime) /\ DOMAIN date = Clients
  BY DEF Inv, TypeOK
<1>2. date' = [date EXCEPT ![c] = [date[c] EXCEPT ![1] = tm[1]]]
  OBVIOUS
<1>3. [date[c] EXCEPT ![1] = tm[1]] = <<tm[1], date[c][2]>>
      /\ <<tm[1], date[c][2]>> \in (0..MaxTime) \X (0..MaxTime)
  BY <1>1, Facts, Halves
<1>4. /\ pc[c] = "day" /\ pc'[c] = "time" /\ date'[c] = <<tm[1], date[c][2]>>
      /\ \A d \in Clients \ {c} : pc'[d] = pc[d] /\ date'[d] = date[d]
  BY <1>1, <1>2, <1>3 DEF Inv, TypeOK
<1>5. TypeOK'
  BY <1>2, <1>3 DEF Inv, TypeOK
<1>6. FieldsInv'
  BY DEF Inv, FieldsInv, history
<1>7. ThreadInv(c)'
  <2>1. InputInv(c)' /\ LinesInv(c)' /\ AuthorizationInv(c)'
    BY <1>4, SameLines DEF Building, history
  <2>2. PICK t \in started[c]..now : date[c] = <<t, t>> /\ (~raced[c] => tm = <<t, t>>)
    BY <1>4, Facts DEF DateInv
  <2>3. date'[c][2] = t /\ (~raced[c] => date'[c][1] = t)
    BY <1>4, <2>2
  <2>4. DateInv(c)'
    BY <1>4, <2>2, <2>3, Facts DEF DateInv, history
  <2> QED
    BY <2>1, <2>4 DEF ThreadInv
<1>8. ASSUME NEW d \in Clients \ {c} PROVE ThreadInv(d)'
  BY <1>4, OthersKept DEF history
<1> QED
  BY <1>5, <1>6, <1>7, <1>8 DEF Inv

LEMMA FormatTimeStep ==
    ASSUME Inv, NEW c \in Clients, FormatTime(c)
    PROVE  Inv'
<1> USE DEF FormatTime, Moves
<1>1. tm \in (0..MaxTime) \X (0..MaxTime) /\ DOMAIN date = Clients
  BY DEF Inv, TypeOK
<1>2. date' = [date EXCEPT ![c] = [date[c] EXCEPT ![2] = tm[2]]]
  OBVIOUS
<1>3. [date[c] EXCEPT ![2] = tm[2]] = <<date[c][1], tm[2]>>
      /\ <<date[c][1], tm[2]>> \in (0..MaxTime) \X (0..MaxTime)
  BY <1>1, Facts, Halves
<1>4. /\ pc[c] = "time" /\ pc'[c] = "late" /\ date'[c] = <<date[c][1], tm[2]>>
      /\ \A d \in Clients \ {c} : pc'[d] = pc[d] /\ date'[d] = date[d]
  BY <1>1, <1>2, <1>3 DEF Inv, TypeOK
<1>5. TypeOK'
  BY <1>2, <1>3 DEF Inv, TypeOK
<1>6. FieldsInv'
  BY DEF Inv, FieldsInv, history
<1>7. ThreadInv(c)'
  <2>1. InputInv(c)' /\ LinesInv(c)' /\ AuthorizationInv(c)'
    BY <1>4, SameLines DEF Building, history
  <2>2. PICK t \in started[c]..now : ~raced[c] => tm = <<t, t>> /\ date[c][1] = t
    BY <1>4, Facts DEF DateInv
  <2>3. ~raced[c] => date'[c] = <<t, t>>
    BY <1>4, <2>2
  <2>4. DateInv(c)'
    BY <1>4, <2>2, <2>3, Facts DEF DateInv, history
  <2> QED
    BY <2>1, <2>4 DEF ThreadInv
<1>8. ASSUME NEW d \in Clients \ {c} PROVE ThreadInv(d)'
  BY <1>4, OthersKept DEF history
<1> QED
  BY <1>5, <1>6, <1>7, <1>8 DEF Inv

LEMMA FinishHeadersStep ==
    ASSUME Inv, NEW c \in Clients, FinishHeaders(c)
    PROVE  Inv'
<1> USE DEF FinishHeaders, Moves
<1>1. PICK op \in DOMAIN Builders : input[c] \in Inputs(op)
  BY Facts DEF InputInv
<1> DEFINE lines == ContentLength(c) \o FirstHeaders(c)
           r == [request[c] EXCEPT !.slist = request[c].slist \o LateHeaders(c)]
           h == [headers[c] EXCEPT
                    !.ms_headers = Collect(headers[c].ms_headers, LateHeaders(c))]
<1>2. request' = [request EXCEPT ![c] = r] /\ headers' = [headers EXCEPT ![c] = h]
  OBVIOUS
<1>3. pc[c] = "late" /\ pc[c] \in Building /\ pc[c] \in Built
  BY DEF Building, Built
<1>4. /\ request[c].slist = lines /\ Reflects(headers[c].ms_headers, request[c].slist)
      /\ headers[c].content_length = SignedLength(input[c].length)
      /\ request[c].query = Query(c)
      /\ request[c].sas = 0 /\ request[c].authorization = <<>> /\ m_token \in current[c]
  BY <1>3, Facts DEF LinesInv, AuthorizationInv
<1>5. lines \in Seq(Pairs)
  BY <1>1, FirstReflected
<1> HIDE DEF lines
<1>6. Reflects(Collect(headers[c].ms_headers, LateHeaders(c)), lines \o LateHeaders(c))
  BY <1>1, <1>4, <1>5, Facts, LateReflected
<1>7. /\ r.sas = 0 /\ r.authorization = <<>> /\ r.query = Query(c)
      /\ r.slist = lines \o LateHeaders(c) /\ DOMAIN r = DOMAIN request[c]
  BY <1>4, Facts
<1>8. /\ h.content_length = SignedLength(input[c].length) /\ DOMAIN h = DOMAIN headers[c]
      /\ h.ms_headers = Collect(headers[c].ms_headers, LateHeaders(c))
  BY <1>4, Facts
<1> HIDE DEF r, h
<1>9. /\ request'[c] = r /\ \A d \in Clients \ {c} : request'[d] = request[d]
      /\ request' = [d \in Clients |-> request'[d]]
  BY <1>2, Facts DEF Inv, FieldsInv
<1>10. /\ headers'[c] = h /\ \A d \in Clients \ {c} : headers'[d] = headers[d]
       /\ headers' = [d \in Clients |-> headers'[d]]
  BY <1>2, Facts DEF Inv, FieldsInv
<1>11. pc'[c] = "sign" /\ \A d \in Clients \ {c} : pc'[d] = pc[d]
  BY DEF Inv, TypeOK
<1>12. TypeOK'
  <2>1. \A d \in Clients : request'[d].sas = request[d].sas
                           /\ request'[d].authorization = request[d].authorization
    BY <1>4, <1>7, <1>9
  <2> QED
    BY <2>1 DEF Inv, TypeOK, history
<1>13. FieldsInv'
  <2>1. \A d \in Clients : /\ DOMAIN request'[d] = {"sas", "query", "slist", "authorization"}
                           /\ DOMAIN headers'[d] = {"content_length", "ms_headers"}
    BY <1>7, <1>8, <1>9, <1>10, Facts
  <2> QED
    BY <1>9, <1>10, <2>1 DEF Inv, FieldsInv, history
<1>14. ThreadInv(c)'
  <2>1. InputInv(c)'
    BY <1>1, <1>11 DEF InputInv
  <2>2. (ContentLength(c) \o FirstHeaders(c))' = lines /\ LateHeaders(c)' = LateHeaders(c)
        /\ Query(c)' = Query(c)
    BY SameBuilder DEF lines
  <2>3. request'[c].slist = (lines \o LateHeaders(c))
        /\ Reflects(headers'[c].ms_headers, request'[c].slist)
    BY <1>6, <1>7, <1>8, <1>9, <1>10
  <2>4. LinesInv(c)'
    BY <1>7, <1>8, <1>9, <1>10, <1>11, <2>2, <2>3 DEF LinesInv, Built, Building
  <2>5. AuthorizationInv(c)'
    BY <1>4, <1>7, <1>9, <1>11 DEF AuthorizationInv, Built, Building, history
  <2>6. DateInv(c)'
    BY <1>3, <1>11, Facts DEF DateInv, history
  <2> QED
    BY <2>1, <2>4, <2>5, <2>6 DEF ThreadInv
<1>15. ASSUME NEW d \in Clients \ {c} PROVE ThreadInv(d)'
  BY <1>9, <1>10, <1>11, OthersKept DEF history
<1> QED
  BY <1>12, <1>13, <1>14, <1>15 DEF Inv

\* What the four ways to sign have in common: r is the http object after it.
Signs(c, r) ==
    /\ Moves(c, "sign", "sent")
    /\ request' = [request EXCEPT ![c] = r]
    /\ DOMAIN r = DOMAIN request[c] /\ r.slist = request[c].slist /\ r.query = request[c].query
    /\ r.sas \in {0, 1} /\ Len(r.authorization) <= 1
    /\ r.sas = IF credential = "sas" THEN 1 ELSE 0
    /\ credential \in {"sas", "anonymous"} => r.authorization = <<>>
    /\ credential = "shared_key" => r.authorization = << [by |-> "key", signs |-> StringToSign(c)] >>
    /\ credential = "token" => r.authorization = << [by |-> "token", token |-> m_token] >>
    /\ UNCHANGED <<credential, input, attempts, headers, date, tm, m_token, now, history>>

LEMMA SigningStep ==
    ASSUME Inv, NEW c \in Clients, NEW r, Signs(c, r)
    PROVE  Inv'
<1> USE DEF Signs, Moves
<1>1. /\ request'[c] = r /\ \A d \in Clients \ {c} : request'[d] = request[d]
      /\ request' = [d \in Clients |-> request'[d]]
  BY Facts DEF Inv, FieldsInv
<1>2. /\ pc[c] = "sign" /\ pc'[c] = "sent"
      /\ \A d \in Clients \ {c} : pc'[d] = pc[d]
  BY DEF Inv, TypeOK
<1>3. TypeOK'
  <2>1. \A d \in Clients : request'[d].sas \in {0, 1} /\ Len(request'[d].authorization) <= 1
    BY <1>1, Facts
  <2> QED
    BY <2>1 DEF Inv, TypeOK, history
<1>4. FieldsInv'
  <2>1. \A d \in Clients : DOMAIN request'[d] = {"sas", "query", "slist", "authorization"}
    BY <1>1, Facts
  <2> QED
    BY <1>1, <2>1 DEF Inv, FieldsInv, history
<1>5. ThreadInv(c)'
  <2>1. InputInv(c)'
    BY <1>2, Facts DEF InputInv
  <2>2. LinesInv(c)'
    <3>1. /\ ContentLength(c)' = ContentLength(c) /\ FirstHeaders(c)' = FirstHeaders(c)
          /\ LateHeaders(c)' = LateHeaders(c) /\ Query(c)' = Query(c)
      BY SameBuilder
    <3>2. LinesInv(c)
      BY Facts
    <3>3. request'[c].slist = request[c].slist /\ request'[c].query = request[c].query
      BY <1>1
    <3> QED
      BY <1>2, <3>1, <3>2, <3>3 DEF LinesInv, Built, Building
  <2>3. StringToSign(c)' = StringToSign(c)
    BY <1>1, SameBuilder DEF StringToSign
  <2>4. m_token \in current[c]
    BY <1>2, Facts DEF AuthorizationInv, Built
  <2>5. AuthorizationInv(c)'
    BY <1>1, <1>2, <2>3, <2>4 DEF AuthorizationInv, Built, Building, history
  <2>6. DateInv(c)'
    BY <1>2, Facts DEF DateInv, history
  <2> QED
    BY <2>1, <2>2, <2>5, <2>6 DEF ThreadInv
<1>6. ASSUME NEW d \in Clients \ {c} PROVE ThreadInv(d)'
  BY <1>1, <1>2, OthersKept DEF history
<1> QED
  BY <1>3, <1>4, <1>5, <1>6 DEF Inv

\* Before it is signed.
LEMMA Unsigned ==
    ASSUME Inv, NEW c \in Clients, pc[c] = "sign"
    PROVE  /\ request[c].sas = 0 /\ request[c].authorization = <<>>
           /\ DOMAIN request[c] = {"sas", "query", "slist", "authorization"}
BY Facts DEF AuthorizationInv, Building

LEMMA AuthorizeStep ==
    ASSUME Inv, NEW c \in Clients, NEW a, Authorize(c, a),
           \/ credential = "shared_key" /\ a = [by |-> "key", signs |-> StringToSign(c)]
           \/ credential = "token" /\ a = [by |-> "token", token |-> m_token]
    PROVE  Inv'
<1> DEFINE r == [request[c] EXCEPT !.authorization = Append(request[c].authorization, a)]
<1>1. request' = [request EXCEPT ![c] = r]
  BY DEF Authorize
<1>2. Append(<<>>, a) = <<a>> /\ Len(<<a>>) = 1
  OBVIOUS
<1>3. /\ DOMAIN r = DOMAIN request[c] /\ r.slist = request[c].slist
      /\ r.query = request[c].query /\ r.sas = 0
      /\ r.authorization = Append(request[c].authorization, a)
  BY Unsigned DEF Authorize, Moves
<1>4. r.authorization = <<a>>
  BY <1>2, <1>3, Unsigned DEF Authorize, Moves
<1> HIDE DEF r
<1>5. Len(r.authorization) = 1
  BY <1>2, <1>4, Zenon
<1>6. /\ credential = "shared_key" =>
           r.authorization = << [by |-> "key", signs |-> StringToSign(c)] >>
      /\ credential = "token" => r.authorization = << [by |-> "token", token |-> m_token] >>
      /\ credential \notin {"sas", "anonymous"}
  <2>1. CASE credential = "shared_key" /\ a = [by |-> "key", signs |-> StringToSign(c)]
    BY <1>4, <2>1, "shared_key" # "token"
  <2>2. CASE credential = "token" /\ a = [by |-> "token", token |-> m_token]
    BY <1>4, <2>2, "shared_key" # "token"
  <2> QED
    BY <2>1, <2>2
<1>7. r.sas \in {0, 1} /\ r.sas = (IF credential = "sas" THEN 1 ELSE 0)
  BY <1>3, <1>6
<1>8. Signs(c, r)
  <2>1. Len(r.authorization) <= 1
    BY <1>5
  <2> QED
    BY <1>1, <1>3, <1>6, <1>7, <2>1, Zenon DEF Authorize, Signs
<1> QED
  BY <1>8, SigningStep

LEMMA SignWithSasStep ==
    ASSUME Inv, NEW c \in Clients, SignWithSas(c)
    PROVE  Inv'
<1> DEFINE r == [request[c] EXCEPT !.sas = request[c].sas + 1]
<1>1. request' = [request EXCEPT ![c] = r]
  BY DEF SignWithSas
<1>2. /\ DOMAIN r = DOMAIN request[c] /\ r.slist = request[c].slist
      /\ r.query = request[c].query /\ r.sas = 1 /\ r.authorization = <<>>
  BY Unsigned DEF SignWithSas, Moves
<1>3. Len(<<>>) = 0
  OBVIOUS
<1> HIDE DEF r
<1>4. Len(r.authorization) = 0
  BY <1>2, <1>3, Zenon
<1>5. /\ credential = "sas" /\ credential \notin {"shared_key", "token"}
      /\ r.sas \in {0, 1} /\ r.sas = (IF credential = "sas" THEN 1 ELSE 0)
  BY <1>2 DEF SignWithSas
<1>6. Signs(c, r)
  <2>1. Len(r.authorization) <= 1
    BY <1>4
  <2> QED
    BY <1>1, <1>2, <1>5, <2>1, Zenon DEF SignWithSas, Signs
<1> QED
  BY <1>6, SigningStep

LEMMA SignNothingStep ==
    ASSUME Inv, NEW c \in Clients, SignNothing(c)
    PROVE  Inv'
<1>1. request' = [request EXCEPT ![c] = request[c]]
  BY Facts DEF SignNothing, buildVars, Inv, FieldsInv
<1>2. request[c].sas = 0 /\ request[c].authorization = <<>>
  BY Unsigned DEF SignNothing, Moves
<1>3. Len(<<>>) = 0
  OBVIOUS
<1>4. Len(request[c].authorization) = 0
  BY <1>2, <1>3, Zenon
<1>5. /\ credential = "anonymous" /\ credential \notin {"shared_key", "token"}
      /\ request[c].sas \in {0, 1} /\ request[c].sas = (IF credential = "sas" THEN 1 ELSE 0)
  BY <1>2 DEF SignNothing
<1>6. UNCHANGED <<credential, input, attempts, headers, date, tm, m_token, now, history>>
  BY DEF SignNothing, buildVars
<1>7. Signs(c, request[c])
  <2>1. Len(request[c].authorization) <= 1
    BY <1>4
  <2> QED
    BY <1>1, <1>2, <1>5, <1>6, <2>1, Zenon DEF SignNothing, Signs
<1> QED
  BY <1>7, SigningStep

LEMMA AnsweredStep ==
    ASSUME Inv, NEW c \in Clients, Answered(c)
    PROVE  Inv'
<1> USE DEF Answered, Moves, buildVars, history
<1>1. /\ pc[c] = "sent" /\ pc'[c] \in {"build", "done"}
      /\ pc'[c] = "build" => attempts[c] < MaxAttempts
      /\ \A d \in Clients \ {c} : pc'[d] = pc[d]
  BY DEF Inv, TypeOK
<1>2. TypeOK'
  BY DEF Inv, TypeOK
<1>3. FieldsInv'
  BY DEF Inv, FieldsInv
<1>4. ThreadInv(c)'
  <2>1. InputInv(c)'
    BY <1>1, Facts DEF InputInv
  <2>2. LinesInv(c)' /\ AuthorizationInv(c)'
    BY <1>1 DEF LinesInv, AuthorizationInv, Built, Building
  <2>3. DateInv(c)'
    BY <1>1, Facts DEF DateInv
  <2> QED
    BY <2>1, <2>2, <2>3 DEF ThreadInv
<1>5. ASSUME NEW d \in Clients \ {c} PROVE ThreadInv(d)'
  BY <1>1, OthersKept
<1> QED
  BY <1>2, <1>3, <1>4, <1>5 DEF Inv

LEMMA SetTokenStep == Inv /\ SetToken => Inv'
<1> SUFFICES ASSUME Inv, SetToken PROVE Inv'
  OBVIOUS
<1> USE DEF SetToken, buildVars
<1>1. m_token + 1 \in 1..MaxTokens
  BY SignedRequestAssumption DEF Inv, TypeOK
<1>2. TypeOK'
  BY <1>1 DEF Inv, TypeOK
<1>3. FieldsInv'
  BY <1>1 DEF Inv, FieldsInv
<1>4. ASSUME NEW d \in Clients PROVE ThreadInv(d)'
  <2>1. now \in Nat /\ now <= now
    BY Facts
  <2>2. current'[d] = current[d] \cup {m_token + 1}
    OBVIOUS
  <2>3. Untouched(d)
    BY <2>1, <2>2 DEF Untouched
  <2> QED
    BY <2>3, UntouchedThread
<1> QED
  BY <1>2, <1>3, <1>4 DEF Inv

LEMMA TickStep == Inv /\ Tick => Inv'
<1> SUFFICES ASSUME Inv, Tick PROVE Inv'
  OBVIOUS
<1> USE DEF Tick, buildVars, history
<1>1. now + 1 \in 1..MaxTime /\ now + 1 \in Nat /\ now <= now + 1
  BY SignedRequestAssumption DEF Inv, TypeOK
<1>2. TypeOK'
  BY <1>1 DEF Inv, TypeOK
<1>3. FieldsInv'
  BY DEF Inv, FieldsInv
<1>4. ASSUME NEW d \in Clients PROVE ThreadInv(d)'
  <2>1. pc[d] \in Built => m_token \in current[d]
    BY Facts DEF AuthorizationInv
  <2>2. Untouched(d)
    BY <1>1, <2>1 DEF Untouched
  <2> QED
    BY <2>2, UntouchedThread
<1> QED
  BY <1>2, <1>3, <1>4 DEF Inv

LEMMA Stuttering == Inv /\ UNCHANGED vars => Inv'
<1> SUFFICES ASSUME Inv, UNCHANGED vars PROVE Inv'
  OBVIOUS
<1> USE DEF vars, buildVars, history
<1>1. TypeOK' /\ FieldsInv'
  BY DEF Inv, TypeOK, FieldsInv
<1>2. ASSUME NEW d \in Clients PROVE ThreadInv(d)'
  <2>1. now \in Nat /\ now <= now
    BY Facts
  <2>2. pc[d] \in Built => m_token \in current[d]
    BY Facts DEF AuthorizationInv
  <2>3. Untouched(d)
    BY <2>1, <2>2 DEF Untouched
  <2> QED
    BY <2>3, UntouchedThread
<1> QED
  BY <1>1, <1>2 DEF Inv

LEMMA Stepwise == Inv /\ [Next]_vars => Inv'
<1> SUFFICES ASSUME Inv, [Next]_vars PROVE Inv'
  OBVIOUS
<1>1. ASSUME NEW c \in Clients, Thread(c) PROVE Inv'
  <2>1. CASE BuildRequest(c)
    BY <2>1, BuildRequestStep
  <2>2. CASE ReadClock(c)
    BY <2>2, ReadClockStep
  <2>3. CASE GmTime(c)
    BY <2>3, GmTimeStep
  <2>4. CASE FormatDay(c)
    BY <2>4, FormatDayStep
  <2>5. CASE FormatTime(c)
    BY <2>5, FormatTimeStep
  <2>6. CASE FinishHeaders(c)
    BY <2>6, FinishHeadersStep
  <2>7. CASE SignWithKey(c)
    BY <2>7, AuthorizeStep DEF SignWithKey
  <2>8. CASE SignWithToken(c)
    BY <2>8, AuthorizeStep DEF SignWithToken
  <2>9. CASE SignWithSas(c)
    BY <2>9, SignWithSasStep
  <2>10. CASE SignNothing(c)
    BY <2>10, SignNothingStep
  <2>11. CASE Answered(c)
    BY <2>11, AnsweredStep
  <2> QED
    BY <1>1, <2>1, <2>2, <2>3, <2>4, <2>5, <2>6, <2>7, <2>8, <2>9, <2>10, <2>11 DEF Thread
<1> QED
  BY <1>1, SetTokenStep, TickStep, Stuttering DEF Next

\* Every state of threads that build and sign their requests satisfies Inv.
THEOREM Invariance == Spec => []Inv
<1> QED
  BY Initially, Stepwise, PTL DEF Spec

-----------------------------------------------------------------------------
(* What it shows of the requests that are sent. *)

LEMMA SentIsComplete ==
    ASSUME Inv, NEW c \in Sent
    PROVE  /\ c \in Clients /\ pc[c] = "sent" /\ Complete(c)
           /\ \E op \in DOMAIN Builders : input[c] \in Inputs(op)
           /\ date[c] \in Nat \X Nat
<1>1. c \in Clients /\ pc[c] = "sent" /\ pc[c] \in Built
  BY DEF Sent, Built
<1>2. Complete(c)
  BY <1>1, Facts DEF LinesInv, Complete
<1>3. \E op \in DOMAIN Builders : input[c] \in Inputs(op)
  BY <1>1, Facts DEF InputInv
<1> QED
  BY <1>1, <1>2, <1>3, Facts

LEMMA InvSignsAsSent == Inv => SignedAsSent
<1> SUFFICES ASSUME Inv, credential = "shared_key", NEW c \in Sent,
                    NEW i \in 1..Len(request[c].authorization)
             PROVE  Accepts(c, request[c].authorization[i].signs) <=> WellFormed(c)
  BY DEF SignedAsSent
<1>1. /\ c \in Clients /\ pc[c] = "sent" /\ Complete(c) /\ date[c] \in Nat \X Nat
      /\ \E op \in DOMAIN Builders : input[c] \in Inputs(op)
  BY SentIsComplete
<1>2. Accepts(c, StringToSign(c)) <=> WellFormed(c)
  BY <1>1, SignedIsAccepted
<1> DEFINE a == [by |-> "key", signs |-> StringToSign(c)]
<1>3. request[c].authorization = <<a>> /\ a.signs = StringToSign(c)
  BY <1>1, Facts DEF AuthorizationInv
<1> HIDE DEF a
<1>4. request[c].authorization[i] = a
  <2>1. \A j \in 1..Len(<<a>>) : <<a>>[j] = a
    OBVIOUS
  <2> QED
    BY <1>3, <2>1, Zenon
<1> QED
  BY <1>2, <1>3, <1>4

LEMMA InvIsCurrent == Inv => AttemptIsCurrent
<1> SUFFICES ASSUME Inv, NEW c \in Sent
             PROVE  /\ Len(request[c].authorization) =
                           IF credential \in {"shared_key", "token"} THEN 1 ELSE 0
                    /\ request[c].sas = IF credential = "sas" THEN 1 ELSE 0
                    /\ credential = "token" => request[c].authorization[1].token \in current[c]
                    /\ \E i \in Wire(c) :
                          /\ Lines(c, "x-ms-date") = {i}
                          /\ ~raced[c] => \E t \in started[c]..now :
                                 request[c].slist[i][2] = <<t, t>>
  BY DEF AttemptIsCurrent
<1>1. /\ c \in Clients /\ pc[c] = "sent" /\ Complete(c) /\ date[c] \in Nat \X Nat
      /\ \E op \in DOMAIN Builders : input[c] \in Inputs(op)
  BY SentIsComplete
<1>2. AuthorizationInv(c) /\ DateInv(c)
  BY <1>1, Facts
<1>3. \A a : Len(<<a>>) = 1 /\ <<a>>[1] = a
  OBVIOUS
<1>4. Len(<<>>) = 0
  OBVIOUS
<1>5. credential = "shared_key" => Len(request[c].authorization) = 1
  BY <1>1, <1>2, <1>3, Zenon DEF AuthorizationInv
<1>6. credential = "token" =>
        Len(request[c].authorization) = 1 /\ request[c].authorization[1].token \in current[c]
  <2>1. SUFFICES ASSUME credential = "token"
                 PROVE  Len(request[c].authorization) = 1
                        /\ request[c].authorization[1].token \in current[c]
    OBVIOUS
  <2>2. PICK t \in current[c] : request[c].authorization = << [by |-> "token", token |-> t] >>
    BY <1>1, <1>2, <2>1 DEF AuthorizationInv
  <2> DEFINE a == [by |-> "token", token |-> t]
  <2>3. a.token = t
    OBVIOUS
  <2> QED
    BY <1>3, <2>2, <2>3, Zenon
<1>7. credential \in {"sas", "anonymous"} => Len(request[c].authorization) = 0
  BY <1>1, <1>2, <1>4, Zenon DEF AuthorizationInv
<1>8. credential \in {"shared_key", "sas", "token", "anonymous"}
  BY DEF Inv, FieldsInv
<1>9. request[c].sas = IF credential = "sas" THEN 1 ELSE 0
  BY <1>1, <1>2 DEF AuthorizationInv
<1>10. PICK i \in Wire(c) : Lines(c, "x-ms-date") = {i} /\ request[c].slist[i][2] = date[c]
  BY <1>1, DateIsCarried
<1>11. ~raced[c] => \E t \in started[c]..now : request[c].slist[i][2] = <<t, t>>
  BY <1>1, <1>2, <1>10 DEF DateInv
<1>12. Len(request[c].authorization) = IF credential \in {"shared_key", "token"} THEN 1 ELSE 0
  BY <1>5, <1>6, <1>7, <1>8
<1> QED
  BY <1>6, <1>9, <1>10, <1>11, <1>12

\* The variables of threads that build requests keep their types: in particular
\* no request is signed twice.
THEOREM TypeCorrect == Spec => []TypeOK
<1> QED
  BY Invariance, PTL DEF Inv

\* With a shared key, what is signed is what the service computes from what is
\* sent, exactly when the caller's data is well formed.
THEOREM KeySignsWhatIsSent == Spec => []SignedAsSent
<1> QED
  BY Invariance, InvSignsAsSent, PTL

\* A request that is sent carries its own attempt's credentials and date.
THEOREM AttemptsAreCurrent == Spec => []AttemptIsCurrent
<1> QED
  BY Invariance, InvIsCurrent, PTL
=============================================================================
