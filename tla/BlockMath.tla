----------------------------- MODULE BlockMath -----------------------------
(***************************************************************************)
(* How a length becomes requests: cut into blocks or ranges by             *)
(* blob_client::upload_block_blob_from_buffer and download_blob_to_buffer  *)
(* (src/blob/blob_client.cpp) and by                                       *)
(* blob_client_wrapper::upload_file_to_blob                                *)
(* (src/blob/blob_client_wrapper.cpp), each with a formula of its own, or  *)
(* as one request by the operations on a stream; how the length of a body  *)
(* is announced, and how a range is asked for.                             *)
(*                                                                         *)
(* Lengths fit their 64 bits: MAX_BLOB_SIZE is below 2^43, and every       *)
(* product below is bounded by it.  The length of a body is narrowed to an *)
(* unsigned int.  Only the proportions of the numbers matter here, so Mi,  *)
(* UnsignedInt and max_num_blocks are parameters.                          *)
(***************************************************************************)
EXTENDS Integers

CONSTANTS Mi,              \* bytes of a MiB: 1024 * 1024 in the code
          KiGrain,         \* 64 KiB, the grain of a download
          max_num_blocks,  \* 50000 in the code
          UnsignedInt,     \* 2^32: the number of values of an unsigned int
          Parallelisms,    \* of a download: std::min(parallelism, concurrency())
          Starts,          \* bound: the offsets in a blob that are tried
          Lengths          \* bound: the lengths that are tried

\* The smallest block of a large buffer is no smaller than the number of blocks,
\* and an unsigned int holds the length of any block.
ASSUME BlockMathAssumption ==
    /\ Mi \in Nat \ {0} /\ KiGrain \in Nat \ {0} /\ UnsignedInt \in Nat \ {0}
    /\ Parallelisms \subseteq Nat \ {0} /\ Starts \subseteq Nat
    /\ max_num_blocks \in 1..(8 * Mi)
    /\ UnsignedInt > 104 * Mi
    /\ Lengths \subseteq Nat

default_block_size == 8 * Mi
max_block_size == 100 * Mi
MIN_UPLOAD_CHUNK_SIZE == 16 * Mi
MAX_BLOB_SIZE == max_num_blocks * max_block_size
SmallFile == 64 * Mi

Least(a, b) == IF a < b THEN a ELSE b
Greatest(a, b) == IF a < b THEN b ELSE a
CeilDiv(a, b) == (a + b - 1) \div b
RoundUp(a, grain) == CeilDiv(a, grain) * grain

VARIABLES
    path,        \* the operation
    length,      \* bufferlen, size, fileSize, or what is left of a stream
    start,       \* offset of a download
    parallelism, \* of a download
    stage,       \* "start", "slicing", "done", "rejected", "trapped", or "short"
                 \* when the service waits for bytes that never come
    block_size,
    num_blocks,  \* computed beforehand by the two parallel operations
    idx,         \* blocks taken so far
    covered,     \* bytes sent, or received into their place, so far
    asked        \* first and last byte that the last request asked for

given == <<path, length, start, parallelism>>
plan == <<block_size, num_blocks>>
cutVars == <<given, stage, plan, idx, covered, asked>>

Downloads == {"download", "range"}
EndOfBlob == -1      \* as the last byte: as many as there are

CutInit ==
    /\ path \in {"buffer", "file", "stream", "append"} \cup Downloads
    /\ length \in Lengths
    /\ start \in IF path \in Downloads THEN Starts ELSE {0}
    /\ parallelism \in IF path = "download" THEN Parallelisms ELSE {1}
    /\ asked = [first |-> 0, last |-> 0]
    /\ stage = "start"
    /\ block_size = 0
    /\ num_blocks = 0
    /\ idx = 0
    /\ covered = 0

-----------------------------------------------------------------------------

\* blob_too_big and EFBIG: nothing is sent.
RejectTooBig ==
    /\ stage = "start"
    /\ path \in {"buffer", "file"}
    /\ length > MAX_BLOB_SIZE
    /\ stage' = "rejected"
    /\ UNCHANGED <<given, plan, idx, covered, asked>>

\* A definition named X_Y is a faulty variant of X: no behaviour uses it, it
\* only serves to see a property fail.

BufferBlock ==
    Greatest(Least(RoundUp(length \div max_num_blocks, 4 * Mi), max_block_size),
             default_block_size)

DownloadBlock == Least(RoundUp(length \div parallelism, KiGrain), default_block_size)

\* min_block + 4 MiB - remainder, where `min_block % 4*1024*1024' is
\* (min_block % 4) * 1024 * 1024
FileBlock_Exact == Greatest(length \div max_num_blocks, MIN_UPLOAD_CHUNK_SIZE)
FileBlock ==
    LET min_block == length \div max_num_blocks
        remainder == (min_block % 4) * Mi
    IN  IF length > max_num_blocks * MIN_UPLOAD_CHUNK_SIZE
            THEN Greatest(min_block + 4 * Mi - remainder, MIN_UPLOAD_CHUNK_SIZE)
            ELSE MIN_UPLOAD_CHUNK_SIZE

\* static_cast<unsigned int>
Narrowed(n) == n % UnsignedInt

BlockCount_RoundedDown(size) == length \div size
BlockCount(size) == CeilDiv(length, size)

PlanBuffer ==
    /\ stage = "start"
    /\ path = "buffer"
    /\ length <= MAX_BLOB_SIZE
    /\ stage' = "slicing"
    /\ block_size' = BufferBlock
    /\ num_blocks' = BlockCount(BufferBlock)
    /\ UNCHANGED <<given, idx, covered, asked>>

PlanDownload ==
    /\ stage = "start"
    /\ path = "download"
    /\ DownloadBlock > 0
    /\ stage' = "slicing"
    /\ block_size' = DownloadBlock
    /\ num_blocks' = BlockCount(DownloadBlock)
    /\ UNCHANGED <<given, idx, covered, asked>>

\* (size + block_size - 1) / block_size with a block_size of zero: the quotient
\* of size by parallelism was zero.
DivideByZero ==
    /\ stage = "start"
    /\ path = "download"
    /\ DownloadBlock = 0
    /\ stage' = "trapped"
    /\ UNCHANGED <<given, plan, idx, covered, asked>>

\* A small file is the body of one request.
SendWhole ==
    /\ stage = "start"
    /\ path = "file"
    /\ length <= SmallFile
    /\ stage' = "done"
    /\ covered' = Narrowed(length)
    /\ UNCHANGED <<given, plan, idx, asked>>

PlanFile ==
    /\ stage = "start"
    /\ path = "file"
    /\ SmallFile < length /\ length <= MAX_BLOB_SIZE
    /\ stage' = "slicing"
    /\ block_size' = FileBlock
    /\ UNCHANGED <<given, num_blocks, idx, covered, asked>>

-----------------------------------------------------------------------------

\* Block idx, of min(block_size, length - offset) bytes.  The operations that
\* counted their blocks stop by the count, the file's loop by the offset.
Offset == block_size * idx
Slice_NoMinimum == block_size
Slice == Least(block_size, length - Offset)
MoreBlocks == IF path = "file" THEN Offset < length ELSE idx < num_blocks

\* get_ms_range: no header for the bytes from 0 to 0, no end for an end of 0.
EndByte(first, size) == first + size - 1
get_ms_range(first, last) ==
    [first |-> first, last |-> IF last = 0 THEN EndOfBlob ELSE last]

\* memory_streambuf::xsputn takes what there is room for.
xsputn(count, room) == Least(count, room)

\* put_block, each with its own Content-Length.
TakeSlice ==
    /\ stage = "slicing"
    /\ MoreBlocks
    /\ path # "download"
    /\ covered' = covered + Narrowed(Slice)
    /\ idx' = idx + 1
    /\ UNCHANGED <<given, stage, plan, asked>>

\* get_blob with the range of the block, into an omstream over its part of the
\* buffer; a range without an end is answered by more than that.
ReadSlice ==
    /\ stage = "slicing"
    /\ MoreBlocks
    /\ path = "download"
    /\ asked' = get_ms_range(start + Offset, EndByte(start + Offset, Slice))
    /\ covered' = covered +
           xsputn(IF asked'.last = EndOfBlob THEN Slice + 1
                  ELSE asked'.last - asked'.first + 1, Slice)
    /\ idx' = idx + 1
    /\ UNCHANGED <<given, stage, plan>>

NoMoreBlocks ==
    /\ stage = "slicing"
    /\ ~MoreBlocks
    /\ stage' = "done"
    /\ UNCHANGED <<given, plan, idx, covered, asked>>

-----------------------------------------------------------------------------
(* One request for all. *)

\* upload_block_blob_from_stream, upload_block_from_stream: the length is cast
\* before it is announced, and libcurl sends as many bytes as were announced.
SendStream ==
    /\ stage = "start"
    /\ path = "stream"
    /\ stage' = "done"
    /\ covered' = Narrowed(length)
    /\ UNCHANGED <<given, plan, idx, asked>>

\* append_data_from_stream announces the length as it is; add_header parses it
\* into an unsigned int for libcurl, which yields the largest when it is too
\* large, and the service waits for the rest.
Parsed(n) == Least(n, UnsignedInt - 1)
AppendStream ==
    /\ stage = "start"
    /\ path = "append"
    /\ stage' = IF Parsed(length) = length THEN "done" ELSE "short"
    /\ covered' = Parsed(length)
    /\ UNCHANGED <<given, plan, idx, asked>>

\* download_blob_to_stream, get_chunk_to_stream_sync: a size of 0 sets no end.
AskRange ==
    /\ stage = "start"
    /\ path = "range"
    /\ stage' = "done"
    /\ asked' = get_ms_range(start, IF length > 0 THEN EndByte(start, length) ELSE 0)
    /\ covered' = length
    /\ UNCHANGED <<given, plan, idx>>

CutNext == \/ RejectTooBig \/ PlanBuffer \/ PlanDownload \/ DivideByZero
        \/ SendWhole \/ PlanFile \/ TakeSlice \/ ReadSlice \/ NoMoreBlocks
        \/ SendStream \/ AppendStream \/ AskRange

CutSpec == CutInit /\ [][CutNext]_cutVars

-----------------------------------------------------------------------------

\* The values each variable takes.
CutTypeOK ==
    /\ path \in {"buffer", "file", "stream", "append"} \cup Downloads
    /\ length \in Lengths /\ start \in Starts \cup {0}
    /\ parallelism \in Parallelisms \cup {1}
    /\ stage \in {"start", "slicing", "done", "rejected", "trapped", "short"}
    /\ block_size \in 0..(max_block_size + 4 * Mi)
    /\ num_blocks \in Nat
    /\ idx \in Nat
    /\ covered \in 0..length
    /\ asked.first \in Nat /\ asked.last \in Nat \cup {EndOfBlob}

\* The blocks lie side by side from the first byte to the last: every block the
\* loop still takes begins inside the data (so that length - offset does not
\* wrap), and when the loop ends nothing is left.  Only the body of a single
\* request is too long for the unsigned int in which it is counted, and then a
\* part of it is sent with success, or less than the service was told to expect.
SideBySide ==
    /\ stage = "slicing" =>
           /\ covered = Least(Offset, length)
           /\ MoreBlocks => Offset < length
    /\ stage = "done" =>
           (covered = length <=> path # "stream" \/ length < UnsignedInt)
    /\ stage = "short" => path = "append" /\ length >= UnsignedInt

\* A request asks for the bytes its part of the destination takes, from the
\* first to the last; but the first byte of the blob alone cannot be asked for,
\* and the whole blob is asked for instead.
RangeIsAsked ==
    LET first == IF path = "range" THEN start ELSE start + block_size * (idx - 1)
        size == IF path = "range" THEN length
                ELSE Least(block_size, length - block_size * (idx - 1))
    IN  (path = "range" /\ stage = "done") \/ (path = "download" /\ idx > 0) =>
            /\ asked.first = first
            /\ asked.last = IF size = 0 \/ (first = 0 /\ size = 1) THEN EndOfBlob
                            ELSE first + size - 1

BlocksTile == SideBySide /\ RangeIsAsked

\* By how much an upload can miss the limits of the service: a buffer by one
\* block, a file by one grain of the block size.
MissesByOneAtMost ==
    stage \in {"slicing", "done"} =>
        /\ path = "buffer" => /\ num_blocks <= max_num_blocks + 1
                              /\ block_size <= max_block_size
        /\ path = "file" => /\ idx <= max_num_blocks
                            /\ block_size <= max_block_size + 4 * Mi

\* "maximum parallelism": the parallelism of a download bounds the threads, and
\* a size below it is a size as good as any other.
DownloadHasBlocks == length > 0 => stage # "trapped"
=============================================================================
