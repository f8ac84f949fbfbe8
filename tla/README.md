# Verification of azure-storage-cpplite

TLA+ modules that model the parts of the library where several things happen at
once or can fail half-way, TLC configurations that check them on small
instances, and TLAPS proofs for every size of the instance. Every definition is
a reading of the C++ under `src/`; `PROJECT.json` gives the lines each one
stands for (`map`), the runs, the hazards they are aimed at, and the theorems.

To check a module: `tlc -config MCParallelUpload.cfg MCParallelUpload`. To check
the proofs: `tlapm M.tla` for each `M` of `ParallelUploadProofs`,
`HandlePoolProofs`, `FileUploadProofs`, `ParallelDownloadProofs`,
`FileDownloadProofs`, `RetryExecutorProofs`, `ErrnoClientsProofs`,
`RequestProofs`.

## 1. Inventory

Paths are relative to the repository; `blob_client.cpp` etc. are in
`src/blob/`, headers in `include/`.

| Component | State | Operations | Interacts with |
|---|---|---|---|
| Parallel upload of a buffer (`blob_client::upload_block_blob_from_buffer`) | four atomics shared by the worker threads, a promise | claim a block, upload it, note a failure, leave, commit, publish | upload_block_from_buffer and put_block_list (retrying executor), the caller's buffer |
| Handle pool (`CurlEasyClient`, `CurlEasyRequest`) | queue of curl handles, mutex, condition variable; reference counts | get_handle, release_handle, destroy request, destroy client | every request; owned by blob_client and by each request |
| File upload of the wrapper (`blob_client_wrapper::upload_file_to_blob`, `put_blob`) | window of futures, permits under two mutexes, heap buffers, errno | open, loop over the blocks, drain, commit; per thread: take permit, upload, give it back | upload_block_from_buffer, put_block_list, the handle pool |
| Retrying executor (`async_executor`, `retry_policy`, `CurlEasyRequest`'s callbacks) | retry context, the request (headers, callback functions, status), the caller's streams | build and send an attempt, read/write/header callbacks, evaluate, rewind | libcurl, the service, every operation of the client |
| Parallel download to a buffer (`download_blob_to_buffer`) | atomics as in the upload | claim a range, read it, publish | as the upload |
| File download (`download_blob_to_file`) | offset, etag, window of futures | first chunk, further chunks, compare etags | get_chunk |
| Sizes (block size, count, ranges, content length) | none | pure arithmetic on 32 and 64 bits | the four above |
| Wrapper operations and errno mode | `errno` | each operation maps an outcome to errno | blob_client |
| ADLS client (`adls/`) | options (exceptions or errno) | adaptors, `*_exists`, `delete_directory`'s continuation loop | blob_client and its own executor |
| Memory stream (`mstream.h`) | get and put area | seek, read, write up to the limit | downloads and uploads of buffers |
| Request builders (`*_request_base.cpp`, `adls/src/*_request.cpp`) | the http object and `storage_headers`, which describe the same request twice | build_request, once per attempt | the executor, the credentials |
| Credentials, URLs, signing, hashes | account key, SAS or token (token under a lock); gmtime's static buffer | format, sign, replace the token | request builders |
| Parsers | - | a body to a record, or an exception | the executor |
| Logging, vendored tinyxml2 and json.hpp | - | - | - |

What is hard in it: threads that share atomics and must agree on who is last;
a condition variable with two mutexes; a bounded pool whose users may hold
several of its members; requests whose answer is lost while their effect is
not; streams that are reused between attempts; blobs that change between the
requests that read them; errors that arrive when other threads are under way.
`PROJECT.json` lists each at its line under `hazards`.

What makes each component correct:

* Parallel upload: the block list is put only when every block is staged; the
  future is fulfilled once, says what happened, and when nobody uses the buffer
  any more; a throwing call changes nothing.
* Handle pool: handles are neither lost nor shared nor dirty; every waiter is
  served; the client goes last and whole.
* File upload: bounded memory, no thread outlives the call, errno is true, the
  call returns.
* Retrying executor: a success means that one whole answer was delivered; a
  body never mixes attempts; attempts are bounded; the promise is fulfilled.
* Downloads: a success means one version of the blob, in order (a file), or
  that every range holds one answer (a buffer).
* Sizes: the blocks cover the data exactly, within the service's limits; a
  range asks for the bytes it is meant for.
* Wrapper and ADLS client: a success is reported exactly when the service said
  so to this very call, in both error modes and over every page.
* Request builders and credentials: what is signed is what is sent, and every
  attempt carries its own date and credentials.

## 2. Plan

| Step | Modules | Subject | State |
|---|---|---|---|
| A | `AtomicUpload`, `ParallelUpload`, `ParallelUploadProofs` | buffer upload, its abstract specification, refinement | done |
| B | `HandlePool` | curl handles, request and client lifetime | done |
| C | `FileUpload` | window, permits, errors | done |
| D | `RetryExecutor` | attempts, callbacks, streams | done |
| E | `ParallelDownload`, after A | ranged reads by worker threads while the blob is replaced | done |
| F | `FileDownload` | chunks and etags | done |
| G | `BlockMath` | block sizes and counts of the three formulas, ranges, the width of a Content-Length, the limit of the memory stream | done |
| H | `ErrnoClients` | one call of the wrapper or of the ADLS client: both error modes, `delete_directory`'s pages | done |
| I | `SignedRequest` | builders, headers, date, credentials, attempt by attempt | done |
| J | `HandlePoolProofs`, `FileUploadProofs` | conservation of handles and permits, no lost wake-up, bounded buffers, the commit, errno | done |
| K | `ParallelDownloadProofs` | truthful verdict with the buffer's contents, quiet when ready | done |
| L | `FileDownloadProofs`, part 1 of `RequestProofs` | one version in the file; the tiling of the data, for every size | done |
| M | `RetryExecutorProofs` | whole uploads, appends and downloads over retries, for contents of any length | done |
| N | `ErrnoClientsProofs` | what the caller is told is what the service said, for any number of entries and any statuses | done |
| O | part 2 of `RequestProofs` | signatures and dates, for any number of threads and attempts and any metadata | done |
| P | `FileUpload`, `FileUploadProofs` | the file upload implements `AtomicUpload` | done |
| Q | `AtomicDownload`, `ParallelDownload`, `FileDownload` and their proofs | the abstract specification of both downloads, refinement | done |

A composition worth adding is of `HandlePool` under the workers: today
`FileUpload` counts the handles in use (`m_concurrency`) and `ParallelUpload`
leaves them out, which is sound because the pool never refuses (`HandlePool`'s
`EveryoneServed`): it only delays `SendBlock`.

## 3. The modules

A definition named `X_Y` beside a definition `X` is a faulty variant of `X` (a
dropped reset, an off-by-one, a missing notification). No behaviour uses it;
`PROJECT.json` (`mutants`) names the property that fails when it replaces `X`.

### AtomicUpload, ParallelUpload

`AtomicUpload` is the promise of an upload, of a buffer or of a file: the blob
changes at most once, from old to new, and the caller is told at most once.
"unknown" is the outcome of a commit whose answer was an error; then the blob
may still change. The buffer upload implements it with its liveness, the file
upload its safety only (it can hang, section 7).

`ParallelUpload` is the code. `pc[w]` is the place of worker thread `w` in
`thread_upload_func`; every access of an atomic is an action of its own:

| Action | Code (`blob_client.cpp`) |
|---|---|
| `RejectTooBig`, `Prepare` | 229-236; the context, with `num_workers = parallelism` (282) |
| `SpawnWorker`, `SpawnThrows`, `ReturnFuture` | `std::async` in the loop 318-321, which may throw; 323 |
| `ClaimBlock` | `block_index.fetch_add(1)` (288) |
| `LeaveLoop`, `SendBlock` | the test of `i` and `failed` (289), the request (293) |
| `BlockSucceeds`, `BlockFails`, `RecordFailure`, `WriteReason` | the result (295), `failed.exchange(true)` (297), the plain write (299) |
| `Retire` | `num_workers.fetch_sub(1) == 1` (302) |
| `StartCommit`, `SkipCommit`, `CommitSucceeds`, `CommitFails`, `Publish` | 305-315 |

`ApplyPutBlock` and `ApplyPutBlockList` are the service: a request may be
applied at any time after it was sent, or never. A block list naming a block the
service lacks is refused.

`WriteReason` is not folded into `RecordFailure`: `failed_reason` is not atomic,
and the claim that nobody reads it while it is written is one of the properties.

### HandlePool

A critical section of `m_handles_mutex` is one action; `Sleep` is `cv.wait`,
which releases the mutex and sleeps in one step. `SpuriousWakeup` is allowed.
`ResetHandle`, `ReleaseHandle` and `DropRequestRef` are the destructor of
`CurlEasyRequest`, in its order: `curl_easy_reset`, `release_handle`, then the
members (the `shared_ptr` to the client). A thread may hold `MaxHeld` requests
at once: `get_blob_properties` leaves its request in a deferred future.
`DropClient` happens when no call is in progress on the client; the requests
then live on in unconsumed futures.

### FileUpload

`main`, `idx`, `task_list`, `result` and `errno` are the calling thread's;
`task[b]` is the place of the thread of block `b`. The permit's predicate
(`FindNoPermit`, under both mutexes) and the sleep (`FallAsleep`) are two
steps, because `ReleasePermit` notifies under `mutex` only and can come between
them. `CvMutexFree` says that a thread between the two still holds `cv_mutex`, so
that other waiters wait for it. When a thread cannot be started (`SpawnThrows`) the
locals are destroyed in reverse order, the mutexes before the futures: `Unwound`
lets the remaining threads go on with what is left, and the call ends when the
last has. Files up to 64 MB go through `PutSmallFile` (`put_blob`), which sends
an empty body when the file did not open; `final.whole` tells the two apart.

`AtomicOutcome` is the refinement of `AtomicUpload`: the blob is new once the
final request (the block list, or the whole of a small file) was applied, and
the outcome is told when the call has returned. An error of a final request
that was sent is "unknown", every other error a failure.

### RetryExecutor

One operation of each kind: a download to the caller's stream, a list whose
answer is parsed, an upload, an append. `SendAttempt` is `submit_helper` up to
`http->submit`, `ReadBody` .. `TransferFails` are libcurl's calls of the request's
callbacks, `AttemptFailed` and `AttemptSucceeded` the completion callback. The
stream variables carry positions and tokens, so that a rewind that is forgotten
shows. `Replace` is another client; `ApplyLate` a request that the service
applies after the client has given it up.

### AtomicDownload

The promise of both downloads: each piece of the data is what the blob held at one
moment of the call, and the caller learns at most once how the call ended. To the
file the blob is one piece, read when the first chunk is answered; to the buffer
each block is a piece, read when its range is answered. The two refinement
mappings (`AtomicOutcome` of each module) show the difference between the
operations: only the file is protected from a mixture, by its etags.

### ParallelDownload

The worker loop of `ParallelUpload` over ranged reads, without the commit. The
caller's buffer is in the model, cell by cell: a cell holds the version of the
blob its byte came from. `AttemptCut` writes part of a block and leaves the
worker at its request (the executor rewinds the stream and tries again);
`ReadSucceeds` writes what the current version has of the range, which may be
less than the range; `ReadFails` covers a range past the end. `Replace` is another
client: it puts a version of another length, and no version comes back.

### FileDownload

`main`, `first`, `offset` and `tasks` are the calling thread's (`first` is
`firstChunk.response()`), `task[o]` the thread of the range at offset `o`. The
file is a sequence of cells, as the buffer above; a write past its end leaves a
hole, `Truncated` is `ftruncate`. The file may exist before the call
(`Init`), an answer of 416 to the first chunk is an empty blob (`FirstEmpty`),
416 to another chunk a shorter one (`PartPastEnd`). `SpawnThrows` leads to
`Unwind`, which waits for the threads: `task_list` is destroyed before the catch
block runs, and the destructors of its futures wait.

### BlockMath

Its state machine has the names `CutInit`, `CutNext`, `CutSpec`, so that one proof
module, `RequestProofs`, can speak of it and of `SignedRequest`.

The three formulas that cut a length (`BufferBlock`, `DownloadBlock`,
`FileBlock`), the loops that walk the blocks, and the operations that send or ask
for everything at once (`SendWhole`, `SendStream`, `AppendStream`, `AskRange`).
`Mi`, `max_num_blocks` and `UnsignedInt` (2^32 in the code) are parameters, since
TLC's integers have 32 bits; the other limits keep the code's proportions to
them. `FileBlock` reads `min_block % 4*1024*1024` as C++ does, from left to right.
`Narrowed` is the cast to `unsigned int`, `Parsed` the reading of a
Content-Length header into one, `get_ms_range` the header's text with its two
special cases, `xsputn` the limit of the memory stream. A division by zero is a
stage of its own, `trapped`; a service that waits for announced bytes that never
come is the stage `short`.

### ErrnoClients

One call, of one of the twelve operations of the wrapper (`mode = "wrapper"`) or
of the operations of `adls_client` (`"errno"` or `"throw"`, by
`exception_enabled`), on a container, blob or directory of which only the number
of entries matters. `SendAttempt`, `Answered` and `Unanswered` are the request
with its retries; libcurl may set errno on its own at any of them
(`LibraryErrno`), which `CheckCode` undoes as `check_code` does. `Understood`
says what the parsers make of a body: bad XML is an empty list, a bad number or
JSON an exception. `WrapperSuccess` and `WrapperFailure` are the tails of the
wrapper's operations, `Adapt` the adaptor, `ExistsAnswer`, `NextPage`,
`DeleteDirectoryReturns`, `ReadHeaders`, `ReturnResponse` what an operation does
after it. `Meddle` is another client. Two history variables, `seen` and `told`,
remember what the service had and what it said last.

* `OutcomeIsTold` = `SuccessIsTold` (success is reported exactly when the service
  told this call that all is done) and `ToldIsReal` (what is reported was true in
  the service at some moment of the call) and `ValueIsAnswer` (data come from an
  answer to this call, an error code from its last attempt).
* `Returns`: the call returns, or waits in one transfer of an ADLS request, whose
  builders set no timeout.

Operations that differ only in the request they send are one.
`list_containers_segmented` and `container_exists` differ from their siblings in
the code, and do in the model: the first leaves errno as the transfer left it,
the second reports every failure as `unknown_error`.

### SignedRequest

`build_request` of every operation is a record (`put_blob`, `get_blob`, ... 28 in
all): its verb, its query, its Content-Length, its x-ms headers before and after
the date, its metadata. `Metadata` is any set of sequences of names and values,
`LowerCase` and `NameOrder` stand for the service's reading of a name and its
alphabet. The attempt is walked step by step, `BuildRequest`,
`ReadClock`, `GmTime`, `FormatDay`, `FormatTime`, `FinishHeaders`, `SignWith*`,
because threads build requests side by side and `std::gmtime` returns one buffer
for all. The request is kept twice, as in the code: `request[c].slist` is what is
sent, `headers[c]` what a shared key signs. `Accepts` is the service: it computes
the string to sign from what it receives.

* `SignedAsSent`: under a shared key the signature is right exactly when the
  caller's data is `WellFormed`, for every builder and on every attempt.
* `AttemptIsCurrent`: no credential, header or date of the attempt before; the
  date is a moment of the attempt unless another thread formatted one meanwhile.

## 4. The runs

| Run | Instance | Distinct states | Shows |
|---|---|---|---|
| `parallel_upload` | 3 workers, 2 blocks | 16 thousand | complete commit, truthful verdict, workers in order, quiet when ready, and `AtomicOutcome` (refinement with liveness) |
| `handle_pool` | 3 threads, 4 handles, 2 requests held at once, 2 taken in all | 209 thousand | conservation and destruction, cleanliness, no lost wake-up, `EveryoneServed` |
| `file_upload` | 5 blocks, window of 3, 2 handles, 1 to 3 permits | 22 thousand | permits and buffers, commit, no thread left, `AtomicOutcome` (refinement, safety), and that a hang has one cause |
| `file_upload_hang` | the same | - | a finding: `Returns` fails |
| `file_upload_empty` | the same | - | a finding: `UploadedIsTheFile` fails |
| `retry_executor` | 2 tokens of data, up to 4 attempts | 60 thousand | delivery, no torn body, every attempt due and fresh, termination |
| `parallel_download` | 2 workers, 4 bytes in blocks of 2, versions of 5, 1 and 3 bytes, 1 cut | 58 thousand | success means every answer is in place, the reason of a failure, quiet when ready, `AtomicOutcome` (refinement of `AtomicDownload`, block by block), completion |
| `file_download` | chunks of 2, 2 downloaders, versions of 7, 3, 1 and 0 bytes, 2 cuts | 56 thousand | `AtomicOutcome` (refinement of `AtomicDownload`, the blob as one piece: one version in the file, truthful errno), bounded and collected threads, return |
| `block_math` | 4 bytes to the MiB, 5 blocks, an unsigned int of 1024 values, 4 paths and 2 kinds of ranges | 103 thousand | blocks tile the data, ranges ask for it; how far the limits can be missed |
| `block_math_zero` | the same | - | a finding: `DownloadHasBlocks` fails |
| `errno_clients` | 3 entries, pages of 1, statuses 403 and 500, 1 step of another client | 17 thousand | `OutcomeIsTold`, return |
| `signed_request` | 2 threads, 2 attempts, 2 ticks, 2 tokens, every builder and credential, metadata of up to 2 pairs | 480 thousand | what is signed is what is sent; each attempt is current |

Why these bounds are enough:

* Three workers are one that commits and two that can overlap before it; with
  fewer blocks than workers some worker claims only a number past the end, and
  with more attempts than blocks every worker runs the counter past it. The proofs
  of section 6 cover every other size.
* Four handles and three threads of which each can hold two requests: the
  smallest pool in which `Threads * (MaxHeld - 1) < Handles`, the condition under
  which threads that hold requests cannot starve each other. With three handles
  three threads that hold one each and ask for a second wait for ever. The module
  states the condition as an assumption of the run, not of the pool: the code
  does not enforce it.
* Five blocks through a window of three make the loop collect while it starts;
  one and two permits make threads sleep, three leave them waiting for handles.
* Two tokens allow a cut before, inside and after the data; the replacement is
  shorter than the original; four attempts are `max_retry_count` + 1.
* Four bytes in blocks of two, with versions that end past the last block, inside
  the first and inside the second: a range is answered in full, in part or not
  at all. Two workers are enough for one to be last while the other may still
  write.
* Seven bytes with chunks of two and two downloaders leave five: more than two
  chunks, so that the ranges grow, and odd, so that the last is shorter. The
  other versions end in the first chunk, in the second and before any. Two cuts
  reach two different requests, or the same one twice.
* In `BlockMath` the lengths are all small ones and those around every multiple of
  the 4 MiB grain and of the grain times the number of blocks, to past the
  largest accepted; with 4 bytes to the MiB a length can fall between two. The
  offsets 0, 1 and 7 meet both special cases of `get_ms_range`; a parallelism of
  3 exceeds the smallest lengths; 1024 lies between a block and the longest
  lengths, as 2^32 does. The assumptions `max_num_blocks <= 8 * Mi` and
  `UnsignedInt > 104 * Mi` hold of the code's numbers.
* Three entries in pages of one make `delete_directory` send three requests,
  each with its retries; one refusal is final and one is retried. One step of
  another client falls between any two steps of the call.
* Two threads are enough for one to overwrite the buffer that another reads, two
  ticks for the two halves of a date to differ, two attempts and two tokens for
  the second to repeat what is left of the first. Either one thread runs any
  builder, or both put blocks (`Init` names this bound): the other builders format
  their date by the same code. Two pairs of metadata in one or two spellings of a
  name, with values that are blank, equal or different, are every way in which one
  pair can hide another.

`CHECK_DEADLOCK FALSE` is set for `HandlePool` (when all requests are made and
gone nothing is left to do), `FileUpload` (the call has returned, or sleeps for
ever, which is the subject of `HangsOnlyByLostWakeup` and of the finding),
`RetryExecutor` (the promise is fulfilled), `ParallelDownload` and `FileDownload`
(the download has ended), `BlockMath` (the data is cut), `ErrnoClients` (the call
returned) and `SignedRequest` (the calls are over). `ParallelUpload` has an
explicit stuttering step, `Finished`, so deadlock is checked there.

## 5. Fairness

* Threads that have been created are scheduled: weak fairness of each worker and of
  the caller. The service is never fair: it need not apply anything.
* A request that was sent is answered or fails: every blob request builder sets
  `set_absolute_timeout` or `set_data_rate_timeout`, which `CurlEasyRequest` gives
  to libcurl, and the retries are bounded (`retry_policy`). In `RetryExecutor`
  this is weak fairness of `Transfer` as a whole (any of its ends), so that no
  success is promised. The ADLS request builders set no timeout: in
  `ErrnoClients` weak fairness of an answer is limited to the other operations,
  and `Returns` allows those in `NoTimeout` to wait for ever.
* In `ErrnoClients` the calling thread computes on (`WF(Compute)`); the other
  client never has to do anything. `SignedRequest` and `BlockMath` state no
  fairness: their properties are about every state.
* In `ParallelDownload` and `FileDownload` a replacement never has to happen, nor
  does a cut attempt; a request that is not cut ends. Each cut is one of the bounded retries.
* In `HandlePool` a request that exists is destroyed in the end (the caller drops
  or consumes its future). A sleeper moves only when notified; spurious
  wake-ups are possible and never relied on.

## 6. Proofs

`ParallelUploadProofs` proves, for every `Parallelism >= 1` and every
`NumBlocks >= 0` (the only assumptions, both named in `ParallelUpload`):

| Theorem | Statement |
|---|---|
| `TypeCorrect` | `Safety => []TypeOK` |
| `CommitIsComplete` | the list is put only when all blocks are staged |
| `FutureIsTruthful` | what the promise holds is what happened |
| `WorkersStayInOrder` | commit, reason and promise are touched by one thread, no block is in two hands, a call that threw never commits |
| `ReadyMeansQuiet` | a ready future leaves no thread at work |
| `UploadIsAtomic` | `Safety => Abstract!Safety`: refinement of `AtomicUpload` |

They rest on one inductive invariant, `Inv`, whose parts are proved in turn
(`TypeStep`, `SpawnStep`, `CountStep`, ...), each step lemma split by action:

* `SpawnInv`: which threads exist, by the caller's place.
* `CountInv`: `num_workers` is the number of workers still in their loop, those
  not yet started included. This is where the code's choice to count every
  worker before it starts the first matters: `num_workers` reaches zero only
  after the last of *all* of them, and never when a thread could not be started.
* `CloseInv`: a worker at the commit or the promise is alone. It follows from
  the count: the worker that takes it from one to zero leaves `Active` empty
  (`ActiveMinusOne`, by the cardinality theorems of the library).
* `BlockInv`: every claimed number is acknowledged, in a worker's hands, or the
  upload has failed; a worker leaves the loop only past the last block or after
  a failure. With `CloseInv` nobody has a block in hand at the commit, so every
  block below the counter is staged, and the counter is past the last block.
* `ReasonInv`, `CommitInv`, `VerdictInv`: a failure without its reason has a
  worker about to write it (so the last worker, who is alone, finds it written);
  after the commit only the commit's own error can be the reason; the promise
  agrees with both.

None of the properties is inductive alone: `CommitOnlyComplete` says nothing of
the states from which the commit starts, `WorkersInOrder` nothing of the count.

`HandlePoolProofs` proves, for any finite set of handles, any finite set of
threads and any number of requests held:

| Theorem | Statement |
|---|---|
| `TypeCorrect` | `Safety => []TypeOK` |
| `HandlesAreConserved` | every handle is in the pool or in one request, until the client is destroyed with all of them back |
| `PoolIsClean` | a handle in the pool has been reset |
| `WakeupsAreKept` | no thread sleeps unnotified beside a handle that nobody has been woken for |

The invariant: the queue has no handle twice and none that a request holds
(`QueueInv`, `PlaceInv`), and the reference count of the client is the number of
requests plus the application's own (`LifeInv`), so that the last reference goes
after the last release. That no wake-up is lost is inductive by itself once
these hold: each release brings one handle *and* one notification.

`FileUploadProofs` proves, for every number of blocks, concurrency and permits:

| Theorem | Statement |
|---|---|
| `TypeCorrect` | `Safety => []TypeOK` |
| `ResourcesAreBounded` | permits are conserved, at most `parallel` blocks in flight, at most one buffer more than the concurrency |
| `CommitIsComplete` | the list is put only when every block was acknowledged, and names them in order |
| `NoTaskIsLeft` | no thread uses the locals of a call that commits, has returned or has thrown |
| `UploadIsAtomic` | `Spec => AtomicOutcome`: refinement of `AtomicUpload`'s safety |

The argument is the window (`WindowInv`): the uncollected threads are those of
the last blocks before `idx`, in order, so that every block below `Front` =
`idx - Len(task_list)` is collected. Buffers lie between `Front` and `idx`, which
bounds them (`BufferInv`); when the list is empty every block was collected, and
none of the answers was an error unless `result` says so (`ListInv`, `CallInv`).
The refinement (`AtomicStep`) needs of it that a call that ends without a final
request has an error that is neither of a final request (`CallInv`), and that
errno 0 means that it was applied (`ErrnoInv`): so a late application finds the
outcome pending or unknown.

`ParallelDownloadProofs` proves, for every parallelism, size, block size and set
of versions (the only assumption besides types: `"none"` is no version):

| Theorem | Statement |
|---|---|
| `TypeCorrect` | `Safety => []TypeOK` |
| `FutureIsTruthful` | a success means that every range was answered and its answer is in its place; a failure has its reason |
| `ReadyMeansQuiet` | nobody writes to the buffer once the future is ready |
| `DownloadIsAtomic` | `Safety => AtomicOutcome`: refinement of `AtomicDownload` with the blocks as pieces |

`SpawnInv`, `CountInv`, `CloseInv`, `BlockInv` are as in the upload. `WriterInv`
says that a block is written by the one worker that claimed it and only before it
is answered, so that what `DataInv` says of an answered block stays true while
others write: their blocks are apart (`BlocksApart`, with `BlockOfCell` the
arithmetic of the tiling).
For the refinement a worker that answers is the abstract read of its block
(`ReadStep`), and the one that publishes finds the buffer equal to what was read
(`BlockDelivered`). When a thread could not be started the promise stays as it is,
because the missing one is still counted (`Incomplete`).

`FileDownloadProofs` proves, from the types of the constants alone, for chunks
and versions of any length and any number of downloaders:

| Theorem | Statement |
|---|---|
| `TypeCorrect` | `Safety => []TypeOK`, which bounds the offsets at which threads start |
| `DownloadIsAtomic` | `Safety => AtomicOutcome`: refinement of `AtomicDownload` with the blob as one piece; with errno 0 the file is, byte for byte, what the blob was at one moment, EAGAIN means that it was replaced since |
| `ThreadsAreOwned` | at most `downloaders` threads are started, and none outlives the call |

That the threads are bounded is arithmetic: `offset` has moved by one chunk for
each of them, and `downloaders` chunks reach the end (`PlanInv`), although the
loop tests only the offset. Every byte between the first chunk and `offset` is in
the range of one thread (`CoverInv`), and a range that ended well holds bytes of
the version with the first chunk's etag (`FileInv`); an etag that differs is an
error, and the loop of the collection keeps the first one. When all are collected
without an error the file is that version (`FileIsWhole`), which is what was read:
the step that returns 0 is `AtomicDownload`'s `Succeed`.

Part 1 of `RequestProofs` proves of `BlockMath`, for all lengths and for all
constants that satisfy `BlockMathAssumption` (the code's numbers do):

| Theorem | Statement |
|---|---|
| `CutTypeCorrect` | `CutSpec => []CutTypeOK` |
| `BlocksAreTiled` | the blocks of all three formulas tile the data, the ranges ask for their blocks, with the exceptions that `BlocksTile` names |
| `MissIsBounded` | how far the number and the size of the blocks can miss the service's limits |

The quotient rounded up is the least multiplier that reaches the dividend
(`CeilIsLeast`); from it, the count of blocks reaches the end and a smaller one
does not (`CountInv`), which keeps `length - offset` from wrapping. The file's loop has
no count: that its block size times the number allowed reaches the end
(`FilePlan`) is proved from the formula (`FileBlockSize`), and that the last
block began inside the file then bounds their number (`FileInv`).

Part 2 of `RequestProofs` proves of `SignedRequest`, for any number of threads,
attempts, ticks and tokens, and for metadata of any length over any names (the
assumption: they are apart from the other headers, and `NameOrder` is total):

| Theorem | Statement |
|---|---|
| `TypeCorrect` | `Spec => []TypeOK` |
| `KeySignsWhatIsSent` | `SignedAsSent`: a shared key's signature is accepted exactly when the caller's data is `WellFormed` |
| `AttemptsAreCurrent` | `AttemptIsCurrent`: nothing of the attempt before, and no other thread's date unless they raced |

The invariant relates the two copies of a request: the lines of the http object
are those of this attempt, in the builder's order, and `ms_headers` holds of each
name the last value given (`LinesInv`, with `Reflects`). The lines of every
builder have one shape, constant headers around the date and the metadata
(`BuilderShape`, `Anatomy`), so that what the service reads can be told from the
metadata alone: it finds the key's values exactly when they are unambiguous
(`UnambiguousIsRead`, `ReadIsUnambiguous`). Where these need the first or the
last pair with a property, they take it by the order of the naturals
(`FirstExists`, `LastExists`) in place of an induction. `AuthorizationInv` and
`DateInv` say that a credential and a date come from this attempt, and that the
buffer of `gmtime` holds what this thread wrote unless another wrote since.

`Unambiguous` is exact: a blank value given before another in the same spelling
is replaced by it and does no harm, one given after it does; of two spellings
the one first in the order is kept.

`RetryExecutorProofs` proves, from `ContentAssumption` alone, for contents of any
length, any lengths announced (longer than the stream too) and any set of
statuses with 200 and 500 in it:

| Theorem | Statement |
|---|---|
| `TypeCorrect` | `Safety => []TypeOK`, which bounds the positions of the streams |
| `SuccessIsDelivered` | a download that reports success has put one whole answer into the caller's stream, a listing is parsed from one whole answer |
| `BlobIsWhole` | an upload leaves the old or the whole new content, an append adds the whole of the data, once at least on success |
| `AttemptsAreDue` | at most four attempts, none after an answer that a retry cannot change, each with its headers once |

The count of failed attempts is the number sent, less the one under way
(`CountInv`). What an attempt has sent is the beginning of the caller's data,
because the stream stands where the attempt is, and at its beginning before the
attempt, unless it has failed (`InputInv`): so a request received whole carries
the announced data. The blob then holds what n requests left, and n is at most
the number sent without those still under way or given up on (`BlobInv`); a late
one moves from the one to the other. `Appended` is defined by recursion over at
most four requests: it is unfolded case by case (`AppendedSteps`), where an
induction is out of reach. A write callback puts the next token of the answer
behind those delivered, at the stream's position, and behind that position the
stream holds what earlier attempts left of the same blob (`OutputInv`); the
rewind after a failure is what brings the position back to the beginning.

`ErrnoClientsProofs` proves, from `ErrnoClientsAssumption` (at least one entry, and
refusals with none of the statuses that the code tells apart):

| Theorem | Statement |
|---|---|
| `TypeCorrect` | `Safety => []TypeOK` |
| `CallerIsTold` | `OutcomeIsTold`: in both modes, for every operation, the caller is told what the service said to this call, and it was true |

What the operation ended with determines what the service said last
(`OutcomeInv`: 404 is "absent", 200 one of the two ends, and the continuation
header is there when there are more pages); errno or the exception is what became
of that (`ReportInv`); and what the service said held in one of the states seen
since the call began (`ServiceInv`), which the steps of other clients leave true
because `seen` only grows.

Only model-checked: every liveness property (the liveness half of the buffer
upload's `AtomicOutcome`, `EveryoneServed`, `HangsOnlyByLostWakeup`, `Terminates`,
`Completes`, `Returns`): fairness and ENABLED are beyond the prover. Every
invariant that a run checks is also the statement of a theorem.

## 7. Findings

* **A file upload can hang** (`file_upload_hang`). `blob_client_wrapper.cpp:499`
  gives the permit back and notifies while it holds `mutex`, but not `cv_mutex`,
  under which the waiter decides to sleep (484-492). A notification between the
  decision and the sleep is lost; if it was the last one, the thread sleeps with
  all permits free, and `task.get()` (522) waits for it for ever.
  `HangsOnlyByLostWakeup` shows that this is the only way the call can fail to
  return with at least one permit.
* **A file that does not open is uploaded as an empty blob** (`file_upload_empty`).
  `put_blob` (`blob_client_wrapper.cpp:301`) checks neither the stream nor its
  length: both positions are -1, their difference 0, and the request succeeds.
  `UploadedIsTheFile` fails; `AtomicOutcome` says what does hold.
* **A parallel download of few bytes divides by zero** (`block_math_zero`).
  `size / parallelism` (`blob_client.cpp:114`) is 0 for a size below the
  parallelism, stays 0 when it is rounded up to the grain, and is the divisor in
  line 118. The integration tests download megabytes.

What the properties that hold also record, where no document promises more:

* A retried download can keep the tail of an earlier answer: before a retry the
  output stream is only moved back (`storage_stream.h:61`), not cut, so that a
  blob replaced by a shorter one leaves bytes of the old content behind.
  `OkMeansDelivered` says that the answer is there from its first byte on.
* A buffer can be filled from two versions of a blob: the workers of
  `download_blob_to_buffer` compare no etags, as `download_blob_to_file` does.
  `VerdictIsTruthful` says that every range holds what one answer had of it.
* An accepted buffer may need one block too many (`blob_client.cpp:241` rounds the
  quotient down before it rounds it up to the grain: 50000 * 8 MiB + 1 bytes are
  cut into 50001 blocks), and a block of a file may be up to 4 MiB too large
  (`blob_client_wrapper.cpp:427`). `MissesByOneAtMost` bounds both.
* The first byte of a blob alone cannot be asked for: `get_ms_range` takes (0, 0)
  for no range (`RangeIsAsked`). A body of 4 GiB or more in one request is
  announced, and sent, modulo 2^32; an append announces it whole and sends less
  (`SideBySide`).
* `list_containers_segmented` of the wrapper does not set errno on success;
  a success is told from errno only because the transfer left it 0 there
  (`SuccessIsTold`). `container_exists` reports a missing container as
  `unknown_error`.
* A name of metadata given twice, a blank value, or a query value such as "%41"
  can make a shared key's signature wrong (`SignedAsSent` says exactly when: a blank
  value that is replaced by a later one does no harm), and a
  date can be mixed from those of two threads (`raced` in `AttemptIsCurrent`).

## 8. Limits

* The service is modelled from how the client uses it: Put Block, Put Block List,
  Put Blob, Append Block, Get Blob, and the statuses and continuations of the other
  operations, with answers that may be lost and effects that may be late. Leases,
  versions and access conditions are not modelled.
* Exceptions inside worker threads (allocation, malformed response headers) and the
  destruction of `std::async`'s shared state are left out; the creation of a thread
  that throws is modelled in all four transfers.
* Values of sizes are abstract in the concurrent modules: `NumBlocks`, `BlockSize`
  are parameters. The arithmetic that computes them is in `BlockMath`.
* That a downloaded file is one version and nothing more is on condition that it
  could be resized (otherwise `AtomicOutcome` says that it begins with it): the code
  ignores the result of `create_or_resize_file`. Writes are to a file that nobody
  else touches.
* `parallel = 0` and `parallelism = 0` are outside the runs: the code neither rejects
  nor survives them (listed under `hazards`).
* Characters of names and values are abstract: the index of a `char` above 127 into
  the tables of `utility.cpp` is listed as a hazard and not modelled.

Not modelled, because they keep no state and decide nothing that a property could
be about: the copying of response elements into property records, conditional
headers and leases in the builders, the XML text of a block list, the hash and
base64 functions, the endpoints of an account, the text of log lines. Vendored
code (`json.hpp` and `tinyxml2`, three quarters of the lines of the repository)
belongs to other projects; it appears as the body that parses or does not.
