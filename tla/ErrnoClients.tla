---------------------------- MODULE ErrnoClients ----------------------------
(***************************************************************************)
(* How one call of a client reports its outcome.                           *)
(*                                                                         *)
(*   mode "wrapper": blob_client_wrapper                                   *)
(*        (src/blob/blob_client_wrapper.cpp), which never throws and sets  *)
(*        errno;                                                           *)
(*   mode "errno" or "throw": adls_client (adls/src/adls_client.cpp) with  *)
(*        exception_enabled false or true.                                 *)
(*                                                                         *)
(* Each operation sends requests of its own through                        *)
(* async_executor::submit (include/executor.h), which retries;             *)
(* delete_directory sends one request for each page of the directory.  An  *)
(* operation acts on one thing of the service, a container, a blob or a    *)
(* directory, of which only the number of entries matters: 0 means that    *)
(* there is none.  The service, the network, and another client that       *)
(* touches the same thing are external.  upload_file_to_blob and           *)
(* download_blob_to_file are modelled in FileUpload and FileDownload.      *)
(***************************************************************************)
EXTENDS Integers

CONSTANTS Entries,     \* entries of a directory, at the start or put in by others
          PageSize,    \* entries that one request deletes
          Refusals,    \* statuses with which the service refuses any request
          MaxMeddles   \* bound: how often another client steps in

ASSUME ErrnoClientsAssumption ==
    /\ Entries \in Nat \ {0} /\ PageSize \in Nat \ {0} /\ MaxMeddles \in Nat
    /\ Refusals \subseteq (300..599) \ {400, 404, 409}

\* storage_errno.h
invalid_parameters == 1200
client_not_init == 1302
unknown_error == 1600

max_retry_count == 3

\* Codes of failures that come from no answer: of libcurl, of the library when
\* it sets errno on its own, and of an exception that is no storage_exception.
CurlFailed == 28
LibraryErrno == 11
OtherException == -1

WrapperOps ==
    {"create_container", "delete_container", "container_exists",
     "list_containers_segmented", "list_blobs_segmented", "put_blob",
     "upload_block_blob_from_stream", "download_blob_to_stream",
     "get_blob_property", "blob_exists", "delete_blob", "start_copy"}

\* An operation of adls_client stands for those that differ from it only in the
\* request they send: "file" for "directory", "set" for "append" and "flush".
AdlsOps ==
    {"create_filesystem", "delete_filesystem", "filesystem_exists",
     "get_filesystem_properties", "list_filesystems_segmented",
     "create_directory", "delete_directory", "directory_exists",
     "get_directory_properties", "set_directory_access_control",
     "get_directory_access_control", "list_paths_segmented", "move_file",
     "append_data_from_stream", "upload_file_from_stream",
     "download_file_to_stream", "delete_file"}

\* What the operations ask of the service.
Creates == {"create_container", "create_filesystem"}
Puts == {"put_blob", "upload_block_blob_from_stream", "start_copy",
         "create_directory", "move_file", "upload_file_from_stream"}
Deletes == {"delete_container", "delete_blob", "delete_filesystem",
            "delete_directory", "delete_file"}
AsksExists == {"container_exists", "blob_exists", "filesystem_exists",
               "directory_exists"}
Lists == {"list_containers_segmented", "list_blobs_segmented",
          "list_filesystems_segmented", "list_paths_segmented"}
NeedsContainer == {"list_blobs_segmented", "list_paths_segmented"}

\* Operations that check the names they are given, and those that read numbers
\* or JSON out of an answer, which may throw.
ChecksNames == WrapperOps \ {"list_containers_segmented",
    "download_blob_to_stream", "get_blob_property", "blob_exists"}
Parses == {"get_blob_property", "blob_exists", "directory_exists",
           "get_directory_properties", "list_paths_segmented"}

VARIABLES
    mode, op,
    ready,      \* wrapper: is_valid()
    named,      \* the names given are not empty
    pc,         \* "call", "submit", "wait", "returned", "adapted" or "done"
    errno,      \* of the calling thread
    thrown,     \* 0, the code of a storage_exception, or OtherException
    value,      \* what the caller gets: "none", "data", "empty", "true", "false"
    attempts,   \* attempts of the current request
    outcome,    \* of the current request: 200, its error code, or OtherException
    parsed,     \* the value in that outcome
    headers,    \* m_response_headers: "none", "plain", or "more" with a
                \* continuation
    token,      \* the request carries a continuation
    size,       \* service: number of entries of the thing
    meddles,    \* service: how often another client stepped in
    seen,       \* history: the sizes since the call began
    told        \* history: what the service said last: "nothing", "complete",
                \* "more", "absent" or "refused"

callVars == <<mode, op, ready, named>>
reportVars == <<errno, thrown, value>>
requestVars == <<attempts, outcome, parsed, headers, token>>
serviceVars == <<size, meddles, seen, told>>
vars == <<callVars, pc, reportVars, requestVars, serviceVars>>

Sizes == IF op = "delete_directory" THEN 0..Entries ELSE {0, 1}

\* errno is what an earlier call of the thread left there.
Init ==
    /\ \/ mode = "wrapper" /\ op \in WrapperOps /\ ready \in BOOLEAN /\ named \in BOOLEAN
       \/ mode \in {"errno", "throw"} /\ op \in AdlsOps /\ ready = TRUE /\ named = TRUE
    /\ pc = "call"
    /\ errno \in {0, 404}
    /\ thrown = 0
    /\ value = "none"
    /\ attempts = 0
    /\ outcome = 0
    /\ parsed = "none"
    /\ headers = "none"
    /\ token = FALSE
    /\ size \in Sizes
    /\ meddles = 0
    /\ seen = {size}
    /\ told = "nothing"

-----------------------------------------------------------------------------
(* The wrapper's checks. *)

RejectClient ==
    /\ pc = "call"
    /\ ~ready
    /\ errno' = client_not_init
    /\ pc' = "done"
    /\ UNCHANGED <<callVars, thrown, value, requestVars, serviceVars>>

RejectNames ==
    /\ pc = "call"
    /\ ready
    /\ ~named /\ op \in ChecksNames
    /\ errno' = invalid_parameters
    /\ pc' = "done"
    /\ UNCHANGED <<callVars, thrown, value, requestVars, serviceVars>>

Begin ==
    /\ pc = "call"
    /\ ready
    /\ named \/ op \notin ChecksNames
    /\ pc' = "submit"
    /\ UNCHANGED <<callVars, reportVars, requestVars, serviceVars>>

-----------------------------------------------------------------------------
(* One request of the call: submit_helper, perform and the answer. *)

\* A definition named X_Y is a faulty variant of X: no behaviour uses it, it
\* only serves to see a property fail.

\* http->reset()
ClearedHeaders_Not == headers
ClearedHeaders == "none"

\* check_code: "CURL sometimes sets errno internally"
CheckCode(ok, e) == IF ok THEN 0 ELSE e

\* Every curl_easy_setopt before the transfer goes through check_code too.
SendAttempt ==
    /\ pc = "submit"
    /\ headers' = ClearedHeaders
    /\ errno' = CheckCode(TRUE, errno)
    /\ attempts' = attempts + 1
    /\ pc' = "wait"
    /\ UNCHANGED <<callVars, thrown, value, outcome, parsed, token, serviceVars>>

\* What the service may answer: a status, what is left of the thing, and whether
\* the answer carries a continuation.
Reply(c, left, more) == [code |-> c, size |-> left, more |-> more]
Smaller == IF size > PageSize THEN size - PageSize ELSE 0
Replies ==
    {Reply(c, size, FALSE) : c \in Refusals}
    \cup CASE ~named -> {Reply(400, size, FALSE)}
           [] named /\ op \in Creates ->
                  {IF size = 0 THEN Reply(201, 1, FALSE) ELSE Reply(409, size, FALSE)}
           [] named /\ op \in Puts -> {Reply(201, 1, FALSE)}
           [] named /\ op \in Deletes ->
                  IF size = 0
                  THEN {Reply(404, 0, FALSE)} \cup
                       (IF token THEN {Reply(200, 0, FALSE)} ELSE {})
                  ELSE {Reply(202, Smaller, Smaller > 0)}
           [] named /\ op \in Lists ->
                  {Reply(200, size, m) : m \in BOOLEAN} \cup
                  (IF size = 0 /\ op \in NeedsContainer
                   THEN {Reply(404, 0, FALSE)} ELSE {})
           [] OTHER ->
                  {IF size = 0 THEN Reply(404, 0, FALSE) ELSE Reply(200, size, FALSE)}

Unsuccessful(c) == ~(200 <= c /\ c < 300)
Retryable(c) == c = 408 \/ ~((300 <= c /\ c < 500) \/ c = 501 \/ c = 505)

\* submit_helper is called again, resets the request, and asks the policy.
MayRetry_Always(result) == TRUE
MayRetry(result) == attempts <= max_retry_count /\ Retryable(result)

AttemptFailed(code, result) ==
    /\ headers' = ClearedHeaders
    /\ IF MayRetry(result)
       THEN pc' = "submit" /\ UNCHANGED <<outcome, parsed>>
       ELSE pc' = "returned" /\ outcome' = code /\ parsed' = "none"

\* A body that no parser understands: XML that does not parse is an empty list,
\* a number or JSON that does not parse throws, out of submit or of the future.
Understood ==
    \/ outcome' = 200 /\ parsed' = "data"
    \/ op \in Lists /\ outcome' = 200 /\ parsed' = "empty"
    \/ op \in Parses /\ outcome' = OtherException /\ parsed' = "none"

Applied(r) == size' = r.size /\ seen' = seen \cup {r.size}

Answered ==
    /\ pc = "wait"
    /\ \E r \in Replies, e \in {errno, LibraryErrno} :
          /\ Applied(r)
          /\ errno' = CheckCode(TRUE, e)
          /\ IF Unsuccessful(r.code)
             THEN /\ told' = IF r.code = 404 THEN "absent" ELSE "refused"
                  /\ AttemptFailed(r.code, r.code)
             ELSE /\ told' = IF r.more /\ op \in Deletes THEN "more" ELSE "complete"
                  /\ headers' = IF r.more \/ headers = "more" THEN "more" ELSE "plain"
                  /\ Understood
                  /\ pc' = "returned"
    /\ UNCHANGED <<callVars, thrown, value, attempts, token, meddles>>

\* No connection, a timeout, a connection closed: the request was applied or not.
Unanswered ==
    /\ pc = "wait"
    /\ \/ \E r \in Replies : Applied(r)
       \/ UNCHANGED <<size, seen>>
    /\ \E e \in {errno, LibraryErrno} : errno' = CheckCode(FALSE, e)
    /\ told' = "nothing"
    /\ AttemptFailed(CurlFailed, 503)
    /\ UNCHANGED <<callVars, thrown, value, attempts, token, meddles>>

\* Another client, or a request that was given up on, creates, fills or deletes
\* the thing.
Meddle ==
    /\ pc # "done"
    /\ meddles < MaxMeddles
    /\ meddles' = meddles + 1
    /\ \E n \in Sizes \ {size} : Applied([size |-> n])
    /\ UNCHANGED <<callVars, pc, reportVars, requestVars, told>>

-----------------------------------------------------------------------------
(* What the wrapper makes of the outcome of its only request. *)

Succeeded == outcome = 200

\* list_containers_segmented leaves errno as the transfer left it.
WrapperSuccess ==
    /\ pc = "returned" /\ mode = "wrapper"
    /\ Succeeded
    /\ errno' = IF op = "list_containers_segmented" THEN errno ELSE 0
    /\ value' = IF op \in AsksExists THEN "true" ELSE parsed
    /\ pc' = "done"
    /\ UNCHANGED <<callVars, thrown, requestVars, serviceVars>>

\* container_exists looks only at the properties, which are not valid.
WrapperFailure ==
    /\ pc = "returned" /\ mode = "wrapper"
    /\ ~Succeeded
    /\ errno' = IF op = "container_exists" \/ outcome = OtherException
                THEN unknown_error ELSE outcome
    /\ value' = IF op \in AsksExists THEN "false" ELSE "none"
    /\ pc' = "done"
    /\ UNCHANGED <<callVars, thrown, requestVars, serviceVars>>

-----------------------------------------------------------------------------
(* blob_client_adaptor, and what each operation does after it. *)

Adapt ==
    /\ pc = "returned" /\ mode # "wrapper"
    /\ IF mode = "throw"
       THEN thrown' = (IF Succeeded THEN 0 ELSE outcome) /\ UNCHANGED errno
       ELSE /\ errno' = CASE Succeeded -> 0
                          [] outcome = OtherException -> unknown_error
                          [] OTHER -> outcome
            /\ UNCHANGED thrown
    /\ pc' = "adapted"
    /\ UNCHANGED <<callVars, value, requestVars, serviceVars>>

success == ~(mode = "errno" /\ errno # 0)

\* The exception leaves the operation.
Rethrow ==
    /\ pc = "adapted"
    /\ thrown # 0
    /\ ~(op \in AsksExists /\ thrown = 404)
    /\ pc' = "done"
    /\ UNCHANGED <<callVars, reportVars, requestVars, serviceVars>>

\* filesystem_exists, directory_exists, file_exists: a 404 is an answer.
ExistsAnswer ==
    /\ pc = "adapted"
    /\ op \in AsksExists
    /\ thrown \in {0, 404}
    /\ value' = IF Succeeded THEN "true" ELSE "false"
    /\ thrown' = 0
    /\ errno' = IF ~success /\ errno = 404 THEN 0 ELSE errno
    /\ pc' = "done"
    /\ UNCHANGED <<callVars, requestVars, serviceVars>>

\* delete_directory asks for the next page with the same request object.
NextPage ==
    /\ pc = "adapted"
    /\ op = "delete_directory"
    /\ thrown = 0 /\ success
    /\ headers = "more"
    /\ token' = TRUE
    /\ attempts' = 0
    /\ pc' = "submit"
    /\ UNCHANGED <<callVars, reportVars, outcome, parsed, headers, serviceVars>>

LastPage_Any == pc = "adapted"
LastPage == pc = "adapted" /\ (~success \/ headers # "more")

DeleteDirectoryReturns ==
    /\ op = "delete_directory"
    /\ thrown = 0
    /\ LastPage
    /\ pc' = "done"
    /\ UNCHANGED <<callVars, reportVars, requestVars, serviceVars>>

\* get_directory_access_control and get_file_access_control read the headers of
\* the answer, list_paths_segmented reads the continuation whatever happened.
ReadHeaders ==
    /\ pc = "adapted"
    /\ op \in {"get_directory_access_control", "list_paths_segmented"}
    /\ thrown = 0
    /\ value' = IF op = "list_paths_segmented" THEN parsed
                ELSE IF success /\ headers # "none" THEN "data" ELSE "none"
    /\ token' = IF op = "list_paths_segmented" THEN headers = "more" ELSE token
    /\ pc' = "done"
    /\ UNCHANGED <<callVars, errno, thrown, attempts, outcome, parsed, headers,
                   serviceVars>>

ReturnResponse ==
    /\ pc = "adapted"
    /\ op \notin AsksExists \cup {"delete_directory", "list_paths_segmented",
                                  "get_directory_access_control"}
    /\ thrown = 0
    /\ value' = parsed
    /\ pc' = "done"
    /\ UNCHANGED <<callVars, errno, thrown, requestVars, serviceVars>>

-----------------------------------------------------------------------------

Compute == \/ RejectClient \/ RejectNames \/ Begin \/ SendAttempt
           \/ WrapperSuccess \/ WrapperFailure
           \/ Adapt \/ Rethrow \/ ExistsAnswer \/ NextPage
           \/ DeleteDirectoryReturns \/ ReadHeaders \/ ReturnResponse

Next == Compute \/ Answered \/ Unanswered \/ Meddle

\* The builders of blob requests call set_absolute_timeout or set_data_rate_
\* timeout; those under adls/src call neither.
NoTimeout ==
    {"create_directory", "delete_directory", "set_directory_access_control",
     "get_directory_access_control", "list_paths_segmented", "move_file",
     "append_data_from_stream"}

\* The calling thread runs, and libcurl ends a transfer that has a timeout.
Safety == Init /\ [][Next]_vars
Spec ==
    /\ Safety
    /\ WF_vars(Compute)
    /\ WF_vars(op \notin NoTimeout /\ (Answered \/ Unanswered))

-----------------------------------------------------------------------------

\* The values each variable takes.
TypeOK ==
    /\ pc \in {"call", "submit", "wait", "returned", "adapted", "done"}
    /\ op \in IF mode = "wrapper" THEN WrapperOps ELSE AdlsOps
    /\ errno \in {0, LibraryErrno, CurlFailed, invalid_parameters,
                  client_not_init, unknown_error, 400, 404, 409} \cup Refusals
    /\ mode # "throw" => thrown = 0
    /\ attempts \in 0..(max_retry_count + 1)
    /\ headers \in {"none", "plain", "more"}
    /\ size \in Sizes /\ size \in seen /\ seen \subseteq Sizes

ReportsSuccess == IF mode = "throw" THEN thrown = 0 ELSE errno = 0

\* An answer that could not be understood did arrive.
Misunderstood == outcome = OtherException

\* errno is 0, or nothing is thrown, exactly when the service told this very call
\* that its work is complete, through every retry and every page: a stale errno
\* of an earlier call or of libcurl does not count, nor does a page that is not
\* the last.  For adls_client's `exists', that there is nothing is an answer too;
\* for the wrapper's, it is an error (404, or unknown_error).
SuccessIsTold ==
    pc = "done" =>
        (ReportsSuccess <=>
            /\ ~Misunderstood
            /\ \/ told = "complete"
               \/ told = "absent" /\ op \in AsksExists /\ mode # "wrapper")

\* What the caller is told held in the service during the call: what it deleted
\* was gone, what it created was there, what exists existed.
ToldIsReal ==
    pc = "done" /\ ReportsSuccess =>
        /\ op \in Deletes \/ value = "false" => 0 \in seen
        /\ op \in Creates \cup Puts \/ value = "true" => seen # {0}

\* A value that is not empty comes from a successful answer to this call; a
\* failure gives none, and the code reported is that of the last attempt.
ValueIsAnswer ==
    pc = "done" =>
        /\ value \in {"data", "true"} => told = "complete" /\ ReportsSuccess
        /\ ~ReportsSuccess => value \in {"none", "false"}
        /\ ~ReportsSuccess /\ outcome \notin {0, OtherException} =>
               (IF mode = "throw" THEN thrown ELSE errno)
                   \in {outcome} \cup (IF op = "container_exists"
                                       THEN {unknown_error} ELSE {})

OutcomeIsTold == SuccessIsTold /\ ToldIsReal /\ ValueIsAnswer

\* The call returns, whatever the network does, unless it waits forever in one
\* transfer that has no timeout.  delete_directory returns because every page it
\* is told of leaves fewer entries.
Returns == <>(pc = "done") \/ (op \in NoTimeout /\ <>[](pc = "wait"))
=============================================================================
