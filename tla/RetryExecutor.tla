---------------------------- MODULE RetryExecutor ----------------------------
(***************************************************************************)
(* One operation of the client: async_executor::submit_helper              *)
(* (include/executor.h) with its retry policy (include/retry.h,            *)
(* src/utility.cpp) and the CurlEasyRequest it drives                      *)
(* (include/http/libcurl_http_client.h, src/http/libcurl_http_client.cpp). *)
(* The same request object and the same caller's streams serve every       *)
(* attempt; submit is synchronous, and its callback calls submit_helper    *)
(* again after a failure.                                                  *)
(*                                                                         *)
(* libcurl, the network and the service are external: an attempt may fail  *)
(* at any point, a request that was received whole may be applied whether  *)
(* or not its answer arrives, even after the client gave up on it, and the *)
(* blob may be replaced by someone else between attempts.                  *)
(*                                                                         *)
(* Contents are sequences of tokens; one read or write callback moves one. *)
(***************************************************************************)
EXTENDS Integers, Sequences

CONSTANTS Tokens,     \* what contents are made of
          Source,     \* what the caller's input stream holds
          Declared,   \* content lengths the caller may announce
          Original,   \* the blob's content at the start
          Other,      \* the content someone else may replace it with
          Codes       \* statuses of final answers, 200 among them

Ops == {"download", "list", "upload", "append"}

ASSUME ContentAssumption ==
    /\ {Source, Original, Other} \subseteq Seq(Tokens)
    /\ Declared \subseteq Nat
    /\ {200, 500} \subseteq Codes /\ Codes \subseteq 200..599

max_retry_count == 3

VARIABLES
    op,         \* what the request does
    policy,     \* "retry_policy" or "no_retry_policy"
    pc,         \* where submit_helper, perform and the callback are
    numbers,    \* retry->numbers(): failed attempts
    result,     \* retry->result(): status of the last failed attempt
    promise,    \* "unset", "ok" or "error"
    attempts,   \* attempts sent
    slist,      \* copies of the request's headers in m_slist
    responses,  \* attempts whose headers are in m_response_headers
    m_code,     \* status of the last status line
    writer,     \* CURLOPT_WRITEFUNCTION: "write" or "error"
    curl,       \* what curl_easy_perform returned: "ok" or "failed"
    input,      \* caller's input stream, with m_input_content_length
    body,       \* what this attempt has sent of it
    output,     \* caller's output stream: content, position and badbit
    errors,     \* m_error_stream
    answer,     \* what the service still has to send of its answer
    served,     \* the whole data of that answer
    blob,       \* service: the content of the blob
    late        \* service: requests given up on that it may still apply

clientVars == <<op, policy, numbers, result, promise>>
requestVars == <<attempts, slist, responses, m_code, writer, curl>>
streamVars == <<input, body, output, errors>>
serviceVars == <<answer, served, blob, late>>
vars == <<pc, clientVars, requestVars, streamVars, serviceVars>>

Answer(c, data) == [code |-> c, data |-> data]
NoAnswer == Answer(0, <<>>)

Init ==
    /\ op \in Ops
    /\ policy \in {"retry_policy", "no_retry_policy"}
    /\ pc = "submit"
    /\ numbers = 0
    /\ result = 0
    /\ promise = "unset"
    /\ attempts = 0
    /\ slist = 0
    /\ responses = {}
    /\ m_code = 0
    /\ writer = "write"
    /\ curl = "ok"
    /\ \E n \in IF op \in {"upload", "append"} THEN Declared ELSE {0} :
           input = [pos |-> 0, read_pos |-> 0, fail |-> FALSE, length |-> n]
    /\ body = <<>>
    /\ output = [data |-> <<>>, pos |-> 0, bad |-> FALSE]
    /\ errors = <<>>
    /\ answer = NoAnswer
    /\ served = <<>>
    /\ blob = Original
    /\ late = 0

\* A definition named X_Y is a faulty variant of X: no behaviour uses it, it
\* only serves to see a property fail.

\* unsuccessful and retryable (utility)
Unsuccessful(c) == ~(200 <= c /\ c < 300)
Retryable(c) == c = 408 \/ ~((300 <= c /\ c < 500) \/ c = 501 \/ c = 505)

\* retry_policy::evaluate and no_retry_policy::evaluate
ShouldRetry_OneMore ==
    /\ policy = "retry_policy"
    /\ numbers <= max_retry_count + 1
    /\ Retryable(result)
ShouldRetry ==
    /\ policy = "retry_policy"
    /\ numbers <= max_retry_count
    /\ Retryable(result)

\* The data of the request: what it announces of the input stream.
Announced == SubSeq(Source, 1, input.length)

\* What becomes of the blob when the service applies a request.
Effect(data) == CASE op = "upload" -> data
                  [] op = "append" -> blob \o data
                  [] OTHER -> blob

-----------------------------------------------------------------------------
(* submit_helper *)

\* http->reset(); set_error_stream(...); build_request(...)
Rebuild_KeepsHeaders ==
    /\ slist' = slist + 1
    /\ responses' = responses
    /\ errors' = <<>>
Rebuild ==
    /\ slist' = 1
    /\ responses' = {}
    /\ errors' = <<>>

\* http->submit(...): perform sets WRITEFUNCTION and starts the transfer
SendAttempt ==
    /\ pc = "submit"
    /\ numbers = 0 \/ ShouldRetry
    /\ Rebuild
    /\ attempts' = attempts + 1
    /\ writer' = "write"
    /\ body' = <<>>
    /\ answer' = NoAnswer
    /\ pc' = "send"
    /\ UNCHANGED <<clientVars, m_code, curl, input, output, served, blob, late>>

\* promise->set_value(*outcome)
ReportFailure_Silent ==
    /\ pc = "submit"
    /\ numbers # 0 /\ ~ShouldRetry
    /\ Rebuild
    /\ pc' = "done"
    /\ UNCHANGED <<clientVars, attempts, m_code, writer, curl, input, body,
                   output, serviceVars>>
ReportFailure ==
    /\ pc = "submit"
    /\ numbers # 0 /\ ~ShouldRetry
    /\ Rebuild
    /\ promise' = "error"
    /\ pc' = "done"
    /\ UNCHANGED <<op, policy, numbers, result, attempts, m_code, writer, curl,
                   input, body, output, serviceVars>>

-----------------------------------------------------------------------------
(* perform: libcurl calls read, header_callback, write and error. *)

HasInput == op \in {"upload", "append"}

\* CURLOPT_INFILESIZE: libcurl asks for so many bytes and no more.
WantsBody == HasInput /\ Len(body) < input.length

\* read: at most what is left of m_input_content_length.  A stream that ends
\* before that, or that failed before, aborts the transfer.
ReadBody ==
    /\ pc = "send"
    /\ WantsBody
    /\ ~input.fail /\ input.pos < Len(Source)
    /\ input.read_pos < input.length
    /\ body' = Append(body, Source[input.pos + 1])
    /\ input' = [input EXCEPT !.pos = @ + 1, !.read_pos = @ + 1]
    /\ UNCHANGED <<pc, clientVars, requestVars, output, errors, serviceVars>>

ReadAborts ==
    /\ pc = "send"
    /\ WantsBody
    /\ input.fail \/ input.pos = Len(Source)
    /\ input' = [input EXCEPT !.fail = TRUE]
    /\ curl' = "failed"
    /\ pc' = "callback"
    /\ UNCHANGED <<clientVars, attempts, slist, responses, m_code, writer,
                   body, output, errors, serviceVars>>

RequestSent ==
    /\ pc = "send"
    /\ ~WantsBody
    /\ pc' = "wait"
    /\ UNCHANGED <<clientVars, requestVars, streamVars, serviceVars>>

\* header_callback on a status line: m_code, and the switch to the error stream
\* for the rest of the attempt.  An operation whose answer is parsed switches on
\* every status: async_executor<RESPONSE_TYPE> reads the answer back from there.
Switches(c) == op = "list" \/ Unsuccessful(c)
StatusLine(c) ==
    /\ m_code' = c
    /\ writer' = IF Switches(c) THEN "error" ELSE writer

\* A status line before the final one (1xx, or a proxy's).
InterimStatus ==
    /\ pc = "wait"
    /\ StatusLine(100)
    /\ UNCHANGED <<pc, clientVars, attempts, slist, responses, curl,
                   streamVars, serviceVars>>

\* The final status line and the headers.
FinalHeaders ==
    /\ pc = "head"
    /\ StatusLine(answer.code)
    /\ responses' = responses \cup {attempts}
    /\ pc' = "receive"
    /\ UNCHANGED <<clientVars, attempts, slist, curl, streamVars, serviceVars>>

Put(out, x) ==
    IF out.bad THEN out
    ELSE [out EXCEPT !.pos = @ + 1,
                     !.data = IF out.pos < Len(@)
                              THEN [@ EXCEPT ![out.pos + 1] = x]
                              ELSE Append(@, x)]

\* write or error: the caller's stream, or m_error_stream
ReceiveData ==
    /\ pc = "receive"
    /\ answer.data # <<>>
    /\ IF writer = "write"
       THEN output' = Put(output, Head(answer.data)) /\ UNCHANGED errors
       ELSE errors' = Append(errors, Head(answer.data)) /\ UNCHANGED output
    /\ answer' = [answer EXCEPT !.data = Tail(@)]
    /\ UNCHANGED <<pc, clientVars, requestVars, input, body, served, blob, late>>

\* The caller's stream goes bad (a full disk); write does not look at it.
OutputGoesBad ==
    /\ pc = "receive"
    /\ op = "download"
    /\ output' = [output EXCEPT !.bad = TRUE]
    /\ UNCHANGED <<pc, clientVars, requestVars, input, body, errors, serviceVars>>

TransferEnds ==
    /\ pc = "receive"
    /\ answer.data = <<>>
    /\ curl' = "ok"
    /\ pc' = "callback"
    /\ UNCHANGED <<clientVars, attempts, slist, responses, m_code, writer,
                   streamVars, serviceVars>>

\* No connection, a timeout, a connection closed: at any point.
TransferFails ==
    /\ pc \in {"send", "wait", "head", "receive"}
    /\ curl' = "failed"
    /\ late' = IF pc = "wait" /\ HasInput THEN late + 1 ELSE late
    /\ pc' = "callback"
    /\ UNCHANGED <<clientVars, attempts, slist, responses, m_code, writer,
                   streamVars, answer, served, blob>>

Transfer == \/ ReadBody \/ ReadAborts \/ RequestSent \/ FinalHeaders
            \/ ReceiveData \/ TransferEnds \/ TransferFails

-----------------------------------------------------------------------------
(* The callback of submit. *)

Failed == curl # "ok" \/ Unsuccessful(m_code)

\* m_input_stream.reset() and m_output_stream.reset(): a stream that failed
\* does not seek.
RewindInput == [input EXCEPT !.pos = IF input.fail THEN @ ELSE 0, !.read_pos = 0]
RewindOutput == [output EXCEPT !.pos = IF output.bad THEN @ ELSE 0]

AddResult ==
    /\ numbers' = numbers + 1
    /\ result' = IF curl = "ok" THEN m_code ELSE 503

AttemptFailed_NoOutputRewind ==
    /\ pc = "callback"
    /\ Failed
    /\ AddResult
    /\ input' = RewindInput
    /\ pc' = "submit"
    /\ UNCHANGED <<op, policy, promise, requestVars, body, output, errors,
                   serviceVars>>
AttemptFailed_NoInputRewind ==
    /\ pc = "callback"
    /\ Failed
    /\ AddResult
    /\ input' = [input EXCEPT !.read_pos = 0]
    /\ output' = RewindOutput
    /\ pc' = "submit"
    /\ UNCHANGED <<op, policy, promise, requestVars, body, errors, serviceVars>>
AttemptFailed ==
    /\ pc = "callback"
    /\ Failed
    /\ AddResult
    /\ input' = RewindInput
    /\ output' = RewindOutput
    /\ pc' = "submit"
    /\ UNCHANGED <<op, policy, promise, requestVars, body, errors, serviceVars>>

AttemptSucceeded ==
    /\ pc = "callback"
    /\ ~Failed
    /\ promise' = "ok"
    /\ pc' = "done"
    /\ UNCHANGED <<op, policy, numbers, result, requestVars, streamVars,
                   serviceVars>>

-----------------------------------------------------------------------------
(* The service (external). *)

\* It answers a request: applied and confirmed, applied but answered with an
\* error, or refused.
Serve ==
    /\ pc = "wait"
    /\ \/ /\ answer' = Answer(200, IF HasInput THEN <<>> ELSE blob)
          /\ blob' = Effect(body)
       \/ /\ answer' = Answer(500, <<"error">>)
          /\ blob' = Effect(body)
       \/ \E c \in Codes :
              /\ Unsuccessful(c)
              /\ answer' = Answer(c, <<"error">>)
              /\ UNCHANGED blob
    /\ served' = answer'.data
    /\ pc' = "head"
    /\ UNCHANGED <<clientVars, requestVars, streamVars, late>>

\* A request whose sender gave up on it is applied after all.
ApplyLate ==
    /\ late > 0
    /\ late' = late - 1
    /\ blob' = Effect(Announced)
    /\ UNCHANGED <<pc, clientVars, requestVars, streamVars, answer, served>>

\* Someone else replaces the blob (or the list) that is being read, once.
Replace ==
    /\ ~HasInput
    /\ blob = Original
    /\ pc # "done"
    /\ blob' = Other
    /\ UNCHANGED <<pc, clientVars, requestVars, streamVars, answer, served, late>>

-----------------------------------------------------------------------------

Client == SendAttempt \/ ReportFailure \/ AttemptFailed \/ AttemptSucceeded

Next == Client \/ Transfer \/ InterimStatus \/ OutputGoesBad
        \/ Serve \/ ApplyLate \/ Replace

\* libcurl ends every transfer: every request of the blob client sets a timeout.
Fairness == WF_vars(Client) /\ WF_vars(Transfer)

Safety == Init /\ [][Next]_vars
Spec == Safety /\ Fairness

-----------------------------------------------------------------------------

IsPrefixOf(s, t) == Len(s) <= Len(t) /\ SubSeq(t, 1, Len(s)) = s

\* The blob after n appends of the announced data.
Appended[n \in 0..(max_retry_count + 1)] ==
    IF n = 0 THEN Original ELSE Appended[n - 1] \o Announced

\* The values the control variables take.
TypeOK ==
    /\ pc \in {"submit", "send", "wait", "head", "receive", "callback", "done"}
    /\ numbers \in 0..(max_retry_count + 1)
    /\ result \in Codes \cup {0, 503}
    /\ promise \in {"unset", "ok", "error"}
    /\ m_code \in Codes \cup {0, 100}
    /\ writer \in {"write", "error"}
    /\ curl \in {"ok", "failed"}
    /\ input.pos \in 0..Len(Source)
    /\ input.read_pos \in 0..input.length
    /\ output.pos \in 0..Len(output.data)
    /\ late \in 0..attempts

\* A download that succeeds has put the data of one answer, from its first byte
\* on, where the caller's stream stood, whatever the attempts before it wrote, and
\* nothing else if the blob was not replaced (otherwise the end of a longer, older
\* answer may be left behind it, because a retry does not cut the stream);
\* unless that stream failed, or an interim status sent the data elsewhere.  An
\* answer that is parsed is parsed whole and without what came before it.
OkMeansDelivered ==
    /\ promise = "ok" /\ op = "download" /\ writer = "write" /\ ~output.bad =>
           /\ IsPrefixOf(served, output.data)
           /\ blob = Original => output.data = served
    /\ promise = "ok" /\ op = "list" => errors = served

\* However many attempts were cut off, the service never receives a mixture of
\* two of them: an upload leaves the old or the new content, an append adds the
\* whole of the caller's data some number of times, once at least on success.
BlobNeverTorn ==
    \E n \in 0..(max_retry_count + 1) :
        /\ promise = "ok" /\ HasInput => n > 0
        /\ n <= attempts
        /\ CASE ~HasInput -> blob \in {Original, Other}
             [] op = "upload" -> blob = IF n = 0 THEN Original ELSE Announced
             [] op = "append" -> blob = Appended[n]

\* At most one attempt and max_retry_count retries, and none after an answer
\* that a retry cannot change; with no_retry_policy, one attempt.
AttemptsBounded ==
    /\ attempts <= max_retry_count + 1
    /\ policy = "no_retry_policy" => attempts <= 1
    /\ pc \in {"send", "wait"} => result \notin {404, 501}

\* A retry sends each header once, and the response headers a caller reads come
\* from the attempt that succeeded.
RequestIsFresh ==
    /\ pc \in {"send", "wait", "head", "receive"} => slist = 1
    /\ responses \subseteq {attempts}

EachAttemptIsDue == AttemptsBounded /\ RequestIsFresh

\* The promise is fulfilled whatever the network does.
Terminates == <>(promise # "unset")
=============================================================================
