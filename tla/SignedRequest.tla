---------------------------- MODULE SignedRequest ----------------------------
(***************************************************************************)
(* How an attempt of a request is built and signed: build_request of every *)
(* operation (src/*_request_base.cpp, adls/src/*_request.cpp), the helpers *)
(* they share (include/utility.h, src/utility.cpp, include/storage_url.h), *)
(* and sign_request of the credentials (src/storage_credential.cpp).       *)
(*                                                                         *)
(* A request exists twice: in the http object, which sends it, and in      *)
(* storage_headers and storage_url, which a shared key signs.  The service *)
(* (external) recomputes the signature from what it receives.  submit_     *)
(* helper builds the same request anew for each attempt.                   *)
(*                                                                         *)
(* Threads build requests side by side; they share the credential, whose   *)
(* token the application replaces at any time, the clock, and the static   *)
(* buffer of std::gmtime, from which get_ms_date formats the date.         *)
(*                                                                         *)
(* Header values are tuples, and only those that differ between attempts   *)
(* or come from the caller are told apart.  Timeouts are in ErrnoClients,  *)
(* the bytes of a range in BlockMath.                                      *)
(***************************************************************************)
EXTENDS Integers, Sequences

CONSTANTS Clients,      \* threads
          MetaNames,    \* the names of metadata headers, in any spelling
          LowerCase,    \* LowerCase[m]: the name in lower case
          NameOrder,    \* NameOrder[m]: the place of a name in a std::map
          Metadata,     \* what callers provide: sequences of names and values
          MaxTime,      \* bound: ticks of the clock
          MaxTokens,    \* bound: tokens the application sets
          MaxAttempts   \* bound: attempts at one request

Const == <<0>>       \* a header value that no property tells apart
Blank == <<>>

\* Names of the headers that builders add.
DateNames == {"x-ms-date", "x-ms-version"}
OtherNames ==
    {"x-ms-blob-type", "x-ms-blob-content-length", "x-ms-blob-sequence-number",
     "x-ms-range", "x-ms-page-write", "x-ms-copy-source", "x-ms-delete-snapshots",
     "x-ms-blob-public-access", "x-ms-owner", "x-ms-group", "x-ms-permissions",
     "x-ms-acl", "x-ms-rename-source"}

\* Metadata comes in the caller's order.  A name may come twice, also in another
\* spelling, and a value may be blank; a prefix keeps it apart from other headers.
ASSUME SignedRequestAssumption ==
    /\ MetaNames \cap (DateNames \cup OtherNames \cup {"content-length"}) = {}
    /\ LowerCase \in [MetaNames -> MetaNames]
    /\ NameOrder \in [MetaNames -> Nat]
    /\ \A m, n \in MetaNames : NameOrder[m] = NameOrder[n] => m = n
    /\ Metadata \subseteq Seq(MetaNames \X Seq(Nat))
    /\ MaxTime \in Nat \ {0} /\ MaxTokens \in Nat \ {0} /\ MaxAttempts \in Nat \ {0}

-----------------------------------------------------------------------------
(* The builders.  query: the parameters of the URL; "prefix" has a value of  *)
(* the caller's and stands for the others that do (marker, delimiter,        *)
(* blockid, ...).  length: of the Content-Length header.  ms: the x-ms-      *)
(* headers it may add before the date, as alternatives; late: after it.      *)
(* meta: where it adds the caller's metadata.                                *)

Builder(verb, query, length, ms) ==
    [verb |-> verb, query |-> query, length |-> length, ms |-> ms, late |-> <<>>,
     meta |-> "never"]
WithMeta(b, place) == [b EXCEPT !.meta = place]
WithLate(b, names) == [b EXCEPT !.late = names]

Only(names) == {names}
Maybe(name) == {<<>>, <<name>>}

put_blob == WithMeta(Builder("PUT", {}, "body",
    {<<"x-ms-blob-type">>,
     <<"x-ms-blob-type", "x-ms-blob-content-length", "x-ms-blob-sequence-number">>}),
    "before")
put_block == Builder("PUT", {"comp=block", "blockid"}, "body", Only(<<>>))
put_block_list == WithMeta(Builder("PUT", {"comp=blocklist"}, "body", Only(<<>>)), "before")
append_block == Builder("PUT", {"comp=appendblock"}, "body", Only(<<>>))
put_page == Builder("PUT", {"comp=page"}, "body", Only(<<"x-ms-range", "x-ms-page-write">>))
copy_blob == WithLate(Builder("PUT", {}, "zero", Only(<<>>)), <<"x-ms-copy-source">>)
get_blob == Builder("GET", {}, "none", Maybe("x-ms-range"))
get_page_ranges == Builder("GET", {"comp=pagelist"}, "none", Maybe("x-ms-range"))
get_block_list == Builder("GET", {"comp=blocklist", "blocklisttype"}, "none", Only(<<>>))
get_blob_property == Builder("HEAD", {}, "none", Only(<<>>))
set_blob_metadata == WithMeta(Builder("PUT", {"comp=metadata"}, "zero", Only(<<>>)), "after")
delete_blob == Builder("DELETE", {}, "none", Maybe("x-ms-delete-snapshots"))
list_blobs == Builder("GET",
    {"restype=container", "comp=list", "prefix", "include"}, "none", Only(<<>>))
list_blobs_segmented == Builder("GET",
    {"restype=container", "comp=list", "prefix", "include"}, "none", Only(<<>>))
list_containers == Builder("GET", {"comp=list", "prefix"}, "none", Only(<<>>))
create_container == Builder("PUT", {"restype=container"}, "zero",
    Maybe("x-ms-blob-public-access"))
get_container_property == Builder("HEAD", {"restype=container"}, "none", Only(<<>>))
set_container_metadata ==
    WithMeta(Builder("PUT", {"restype=container", "comp=metadata"}, "zero", Only(<<>>)), "after")
delete_container == Builder("DELETE", {"restype=container"}, "none", Only(<<>>))
create_directory == Builder("PUT", {"resource=directory"}, "zero", Only(<<>>))
create_file == Builder("PUT", {"resource=file"}, "zero", Only(<<>>))
delete_directory == Builder("DELETE", {"recursive", "prefix"}, "none", Only(<<>>))
append_data == Builder("PATCH", {"action=append", "position"}, "body", Only(<<>>))
flush_data == Builder("PATCH", {"action=flush", "position"}, "zero", Only(<<>>))
get_access_control == Builder("HEAD", {"action=getAccessControl"}, "none", Only(<<>>))
set_access_control == WithLate(Builder("PATCH", {"action=setAccessControl"}, "zero", Only(<<>>)),
    <<"x-ms-owner", "x-ms-group", "x-ms-permissions", "x-ms-acl">>)
list_paths == Builder("GET",
    {"resource=filesystem", "directory", "recursive", "prefix"}, "none", Only(<<>>))
rename_file == WithLate(Builder("PUT", {}, "zero", Only(<<>>)), <<"x-ms-rename-source">>)

Builders ==
    [put_blob |-> put_blob, put_block |-> put_block, put_block_list |-> put_block_list,
     append_block |-> append_block, put_page |-> put_page, copy_blob |-> copy_blob,
     get_blob |-> get_blob, get_page_ranges |-> get_page_ranges,
     get_block_list |-> get_block_list, get_blob_property |-> get_blob_property,
     set_blob_metadata |-> set_blob_metadata, delete_blob |-> delete_blob,
     list_blobs |-> list_blobs, list_blobs_segmented |-> list_blobs_segmented,
     list_containers |-> list_containers, create_container |-> create_container,
     get_container_property |-> get_container_property,
     set_container_metadata |-> set_container_metadata,
     delete_container |-> delete_container, create_directory |-> create_directory,
     create_file |-> create_file, delete_directory |-> delete_directory,
     append_data |-> append_data, flush_data |-> flush_data,
     get_access_control |-> get_access_control,
     set_access_control |-> set_access_control, list_paths |-> list_paths,
     rename_file |-> rename_file]

-----------------------------------------------------------------------------
(* What the caller provides. *)

to_lowercase(name) == IF name \in MetaNames THEN LowerCase[name] ELSE name

\* A value of a query: encode_url_query leaves the `%' of "%41" as it is, and
\* the service reads an A.
QueryValues == {"none", "p", "%41"}
Received(value) == IF value = "%41" THEN "A" ELSE value

Inputs(op) ==
    [op : {op},
     ms : Builders[op].ms,
     meta : IF Builders[op].meta = "never" THEN {<<>>} ELSE Metadata,
     prefix : IF "prefix" \in Builders[op].query THEN QueryValues ELSE {"none"},
     length : IF Builders[op].length = "body" THEN {0, 1} ELSE {0}]

Idle == [op |-> "idle"]

VARIABLES
    credential,   \* "shared_key", "sas", "token" or "anonymous"
    input,        \* input[c]: the operation of thread c and its arguments
    pc,           \* pc[c]: "build", "clock", "gmtime", "day", "time", "late",
                  \* "sign", "sent", "done" or "idle"
    attempts,     \* attempts[c] at the request of c
    request,      \* request[c]: the http object: its URL and m_slist
    headers,      \* headers[c]: storage_headers
    date,         \* date[c]: the time of std::time, then what is formatted
    tm,           \* the buffer of std::gmtime
    m_token,      \* the number of the token
    now,          \* the clock
    started,      \* history: the clock when the attempt of c began
    raced,        \* history: others used std::gmtime while c formatted its date
    current       \* history: tokens that were set during the attempt of c

buildVars == <<input, attempts, request, headers, date>>
history == <<started, raced, current>>
vars == <<credential, buildVars, pc, tm, m_token, now, history>>

NoRequest == [sas |-> 0, query |-> <<>>, slist |-> <<>>, authorization |-> <<>>]
NoHeaders == [content_length |-> Blank, ms_headers |-> <<>>]

\* Bound: one thread that may do anything, or all of them putting blocks.
Init ==
    /\ credential \in {"shared_key", "sas", "token", "anonymous"}
    /\ \/ \E c \in Clients, op \in DOMAIN Builders : \E i \in Inputs(op) :
              input = [d \in Clients |-> IF d = c THEN i ELSE Idle]
       \/ \E i \in Inputs("put_block") : input = [d \in Clients |-> i]
    /\ pc = [c \in Clients |-> IF input[c] = Idle THEN "idle" ELSE "build"]
    /\ attempts = [c \in Clients |-> 0]
    /\ request = [c \in Clients |-> NoRequest]
    /\ headers = [c \in Clients |-> NoHeaders]
    /\ date = [c \in Clients |-> <<0, 0>>]
    /\ tm = <<0, 0>>
    /\ m_token = 1
    /\ now = 1
    /\ started = [c \in Clients |-> 0]
    /\ raced = [c \in Clients |-> FALSE]
    /\ current = [c \in Clients |-> {}]

-----------------------------------------------------------------------------
(* The helpers. *)

B(c) == Builders[input[c].op]
Moves(c, from, to) == pc[c] = from /\ pc' = [pc EXCEPT ![c] = to]

Constants(names) == [i \in 1..Len(names) |-> <<names[i], Const>>]
Meta(c, place) == IF B(c).meta = place THEN input[c].meta ELSE <<>>

\* A definition named X_Y is a faulty variant of X: no behaviour uses it, it
\* only serves to see a property fail.

\* add_ms_header, add_metadata_header: m_slist gets a line for each pair,
\* ms_headers an entry for each name, with the last value given to it.
NamesIn(pairs) == {pairs[i][1] : i \in 1..Len(pairs)}
IsLast(pairs, i) == \A j \in 1..Len(pairs) : pairs[j][1] = pairs[i][1] => j <= i
Collect(ms_headers, pairs) ==
    [n \in DOMAIN ms_headers \cup NamesIn(pairs) |->
        IF n \in NamesIn(pairs)
        THEN LET i == CHOOSE i \in 1..Len(pairs) : pairs[i][1] = n /\ IsLast(pairs, i)
             IN  pairs[i][2]
        ELSE ms_headers[n]]

\* add_content_length: 0 is sent, but not signed.
SignedLength_Zero(n) == <<n>>
SignedLength(n) == IF n > 0 THEN <<n>> ELSE Blank

-----------------------------------------------------------------------------
(* One attempt. *)

\* http->reset()
Reset_KeepsHeaders(h) == h
Reset(h) == [h EXCEPT !.slist = <<>>, !.authorization = <<>>]

Query(c) ==
    LET names == B(c).query \ (IF input[c].prefix = "none" THEN {"prefix"} ELSE {})
    IN  [q \in names |-> IF q = "prefix" THEN input[c].prefix ELSE q]
ContentLength(c) ==
    IF B(c).length = "none" THEN <<>> ELSE << <<"content-length", <<input[c].length>> >> >>

\* build_request up to the date: the URL, Content-Length and the first headers.
FirstHeaders(c) == Constants(input[c].ms) \o Meta(c, "before")
BuildRequest(c) ==
    /\ Moves(c, "build", "clock")
    /\ request' = [request EXCEPT ![c] =
           LET h == Reset(@)
           IN  [h EXCEPT !.sas = 0, !.query = Query(c),
                         !.slist = @ \o ContentLength(c) \o FirstHeaders(c)]]
    /\ headers' = [headers EXCEPT ![c] =
           [content_length |-> SignedLength(input[c].length),
            ms_headers |-> Collect(<<>>, FirstHeaders(c))]]
    /\ attempts' = [attempts EXCEPT ![c] = @ + 1]
    /\ started' = [started EXCEPT ![c] = now]
    /\ raced' = [raced EXCEPT ![c] = FALSE]
    /\ current' = [current EXCEPT ![c] = {m_token}]
    /\ UNCHANGED <<credential, input, date, tm, m_token, now>>

\* get_ms_date: std::time
ReadClock(c) ==
    /\ Moves(c, "clock", "gmtime")
    /\ date' = [date EXCEPT ![c] = <<now, now>>]
    /\ UNCHANGED <<credential, input, attempts, request, headers, tm, m_token,
                   now, history>>

\* std::gmtime returns a pointer to a buffer that all threads share.
GmTime(c) ==
    /\ Moves(c, "gmtime", "day")
    /\ tm' = date[c]
    /\ raced' = [d \in Clients |-> raced[d] \/ (d # c /\ pc[d] \in {"day", "time"})]
    /\ UNCHANGED <<credential, buildVars, m_token, now, started, current>>

\* pm->tm_wday and pm->tm_mon, then strftime for the rest: two halves stand for
\* the fields, which another thread may overwrite between any two of them.
FormatDay(c) ==
    /\ Moves(c, "day", "time")
    /\ date' = [date EXCEPT ![c][1] = tm[1]]
    /\ UNCHANGED <<credential, input, attempts, request, headers, tm, m_token,
                   now, history>>

FormatTime(c) ==
    /\ Moves(c, "time", "late")
    /\ date' = [date EXCEPT ![c][2] = tm[2]]
    /\ UNCHANGED <<credential, input, attempts, request, headers, tm, m_token,
                   now, history>>

\* x-ms-date, x-ms-version, and the headers some builders add after them.
LateHeaders(c) == << <<"x-ms-date", date[c]>>, <<"x-ms-version", Const>> >>
                  \o Constants(B(c).late) \o Meta(c, "after")
FinishHeaders(c) ==
    /\ Moves(c, "late", "sign")
    /\ request' = [request EXCEPT ![c].slist = @ \o LateHeaders(c)]
    /\ headers' = [headers EXCEPT ![c].ms_headers = Collect(@, LateHeaders(c))]
    /\ UNCHANGED <<credential, input, attempts, date, tm, m_token, now, history>>

\* ordered_ms_headers: by their names in lower case; emplace keeps the value of
\* the spelling that ms_headers orders before the others.
Before(m, n) == m = n \/ NameOrder[m] < NameOrder[n]
FirstSpelling(names, n) ==
    CHOOSE m \in names :
        to_lowercase(m) = n /\ \A k \in names : to_lowercase(k) = n => Before(m, k)
Ordered(ms) ==
    [n \in {to_lowercase(m) : m \in DOMAIN ms} |-> ms[FirstSpelling(DOMAIN ms, n)]]

StringToSign(c) ==
    [verb |-> B(c).verb,
     content_length |-> headers[c].content_length,
     ms_headers |-> Ordered(headers[c].ms_headers),
     query |-> request[c].query]

Authorize(c, a) ==
    /\ Moves(c, "sign", "sent")
    /\ request' = [request EXCEPT ![c].authorization = Append(@, a)]
    /\ UNCHANGED <<credential, input, attempts, headers, date, tm, m_token, now, history>>

SignWithKey(c) ==
    /\ credential = "shared_key"
    /\ Authorize(c, [by |-> "key", signs |-> StringToSign(c)])

\* Under m_token_mutex, as is SetToken.
SignWithToken(c) ==
    /\ credential = "token"
    /\ Authorize(c, [by |-> "token", token |-> m_token])

\* transform_url(h.get_url())
SignWithSas(c) ==
    /\ credential = "sas"
    /\ Moves(c, "sign", "sent")
    /\ request' = [request EXCEPT ![c].sas = @ + 1]
    /\ UNCHANGED <<credential, input, attempts, headers, date, tm, m_token, now, history>>

SignNothing(c) ==
    /\ credential = "anonymous"
    /\ Moves(c, "sign", "sent")
    /\ UNCHANGED <<credential, buildVars, tm, m_token, now, history>>

\* The attempt is over: the call is, or submit_helper builds the request again.
Answered(c) ==
    /\ \/ Moves(c, "sent", "done")
       \/ attempts[c] < MaxAttempts /\ Moves(c, "sent", "build")
    /\ UNCHANGED <<credential, buildVars, tm, m_token, now, history>>

-----------------------------------------------------------------------------

\* set_token, by the application.
SetToken ==
    /\ credential = "token"
    /\ m_token < MaxTokens
    /\ m_token' = m_token + 1
    /\ current' = [c \in Clients |-> current[c] \cup {m_token + 1}]
    /\ UNCHANGED <<credential, buildVars, pc, tm, now, started, raced>>

Tick ==
    /\ now < MaxTime
    /\ now' = now + 1
    /\ UNCHANGED <<credential, buildVars, pc, tm, m_token, history>>

Thread(c) ==
    \/ BuildRequest(c) \/ ReadClock(c) \/ GmTime(c) \/ FormatDay(c)
    \/ FormatTime(c) \/ FinishHeaders(c) \/ SignWithKey(c) \/ SignWithToken(c)
    \/ SignWithSas(c) \/ SignNothing(c) \/ Answered(c)

Next == SetToken \/ Tick \/ \E c \in Clients : Thread(c)

Spec == Init /\ [][Next]_vars

-----------------------------------------------------------------------------
(* The service (external): the string it signs, from what it receives.       *)
(* libcurl does not send a header without a value; the values of a name that *)
(* comes twice are joined.                                                   *)

Wire(c) == {i \in 1..Len(request[c].slist) : request[c].slist[i][2] # Blank}
NameOf(c, i) == to_lowercase(request[c].slist[i][1])
Lines(c, name) == {i \in Wire(c) : NameOf(c, i) = name}

Accepts(c, s) ==
    /\ s.verb = B(c).verb
    /\ LET lengths == {request[c].slist[i][2] : i \in Lines(c, "content-length")}
       IN  IF s.content_length = Blank THEN lengths \subseteq {<<0>>}
           ELSE lengths = {s.content_length} /\ s.content_length # <<0>>
    /\ DOMAIN s.ms_headers = {NameOf(c, i) : i \in Wire(c)} \ {"content-length"}
    /\ \A n \in DOMAIN s.ms_headers :
           \E i \in Wire(c) : Lines(c, n) = {i} /\ request[c].slist[i][2] = s.ms_headers[n]
    /\ s.query = [q \in DOMAIN request[c].query |-> Received(request[c].query[q])]

-----------------------------------------------------------------------------

Sent == {c \in Clients : pc[c] = "sent"}

\* The values each variable takes.
TypeOK ==
    /\ pc \in [Clients -> {"idle", "build", "clock", "gmtime", "day", "time",
                           "late", "sign", "sent", "done"}]
    /\ attempts \in [Clients -> 0..MaxAttempts]
    /\ date \in [Clients -> (0..MaxTime) \X (0..MaxTime)]
    /\ tm \in (0..MaxTime) \X (0..MaxTime)
    /\ now \in 1..MaxTime
    /\ m_token \in 1..MaxTokens
    /\ \A c \in Clients : request[c].sas \in {0, 1}
    /\ \A c \in Clients : Len(request[c].authorization) <= 1

\* Metadata in which each name has one value that is not blank, and that is the
\* one kept: the last in its spelling, and the spelling the first in the order.
\* A query is well formed when nothing in it looks like an encoded character.
Unambiguous(meta) ==
    LET Same(i, j) == to_lowercase(meta[i][1]) = to_lowercase(meta[j][1])
    IN  \A i \in 1..Len(meta) : \E j \in 1..Len(meta) :
           /\ Same(i, j) /\ meta[j][2] # Blank
           /\ IsLast(meta, j)
           /\ \A k \in 1..Len(meta) : Same(i, k) /\ k # j =>
                  meta[k][2] = Blank /\ Before(meta[j][1], meta[k][1])
WellFormed(c) == input[c].prefix # "%41" /\ Unambiguous(input[c].meta)

\* What a shared key signs is what the service computes from what is sent, for
\* every builder and on every attempt, exactly when the caller's data is well
\* formed: a blank value is signed but not sent, and of a name given twice one
\* value is signed and both are sent.
SignedAsSent ==
    credential = "shared_key" =>
        \A c \in Sent : \A i \in 1..Len(request[c].authorization) :
            Accepts(c, request[c].authorization[i].signs) <=> WellFormed(c)

\* A request that is sent carries its own attempt's credentials, once, and its
\* own date: no header, signature or token of the attempt before, no SAS token
\* twice, and a token that was valid at some moment of the attempt.  The date is
\* a moment of the attempt, unless other threads formatted theirs at the time.
AttemptIsCurrent ==
    \A c \in Sent :
        /\ Len(request[c].authorization) =
               IF credential \in {"shared_key", "token"} THEN 1 ELSE 0
        /\ request[c].sas = IF credential = "sas" THEN 1 ELSE 0
        /\ credential = "token" => request[c].authorization[1].token \in current[c]
        /\ \E i \in Wire(c) :
               /\ Lines(c, "x-ms-date") = {i}
               /\ ~raced[c] => \E t \in started[c]..now :
                      request[c].slist[i][2] = <<t, t>>
=============================================================================
