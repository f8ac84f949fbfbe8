------------------------- MODULE ErrnoClientsProofs -------------------------
(***************************************************************************)
(* What ErrnoClients' run shows for three entries and pages of one, for    *)
(* directories and pages of any size, any set of statuses with which the   *)
(* service refuses, and any number of steps of another client.             *)
(***************************************************************************)
EXTENDS ErrnoClients, TLAPS

FailureCodes == {400, 404, 409, CurlFailed} \cup Refusals
Ends == {"complete", "more"}

\* Who calls, and what a call that has not got that far has left alone.
CallInv ==
    /\ \/ mode = "wrapper" /\ op \in WrapperOps
       \/ mode \in {"errno", "throw"} /\ op \in AdlsOps /\ ready /\ named
    /\ pc = "call" => told = "nothing" /\ outcome = 0 /\ attempts = 0
    /\ pc # "done" => value = "none"
    /\ pc = "adapted" => mode # "wrapper"
    /\ pc \in {"call", "submit", "wait", "returned"} => thrown = 0
    /\ pc = "submit" => attempts <= max_retry_count
    /\ pc = "wait" => headers = "none"

\* What the service said is what the request ended with, and the headers of a
\* page that is not the last have the continuation.
OutcomeInv ==
    /\ outcome \in {0, 200, OtherException} \cup FailureCodes
    /\ parsed \in {"none", "data", "empty"}
    /\ pc \in {"returned", "adapted"} =>
           /\ outcome # 0
           /\ outcome \in {200, OtherException} <=> told \in Ends
           /\ outcome = 404 <=> told = "absent"
           /\ outcome # 200 => parsed = "none"
           /\ told = "more" => op = "delete_directory"
           /\ op = "delete_directory" /\ told \in Ends =>
                  /\ outcome = 200
                  /\ headers = "more" <=> told = "more"

\* errno, or the exception, is what became of the outcome.
ReportInv ==
    /\ pc = "returned" /\ told \in Ends => errno = 0
    /\ pc = "adapted" /\ mode = "throw" =>
           thrown = IF Succeeded THEN 0 ELSE outcome
    /\ pc = "adapted" /\ mode = "errno" =>
           errno = IF Succeeded THEN 0
                   ELSE IF outcome = OtherException THEN unknown_error ELSE outcome

\* What the service said held when it said so.
ServiceInv ==
    /\ told \in {"nothing", "complete", "more", "absent", "refused"}
    /\ told = "absent" => 0 \in seen
    /\ told = "complete" /\ op \in Deletes => 0 \in seen
    /\ told = "complete" /\ op \in Creates \cup Puts \cup AsksExists =>
           \E n \in seen : n # 0

Inv == TypeOK /\ CallInv /\ OutcomeInv /\ ReportInv /\ ServiceInv /\ OutcomeIsTold

-----------------------------------------------------------------------------
(* Answers. *)

LEMMA Codes == Refusals \subseteq 300..599 /\ Refusals \cap {400, 404, 409} = {}
BY ErrnoClientsAssumption

\* What an answer says of the thing it is about.
LEMMA RepliesTell ==
    ASSUME TypeOK, CallInv, NEW r \in Replies
    PROVE  /\ r.size \in Sizes
           /\ r.code \in {200, 201, 202, 400, 404, 409} \cup Refusals
           /\ r.code = 404 => r.size = 0
           /\ ~Unsuccessful(r.code) =>
                  /\ r.more /\ op \in Deletes => op = "delete_directory"
                  /\ op \in Deletes /\ ~r.more => r.size = 0
                  /\ op \in Creates \cup Puts \cup AsksExists => r.size # 0
<1> USE DEF Reply
<1>1. /\ size \in Sizes /\ Sizes \subseteq Nat /\ 0 \in Sizes
      /\ op # "delete_directory" => Sizes = {0, 1}
      /\ 1 \in Sizes
  BY ErrnoClientsAssumption DEF TypeOK, Sizes
<1>2. /\ Smaller \in Sizes /\ (Smaller > 0 => op = "delete_directory")
      /\ Smaller \in Nat
  BY <1>1, ErrnoClientsAssumption DEF Smaller, Sizes
<1>3. CASE r \in {Reply(c, size, FALSE) : c \in Refusals}
  <2>1. PICK c \in Refusals : r = Reply(c, size, FALSE)
    BY <1>3
  <2>2. c \in 300..599 /\ c # 404 /\ Unsuccessful(c)
    BY Codes DEF Unsuccessful
  <2> QED
    BY <1>1, <2>1, <2>2
<1>4. CASE r = Reply(400, size, FALSE) \/ r = Reply(409, size, FALSE)
  BY <1>1, <1>4 DEF Unsuccessful
<1>5. CASE r = Reply(404, 0, FALSE)
  BY <1>1, <1>5 DEF Unsuccessful
<1>6. CASE r = Reply(201, 1, FALSE) /\ op \in Creates \cup Puts
  BY <1>1, <1>6 DEF Creates, Puts, Deletes
<1>7. CASE op \in Deletes /\ (r = Reply(200, 0, FALSE) \/ r = Reply(202, Smaller, Smaller > 0))
  <2>1. op \notin Creates \cup Puts \cup AsksExists
    BY <1>7 DEF Creates, Puts, Deletes, AsksExists
  <2>2. CASE r = Reply(200, 0, FALSE)
    BY <1>1, <2>1, <2>2
  <2>3. CASE r = Reply(202, Smaller, Smaller > 0)
    <3> DEFINE s == Smaller
               m == s > 0
    <3>1. /\ s \in Sizes /\ m \in BOOLEAN /\ r = Reply(202, s, m)
          /\ m => op = "delete_directory"
          /\ ~m => s = 0
      BY <1>2, <2>3
    <3> HIDE DEF m, s
    <3> QED
      BY <2>1, <3>1
  <2> QED
    BY <1>7, <2>2, <2>3
<1>8. CASE op \in Lists /\ r \in {Reply(200, size, m) : m \in BOOLEAN}
  BY <1>1, <1>8 DEF Creates, Puts, Deletes, AsksExists, Lists
<1>9. CASE op \notin Deletes \cup Creates \cup Puts /\ size # 0 /\ r = Reply(200, size, FALSE)
  BY <1>1, <1>9
<1>10. \/ r \in {Reply(c, size, FALSE) : c \in Refusals}
       \/ r = Reply(400, size, FALSE) \/ r = Reply(409, size, FALSE)
       \/ r = Reply(404, 0, FALSE)
       \/ r = Reply(201, 1, FALSE) /\ op \in Creates \cup Puts
       \/ op \in Deletes /\ (r = Reply(200, 0, FALSE) \/ r = Reply(202, Smaller, Smaller > 0))
       \/ op \in Lists /\ r \in {Reply(200, size, m) : m \in BOOLEAN}
       \/ op \notin Deletes \cup Creates \cup Puts /\ size # 0 /\ r = Reply(200, size, FALSE)
  <2> HIDE DEF Reply
  <2>1. CASE ~named
    BY <2>1 DEF Replies
  <2>2. CASE named /\ op \in Creates
    <3>1. op \notin Puts \cup Deletes \cup Lists
      BY <2>2 DEF Creates, Puts, Deletes, Lists
    <3> QED
      BY <2>2, <3>1 DEF Replies
  <2>3. CASE named /\ op \in Puts
    <3>1. op \notin Creates \cup Deletes \cup Lists
      BY <2>3 DEF Creates, Puts, Deletes, Lists
    <3> QED
      BY <2>3, <3>1 DEF Replies
  <2>4. CASE named /\ op \in Deletes
    <3>1. op \notin Creates \cup Puts \cup Lists
      BY <2>4 DEF Creates, Puts, Deletes, Lists
    <3> QED
      BY <2>4, <3>1 DEF Replies
  <2>5. CASE named /\ op \in Lists
    <3>1. op \notin Creates \cup Puts \cup Deletes
      BY <2>5 DEF Creates, Puts, Deletes, Lists
    <3> QED
      BY <2>5, <3>1 DEF Replies
  <2>6. CASE named /\ op \notin Creates \cup Puts \cup Deletes \cup Lists
    BY <2>6 DEF Replies
  <2> QED
    BY <2>1, <2>2, <2>3, <2>4, <2>5, <2>6
<1> QED
  BY <1>3, <1>4, <1>5, <1>6, <1>7, <1>8, <1>9, <1>10

-----------------------------------------------------------------------------
(* What the two ends of a transfer do. *)

Attempting == Answered \/ Unanswered
Keeps == UNCHANGED <<mode, op, ready, named>>

LEMMA AdaptTells ==
    ASSUME Adapt
    PROVE  /\ pc = "returned" /\ mode # "wrapper" /\ pc' = "adapted"
           /\ UNCHANGED <<callVars, value, requestVars, serviceVars>>
           /\ \/ mode = "throw" /\ errno' = errno
                 /\ thrown' = IF Succeeded THEN 0 ELSE outcome
              \/ mode # "throw" /\ thrown' = thrown
                 /\ errno' = IF Succeeded THEN 0
                             ELSE IF outcome = OtherException THEN unknown_error
                             ELSE outcome
<1>1. /\ pc = "returned" /\ mode # "wrapper" /\ pc' = "adapted"
      /\ UNCHANGED <<callVars, value, requestVars, serviceVars>>
  BY Zenon DEF Adapt
<1>2. CASE mode = "throw"
  BY <1>1, <1>2, Zenon DEF Adapt
<1>3. CASE mode # "throw"
  <2>1. thrown' = thrown
    BY <1>3, Zenon DEF Adapt
  <2>2. Succeeded => outcome # OtherException
    BY DEF Succeeded, OtherException
  <2>3. errno' = IF Succeeded THEN 0
                 ELSE IF outcome = OtherException THEN unknown_error ELSE outcome
    <3>1. errno' = CASE Succeeded -> 0
                     [] outcome = OtherException -> unknown_error
                     [] OTHER -> outcome
      BY <1>3, Zenon DEF Adapt
    <3> QED
      BY <2>2, <3>1, Zenon
  <2> QED
    BY <1>1, <1>3, <2>1, <2>3
<1> QED
  BY <1>2, <1>3

LEMMA OpIsKept == ASSUME [Next]_vars PROVE Keeps /\ Sizes' = Sizes
<1>1. Keeps
  <2> USE DEF Keeps, callVars
  <2>1. CASE RejectClient \/ RejectNames \/ Begin \/ SendAttempt
    BY <2>1 DEF RejectClient, RejectNames, Begin, SendAttempt
  <2>2. CASE WrapperSuccess \/ WrapperFailure \/ Adapt \/ Rethrow \/ ExistsAnswer
    <3>1. CASE Adapt
      BY <3>1, AdaptTells
    <3> QED
      BY <2>2, <3>1 DEF WrapperSuccess, WrapperFailure, Rethrow, ExistsAnswer
  <2>3. CASE NextPage \/ DeleteDirectoryReturns \/ ReadHeaders \/ ReturnResponse
    BY <2>3 DEF NextPage, DeleteDirectoryReturns, ReadHeaders, ReturnResponse
  <2>4. CASE Answered \/ Unanswered \/ Meddle \/ UNCHANGED vars
    BY <2>4 DEF Answered, Unanswered, Meddle, vars
  <2> QED
    BY <2>1, <2>2, <2>3, <2>4 DEF Next, Compute
<1> QED
  BY <1>1 DEF Keeps, Sizes

\* A failed attempt is followed by another, or its code is the outcome.
LEMMA FailureEnds ==
    ASSUME Inv, pc = "wait", NEW code \in FailureCodes, NEW result \in Nat,
           AttemptFailed(code, result)
    PROVE  /\ headers' = "none"
           /\ \/ pc' = "submit" /\ attempts <= max_retry_count
                 /\ UNCHANGED <<outcome, parsed>>
              \/ pc' = "returned" /\ outcome' = code /\ parsed' = "none"
BY DEF AttemptFailed, ClearedHeaders, MayRetry

\* An answer, by what it says.
LEMMA AnsweredTells ==
    ASSUME Inv, Answered
    PROVE  /\ pc = "wait" /\ errno' = 0 /\ UNCHANGED <<thrown, value, attempts, token, meddles>>
           /\ size' \in Sizes /\ seen' = seen \cup {size'}
           /\ \/ /\ told' \in {"absent", "refused"}
                 /\ told' = "absent" => size' = 0
                 /\ headers' = "none"
                 /\ \/ pc' = "submit" /\ attempts <= max_retry_count
                       /\ UNCHANGED <<outcome, parsed>>
                    \/ /\ pc' = "returned" /\ outcome' \in FailureCodes /\ parsed' = "none"
                       /\ outcome' = 404 <=> told' = "absent"
              \/ /\ told' \in Ends /\ pc' = "returned" /\ Understood
                 /\ told' = "more" => op = "delete_directory"
                 /\ headers' \in {"plain", "more"}
                 /\ op = "delete_directory" => (headers' = "more" <=> told' = "more")
                 /\ told' = "complete" /\ op \in Deletes => size' = 0
                 /\ op \in Creates \cup Puts \cup AsksExists => size' # 0
<1>1. TypeOK /\ CallInv
  BY DEF Inv
<1>2. PICK r \in Replies, e \in {errno, LibraryErrno} :
          /\ Applied(r)
          /\ errno' = CheckCode(TRUE, e)
          /\ IF Unsuccessful(r.code)
             THEN /\ told' = IF r.code = 404 THEN "absent" ELSE "refused"
                  /\ AttemptFailed(r.code, r.code)
             ELSE /\ told' = IF r.more /\ op \in Deletes THEN "more" ELSE "complete"
                  /\ headers' = IF r.more \/ headers = "more" THEN "more" ELSE "plain"
                  /\ Understood
                  /\ pc' = "returned"
  BY DEF Answered
<1>3. /\ pc = "wait" /\ errno' = 0 /\ UNCHANGED <<thrown, value, attempts, token, meddles>>
      /\ size' = r.size /\ seen' = seen \cup {size'}
  BY <1>2 DEF Answered, Applied, CheckCode
<1>4. /\ r.size \in Sizes
      /\ r.code \in {200, 201, 202, 400, 404, 409} \cup Refusals
      /\ r.code = 404 => r.size = 0
      /\ ~Unsuccessful(r.code) =>
             /\ r.more /\ op \in Deletes => op = "delete_directory"
             /\ op \in Deletes /\ ~r.more => r.size = 0
             /\ op \in Creates \cup Puts \cup AsksExists => r.size # 0
  BY <1>1, RepliesTell
<1>5. headers = "none"
  BY <1>1, <1>3 DEF CallInv
<1>6. CASE Unsuccessful(r.code)
  <2>1. r.code \in FailureCodes /\ r.code \in Nat
    <3> DEFINE c == r.code
    <3>1. c \in {200, 201, 202, 400, 404, 409} \cup Refusals /\ Unsuccessful(c)
      BY <1>4, <1>6
    <3> HIDE DEF c
    <3>2. c \in {400, 404, 409} \cup Refusals /\ c \in Nat
      BY <3>1, Codes DEF Unsuccessful
    <3>3. c \in FailureCodes
      BY <3>2 DEF FailureCodes
    <3> QED
      BY <3>2, <3>3 DEF c
  <2>2. /\ headers' = "none"
        /\ \/ pc' = "submit" /\ attempts <= max_retry_count /\ UNCHANGED <<outcome, parsed>>
           \/ pc' = "returned" /\ outcome' = r.code /\ parsed' = "none"
    <3>1. AttemptFailed(r.code, r.code)
      BY <1>2, <1>6
    <3> QED
      BY <1>3, <2>1, <3>1, FailureEnds
  <2>3. /\ told' \in {"absent", "refused"} /\ (told' = "absent" <=> r.code = 404)
        /\ told' = "absent" => size' = 0
    <3>1. told' = IF r.code = 404 THEN "absent" ELSE "refused"
      BY <1>2, <1>6
    <3> QED
      BY <1>3, <1>4, <3>1
  <2> QED
    BY <1>3, <1>4, <2>1, <2>2, <2>3
<1>7. CASE ~Unsuccessful(r.code)
  <2>1. "delete_directory" \in Deletes
    BY DEF Deletes
  <2>2. /\ told' = IF r.more /\ op \in Deletes THEN "more" ELSE "complete"
        /\ headers' = IF r.more THEN "more" ELSE "plain"
        /\ Understood /\ pc' = "returned"
    BY <1>2, <1>5, <1>7
  <2>3. /\ r.more /\ op \in Deletes => op = "delete_directory"
        /\ op \in Deletes /\ ~r.more => r.size = 0
        /\ op \in Creates \cup Puts \cup AsksExists => r.size # 0
    BY <1>4, <1>7
  <2> QED
    BY <1>3, <1>4, <2>1, <2>2, <2>3 DEF Ends
<1> QED
  BY <1>6, <1>7

LEMMA UnansweredTells ==
    ASSUME Inv, Unanswered
    PROVE  /\ pc = "wait" /\ UNCHANGED <<thrown, value, attempts, token, meddles>>
           /\ errno' \in {errno, LibraryErrno} /\ told' = "nothing" /\ headers' = "none"
           /\ size' \in Sizes /\ seen' = seen \cup {size'}
           /\ \/ pc' = "submit" /\ attempts <= max_retry_count
                 /\ UNCHANGED <<outcome, parsed>>
              \/ pc' = "returned" /\ outcome' = CurlFailed /\ parsed' = "none"
<1>1. TypeOK /\ CallInv
  BY DEF Inv
<1>2. /\ pc = "wait" /\ UNCHANGED <<thrown, value, attempts, token, meddles>>
      /\ errno' \in {errno, LibraryErrno} /\ told' = "nothing"
      /\ AttemptFailed(CurlFailed, 503)
  BY DEF Unanswered, CheckCode
<1>3. size' \in Sizes /\ seen' = seen \cup {size'}
  <2>1. CASE \E r \in Replies : Applied(r)
    BY <1>1, <2>1, RepliesTell DEF Applied
  <2>2. CASE UNCHANGED <<size, seen>>
    BY <1>1, <2>2 DEF TypeOK
  <2> QED
    BY <2>1, <2>2 DEF Unanswered
<1>4. CurlFailed \in FailureCodes
  BY DEF FailureCodes
<1> QED
  BY <1>2, <1>3, <1>4, FailureEnds

-----------------------------------------------------------------------------
(* Each step preserves each part of the invariant. *)

Checks == RejectClient \/ RejectNames \/ Begin
Reports == WrapperSuccess \/ WrapperFailure \/ Adapt
Finishes == Rethrow \/ ExistsAnswer \/ DeleteDirectoryReturns \/ ReadHeaders
            \/ ReturnResponse

\* What leaves the service and the request alone.
LEMMA LocalSteps ==
    ASSUME Checks \/ Reports \/ Finishes
    PROVE  /\ UNCHANGED <<attempts, outcome, parsed, headers, size, meddles, seen, told>>
           /\ Checks => /\ pc = "call" /\ pc' \in {"submit", "done"}
                        /\ UNCHANGED <<thrown, value>>
           /\ Reports => /\ pc = "returned" /\ (mode = "wrapper" => pc' = "done")
                         /\ mode # "wrapper" => pc' = "adapted" /\ value' = value
           /\ Finishes => pc = "adapted" /\ pc' = "done" /\ thrown' \in {thrown, 0}
<1> USE DEF requestVars, serviceVars, reportVars
<1>1. CASE Checks
  <2>1. ~Reports /\ ~Finishes
    <3>1. pc = "call"
      BY <1>1 DEF Checks, RejectClient, RejectNames, Begin
    <3> QED
      BY <3>1, AdaptTells
         DEF Reports, WrapperSuccess, WrapperFailure, Finishes, Rethrow, ExistsAnswer,
             DeleteDirectoryReturns, LastPage, ReadHeaders, ReturnResponse
  <2> QED
    BY <1>1, <2>1 DEF Checks, RejectClient, RejectNames, Begin
<1>2. CASE Reports
  <2>1. ~Checks /\ ~Finishes
    <3>1. pc = "returned"
      BY <1>2, AdaptTells DEF Reports, WrapperSuccess, WrapperFailure
    <3> QED
      BY <3>1 DEF Checks, RejectClient, RejectNames, Begin, Finishes, Rethrow, ExistsAnswer,
                  DeleteDirectoryReturns, LastPage, ReadHeaders, ReturnResponse
  <2> QED
    BY <1>2, <2>1, AdaptTells DEF Reports, WrapperSuccess, WrapperFailure
<1>3. CASE Finishes
  <2>1. pc = "adapted"
    BY <1>3 DEF Finishes, Rethrow, ExistsAnswer, DeleteDirectoryReturns, LastPage,
                ReadHeaders, ReturnResponse
  <2>2. ~Checks /\ ~Reports
    BY <2>1, AdaptTells DEF Checks, RejectClient, RejectNames, Begin, Reports,
                            WrapperSuccess, WrapperFailure
  <2> QED
    BY <1>3, <2>1, <2>2 DEF Finishes, Rethrow, ExistsAnswer, DeleteDirectoryReturns,
                            LastPage, ReadHeaders, ReturnResponse
<1> QED
  BY <1>1, <1>2, <1>3

\* Another client changes the thing and what it has been; nothing else.
LEMMA MeddleTells ==
    ASSUME Meddle
    PROVE  /\ UNCHANGED <<pc, errno, thrown, value, attempts, outcome, parsed, headers,
                          token, told>>
           /\ size' \in Sizes /\ seen' = seen \cup {size'}
BY DEF Meddle, Applied, reportVars, requestVars

LEMMA Cases ==
    ASSUME [Next]_vars
    PROVE  Checks \/ SendAttempt \/ Reports \/ Finishes \/ NextPage
           \/ Answered \/ Unanswered \/ Meddle \/ UNCHANGED vars
BY DEF Next, Compute, Checks, Reports, Finishes

LEMMA TypeStep == ASSUME Inv, [Next]_vars PROVE TypeOK'
<1>1. /\ TypeOK /\ CallInv /\ OutcomeInv /\ ReportInv
      /\ Keeps /\ Sizes' = Sizes
  BY OpIsKept DEF Inv
<1>2. op' \in IF mode' = "wrapper" THEN WrapperOps ELSE AdlsOps
  BY <1>1 DEF TypeOK, Keeps
<1>3. pc' \in {"call", "submit", "wait", "returned", "adapted", "done"}
  BY <1>1, Cases, LocalSteps, AnsweredTells, UnansweredTells, MeddleTells
     DEF TypeOK, SendAttempt, NextPage, vars
<1>4. attempts' \in 0..(max_retry_count + 1) /\ headers' \in {"none", "plain", "more"}
  <2> USE DEF max_retry_count
  <2>1. CASE SendAttempt
    BY <1>1, <2>1 DEF TypeOK, CallInv, SendAttempt, ClearedHeaders
  <2>2. CASE NextPage
    BY <1>1, <2>2 DEF TypeOK, NextPage
  <2>3. CASE Answered \/ Unanswered
    BY <1>1, <2>3, AnsweredTells, UnansweredTells DEF TypeOK
  <2>4. CASE Checks \/ Reports \/ Finishes \/ Meddle \/ UNCHANGED vars
    BY <1>1, <2>4, LocalSteps, MeddleTells DEF TypeOK, vars, requestVars
  <2> QED
    BY <2>1, <2>2, <2>3, <2>4, Cases
<1>5. size' \in Sizes' /\ size' \in seen' /\ seen' \subseteq Sizes'
  <2>1. CASE Answered \/ Unanswered \/ Meddle
    BY <1>1, <2>1, AnsweredTells, UnansweredTells, MeddleTells DEF TypeOK
  <2>2. UNCHANGED <<size, seen>> \/ Answered \/ Unanswered \/ Meddle
    BY Cases, LocalSteps DEF SendAttempt, NextPage, vars, serviceVars
  <2> QED
    BY <1>1, <2>1, <2>2 DEF TypeOK
<1>6. errno' \in {0, LibraryErrno, CurlFailed, invalid_parameters, client_not_init,
                  unknown_error, 400, 404, 409} \cup Refusals
  <2>1. CASE Reports
    <3>1. pc = "returned" /\ outcome \in {200, OtherException} \cup FailureCodes
      BY <1>1, <2>1, LocalSteps DEF OutcomeInv
    <3>2. errno' \in {errno, 0, unknown_error} \/ (errno' = outcome /\ outcome \in FailureCodes)
      BY <2>1, <3>1, AdaptTells DEF Reports, WrapperSuccess, WrapperFailure, Succeeded
    <3> QED
      BY <1>1, <3>2 DEF TypeOK, FailureCodes
  <2>2. CASE Finishes
    BY <1>1, <2>2 DEF TypeOK, Finishes, Rethrow, ExistsAnswer, DeleteDirectoryReturns,
                      ReadHeaders, ReturnResponse, reportVars
  <2>3. CASE Checks \/ SendAttempt \/ NextPage
    BY <1>1, <2>3 DEF TypeOK, Checks, RejectClient, RejectNames, Begin, SendAttempt,
                      NextPage, CheckCode, reportVars
  <2>4. CASE Answered \/ Unanswered \/ Meddle \/ UNCHANGED vars
    BY <1>1, <2>4, AnsweredTells, UnansweredTells, MeddleTells DEF TypeOK, vars, reportVars
  <2> QED
    BY <2>1, <2>2, <2>3, <2>4, Cases
<1>7. mode' # "throw" => thrown' = 0
  <2>1. CASE Reports
    BY <1>1, <2>1, AdaptTells
       DEF TypeOK, Keeps, Reports, WrapperSuccess, WrapperFailure
  <2>2. CASE Checks \/ Finishes \/ SendAttempt \/ NextPage
    BY <1>1, <2>2, LocalSteps DEF TypeOK, Keeps, SendAttempt, NextPage, reportVars
  <2>3. CASE Answered \/ Unanswered \/ Meddle \/ UNCHANGED vars
    BY <1>1, <2>3, AnsweredTells, UnansweredTells, MeddleTells
       DEF TypeOK, Keeps, vars, reportVars
  <2> QED
    BY <2>1, <2>2, <2>3, Cases
<1> QED
  BY <1>2, <1>3, <1>4, <1>5, <1>6, <1>7 DEF TypeOK

LEMMA CallStep == ASSUME Inv, [Next]_vars PROVE CallInv'
<1>1. TypeOK /\ CallInv /\ Keeps
  BY OpIsKept DEF Inv
<1>2. CASE Checks
  <2>1. Begin \/ pc' = "done"
    BY <1>2 DEF Checks, RejectClient, RejectNames
  <2>2. pc = "call" /\ pc' \in {"submit", "done"} /\ UNCHANGED <<thrown, value, attempts>>
    BY <1>2, LocalSteps
  <2> QED
    BY <1>1, <2>1, <2>2 DEF CallInv, Keeps, max_retry_count
<1>3. CASE SendAttempt
  BY <1>1, <1>3 DEF CallInv, Keeps, SendAttempt, ClearedHeaders
<1>4. CASE Reports
  BY <1>1, <1>4, LocalSteps DEF CallInv, Keeps
<1>5. CASE Finishes
  BY <1>1, <1>5, LocalSteps DEF CallInv, Keeps
<1>6. CASE NextPage
  BY <1>1, <1>6 DEF CallInv, Keeps, NextPage, reportVars, max_retry_count
<1>7. CASE Answered \/ Unanswered
  BY <1>1, <1>7, AnsweredTells, UnansweredTells DEF CallInv, Keeps
<1>8. CASE Meddle \/ UNCHANGED vars
  BY <1>1, <1>8, MeddleTells DEF CallInv, Keeps, vars, reportVars, requestVars, serviceVars
<1> QED
  BY <1>2, <1>3, <1>4, <1>5, <1>6, <1>7, <1>8, Cases

LEMMA OutcomeStep == ASSUME Inv, [Next]_vars PROVE OutcomeInv'
<1>1. CallInv /\ OutcomeInv /\ Keeps
  BY OpIsKept DEF Inv
<1>2. CASE Checks \/ Reports \/ Finishes
  <2>1. pc' \in {"returned", "adapted"} => pc = "returned"
    BY <1>2, LocalSteps
  <2> QED
    BY <1>1, <1>2, <2>1, LocalSteps DEF OutcomeInv, Keeps, FailureCodes
<1>3. CASE SendAttempt \/ NextPage
  <2>1. pc' \notin {"returned", "adapted"} /\ UNCHANGED <<outcome, parsed>>
    BY <1>3 DEF SendAttempt, NextPage
  <2> QED
    BY <1>1, <2>1 DEF OutcomeInv, FailureCodes
<1>4. CASE Answered
  <2>1. CASE told' \in {"absent", "refused"}
    BY <1>1, <1>4, <2>1, AnsweredTells, Codes
       DEF OutcomeInv, Keeps, FailureCodes, Ends, OtherException, CurlFailed
  <2>2. CASE told' \in Ends
    <3>1. op = "delete_directory" => op \notin Parses \cup Lists
      BY DEF Parses, Lists
    <3>2. /\ pc' = "returned" /\ Understood
          /\ told' = "more" => op = "delete_directory"
          /\ op = "delete_directory" => (headers' = "more" <=> told' = "more")
      BY <1>4, <2>2, AnsweredTells DEF Ends
    <3>3. /\ outcome' \in {200, OtherException} /\ parsed' \in {"none", "data", "empty"}
          /\ outcome' # 200 => parsed' = "none"
          /\ op = "delete_directory" => outcome' = 200
      BY <3>1, <3>2 DEF Understood
    <3> QED
      BY <1>1, <2>2, <3>2, <3>3 DEF OutcomeInv, Keeps, FailureCodes, Ends, OtherException
  <2> QED
    BY <1>4, <2>1, <2>2, AnsweredTells
<1>5. CASE Unanswered
  BY <1>1, <1>5, UnansweredTells
     DEF OutcomeInv, Keeps, FailureCodes, Ends, OtherException, CurlFailed
<1>6. CASE Meddle \/ UNCHANGED vars
  BY <1>1, <1>6, MeddleTells DEF OutcomeInv, Keeps, FailureCodes, vars, requestVars,
                                 serviceVars
<1> QED
  BY <1>2, <1>3, <1>4, <1>5, <1>6, Cases

LEMMA ReportStep == ASSUME Inv, [Next]_vars PROVE ReportInv'
<1>1. CallInv /\ ReportInv /\ OutcomeInv /\ Keeps
  BY OpIsKept DEF Inv
<1>2. CASE Checks \/ SendAttempt \/ NextPage \/ Finishes
  <2>1. pc' \notin {"returned", "adapted"}
    BY <1>2, LocalSteps DEF SendAttempt, NextPage
  <2> QED
    BY <2>1 DEF ReportInv
<1>3. CASE Reports
  <2>1. CASE mode = "wrapper"
    BY <1>1, <1>3, <2>1, LocalSteps DEF ReportInv, Keeps
  <2>2. CASE mode # "wrapper"
    <3>1. Adapt
      BY <1>3, <2>2 DEF Reports, WrapperSuccess, WrapperFailure
    <3>2. outcome' = outcome /\ pc' = "adapted"
      BY <3>1, AdaptTells DEF requestVars
    <3> QED
      BY <1>1, <3>1, <3>2, AdaptTells DEF ReportInv, Keeps, Succeeded
  <2> QED
    BY <2>1, <2>2
<1>4. CASE Answered
  BY <1>4, AnsweredTells DEF ReportInv
<1>5. CASE Unanswered
  BY <1>5, UnansweredTells DEF ReportInv, Ends
<1>6. CASE Meddle \/ UNCHANGED vars
  BY <1>1, <1>6, MeddleTells DEF ReportInv, Keeps, Succeeded, vars, reportVars,
                                 requestVars, serviceVars
<1> QED
  BY <1>2, <1>3, <1>4, <1>5, <1>6, Cases

LEMMA ServiceStep == ASSUME Inv, [Next]_vars PROVE ServiceInv'
<1>1. ServiceInv /\ Keeps
  BY OpIsKept DEF Inv
<1>2. CASE UNCHANGED <<seen, told>>
  BY <1>1, <1>2 DEF ServiceInv, Keeps
<1>3. CASE Meddle
  BY <1>1, <1>3, MeddleTells DEF ServiceInv, Keeps
<1>4. CASE Unanswered
  BY <1>4, UnansweredTells DEF ServiceInv
<1>5. CASE Answered
  <2>1. seen' = seen \cup {size'}
    BY <1>5, AnsweredTells
  <2>2. CASE told' \in {"absent", "refused"}
    <3>1. told' = "absent" => size' = 0
      BY <1>5, <2>2, AnsweredTells DEF Ends
    <3> QED
      BY <2>1, <2>2, <3>1 DEF ServiceInv
  <2>3. CASE told' \in Ends
    <3>1. /\ told' = "complete" /\ op \in Deletes => size' = 0
          /\ op \in Creates \cup Puts \cup AsksExists => size' # 0
      BY <1>5, <2>3, AnsweredTells DEF Ends
    <3> QED
      BY <1>1, <2>1, <2>3, <3>1 DEF ServiceInv, Ends, Keeps
  <2> QED
    BY <1>5, <2>2, <2>3, AnsweredTells
<1>6. UNCHANGED <<seen, told>> \/ Meddle \/ Unanswered \/ Answered
  BY Cases, LocalSteps DEF SendAttempt, NextPage, vars, serviceVars
<1> QED
  BY <1>2, <1>3, <1>4, <1>5, <1>6

-----------------------------------------------------------------------------
(* What the caller is told when the call returns. *)

\* The wrapper's two checks, before any request.
LEMMA RejectedIsTold ==
    ASSUME Inv, RejectClient \/ RejectNames
    PROVE  OutcomeIsTold'
<1>1. /\ pc = "call" /\ errno' \in {client_not_init, invalid_parameters}
      /\ UNCHANGED <<mode, op, value, outcome, told, thrown>>
      /\ mode = "wrapper" /\ value = "none" /\ outcome = 0 /\ told = "nothing"
  BY DEF RejectClient, RejectNames, callVars, requestVars, serviceVars, Inv, CallInv
<1>2. ~ReportsSuccess'
  BY <1>1 DEF ReportsSuccess, client_not_init, invalid_parameters
<1> QED
  BY <1>1, <1>2
  DEF OutcomeIsTold, SuccessIsTold, ToldIsReal, ValueIsAnswer, Misunderstood, OtherException

\* What a state must satisfy for a step to it to end the call.
LEMMA SuccessTold ==
    ASSUME Inv, ReportsSuccess', ~Misunderstood', told' = told, seen' = seen, Keeps,
           \/ told = "complete"
           \/ told = "absent" /\ op \in AsksExists /\ mode # "wrapper" /\ value' = "false",
           value' = "true" => op \in AsksExists /\ told = "complete",
           value' = "data" => told = "complete",
           value' = "false" => told = "absent"
    PROVE  OutcomeIsTold'
<1>1. ServiceInv
  BY DEF Inv
<1>2. SuccessIsTold'
  BY DEF SuccessIsTold, Keeps
<1>3. ToldIsReal'
  <2>1. op \in Deletes \/ value' = "false" => 0 \in seen
    BY <1>1 DEF ServiceInv, Deletes, AsksExists
  <2>2. op \in Creates \cup Puts \/ value' = "true" => \E n \in seen : n # 0
    BY <1>1 DEF ServiceInv, Creates, Puts, AsksExists
  <2> QED
    BY <2>1, <2>2 DEF ToldIsReal, Keeps
<1>4. ValueIsAnswer'
  BY DEF ValueIsAnswer
<1> QED
  BY <1>2, <1>3, <1>4 DEF OutcomeIsTold

LEMMA FailureTold ==
    ASSUME Inv, ~ReportsSuccess', told' = told, outcome' = outcome, Keeps,
           value' \in {"none", "false"},
           \/ outcome = OtherException
           \/ /\ told # "complete"
              /\ ~(told = "absent" /\ op \in AsksExists /\ mode # "wrapper")
              /\ (IF mode = "throw" THEN thrown' ELSE errno')
                     \in {outcome} \cup (IF op = "container_exists"
                                         THEN {unknown_error} ELSE {})
    PROVE  OutcomeIsTold'
<1>1. SuccessIsTold'
  BY DEF SuccessIsTold, Keeps, Misunderstood
<1>2. ToldIsReal'
  BY DEF ToldIsReal
<1>3. ValueIsAnswer'
  BY DEF ValueIsAnswer, Keeps
<1> QED
  BY <1>1, <1>2, <1>3 DEF OutcomeIsTold

LEMMA WrapperIsTold ==
    ASSUME Inv, WrapperSuccess \/ WrapperFailure
    PROVE  OutcomeIsTold'
<1>1. CallInv /\ OutcomeInv /\ ReportInv
  BY DEF Inv
<1>2. /\ pc = "returned" /\ mode = "wrapper" /\ Keeps
      /\ UNCHANGED <<outcome, parsed, seen, told>>
      /\ op \in WrapperOps /\ op # "delete_directory"
  BY <1>1 DEF WrapperSuccess, WrapperFailure, callVars, requestVars, serviceVars, Keeps,
              CallInv, WrapperOps
<1>3. CASE WrapperSuccess
  <2>1. /\ outcome = 200 /\ told = "complete" /\ errno = 0
    BY <1>1, <1>2, <1>3 DEF OutcomeInv, ReportInv, WrapperSuccess, Succeeded, Ends
  <2>2. /\ errno' = 0 /\ value' = IF op \in AsksExists THEN "true" ELSE parsed
    BY <1>3, <2>1 DEF WrapperSuccess
  <2>3. parsed \in {"none", "data", "empty"}
    BY <1>1 DEF OutcomeInv
  <2>4. ReportsSuccess' /\ ~Misunderstood'
    BY <1>2, <2>1, <2>2 DEF ReportsSuccess, Misunderstood, OtherException, Keeps
  <2> QED
    BY <1>2, <2>1, <2>2, <2>3, <2>4, SuccessTold
<1>4. CASE WrapperFailure
  <2>1. /\ outcome \in {OtherException} \cup FailureCodes
        /\ outcome \in FailureCodes => told \notin Ends
        /\ errno' = IF op = "container_exists" \/ outcome = OtherException
                    THEN unknown_error ELSE outcome
        /\ value' \in {"none", "false"}
    <3>1. outcome # 200 /\ outcome # 0 /\ outcome \in {0, 200, OtherException} \cup FailureCodes
      BY <1>1, <1>2, <1>4 DEF OutcomeInv, WrapperFailure, Succeeded
    <3>2. OtherException \notin FailureCodes
      BY Codes DEF FailureCodes, OtherException, CurlFailed
    <3> QED
      BY <1>1, <1>2, <1>4, <3>1, <3>2 DEF OutcomeInv, WrapperFailure
  <2>2. outcome # 0
    BY <1>1, <1>2 DEF OutcomeInv
  <2>3. ~ReportsSuccess'
    BY <1>2, <2>1, <2>2 DEF ReportsSuccess, unknown_error, Keeps
  <2> QED
    BY <1>2, <2>1, <2>3, FailureTold DEF Ends
<1> QED
  BY <1>3, <1>4

\* After blob_client_adaptor: an exception or errno exactly when the request failed.
LEMMA Adapted ==
    ASSUME Inv, pc = "adapted"
    PROVE  /\ mode \in {"errno", "throw"}
           /\ Succeeded => thrown = 0 /\ success /\ told \in Ends
           /\ ~Succeeded => /\ outcome \in {OtherException} \cup FailureCodes
                            /\ parsed = "none"
                            /\ outcome # OtherException => told \notin Ends
                            /\ outcome = 404 <=> told = "absent"
           /\ mode = "throw" => success /\ thrown = IF Succeeded THEN 0 ELSE outcome
           /\ mode = "errno" =>
                  /\ thrown = 0
                  /\ errno = IF Succeeded THEN 0
                             ELSE IF outcome = OtherException THEN unknown_error
                             ELSE outcome
           /\ outcome # 0 /\ OtherException # 0 /\ unknown_error # 0
           /\ unknown_error \notin {404, outcome} /\ OtherException # 404
           /\ OtherException # 200
<1>1. TypeOK /\ CallInv /\ OutcomeInv /\ ReportInv
  BY DEF Inv
<1>2. OtherException \notin FailureCodes /\ unknown_error \notin FailureCodes
  BY Codes DEF FailureCodes, OtherException, CurlFailed, unknown_error
<1>3. /\ OtherException # 0 /\ unknown_error # 0 /\ unknown_error # 404
      /\ OtherException # 404 /\ OtherException # 200 /\ unknown_error # 200
      /\ unknown_error # OtherException
  BY DEF OtherException, unknown_error
<1>4. mode \in {"errno", "throw"} /\ (mode = "errno" => thrown = 0)
  BY <1>1 DEF CallInv, TypeOK
<1>5. /\ outcome # 0 /\ outcome \in {200, OtherException} \cup FailureCodes
      /\ outcome \in {200, OtherException} <=> told \in Ends
      /\ outcome = 404 <=> told = "absent"
      /\ outcome # 200 => parsed = "none"
  BY <1>1 DEF OutcomeInv
<1>6. /\ mode = "throw" => thrown = IF Succeeded THEN 0 ELSE outcome
      /\ mode = "errno" => errno = IF Succeeded THEN 0
                                   ELSE IF outcome = OtherException THEN unknown_error
                                   ELSE outcome
  BY <1>1 DEF ReportInv
<1>7. mode = "throw" \/ Succeeded => success
  BY <1>4, <1>6 DEF success
<1> QED
  BY <1>2, <1>3, <1>4, <1>5, <1>6, <1>7 DEF Succeeded

LEMMA FinishedIsTold ==
    ASSUME Inv, Finishes
    PROVE  OutcomeIsTold'
<1>1. CallInv /\ OutcomeInv /\ parsed \in {"none", "data", "empty"}
  BY DEF Inv, OutcomeInv
<1>2. /\ pc = "adapted" /\ Keeps /\ UNCHANGED <<outcome, parsed, headers, seen, told>>
      /\ value = "none"
  <2>1. Keeps
    BY OpIsKept DEF Finishes, Next, Compute
  <2> QED
    BY <1>1, <2>1, LocalSteps DEF CallInv
<1>3. /\ mode \in {"errno", "throw"}
      /\ Succeeded => thrown = 0 /\ success /\ told \in Ends
      /\ ~Succeeded => /\ outcome \in {OtherException} \cup FailureCodes
                       /\ parsed = "none"
                       /\ outcome # OtherException => told \notin Ends
                       /\ outcome = 404 <=> told = "absent"
      /\ mode = "throw" => success /\ thrown = IF Succeeded THEN 0 ELSE outcome
      /\ mode = "errno" =>
             /\ thrown = 0
             /\ errno = IF Succeeded THEN 0
                        ELSE IF outcome = OtherException THEN unknown_error
                        ELSE outcome
      /\ outcome # 0 /\ OtherException # 0 /\ unknown_error # 0
      /\ unknown_error \notin {404, outcome} /\ OtherException # 404
      /\ OtherException # 200
  BY <1>2, Adapted
<1>4. /\ told = "more" => op = "delete_directory"
      /\ op = "delete_directory" /\ told \in Ends => (headers = "more" <=> told = "more")
  BY <1>1, <1>2 DEF OutcomeInv
<1>5. Misunderstood' <=> outcome = OtherException
  BY <1>2 DEF Misunderstood
<1>6. CASE Rethrow
  <2>1. /\ thrown' = thrown /\ thrown # 0 /\ value' = "none"
        /\ ~(op \in AsksExists /\ thrown = 404)
    BY <1>2, <1>6 DEF Rethrow, reportVars
  <2>2. mode = "throw" /\ ~Succeeded /\ thrown = outcome
    BY <1>3, <2>1
  <2>3. ~ReportsSuccess'
    BY <1>2, <2>1, <2>2 DEF ReportsSuccess, Keeps
  <2> QED
    BY <1>2, <1>3, <2>1, <2>2, <2>3, FailureTold DEF Ends
<1>7. CASE ExistsAnswer
  <2>1. /\ op \in AsksExists /\ thrown \in {0, 404} /\ thrown' = 0
        /\ value' = IF Succeeded THEN "true" ELSE "false"
        /\ errno' = IF ~success /\ errno = 404 THEN 0 ELSE errno
    BY <1>7 DEF ExistsAnswer
  <2>2. CASE Succeeded
    <3>1. told = "complete"
      BY <1>3, <1>4, <2>1, <2>2 DEF AsksExists, Ends
    <3>2. ReportsSuccess' /\ ~Misunderstood'
      BY <1>2, <1>3, <1>5, <2>1, <2>2 DEF ReportsSuccess, Keeps, Succeeded
    <3> QED
      BY <1>2, <2>1, <2>2, <3>1, <3>2, SuccessTold
  <2>3. CASE ~Succeeded /\ outcome = 404
    <3>1. told = "absent" /\ mode # "wrapper" /\ ~Misunderstood'
      BY <1>3, <1>5, <2>3
    <3>2. ReportsSuccess'
      BY <1>2, <1>3, <2>1, <2>3 DEF ReportsSuccess, Keeps, success
    <3> QED
      BY <1>2, <2>1, <2>3, <3>1, <3>2, SuccessTold
  <2>4. CASE ~Succeeded /\ outcome # 404
    <3>1. mode = "errno" /\ errno # 404 /\ errno' = errno /\ errno # 0
      BY <1>3, <2>1, <2>4
    <3>2. ~ReportsSuccess'
      BY <1>2, <3>1 DEF ReportsSuccess, Keeps
    <3>3. outcome = OtherException \/ (errno' = outcome /\ told # "complete")
      BY <1>3, <2>4, <3>1 DEF Ends
    <3> QED
      BY <1>2, <1>3, <2>1, <2>4, <3>1, <3>2, <3>3, FailureTold
  <2> QED
    BY <2>2, <2>3, <2>4
<1>8. CASE DeleteDirectoryReturns \/ ReadHeaders \/ ReturnResponse
  <2>1. /\ thrown = 0 /\ op \notin AsksExists /\ UNCHANGED <<errno, thrown>>
        /\ value' \in {"none", parsed, "data"}
        /\ value' = "data" => success /\ (headers # "none" \/ parsed = "data")
        /\ told = "more" /\ Succeeded => FALSE
    <3>1. CASE DeleteDirectoryReturns
      <4>1. op = "delete_directory" /\ UNCHANGED <<errno, thrown, value>> /\ thrown = 0
            /\ (~success \/ headers # "more")
        BY <3>1 DEF DeleteDirectoryReturns, LastPage, reportVars
      <4> QED
        BY <1>2, <1>3, <1>4, <4>1 DEF AsksExists
    <3>2. CASE ReadHeaders
      <4>1. /\ op \in {"get_directory_access_control", "list_paths_segmented"}
            /\ thrown = 0 /\ UNCHANGED <<errno, thrown>>
            /\ value' = IF op = "list_paths_segmented" THEN parsed
                        ELSE IF success /\ headers # "none" THEN "data" ELSE "none"
        BY <3>2 DEF ReadHeaders
      <4>2. parsed = "data" => success
        BY <1>3
      <4> QED
        BY <1>3, <1>4, <4>1, <4>2 DEF AsksExists
    <3>3. CASE ReturnResponse
      <4>1. /\ op \notin AsksExists /\ op # "delete_directory"
            /\ thrown = 0 /\ UNCHANGED <<errno, thrown>> /\ value' = parsed
        BY <3>3 DEF ReturnResponse
      <4> QED
        BY <1>3, <1>4, <4>1
    <3> QED
      BY <1>8, <3>1, <3>2, <3>3
  <2>2. CASE Succeeded
    <3>1. told = "complete" /\ ReportsSuccess' /\ ~Misunderstood'
      BY <1>2, <1>3, <1>5, <2>1, <2>2 DEF Ends, ReportsSuccess, Keeps, Succeeded
    <3>2. value' \in {"none", "data", "empty"}
      BY <1>1, <2>1
    <3> QED
      BY <1>2, <3>1, <3>2, SuccessTold
  <2>3. CASE ~Succeeded
    <3>1. mode = "errno" /\ errno # 0 /\ ~success
      BY <1>3, <2>1, <2>3 DEF success
    <3>2. ~ReportsSuccess' /\ value' = "none"
      BY <1>2, <1>3, <2>1, <2>3, <3>1 DEF ReportsSuccess, Keeps
    <3>3. outcome = OtherException \/ (errno' = outcome /\ told # "complete")
      BY <1>3, <2>1, <2>3, <3>1 DEF Ends
    <3> QED
      BY <1>2, <2>1, <3>1, <3>2, <3>3, FailureTold
  <2> QED
    BY <2>2, <2>3
<1> QED
  BY <1>6, <1>7, <1>8 DEF Finishes

LEMMA ToldStep == ASSUME Inv, [Next]_vars PROVE OutcomeIsTold'
<1>1. CASE pc' # "done"
  BY <1>1 DEF OutcomeIsTold, SuccessIsTold, ToldIsReal, ValueIsAnswer
<1>2. CASE UNCHANGED vars
  BY <1>2 DEF Inv, OutcomeIsTold, SuccessIsTold, ToldIsReal, ValueIsAnswer, ReportsSuccess,
              Misunderstood, vars, callVars, reportVars, requestVars, serviceVars
<1>3. CASE Checks /\ pc' = "done"
  BY <1>3, RejectedIsTold DEF Checks, Begin
<1>4. CASE Reports /\ pc' = "done"
  <2>1. ~Adapt
    BY <1>4, AdaptTells
  <2> QED
    BY <1>4, <2>1, WrapperIsTold DEF Reports
<1>5. CASE Finishes
  BY <1>5, FinishedIsTold
<1>6. SendAttempt \/ NextPage \/ Answered \/ Unanswered \/ Meddle => pc' # "done"
  BY AnsweredTells, UnansweredTells DEF SendAttempt, NextPage, Meddle
<1> QED
  BY <1>1, <1>2, <1>3, <1>4, <1>5, <1>6, Cases

-----------------------------------------------------------------------------
(* Theorems. *)

LEMMA InitInv == Init => Inv
<1> SUFFICES ASSUME Init PROVE Inv
  OBVIOUS
<1>1. /\ \/ mode = "wrapper" /\ op \in WrapperOps
         \/ mode \in {"errno", "throw"} /\ op \in AdlsOps /\ ready /\ named
      /\ pc = "call" /\ errno \in {0, 404} /\ thrown = 0 /\ value = "none" /\ attempts = 0
      /\ outcome = 0 /\ parsed = "none" /\ headers = "none" /\ told = "nothing"
      /\ size \in Sizes /\ seen = {size}
  BY DEF Init
<1>2. TypeOK
  BY <1>1 DEF TypeOK, max_retry_count
<1>3. CallInv /\ OutcomeInv /\ ReportInv /\ ServiceInv /\ OutcomeIsTold
  BY <1>1 DEF CallInv, OutcomeInv, ReportInv, ServiceInv, OutcomeIsTold, SuccessIsTold,
              ToldIsReal, ValueIsAnswer
<1> QED
  BY <1>2, <1>3 DEF Inv

\* The inductive invariant: the outcome of the last attempt is what the service said
\* of it, errno or the exception is what became of the outcome, and the headers of
\* a page have a continuation exactly when it is not the last.
THEOREM Invariance == Safety => []Inv
<1>1. Inv /\ [Next]_vars => Inv'
  BY TypeStep, CallStep, OutcomeStep, ReportStep, ServiceStep, ToldStep DEF Inv
<1> QED
  BY InitInv, <1>1, PTL DEF Safety

\* errno takes no value but the library's own and the service's, no exception leaves
\* a client that has exceptions off, and no request is attempted a fifth time.
THEOREM TypeCorrect == Safety => []TypeOK
<1>1. Inv => TypeOK
  BY DEF Inv
<1> QED
  BY Invariance, <1>1, PTL

\* The caller is told of success exactly when the service said that the work of this
\* call is complete, through retries and pages and whatever other clients do; what
\* it is told held during the call, and a value comes from an answer to it.
THEOREM CallerIsTold == Safety => []OutcomeIsTold
<1>1. Inv => OutcomeIsTold
  BY DEF Inv
<1> QED
  BY Invariance, <1>1, PTL
=============================================================================
