----------------------- MODULE RetryExecutorProofs -----------------------
(***************************************************************************)
(* What RetryExecutor's run shows for contents of one or two tokens, for   *)
(* contents of any length, any lengths announced and any set of statuses.  *)
(***************************************************************************)
EXTENDS RetryExecutor, SequenceTheorems, TLAPS

InFlight == {"send", "wait", "head", "receive", "callback"}

\* The answer to this attempt is being read, or was read to its end.
Reading == pc = "receive" \/ (pc = "callback" /\ curl = "ok") \/ promise = "ok"

Pieces == Tokens \cup {"error"}

ShapeInv ==
    /\ op \in Ops /\ policy \in {"retry_policy", "no_retry_policy"}
    /\ input \in [pos : Nat, read_pos : Nat, fail : BOOLEAN, length : Nat]
    /\ output \in [data : Seq(Pieces), pos : Nat, bad : BOOLEAN]
    /\ answer \in [code : Codes \cup {0}, data : Seq(Pieces)]
    /\ body \in Seq(Tokens) /\ blob \in Seq(Tokens)
    /\ errors \in Seq(Pieces) /\ served \in Seq(Pieces)
    /\ attempts \in Nat

\* The failed attempts are counted, the one under way is one more, and it is due.
CountInv ==
    /\ numbers = 0 => result = 0
    /\ pc \in InFlight \cup {"submit"} => promise = "unset"
    /\ pc = "submit" => attempts = numbers
    /\ pc \in InFlight => attempts = numbers + 1 /\ (numbers = 0 \/ ShouldRetry)
    /\ attempts <= max_retry_count + 1
    /\ policy = "no_retry_policy" => attempts <= 1

\* What an attempt has sent is the beginning of the caller's data: the stream
\* stands where the attempt is, and at its beginning before the attempt.
InputInv ==
    /\ Len(body) <= Len(Source) /\ Len(body) <= input.length
    /\ \A i \in 1..Len(body) : body[i] = Source[i]
    /\ pc \in InFlight => /\ input.read_pos = Len(body)
                          /\ input.fail \/ input.pos = Len(body)
    /\ pc = "submit" => input.read_pos = 0 /\ (input.fail \/ input.pos = 0)
    /\ pc = "wait" /\ HasInput => Len(body) = input.length
    /\ late > 0 => HasInput /\ input.length <= Len(Source)

\* The final status is the answer's, and sends its data where it belongs.
AnswerInv ==
    /\ pc = "head" \/ Reading => answer.code \in Codes
    /\ pc = "head" => answer.data = served
    /\ Reading => /\ m_code = answer.code
                  /\ Switches(m_code) => writer = "error"
    /\ Reading /\ pc # "receive" => answer.data = <<>>
    /\ promise = "ok" => ~Unsuccessful(answer.code)

\* The blob after n requests were applied.
Contains(n) ==
    /\ ~HasInput => blob \in {Original, Other}
    /\ op = "upload" => blob = IF n = 0 THEN Original ELSE Announced
    /\ op = "append" => blob = Appended[n]

\* No more requests were applied than were sent and are not under way.
Applied(n) ==
    /\ n + late + (IF pc \in {"send", "wait"} THEN 1 ELSE 0) <= attempts
    /\ HasInput /\ (pc = "head" \/ Reading) /\ ~Unsuccessful(answer.code) => n > 0
    /\ Contains(n)
BlobInv == \E n \in 0..(max_retry_count + 1) : Applied(n)

\* s, then the rest, are the data that the service serves.
Delivers(s, n, rest) ==
    /\ Len(served) = n + Len(rest)
    /\ \A i \in 1..n : s[i] = served[i]
    /\ \A i \in 1..Len(rest) : rest[i] = served[n + i]

\* The caller's stream holds the data from its beginning; behind them it holds
\* what it had of the same blob, if that was not replaced.
OutputInv ==
    op = "download" /\ ~output.bad =>
        /\ pc \in {"submit", "send", "wait", "head"} => output.pos = 0
        /\ Reading /\ writer = "write" => Delivers(output.data, output.pos, answer.data)
        /\ blob = Original =>
               /\ Len(output.data) <= Len(Original)
               /\ \A i \in 1..Len(output.data) : output.data[i] = Original[i]
               /\ (pc = "head" \/ Reading) /\ ~Unsuccessful(answer.code) =>
                      served = Original

ListInv ==
    op = "list" =>
        /\ pc \in {"send", "wait", "head"} => errors = <<>>
        /\ Reading => Delivers(errors, Len(errors), answer.data)

Inv ==
    /\ TypeOK /\ ShapeInv /\ CountInv /\ RequestIsFresh
    /\ InputInv /\ AnswerInv /\ BlobInv /\ OutputInv /\ ListInv

-----------------------------------------------------------------------------
(* Contents. *)

\* The constants and variables as numbers, records and sequences.
LEMMA Types ==
    ASSUME Inv
    PROVE  /\ Source \in Seq(Tokens) /\ Original \in Seq(Tokens) /\ Other \in Seq(Tokens)
           /\ Len(Source) \in Nat /\ Codes \subseteq Nat
           /\ Len(body) \in Nat /\ Len(output.data) \in Nat
           /\ body \in Seq(Tokens) /\ blob \in Seq(Tokens)
           /\ input \in [pos : Nat, read_pos : Nat, fail : BOOLEAN, length : Nat]
           /\ output \in [data : Seq(Pieces), pos : Nat, bad : BOOLEAN]
           /\ output.pos <= Len(output.data) /\ input.pos <= Len(Source)
           /\ input.read_pos <= input.length
           /\ answer \in [code : Codes \cup {0}, data : Seq(Pieces)]
           /\ errors \in Seq(Pieces) /\ served \in Seq(Pieces)
           /\ attempts \in Nat /\ numbers \in 0..4 /\ late \in Nat
<1>1. /\ Source \in Seq(Tokens) /\ Original \in Seq(Tokens) /\ Other \in Seq(Tokens)
      /\ Codes \subseteq Nat
  BY ContentAssumption
<1>2. /\ body \in Seq(Tokens) /\ blob \in Seq(Tokens)
      /\ input \in [pos : Nat, read_pos : Nat, fail : BOOLEAN, length : Nat]
      /\ output \in [data : Seq(Pieces), pos : Nat, bad : BOOLEAN]
      /\ answer \in [code : Codes \cup {0}, data : Seq(Pieces)]
      /\ errors \in Seq(Pieces) /\ served \in Seq(Pieces) /\ attempts \in Nat
  BY DEF Inv, ShapeInv
<1>3. Len(Source) \in Nat /\ Len(body) \in Nat /\ Len(output.data) \in Nat
  BY <1>1, <1>2, LenProperties
<1>4. /\ output.pos <= Len(output.data) /\ input.pos <= Len(Source)
      /\ input.read_pos <= input.length /\ numbers \in 0..4 /\ late \in Nat
  BY <1>2, <1>3 DEF Inv, TypeOK, max_retry_count
<1> QED
  BY <1>1, <1>2, <1>3, <1>4

LEMMA AnnouncedIsData ==
    ASSUME Inv, input.length <= Len(Source)
    PROVE  /\ Announced \in Seq(Tokens) /\ Len(Announced) = input.length
           /\ \A i \in 1..input.length : Announced[i] = Source[i]
<1>1. /\ Source \in Seq(Tokens) /\ Len(Source) \in Nat /\ input.length \in Nat
  BY Types
<1>2. \A i \in 1..input.length : Source[i] \in Tokens
  BY <1>1, ElementOfSeq
<1> DEFINE n == input.length
<1>3. n \in Int /\ 1 \in Int /\ \A i \in 1..n : Source[i] \in Tokens
  BY <1>1, <1>2
<1> HIDE DEF n
<1>4. /\ SubSeq(Source, 1, n) \in Seq(Tokens)
      /\ Len(SubSeq(Source, 1, n)) = IF 1 <= n THEN n - 1 + 1 ELSE 0
      /\ \A i \in 1..(n - 1 + 1) : SubSeq(Source, 1, n)[i] = Source[1 + i - 1]
  BY <1>3, SubSeqProperties
<1>5. /\ Announced \in Seq(Tokens) /\ Len(Announced) = n
      /\ \A i \in 1..n : Announced[i] = Source[i]
  BY <1>1, <1>3, <1>4 DEF Announced, n
<1> QED
  BY <1>5 DEF n

\* A request that was sent whole holds what it announced.
LEMMA BodyIsAnnounced ==
    ASSUME Inv, pc = "wait", HasInput
    PROVE  body = Announced /\ input.length <= Len(Source)
<1>1. /\ Len(body) = input.length /\ Len(body) <= Len(Source) /\ body \in Seq(Tokens)
      /\ \A i \in 1..Len(body) : body[i] = Source[i]
  BY Types DEF Inv, InputInv
<1>2. /\ Announced \in Seq(Tokens) /\ Len(Announced) = input.length
      /\ \A i \in 1..input.length : Announced[i] = Source[i]
  BY <1>1, AnnouncedIsData
<1> QED
  BY <1>1, <1>2, SeqEqual

LEMMA EffectIsData ==
    ASSUME Inv, NEW data \in Seq(Tokens)
    PROVE  Effect(data) \in Seq(Tokens)
<1>1. blob \in Seq(Tokens) /\ blob \o data \in Seq(Tokens)
  BY Types, ConcatProperties
<1> QED
  BY <1>1 DEF Effect

\* A write at the stream's position, inside its content or at its end.
LEMMA PutPiece ==
    ASSUME NEW out \in [data : Seq(Pieces), pos : Nat, bad : BOOLEAN],
           out.pos <= Len(out.data), NEW x \in Pieces, ~out.bad
    PROVE  /\ Put(out, x) \in [data : Seq(Pieces), pos : Nat, bad : BOOLEAN]
           /\ Put(out, x).pos = out.pos + 1 /\ ~Put(out, x).bad
           /\ Len(Put(out, x).data) = IF out.pos < Len(out.data) THEN Len(out.data)
                                      ELSE Len(out.data) + 1
           /\ \A i \in 1..Len(Put(out, x).data) :
                  Put(out, x).data[i] = IF i = out.pos + 1 THEN x ELSE out.data[i]
<1> DEFINE d == out.data
           e == IF out.pos < Len(d) THEN [d EXCEPT ![out.pos + 1] = x] ELSE Append(d, x)
<1>1. d \in Seq(Pieces) /\ Len(d) \in Nat /\ out.pos \in Nat
  BY LenProperties
<1>2. /\ e \in Seq(Pieces)
      /\ Len(e) = IF out.pos < Len(d) THEN Len(d) ELSE Len(d) + 1
      /\ \A i \in 1..Len(e) : e[i] = IF i = out.pos + 1 THEN x ELSE d[i]
  <2>1. CASE out.pos < Len(d)
    <3>1. out.pos + 1 \in 1..Len(d) /\ e = [d EXCEPT ![out.pos + 1] = x]
      BY <1>1, <2>1
    <3>2. /\ e \in Seq(Pieces) /\ Len(e) = Len(d)
          /\ \A j \in 1..Len(d) : e[j] = IF j = out.pos + 1 THEN x ELSE d[j]
      BY <1>1, <3>1, ExceptSeq
    <3> QED
      BY <2>1, <3>2
  <2>2. CASE ~(out.pos < Len(d))
    <3>1. out.pos = Len(d) /\ e = Append(d, x)
      BY <1>1, <2>2
    <3>2. /\ e \in Seq(Pieces) /\ Len(e) = Len(d) + 1
          /\ \A i \in 1..Len(d) : e[i] = d[i]
          /\ e[Len(d) + 1] = x
      BY <1>1, <3>1, AppendProperties
    <3> QED
      BY <1>1, <2>2, <3>1, <3>2
  <2> QED
    BY <2>1, <2>2
<1> DEFINE t == [out EXCEPT !.pos = out.pos + 1]
<1>3. /\ t \in [data : Seq(Pieces), pos : Nat, bad : BOOLEAN]
      /\ t.pos = out.pos + 1 /\ t.bad = FALSE
  BY <1>1
<1>4. Put(out, x) = [t EXCEPT !.data = e]
  BY DEF Put
<1> HIDE DEF e, t
<1>5. /\ [t EXCEPT !.data = e] \in [data : Seq(Pieces), pos : Nat, bad : BOOLEAN]
      /\ [t EXCEPT !.data = e].pos = out.pos + 1 /\ [t EXCEPT !.data = e].bad = FALSE
      /\ [t EXCEPT !.data = e].data = e
  BY <1>2, <1>3
<1> QED
  BY <1>2, <1>4, <1>5

\* One token more is read: the stream, the count and the body move together.
LEMMA ReadMoves ==
    ASSUME Inv, ReadBody
    PROVE  /\ input' \in [pos : Nat, read_pos : Nat, fail : BOOLEAN, length : Nat]
           /\ input'.pos = input.pos + 1 /\ input'.read_pos = input.read_pos + 1
           /\ input'.fail = input.fail /\ input'.length = input.length
           /\ input'.pos <= Len(Source)
           /\ body' \in Seq(Tokens) /\ Len(body') = Len(body) + 1
           /\ \A i \in 1..Len(body) : body'[i] = body[i]
           /\ body'[Len(body) + 1] = Source[input.pos + 1]
<1> DEFINE t == [input EXCEPT !.pos = input.pos + 1]
           q == input.read_pos + 1
<1>0. input \in [pos : Nat, read_pos : Nat, fail : BOOLEAN, length : Nat]
  BY Types
<1>1. /\ body \in Seq(Tokens) /\ Source \in Seq(Tokens) /\ Len(Source) \in Nat
      /\ input.pos < Len(Source) /\ input.pos \in Nat
      /\ body' = Append(body, Source[input.pos + 1])
  BY <1>0, Types DEF ReadBody
<1>2. /\ t \in [pos : Nat, read_pos : Nat, fail : BOOLEAN, length : Nat] /\ q \in Nat
      /\ t.pos = input.pos + 1 /\ t.fail = input.fail /\ t.length = input.length
  BY <1>0
<1>3. input' = [t EXCEPT !.read_pos = q]
  BY <1>1 DEF ReadBody
<1>4. input.pos + 1 \in 1..Len(Source) /\ Source[input.pos + 1] \in Tokens
  <2>1. input.pos + 1 \in 1..Len(Source)
    BY <1>1
  <2> QED
    BY <1>1, <2>1, ElementOfSeq
<1> HIDE DEF t
<1>5. /\ input' \in [pos : Nat, read_pos : Nat, fail : BOOLEAN, length : Nat]
      /\ input'.pos = input.pos + 1 /\ input'.read_pos = input.read_pos + 1
      /\ input'.fail = input.fail /\ input'.length = input.length
  BY <1>2, <1>3
<1>6. /\ body' \in Seq(Tokens) /\ Len(body') = Len(body) + 1
      /\ \A i \in 1..Len(body) : body'[i] = body[i]
      /\ body'[Len(body) + 1] = Source[input.pos + 1]
  BY <1>1, <1>4, AppendProperties
<1> QED
  BY <1>1, <1>4, <1>5, <1>6

\* One token of the answer is received by one of the two streams.
LEMMA ReceiveMoves ==
    ASSUME Inv, ReceiveData
    PROVE  /\ answer' \in [code : Codes \cup {0}, data : Seq(Pieces)]
           /\ answer'.code = answer.code
           /\ Len(answer.data) \in Nat \ {0} /\ Len(answer'.data) = Len(answer.data) - 1
           /\ \A i \in 1..Len(answer'.data) : answer'.data[i] = answer.data[i + 1]
           /\ Head(answer.data) = answer.data[1] /\ Head(answer.data) \in Pieces
<1> DEFINE d == answer.data
<1>1. answer \in [code : Codes \cup {0}, data : Seq(Pieces)] /\ d # <<>>
  BY Types DEF ReceiveData
<1>2. d \in Seq(Pieces) /\ Len(d) \in Nat \ {0} /\ answer' = [answer EXCEPT !.data = Tail(d)]
  BY <1>1, EmptySeq DEF ReceiveData
<1>3. /\ Head(d) \in Pieces /\ Tail(d) \in Seq(Pieces) /\ Len(Tail(d)) = Len(d) - 1
      /\ \A i \in 1..Len(Tail(d)) : Tail(d)[i] = d[i + 1]
  BY <1>1, <1>2, HeadTailProperties
<1>4. Head(d) = d[1]
  BY <1>2
<1>5. /\ answer' \in [code : Codes \cup {0}, data : Seq(Pieces)]
      /\ answer'.code = answer.code /\ answer'.data = Tail(d)
  <2> HIDE DEF d
  <2>1. Tail(d) \in Seq(Pieces)
    BY <1>3
  <2>2. answer' = [answer EXCEPT !.data = Tail(d)]
    BY <1>2
  <2> QED
    BY <1>1, <2>1, <2>2
<1> QED
  BY <1>2, <1>3, <1>4, <1>5

\* Before a retry the streams that did not fail are at their beginning again.
LEMMA RewindMoves ==
    ASSUME Inv, AttemptFailed
    PROVE  /\ input' \in [pos : Nat, read_pos : Nat, fail : BOOLEAN, length : Nat]
           /\ input'.read_pos = 0 /\ input'.fail = input.fail /\ input'.length = input.length
           /\ input'.pos = IF input.fail THEN input.pos ELSE 0
           /\ output' \in [data : Seq(Pieces), pos : Nat, bad : BOOLEAN]
           /\ output'.data = output.data /\ output'.bad = output.bad
           /\ output'.pos = IF output.bad THEN output.pos ELSE 0
<1> DEFINE p == IF input.fail THEN input.pos ELSE 0
           t == [input EXCEPT !.pos = p]
           o == IF output.bad THEN output.pos ELSE 0
<1>1. /\ input \in [pos : Nat, read_pos : Nat, fail : BOOLEAN, length : Nat]
      /\ output \in [data : Seq(Pieces), pos : Nat, bad : BOOLEAN]
  BY Types
<1>2. input' = [t EXCEPT !.read_pos = 0] /\ output' = [output EXCEPT !.pos = o]
  BY DEF AttemptFailed, RewindInput, RewindOutput
<1>3. p \in Nat /\ o \in Nat
  BY <1>1
<1> HIDE DEF p, o
<1>4. /\ t \in [pos : Nat, read_pos : Nat, fail : BOOLEAN, length : Nat]
      /\ t.pos = p /\ t.fail = input.fail /\ t.length = input.length
  BY <1>1, <1>3
<1> HIDE DEF t
<1>5. /\ input' \in [pos : Nat, read_pos : Nat, fail : BOOLEAN, length : Nat]
      /\ input'.read_pos = 0 /\ input'.fail = input.fail /\ input'.length = input.length
      /\ input'.pos = p
  BY <1>2, <1>4
<1>6. /\ output' \in [data : Seq(Pieces), pos : Nat, bad : BOOLEAN]
      /\ output'.data = output.data /\ output'.bad = output.bad /\ output'.pos = o
  BY <1>1, <1>2, <1>3
<1> QED
  BY <1>5, <1>6 DEF p, o

-----------------------------------------------------------------------------
(* The steps, one part of the invariant after the other. *)

\* What the caller's stream is after a piece is received.
LEMMA ReceiveWrites ==
    ASSUME Inv, ReceiveData
    PROVE  \/ /\ writer = "write" /\ errors' = errors
              /\ output' = IF output.bad THEN output ELSE Put(output, Head(answer.data))
              /\ output' \in [data : Seq(Pieces), pos : Nat, bad : BOOLEAN]
              /\ output'.pos <= Len(output'.data)
           \/ /\ writer # "write" /\ output' = output
              /\ errors' = Append(errors, Head(answer.data)) /\ errors' \in Seq(Pieces)
<1>1. /\ output \in [data : Seq(Pieces), pos : Nat, bad : BOOLEAN]
      /\ output.pos <= Len(output.data) /\ Len(output.data) \in Nat
      /\ errors \in Seq(Pieces) /\ Head(answer.data) \in Pieces
  BY Types, ReceiveMoves
<1>2. CASE writer = "write" /\ ~output.bad
  <2>1. errors' = errors /\ output' = Put(output, Head(answer.data))
    BY <1>2 DEF ReceiveData
  <2>2. /\ output' \in [data : Seq(Pieces), pos : Nat, bad : BOOLEAN]
        /\ output'.pos = output.pos + 1
        /\ Len(output'.data) = IF output.pos < Len(output.data) THEN Len(output.data)
                               ELSE Len(output.data) + 1
    BY <1>1, <1>2, <2>1, PutPiece
  <2>3. output.pos \in Nat
    BY <1>1
  <2> QED
    BY <1>1, <1>2, <2>1, <2>2, <2>3
<1>3. CASE writer = "write" /\ output.bad
  BY <1>1, <1>3 DEF ReceiveData, Put
<1>4. CASE writer # "write"
  <2>1. output' = output /\ errors' = Append(errors, Head(answer.data))
    BY <1>4 DEF ReceiveData
  <2> QED
    BY <1>1, <1>4, <2>1, AppendProperties
<1> QED
  BY <1>2, <1>3, <1>4

LEMMA ServeAnswers ==
    ASSUME Inv, Serve
    PROVE  /\ answer' \in [code : Codes \cup {0}, data : Seq(Pieces)]
           /\ answer'.code \in Codes /\ served' = answer'.data
           /\ blob' = blob \/ blob' = Effect(body)
           /\ ~Unsuccessful(answer'.code) =>
                  /\ blob' = Effect(body)
                  /\ answer'.data = IF HasInput THEN <<>> ELSE blob
           /\ blob' \in Seq(Tokens)
<1>1. /\ blob \in Seq(Tokens) /\ body \in Seq(Tokens) /\ Effect(body) \in Seq(Tokens)
      /\ Codes \subseteq Nat /\ {200, 500} \subseteq Codes
  BY Types, EffectIsData, ContentAssumption
<1>2. <<>> \in Seq(Pieces) /\ blob \in Seq(Pieces) /\ <<"error">> \in Seq(Pieces)
  <2>1. Tokens \subseteq Pieces /\ "error" \in Pieces
    BY DEF Pieces
  <2> QED
    BY <1>1, <2>1, SeqMonotonic, EmptySeq
<1>3. served' = answer'.data
  BY DEF Serve
<1>4. CASE answer' = Answer(200, IF HasInput THEN <<>> ELSE blob) /\ blob' = Effect(body)
  BY <1>1, <1>2, <1>3, <1>4 DEF Answer
<1>5. CASE answer' = Answer(500, <<"error">>) /\ blob' = Effect(body)
  BY <1>1, <1>2, <1>3, <1>5 DEF Answer, Unsuccessful
<1>6. ASSUME NEW c \in Codes, Unsuccessful(c), answer' = Answer(c, <<"error">>), blob' = blob
      PROVE  /\ answer' \in [code : Codes \cup {0}, data : Seq(Pieces)]
             /\ answer'.code \in Codes /\ Unsuccessful(answer'.code)
  BY <1>2, <1>6 DEF Answer
<1> QED
  BY <1>1, <1>3, <1>4, <1>5, <1>6 DEF Serve

LEMMA TypeStep == ASSUME Inv, [Next]_vars PROVE TypeOK' /\ ShapeInv'
<1> USE DEF clientVars, requestVars, streamVars, serviceVars
<1> DEFINE Rest ==
        /\ op' = op /\ policy' = policy
        /\ \/ numbers' = numbers /\ result' = result
           \/ numbers' \in 0..4 /\ result' \in Codes \cup {0, 503}
        /\ promise' \in {promise, "ok", "error"}
        /\ m_code' \in Codes \cup {m_code, 100} /\ writer' \in {writer, "write", "error"}
        /\ curl' \in {"ok", "failed", curl}
        /\ pc' \in {"submit", "send", "wait", "head", "receive", "callback", "done", pc}
        /\ attempts' \in Nat /\ attempts' >= attempts
<1>1. /\ TypeOK /\ ShapeInv /\ Len(Source) \in Nat /\ attempts \in Nat /\ late \in Nat
      /\ Codes \subseteq Nat /\ numbers \in 0..4
  BY Types DEF Inv
<1>2. SUFFICES /\ Rest
               /\ input' \in [pos : Nat, read_pos : Nat, fail : BOOLEAN, length : Nat]
               /\ input'.pos <= Len(Source) /\ input'.read_pos <= input'.length
               /\ output' \in [data : Seq(Pieces), pos : Nat, bad : BOOLEAN]
               /\ output'.pos <= Len(output'.data)
               /\ answer' \in [code : Codes \cup {0}, data : Seq(Pieces)]
               /\ body' \in Seq(Tokens) /\ blob' \in Seq(Tokens)
               /\ errors' \in Seq(Pieces) /\ served' \in Seq(Pieces)
               /\ late' \in Nat /\ late' <= attempts'
  <2>1. output' \in [data : Seq(Pieces), pos : Nat, bad : BOOLEAN] =>
            output'.data \in Seq(Pieces) /\ Len(output'.data) \in Nat /\ output'.pos \in Nat
    BY LenProperties
  <2>2. /\ pc \in {"submit", "send", "wait", "head", "receive", "callback", "done"}
        /\ numbers \in 0..4 /\ result \in Codes \cup {0, 503}
        /\ promise \in {"unset", "ok", "error"}
        /\ m_code \in Codes \cup {0, 100} /\ writer \in {"write", "error"}
        /\ curl \in {"ok", "failed"}
    BY <1>1 DEF TypeOK
  <2>3. /\ pc' \in {"submit", "send", "wait", "head", "receive", "callback", "done"}
        /\ promise' \in {"unset", "ok", "error"}
        /\ writer' \in {"write", "error"} /\ curl' \in {"ok", "failed"}
    BY <1>2, <2>2
  <2>4. /\ numbers' \in 0..4 /\ result' \in Codes \cup {0, 503}
        /\ m_code' \in Codes \cup {0, 100}
    BY SMTT(30), <1>2, <2>2
  <2>5. op' \in Ops /\ policy' \in {"retry_policy", "no_retry_policy"} /\ attempts' \in Nat
    BY <1>1, <1>2 DEF ShapeInv
  <2> HIDE DEF Rest
  <2>6. /\ input'.pos \in 0..Len(Source) /\ input'.read_pos \in 0..input'.length
        /\ output'.pos \in 0..Len(output'.data) /\ late' \in 0..attempts'
    BY <1>1, <1>2, <2>1, <2>5
  <2>7. TypeOK'
    BY <2>3, <2>4, <2>6 DEF TypeOK, max_retry_count
  <2>8. ShapeInv'
    BY <1>2, <2>5 DEF ShapeInv
  <2> QED
    BY <2>7, <2>8
<1>3. /\ input \in [pos : Nat, read_pos : Nat, fail : BOOLEAN, length : Nat]
      /\ input.pos <= Len(Source) /\ input.read_pos <= input.length
      /\ output \in [data : Seq(Pieces), pos : Nat, bad : BOOLEAN]
      /\ output.pos <= Len(output.data)
      /\ answer \in [code : Codes \cup {0}, data : Seq(Pieces)]
      /\ body \in Seq(Tokens) /\ blob \in Seq(Tokens)
      /\ errors \in Seq(Pieces) /\ served \in Seq(Pieces)
      /\ late <= attempts /\ <<>> \in Seq(Tokens) /\ <<>> \in Seq(Pieces)
  BY <1>1, Types, EmptySeq DEF TypeOK
<1> HIDE DEF Rest
<1>4. CASE SendAttempt
  <2>1. answer' \in [code : Codes \cup {0}, data : Seq(Pieces)]
    BY <1>1, <1>3, <1>4 DEF SendAttempt, NoAnswer, Answer
  <2>2. /\ Rest /\ attempts' >= attempts /\ errors' = <<>> /\ body' = <<>>
        /\ UNCHANGED <<input, output, served, blob, late>>
    BY <1>1, <1>4 DEF SendAttempt, Rebuild, Rest
  <2> QED
    BY <1>1, <1>3, <2>1, <2>2 DEF Rest
<1>5. CASE ReportFailure
  <2>1. Rest /\ errors' = <<>> /\ UNCHANGED <<input, body, output, serviceVars, attempts>>
    BY <1>1, <1>5 DEF ReportFailure, Rebuild, Rest
  <2> QED
    BY <1>1, <1>3, <2>1
<1>6. CASE ReadBody
  <2>1. input'.read_pos <= input'.length
    <3>1. input.read_pos < input.length
      BY <1>6 DEF ReadBody
    <3> QED
      BY <1>1, <1>3, <1>6, <3>1, ReadMoves
  <2>2. Rest /\ UNCHANGED <<output, errors, serviceVars, attempts>>
    BY <1>1, <1>6 DEF ReadBody, Rest
  <2> QED
    BY <1>1, <1>3, <1>6, <2>1, <2>2, ReadMoves
<1>7. CASE ReadAborts
  <2>1. /\ Rest /\ input' = [input EXCEPT !.fail = TRUE]
        /\ UNCHANGED <<body, output, errors, serviceVars, attempts>>
    BY <1>1, <1>7 DEF ReadAborts, Rest
  <2> QED
    BY <1>1, <1>3, <2>1
<1>8. CASE RequestSent \/ TransferEnds \/ AttemptSucceeded
  <2>1. Rest /\ UNCHANGED <<streamVars, serviceVars, attempts>>
    BY <1>1, <1>8 DEF RequestSent, TransferEnds, AttemptSucceeded, Rest
  <2> QED
    BY <1>1, <1>3, <2>1
<1>9. CASE FinalHeaders \/ InterimStatus
  <2>1. pc = "head" => answer.code \in Codes
    BY DEF Inv, AnswerInv
  <2>2. Rest /\ UNCHANGED <<streamVars, serviceVars, attempts>>
    BY <1>1, <1>9, <2>1 DEF FinalHeaders, InterimStatus, StatusLine, Rest
  <2> QED
    BY <1>1, <1>3, <2>2
<1>10. CASE ReceiveData
  <2>1. Rest /\ UNCHANGED <<input, body, served, blob, late, attempts>>
    BY <1>1, <1>10 DEF ReceiveData, Rest
  <2> QED
    BY <1>1, <1>3, <1>10, <2>1, ReceiveMoves, ReceiveWrites
<1>11. CASE TransferFails
  <2>1. late' <= attempts
    <3>1. CASE pc = "wait"
      <4>1. PICK n \in 0..(max_retry_count + 1) : Applied(n)
        BY DEF Inv, BlobInv
      <4> QED
        BY <1>1, <1>3, <1>11, <3>1, <4>1 DEF Applied, TransferFails, max_retry_count
    <3> QED
      BY <1>1, <1>3, <1>11, <3>1 DEF TransferFails
  <2>2. /\ Rest /\ late' \in {late, late + 1}
        /\ UNCHANGED <<streamVars, answer, served, blob, attempts>>
    BY <1>1, <1>11 DEF TransferFails, Rest
  <2> QED
    BY <1>1, <1>3, <2>1, <2>2
<1>12. CASE OutputGoesBad
  <2>1. /\ Rest /\ output' = [output EXCEPT !.bad = TRUE]
        /\ UNCHANGED <<input, body, errors, serviceVars, attempts>>
    BY <1>1, <1>12 DEF OutputGoesBad, Rest
  <2> QED
    BY <1>1, <1>3, <2>1
<1>13. CASE AttemptFailed
  <2>1. numbers' \in 0..4
    BY <1>1, <1>13 DEF AttemptFailed, AddResult, Inv, CountInv, InFlight, max_retry_count
  <2>2. result' \in Codes \cup {503}
    BY <1>13 DEF AttemptFailed, AddResult, Inv, AnswerInv, Reading
  <2>3. Rest /\ UNCHANGED <<body, errors, answer, served, blob, late, attempts>>
    BY <1>1, <1>13, <2>1, <2>2 DEF AttemptFailed, Rest
  <2>4. output'.pos <= Len(output'.data)
    BY <1>1, <1>3, <1>13, RewindMoves, Types
  <2>5. input'.pos <= Len(Source) /\ input'.read_pos <= input'.length
    BY <1>1, <1>3, <1>13, RewindMoves
  <2> QED
    BY <1>1, <1>3, <1>13, <2>3, <2>4, <2>5, RewindMoves
<1>14. CASE Serve
  <2>1. Rest /\ UNCHANGED <<input, output, body, errors, late, attempts>>
    BY <1>1, <1>14 DEF Serve, Rest
  <2>2. served' \in Seq(Pieces)
    BY <1>14, ServeAnswers
  <2> QED
    BY <1>1, <1>3, <1>14, <2>1, <2>2, ServeAnswers
<1>15. CASE ApplyLate
  <2>1. input.length <= Len(Source)
    BY <1>15 DEF ApplyLate, Inv, InputInv
  <2>2. blob' \in Seq(Tokens)
    BY <1>15, <2>1, AnnouncedIsData, EffectIsData DEF ApplyLate
  <2>3. /\ Rest /\ late' = late - 1 /\ late > 0
        /\ UNCHANGED <<streamVars, answer, served, attempts>>
    BY <1>1, <1>15 DEF ApplyLate, Rest
  <2> QED
    BY <1>1, <1>3, <2>2, <2>3
<1>16. CASE Replace
  <2>1. /\ Rest /\ blob' = Other
        /\ UNCHANGED <<streamVars, answer, served, late, attempts>>
    BY <1>1, <1>16 DEF Replace, Rest
  <2> QED
    BY <1>1, <1>3, <2>1, Types
<1>17. CASE UNCHANGED vars
  <2>1. Rest /\ UNCHANGED <<streamVars, serviceVars, attempts>>
    BY <1>1, <1>17 DEF vars, Rest
  <2> QED
    BY <1>1, <1>3, <2>1
<1> QED
  BY <1>4, <1>5, <1>6, <1>7, <1>8, <1>9, <1>10, <1>11, <1>12, <1>13, <1>14, <1>15,
     <1>16, <1>17 DEF Next, Client, Transfer

\* The steps that neither begin nor end an attempt.
Within == Transfer \/ InterimStatus \/ OutputGoesBad \/ Serve \/ ApplyLate \/ Replace
          \/ UNCHANGED vars

LEMMA Cases ==
    ASSUME [Next]_vars
    PROVE  SendAttempt \/ ReportFailure \/ AttemptFailed \/ AttemptSucceeded \/ Within
BY DEF Next, Client, Within

\* They stay within the attempt and leave the count alone.
LEMMA WithinKeeps ==
    ASSUME Within
    PROVE  /\ UNCHANGED <<op, policy, numbers, result, promise, attempts, slist>>
           /\ pc' = pc \/ (pc \in InFlight /\ pc' \in InFlight)
<1> USE DEF Within, InFlight, vars, clientVars, requestVars, streamVars, serviceVars
<1>1. CASE Transfer
  <2>1. CASE ReadBody \/ ReadAborts \/ RequestSent
    BY <2>1 DEF ReadBody, ReadAborts, RequestSent
  <2>2. CASE FinalHeaders \/ ReceiveData
    BY <2>2 DEF FinalHeaders, ReceiveData
  <2>3. CASE TransferEnds \/ TransferFails
    BY <2>3 DEF TransferEnds, TransferFails
  <2> QED
    BY <1>1, <2>1, <2>2, <2>3 DEF Transfer
<1>2. CASE InterimStatus \/ OutputGoesBad \/ Serve
  BY <1>2 DEF InterimStatus, OutputGoesBad, Serve
<1>3. CASE ApplyLate \/ Replace \/ UNCHANGED vars
  BY <1>3 DEF ApplyLate, Replace
<1> QED
  BY <1>1, <1>2, <1>3

LEMMA CountStep == ASSUME Inv, [Next]_vars PROVE CountInv'
<1> USE DEF clientVars, requestVars
<1>1. CountInv /\ attempts \in Nat /\ numbers \in 0..4
  BY Types DEF Inv
<1>2. CASE SendAttempt
  <2>1. /\ pc = "submit" /\ pc' = "send" /\ (numbers = 0 \/ ShouldRetry)
        /\ attempts' = attempts + 1
        /\ UNCHANGED <<policy, numbers, result, promise>>
    BY <1>2 DEF SendAttempt
  <2>2. ShouldRetry' <=> ShouldRetry
    BY <2>1 DEF ShouldRetry, Retryable
  <2>3. attempts = numbers
    BY <1>1, <2>1 DEF CountInv
  <2>4. attempts' <= max_retry_count + 1 /\ (policy = "no_retry_policy" => attempts' <= 1)
    BY <1>1, <2>1, <2>3 DEF ShouldRetry, max_retry_count
  <2> QED
    BY <1>1, <2>1, <2>2, <2>3, <2>4 DEF CountInv, InFlight
<1>3. CASE ReportFailure \/ AttemptSucceeded
  <2>1. pc' = "done" /\ UNCHANGED <<policy, numbers, result, attempts>>
    BY <1>3 DEF ReportFailure, AttemptSucceeded
  <2> QED
    BY <1>1, <2>1 DEF CountInv, InFlight
<1>4. CASE AttemptFailed
  <2>1. /\ pc = "callback" /\ pc' = "submit" /\ numbers' = numbers + 1
        /\ UNCHANGED <<policy, promise, attempts>>
    BY <1>4 DEF AttemptFailed, AddResult
  <2> QED
    BY <1>1, <2>1 DEF CountInv, InFlight
<1>5. CASE Within
  <2>1. /\ UNCHANGED <<policy, numbers, result, promise, attempts>>
        /\ pc' = pc \/ (pc \in InFlight /\ pc' \in InFlight)
    BY <1>5, WithinKeeps
  <2>2. ShouldRetry' <=> ShouldRetry
    BY <2>1 DEF ShouldRetry, Retryable
  <2> QED
    BY <1>1, <2>1, <2>2 DEF CountInv, InFlight
<1> QED
  BY <1>2, <1>3, <1>4, <1>5, Cases

LEMMA FreshStep == ASSUME Inv, [Next]_vars PROVE RequestIsFresh'
<1> USE DEF clientVars, requestVars, serviceVars, streamVars
<1>1. RequestIsFresh
  BY DEF Inv
<1>2. CASE SendAttempt \/ ReportFailure
  BY <1>2 DEF SendAttempt, ReportFailure, Rebuild, RequestIsFresh
<1>3. CASE AttemptFailed \/ AttemptSucceeded
  BY <1>1, <1>3 DEF AttemptFailed, AttemptSucceeded, RequestIsFresh
<1>4. CASE Within
  <2>1. UNCHANGED <<attempts, slist>>
    BY <1>4, WithinKeeps
  <2>2. pc' \in {"send", "wait", "head", "receive"} =>
            pc \in {"send", "wait", "head", "receive"}
    BY <1>4 DEF Within, Transfer, ReadBody, ReadAborts, RequestSent, FinalHeaders,
                ReceiveData, TransferEnds, TransferFails, InterimStatus, OutputGoesBad,
                Serve, ApplyLate, Replace, vars
  <2>3. responses' \in {responses, responses \cup {attempts}}
    BY <1>4 DEF Within, Transfer, ReadBody, ReadAborts, RequestSent, FinalHeaders,
                ReceiveData, TransferEnds, TransferFails, InterimStatus, OutputGoesBad,
                Serve, ApplyLate, Replace, vars
  <2> QED
    BY <1>1, <2>1, <2>2, <2>3 DEF RequestIsFresh
<1> QED
  BY <1>2, <1>3, <1>4, Cases

LEMMA InputStep == ASSUME Inv, [Next]_vars PROVE InputInv'
<1> USE DEF clientVars, requestVars, serviceVars, streamVars, InFlight, HasInput
<1>1. /\ InputInv /\ Len(Source) \in Nat /\ Len(body) \in Nat /\ late \in Nat
      /\ input \in [pos : Nat, read_pos : Nat, fail : BOOLEAN, length : Nat]
      /\ input.read_pos <= input.length /\ body \in Seq(Tokens)
  BY Types DEF Inv
<1>2. CASE SendAttempt
  <2>1. /\ pc = "submit" /\ pc' = "send" /\ body' = <<>> /\ input' = input
        /\ late' = late /\ op' = op
    BY <1>2 DEF SendAttempt
  <2>2. Len(body') = 0
    BY <2>1, EmptySeq
  <2> QED
    BY <1>1, <2>1, <2>2 DEF InputInv
<1>3. CASE ReportFailure \/ AttemptSucceeded
  <2>1. pc' = "done" /\ UNCHANGED <<op, input, body, late>>
    BY <1>3 DEF ReportFailure, AttemptSucceeded
  <2> QED
    BY <1>1, <2>1 DEF InputInv
<1>4. CASE AttemptFailed
  <2>1. pc' = "submit" /\ UNCHANGED <<op, body, late>>
    BY <1>4 DEF AttemptFailed
  <2> QED
    BY <1>1, <1>4, <2>1, RewindMoves DEF InputInv
<1>5. CASE ReadBody
  <2>1. /\ pc = "send" /\ pc' = "send" /\ UNCHANGED <<op, late>> /\ ~input.fail
        /\ input.pos < Len(Source) /\ input.read_pos < input.length
    BY <1>5 DEF ReadBody
  <2>2. input.read_pos = Len(body) /\ input.pos = Len(body)
    BY <1>1, <2>1 DEF InputInv
  <2>3. /\ input'.pos = input.pos + 1 /\ input'.read_pos = input.read_pos + 1
        /\ input'.fail = input.fail /\ input'.length = input.length
        /\ Len(body') = Len(body) + 1
        /\ \A i \in 1..Len(body) : body'[i] = body[i]
        /\ body'[Len(body) + 1] = Source[input.pos + 1]
    BY <1>5, ReadMoves
  <2>4. \A i \in 1..Len(body') : body'[i] = Source[i]
    BY <1>1, <2>2, <2>3 DEF InputInv
  <2> QED
    BY <1>1, <2>1, <2>2, <2>3, <2>4 DEF InputInv
<1>6. CASE ReadAborts
  <2>1. /\ pc = "send" /\ pc' = "callback" /\ input' = [input EXCEPT !.fail = TRUE]
        /\ UNCHANGED <<op, body, late>>
    BY <1>6 DEF ReadAborts
  <2>2. /\ input'.read_pos = input.read_pos /\ input'.fail /\ input'.length = input.length
    BY <1>1, <2>1
  <2> QED
    BY <1>1, <2>1, <2>2 DEF InputInv
<1>7. CASE RequestSent
  <2>1. /\ pc = "send" /\ pc' = "wait" /\ ~WantsBody /\ UNCHANGED <<op, input, body, late>>
    BY <1>7 DEF RequestSent
  <2>2. HasInput => Len(body) = input.length
    BY <1>1, <2>1 DEF WantsBody, InputInv
  <2> QED
    BY <1>1, <2>1, <2>2 DEF InputInv
<1>8. CASE TransferFails
  <2>1. /\ pc \in InFlight /\ pc' = "callback" /\ UNCHANGED <<op, input, body>>
        /\ late' = IF pc = "wait" /\ HasInput THEN late + 1 ELSE late
    BY <1>8 DEF TransferFails
  <2> QED
    BY <1>1, <2>1 DEF InputInv
<1>9. CASE FinalHeaders \/ ReceiveData \/ TransferEnds \/ InterimStatus \/ OutputGoesBad
           \/ Serve
  <2>1. /\ pc \in InFlight /\ pc' \in InFlight /\ (pc' = "wait" => pc = "wait")
        /\ UNCHANGED <<op, input, body, late>>
    BY <1>9 DEF FinalHeaders, ReceiveData, TransferEnds, InterimStatus, OutputGoesBad, Serve
  <2> QED
    BY <1>1, <2>1 DEF InputInv
<1>10. CASE ApplyLate \/ Replace \/ UNCHANGED vars
  <2>1. /\ late' = late \/ (late > 0 /\ late' = late - 1)
        /\ UNCHANGED <<pc, op, input, body>>
    BY <1>10 DEF ApplyLate, Replace, vars
  <2> QED
    BY <1>1, <2>1 DEF InputInv
<1> QED
  BY <1>2, <1>3, <1>4, <1>5, <1>6, <1>7, <1>8, <1>9, <1>10 DEF Next, Client, Transfer

LEMMA AnswerStep == ASSUME Inv, [Next]_vars PROVE AnswerInv'
<1> USE DEF clientVars, requestVars, serviceVars, streamVars, Switches, Unsuccessful
<1>1. AnswerInv /\ (pc \in InFlight \cup {"submit"} => promise = "unset")
  BY DEF Inv, CountInv
<1>2. CASE SendAttempt \/ ReportFailure \/ AttemptFailed
  <2>1. /\ pc' \in {"submit", "send", "done"} /\ promise' \in {promise, "error"}
        /\ promise # "ok"
    BY <1>1, <1>2 DEF SendAttempt, ReportFailure, AttemptFailed, InFlight
  <2> QED
    BY <2>1 DEF AnswerInv, Reading
<1>3. CASE AttemptSucceeded
  <2>1. /\ pc = "callback" /\ curl = "ok" /\ ~Unsuccessful(m_code)
        /\ pc' = "done" /\ UNCHANGED <<op, answer, served, m_code, writer>>
    BY <1>3 DEF AttemptSucceeded, Failed
  <2> QED
    BY <1>1, <2>1 DEF AnswerInv, Reading
<1>4. CASE ReadBody \/ ReadAborts \/ RequestSent \/ TransferFails
  <2>1. /\ pc \in InFlight /\ promise' = promise
        /\ pc' \in {"send", "wait"} \/ (pc' = "callback" /\ curl' = "failed")
    BY <1>4 DEF ReadBody, ReadAborts, RequestSent, TransferFails, InFlight
  <2> QED
    BY <1>1, <2>1 DEF AnswerInv, Reading
<1>5. CASE FinalHeaders
  <2>1. /\ pc = "head" /\ pc' = "receive" /\ promise' = promise /\ m_code' = answer.code
        /\ writer' = (IF Switches(answer.code) THEN "error" ELSE writer)
        /\ UNCHANGED <<op, answer, served>>
    BY <1>5 DEF FinalHeaders, StatusLine
  <2> QED
    BY <1>1, <2>1 DEF AnswerInv, Reading, InFlight
<1>6. CASE ReceiveData
  <2>1. /\ pc = "receive" /\ pc' = "receive" /\ answer'.code = answer.code
        /\ UNCHANGED <<op, promise, m_code, writer>>
    BY <1>6, ReceiveMoves DEF ReceiveData
  <2> QED
    BY <1>1, <2>1 DEF AnswerInv, Reading, InFlight
<1>7. CASE TransferEnds
  <2>1. /\ pc = "receive" /\ pc' = "callback" /\ answer.data = <<>>
        /\ UNCHANGED <<op, promise, answer, served, m_code, writer>>
    BY <1>7 DEF TransferEnds
  <2> QED
    BY <1>1, <2>1 DEF AnswerInv, Reading, InFlight
<1>8. CASE InterimStatus
  <2>1. pc = "wait" /\ pc' = "wait" /\ promise' = promise
    BY <1>8 DEF InterimStatus
  <2> QED
    BY <1>1, <2>1 DEF AnswerInv, Reading, InFlight
<1>9. CASE Serve
  <2>1. pc = "wait" /\ pc' = "head" /\ promise' = promise
    BY <1>9 DEF Serve
  <2> QED
    BY <1>1, <1>9, <2>1, ServeAnswers DEF AnswerInv, Reading, InFlight
<1>10. CASE OutputGoesBad \/ ApplyLate \/ Replace \/ UNCHANGED vars
  <2>1. UNCHANGED <<pc, op, promise, curl, answer, served, m_code, writer>>
    BY <1>10 DEF OutputGoesBad, ApplyLate, Replace, vars
  <2> QED
    BY <1>1, <2>1 DEF AnswerInv, Reading
<1> QED
  BY <1>2, <1>3, <1>4, <1>5, <1>6, <1>7, <1>8, <1>9, <1>10 DEF Next, Client, Transfer

\* The recursion of Appended, unfolded as far as there are attempts.
Unfolds == /\ Appended[0] = Original
           /\ \A n \in 0..3 : Appended[n + 1] = Appended[n] \o Announced
LEMMA AppendedSteps == Unfolds
<1> DEFINE More(s) == s \o Announced
           Is(f) == f = [n \in 0..4 |-> IF n = 0 THEN Original ELSE More(f[n - 1])]
<1>1. Appended = CHOOSE f : Is(f)
  BY DEF Appended, max_retry_count
<1> HIDE DEF More
<1>2. \E f : Is(f)
  <2> DEFINE b1 == More(Original)
             b2 == More(b1)
             b3 == More(b2)
             b4 == More(b3)
  <2>1. b2 = More(b1) /\ b3 = More(b2) /\ b4 = More(b3) /\ b1 = More(Original)
    OBVIOUS
  <2> HIDE DEF b1, b2, b3, b4
  <2> DEFINE g == [n \in 0..4 |-> IF n = 0 THEN Original ELSE IF n = 1 THEN b1
                                  ELSE IF n = 2 THEN b2 ELSE IF n = 3 THEN b3 ELSE b4]
             h == [n \in 0..4 |-> IF n = 0 THEN Original ELSE More(g[n - 1])]
  <2>2. g[0] = Original /\ g[1] = b1 /\ g[2] = b2 /\ g[3] = b3 /\ g[4] = b4
    OBVIOUS
  <2> HIDE DEF g
  <2>3. h[0] = Original /\ h[1] = b1 /\ h[2] = b2 /\ h[3] = b3 /\ h[4] = b4
    BY <2>1, <2>2
  <2>4. \A n \in 0..4 : n = 0 \/ n = 1 \/ n = 2 \/ n = 3 \/ n = 4
    OBVIOUS
  <2> HIDE DEF h
  <2>5. \A n \in 0..4 : g[n] = h[n]
    BY <2>2, <2>3, <2>4
  <2>6. g = h
    BY <2>5 DEF g, h
  <2>7. Is(g)
    BY <2>6 DEF h
  <2> QED
    BY <2>7
<1> HIDE DEF Is
<1>3. Is(Appended)
  BY <1>1, <1>2
<1>4. /\ Appended[0] = Original
      /\ \A n \in 0..3 : Appended[n + 1] = More(Appended[n])
  BY <1>3 DEF Is
<1> QED
  BY <1>4 DEF More, Unfolds

\* The announced length does not change, nor what depends on it.
LEMMA AnnouncedStays ==
    ASSUME Inv, [Next]_vars
    PROVE  /\ input'.length = input.length /\ op' = op /\ Announced' = Announced
           /\ \A n \in 0..4 : Appended'[n] = Appended[n]
<1>1. input'.length = input.length /\ op' = op
  <2> USE DEF clientVars, requestVars, streamVars, serviceVars
  <2>1. CASE ReadBody
    BY <2>1, ReadMoves DEF ReadBody
  <2>2. CASE AttemptFailed
    BY <2>2, RewindMoves DEF AttemptFailed
  <2>3. CASE ReadAborts
    BY <2>3, Types DEF ReadAborts
  <2>4. CASE SendAttempt \/ ReportFailure \/ AttemptSucceeded
    BY <2>4 DEF SendAttempt, ReportFailure, AttemptSucceeded
  <2>5. CASE RequestSent \/ FinalHeaders \/ ReceiveData \/ TransferEnds \/ TransferFails
    BY <2>5 DEF RequestSent, FinalHeaders, ReceiveData, TransferEnds, TransferFails
  <2>6. CASE InterimStatus \/ OutputGoesBad \/ Serve \/ ApplyLate \/ Replace
             \/ UNCHANGED vars
    BY <2>6 DEF InterimStatus, OutputGoesBad, Serve, ApplyLate, Replace, vars
  <2> QED
    BY <2>1, <2>2, <2>3, <2>4, <2>5, <2>6 DEF Next, Client, Transfer
<1>2. Announced' = Announced
  BY <1>1 DEF Announced
<1>3. Unfolds /\ Unfolds'
  BY AppendedSteps, PTL
<1>4. /\ Appended[0] = Original /\ Appended'[0] = Original
      /\ \A n \in 0..3 : Appended[n + 1] = Appended[n] \o Announced
      /\ \A n \in 0..3 : Appended'[n + 1] = Appended'[n] \o Announced
  BY <1>2, <1>3 DEF Unfolds
<1>5. \A n \in 0..3 : Appended'[n] = Appended[n] => Appended'[n + 1] = Appended[n + 1]
  BY <1>4
<1>6. Appended'[0] = Appended[0]
  BY <1>4
<1>7. Appended'[1] = Appended[1]
  <2>1. 0 \in 0..3 /\ 0 + 1 = 1
    OBVIOUS
  <2> QED
    BY <1>5, <1>6, <2>1
<1>8. Appended'[2] = Appended[2]
  <2>1. 1 \in 0..3 /\ 1 + 1 = 2
    OBVIOUS
  <2> QED
    BY <1>5, <1>7, <2>1
<1>9. Appended'[3] = Appended[3]
  <2>1. 2 \in 0..3 /\ 2 + 1 = 3
    OBVIOUS
  <2> QED
    BY <1>5, <1>8, <2>1
<1>10. Appended'[4] = Appended[4]
  <2>1. 3 \in 0..3 /\ 3 + 1 = 4
    OBVIOUS
  <2> QED
    BY <1>5, <1>9, <2>1
<1>11. \A n \in 0..4 : n = 0 \/ n = 1 \/ n = 2 \/ n = 3 \/ n = 4
  OBVIOUS
<1> QED
  BY <1>1, <1>2, <1>6, <1>7, <1>8, <1>9, <1>10, <1>11

\* Applying a whole request once more.
LEMMA OneMore ==
    ASSUME Inv, [Next]_vars, HasInput, NEW n \in 0..3, Contains(n), blob' = Effect(Announced)
    PROVE  Contains(n + 1)'
<1>1. /\ op' = op /\ Announced' = Announced /\ n + 1 \in 0..4 /\ n + 1 # 0
      /\ Appended'[n + 1] = Appended[n + 1] /\ Appended[n + 1] = Appended[n] \o Announced
  <2>1. n + 1 \in 0..4 /\ n + 1 # 0
    OBVIOUS
  <2>2. Appended[n + 1] = Appended[n] \o Announced
    BY AppendedSteps DEF Unfolds
  <2> QED
    BY <2>1, <2>2, AnnouncedStays
<1>2. CASE op = "upload"
  BY <1>1, <1>2 DEF Contains, Effect, HasInput
<1>3. CASE op = "append"
  BY <1>1, <1>3 DEF Contains, Effect, HasInput
<1> QED
  BY <1>2, <1>3 DEF HasInput

LEMMA BlobStep == ASSUME Inv, [Next]_vars PROVE BlobInv'
<1> USE DEF clientVars, requestVars, serviceVars, streamVars, max_retry_count
<1>1. /\ attempts \in Nat /\ late \in Nat /\ attempts <= 4
      /\ (pc \in InFlight \cup {"submit"} => promise = "unset")
  BY Types DEF Inv, CountInv
<1>2. PICK n \in 0..4 : Applied(n)
  BY DEF Inv, BlobInv
<1>3. /\ op' = op /\ (HasInput' <=> HasInput) /\ Announced' = Announced
      /\ Appended'[n] = Appended[n]
  BY AnnouncedStays DEF HasInput
<1>4. blob' = blob => Contains(n)'
  BY <1>2, <1>3 DEF Applied, Contains, HasInput
<1>5. CASE SendAttempt
  <2>1. /\ pc = "submit" /\ pc' = "send" /\ attempts' = attempts + 1
        /\ UNCHANGED <<promise, blob, late>>
    BY <1>5 DEF SendAttempt
  <2>2. Applied(n)'
    BY <1>1, <1>2, <1>3, <1>4, <2>1 DEF Applied, Reading, InFlight
  <2> QED
    BY <2>2 DEF BlobInv
<1>6. CASE ReportFailure \/ AttemptFailed
  <2>1. /\ pc \in {"submit", "callback"} /\ pc' \in {"done", "submit"}
        /\ promise' \in {promise, "error"} /\ UNCHANGED <<attempts, blob, late>>
    BY <1>6 DEF ReportFailure, AttemptFailed
  <2>2. Applied(n)'
    BY <1>1, <1>2, <1>3, <1>4, <2>1 DEF Applied, Reading, InFlight
  <2> QED
    BY <2>2 DEF BlobInv
<1>7. CASE AttemptSucceeded
  <2>1. /\ pc = "callback" /\ curl = "ok" /\ pc' = "done"
        /\ UNCHANGED <<attempts, blob, late, answer>>
    BY <1>7 DEF AttemptSucceeded, Failed
  <2>2. Applied(n)'
    BY <1>1, <1>2, <1>3, <1>4, <2>1 DEF Applied, Reading, Unsuccessful
  <2> QED
    BY <2>2 DEF BlobInv
<1>8. CASE ReadBody \/ ReadAborts \/ RequestSent
  <2>1. /\ pc = "send"
        /\ pc' \in {"send", "wait"} \/ (pc' = "callback" /\ curl' = "failed")
        /\ UNCHANGED <<promise, attempts, blob, late>>
    BY <1>8 DEF ReadBody, ReadAborts, RequestSent
  <2>2. Applied(n)'
    BY <1>1, <1>2, <1>3, <1>4, <2>1 DEF Applied, Reading, InFlight
  <2> QED
    BY <2>2 DEF BlobInv
<1>9. CASE FinalHeaders \/ ReceiveData \/ TransferEnds
  <2>1. /\ pc \in {"head", "receive"} /\ pc' \in {"receive", "callback"}
        /\ UNCHANGED <<promise, attempts, blob, late>>
    BY <1>9 DEF FinalHeaders, ReceiveData, TransferEnds
  <2>2. answer'.code = answer.code
    BY <1>9, ReceiveMoves DEF FinalHeaders, TransferEnds
  <2>3. Applied(n)'
    BY <1>1, <1>2, <1>3, <1>4, <2>1, <2>2 DEF Applied, Reading, Unsuccessful
  <2> QED
    BY <2>3 DEF BlobInv
<1>10. CASE TransferFails
  <2>1. /\ pc \in InFlight /\ pc' = "callback" /\ curl' = "failed"
        /\ late' = late \/ (pc = "wait" /\ late' = late + 1)
        /\ UNCHANGED <<promise, attempts, blob>>
    BY <1>10 DEF TransferFails, InFlight
  <2>2. Applied(n)'
    BY <1>1, <1>2, <1>3, <1>4, <2>1 DEF Applied, Reading, InFlight
  <2> QED
    BY <2>2 DEF BlobInv
<1>11. CASE InterimStatus \/ OutputGoesBad \/ UNCHANGED vars
  <2>1. UNCHANGED <<pc, promise, attempts, blob, late, answer, curl>>
    BY <1>11 DEF InterimStatus, OutputGoesBad, vars
  <2>2. Applied(n)'
    BY <1>1, <1>2, <1>3, <1>4, <2>1 DEF Applied, Reading, Unsuccessful
  <2> QED
    BY <2>2 DEF BlobInv
<1>12. CASE Serve
  <2>1. /\ pc = "wait" /\ pc' = "head" /\ UNCHANGED <<promise, attempts, late>>
    BY <1>12 DEF Serve
  <2>2. /\ blob' = blob \/ blob' = Effect(body)
        /\ ~Unsuccessful(answer'.code) => blob' = Effect(body)
    BY <1>12, ServeAnswers
  <2>3. n + late + 1 <= attempts
    BY <1>2, <2>1 DEF Applied
  <2>4. CASE HasInput /\ blob' = Effect(body)
    <3>1. body = Announced /\ n \in 0..3
      BY <1>1, <2>1, <2>3, <2>4, BodyIsAnnounced
    <3>2. Contains(n + 1)'
      BY <1>2, <2>4, <3>1, OneMore DEF Applied
    <3>3. Applied(n + 1)' /\ n + 1 \in 0..4
      BY <1>1, <2>1, <2>3, <3>1, <3>2 DEF Applied
    <3> QED
      BY <3>3 DEF BlobInv
  <2>5. CASE ~HasInput \/ blob' # Effect(body)
    <3>1. ~HasInput => Effect(body) = blob
      BY DEF Effect, HasInput
    <3>2. blob' = blob /\ (HasInput => Unsuccessful(answer'.code))
      BY <2>2, <2>5, <3>1
    <3>3. Applied(n)'
      BY <1>1, <1>3, <1>4, <2>1, <2>3, <3>2 DEF Applied, Unsuccessful
    <3> QED
      BY <3>3 DEF BlobInv
  <2> QED
    BY <2>4, <2>5
<1>13. CASE ApplyLate
  <2>1. /\ late > 0 /\ late' = late - 1 /\ blob' = Effect(Announced)
        /\ UNCHANGED <<pc, promise, attempts, answer, curl>>
    BY <1>13 DEF ApplyLate
  <2>2. HasInput
    BY <2>1 DEF Inv, InputInv
  <2>3. n \in 0..3 /\ n + 1 \in 0..4
    BY <1>1, <1>2, <2>1 DEF Applied
  <2>4. Contains(n + 1)'
    BY <1>2, <2>1, <2>2, <2>3, OneMore DEF Applied
  <2>5. Applied(n + 1)'
    BY <1>1, <1>2, <2>1, <2>3, <2>4 DEF Applied
  <2> QED
    BY <2>3, <2>5 DEF BlobInv
<1>14. CASE Replace
  <2>1. /\ ~HasInput /\ blob' = Other
        /\ UNCHANGED <<pc, promise, attempts, late, answer, curl>>
    BY <1>14 DEF Replace
  <2>2. Contains(n)'
    BY <1>3, <2>1 DEF Contains, HasInput
  <2>3. Applied(n)'
    BY <1>1, <1>2, <1>3, <2>1, <2>2 DEF Applied
  <2> QED
    BY <2>3 DEF BlobInv
<1> QED
  BY <1>5, <1>6, <1>7, <1>8, <1>9, <1>10, <1>11, <1>12, <1>13, <1>14
     DEF Next, Client, Transfer

\* The next piece of the data goes where the data before it end.
LEMMA DeliversNext ==
    ASSUME Inv, ReceiveData, NEW s, NEW n \in Nat, Delivers(s, n, answer.data),
           NEW t, \A i \in 1..n : t[i] = s[i], t[n + 1] = Head(answer.data)
    PROVE  /\ Delivers(t, n + 1, answer'.data)
           /\ n + 1 <= Len(served) /\ Head(answer.data) = served[n + 1]
<1>1. /\ Len(answer.data) \in Nat \ {0} /\ Len(answer'.data) = Len(answer.data) - 1
      /\ \A i \in 1..Len(answer'.data) : answer'.data[i] = answer.data[i + 1]
      /\ Head(answer.data) = answer.data[1]
  BY ReceiveMoves
<1>2. /\ Len(served) = n + Len(answer.data)
      /\ \A i \in 1..n : s[i] = served[i]
      /\ \A i \in 1..Len(answer.data) : answer.data[i] = served[n + i]
  BY DEF Delivers
<1>3. Head(answer.data) = served[n + 1]
  BY <1>1, <1>2
<1>4. \A i \in 1..(n + 1) : t[i] = served[i]
  <2> TAKE i \in 1..(n + 1)
  <2>1. CASE i = n + 1
    BY <1>3, <2>1
  <2>2. CASE i \in 1..n
    BY <1>2, <2>2
  <2> QED
    BY <2>1, <2>2
<1>5. \A i \in 1..Len(answer'.data) : answer'.data[i] = served[n + 1 + i]
  <2> TAKE i \in 1..Len(answer'.data)
  <2>1. i + 1 \in 1..Len(answer.data) /\ n + (i + 1) = n + 1 + i
    BY <1>1
  <2> QED
    BY <1>1, <1>2, <2>1
<1>6. Len(served) = n + 1 + Len(answer'.data) /\ n + 1 <= Len(served)
  <2> DEFINE k == Len(answer.data)
             l == Len(answer'.data)
             m == Len(served)
  <2>1. k \in Nat \ {0} /\ l = k - 1 /\ m = n + k
    BY <1>1, <1>2
  <2> HIDE DEF k, l, m
  <2>2. m = n + 1 + l /\ n + 1 <= m
    BY <2>1
  <2> QED
    BY <2>2 DEF l, m
<1> QED
  BY <1>3, <1>4, <1>5, <1>6 DEF Delivers

LEMMA OutputStep == ASSUME Inv, [Next]_vars PROVE OutputInv'
<1> USE DEF clientVars, requestVars, serviceVars, streamVars, InFlight
<1>1. /\ OutputInv /\ (pc \in InFlight \cup {"submit"} => promise = "unset")
      /\ output \in [data : Seq(Pieces), pos : Nat, bad : BOOLEAN]
      /\ output.pos <= Len(output.data) /\ Len(output.data) \in Nat
      /\ op' = op
  BY Types, AnnouncedStays DEF Inv, CountInv
<1>2. CASE SendAttempt \/ ReportFailure
  <2>1. /\ pc = "submit" /\ pc' \in {"send", "done"} /\ promise' \in {promise, "error"}
        /\ UNCHANGED <<output, blob>>
    BY <1>2 DEF SendAttempt, ReportFailure
  <2> QED
    BY <1>1, <2>1 DEF OutputInv, Reading
<1>3. CASE ReadBody \/ ReadAborts \/ RequestSent \/ InterimStatus \/ TransferFails
  <2>1. /\ pc \in InFlight /\ promise' = promise /\ UNCHANGED <<output, blob>>
        /\ \/ pc \in {"send", "wait"} /\ pc' \in {"send", "wait"}
           \/ pc' = "callback" /\ curl' = "failed"
    BY <1>3 DEF ReadBody, ReadAborts, RequestSent, InterimStatus, TransferFails
  <2> QED
    BY <1>1, <2>1 DEF OutputInv, Reading
<1>4. CASE FinalHeaders
  <2>1. /\ pc = "head" /\ pc' = "receive" /\ UNCHANGED <<promise, output, blob, answer, served>>
        /\ answer.data = served /\ served \in Seq(Pieces)
    BY <1>4, Types DEF FinalHeaders, Inv, AnswerInv
  <2>2. Delivers(output.data, 0, answer.data)
    BY <2>1, LenProperties DEF Delivers
  <2>3. op = "download" /\ ~output.bad => Delivers(output.data, output.pos, answer.data)'
    BY <1>1, <2>1, <2>2 DEF OutputInv, Delivers
  <2> QED
    BY <1>1, <2>1, <2>3 DEF OutputInv, Reading, Unsuccessful
<1>5. CASE ReceiveData
  <2>1. /\ pc = "receive" /\ pc' = "receive" /\ UNCHANGED <<promise, blob, served, writer>>
        /\ answer'.code = answer.code
    BY <1>5, ReceiveMoves DEF ReceiveData
  <2>2. CASE writer # "write"
    <3>1. output' = output
      BY <1>5, <2>2 DEF ReceiveData
    <3> QED
      BY <1>1, <2>1, <2>2, <3>1 DEF OutputInv, Reading, Unsuccessful
  <2>3. CASE writer = "write" /\ output.bad
    <3>1. output' = output
      BY <1>5, <2>3 DEF ReceiveData, Put
    <3> QED
      BY <2>3, <3>1 DEF OutputInv
  <2>4. CASE writer = "write" /\ ~output.bad /\ op = "download"
    <3> DEFINE x == Head(answer.data)
    <3>1. output' = Put(output, x)
      BY <1>5, <2>4 DEF ReceiveData
    <3>2. x \in Pieces
      BY <1>5, ReceiveMoves
    <3>3. /\ output'.pos = output.pos + 1
          /\ Len(output'.data) = IF output.pos < Len(output.data) THEN Len(output.data)
                                 ELSE Len(output.data) + 1
          /\ \A i \in 1..Len(output'.data) :
                 output'.data[i] = IF i = output.pos + 1 THEN x ELSE output.data[i]
      <4> HIDE DEF x
      <4>1. /\ Put(output, x).pos = output.pos + 1
            /\ Len(Put(output, x).data) = IF output.pos < Len(output.data)
                                          THEN Len(output.data) ELSE Len(output.data) + 1
            /\ \A i \in 1..Len(Put(output, x).data) :
                   Put(output, x).data[i] = IF i = output.pos + 1 THEN x ELSE output.data[i]
        BY <1>1, <2>4, <3>2, PutPiece
      <4> QED
        BY <3>1, <4>1
    <3>4. /\ output.pos \in Nat /\ \A i \in 1..output.pos : output'.data[i] = output.data[i]
          /\ output'.data[output.pos + 1] = x
      <4> HIDE DEF x
      <4>1. output.pos \in Nat /\ output.pos + 1 <= Len(output'.data)
        BY <1>1, <3>3
      <4> QED
        BY <1>1, <3>3, <4>1
    <3>5. Delivers(output.data, output.pos, answer.data)
      BY <1>1, <2>1, <2>4 DEF OutputInv, Reading
    <3>6. /\ Delivers(output'.data, output.pos + 1, answer'.data)
          /\ output.pos + 1 <= Len(served) /\ x = served[output.pos + 1]
      BY <1>5, <3>4, <3>5, DeliversNext
    <3>7. Delivers(output.data, output.pos, answer.data)'
      BY <2>1, <3>3, <3>6 DEF Delivers
    <3>8. ~Unsuccessful(answer.code)
      BY <2>1, <2>4 DEF Inv, AnswerInv, Reading, Switches
    <3>9. ASSUME blob = Original
          PROVE  /\ Len(output'.data) <= Len(Original) /\ served = Original
                 /\ \A i \in 1..Len(output'.data) : output'.data[i] = Original[i]
      <4>1. /\ Len(output.data) <= Len(Original) /\ served = Original
            /\ \A i \in 1..Len(output.data) : output.data[i] = Original[i]
        BY <1>1, <2>1, <2>4, <3>8, <3>9 DEF OutputInv, Reading
      <4>2. Len(output'.data) <= Len(Original)
        BY <1>1, <3>3, <3>6, <4>1
      <4> HIDE DEF x
      <4>3. \A i \in 1..Len(output'.data) : output'.data[i] = Original[i]
        BY <1>1, <3>3, <3>6, <4>1
      <4> QED
        BY <4>1, <4>2, <4>3
    <3> QED
      BY <1>1, <2>1, <3>7, <3>9 DEF OutputInv
  <2>5. CASE op # "download"
    BY <1>1, <2>5 DEF OutputInv
  <2> QED
    BY <2>2, <2>3, <2>4, <2>5
<1>6. CASE TransferEnds \/ AttemptSucceeded
  <2>1. /\ \/ pc = "receive" /\ pc' = "callback" /\ curl' = "ok" /\ promise' = promise
           \/ pc = "callback" /\ curl = "ok" /\ pc' = "done" /\ promise' = "ok"
        /\ UNCHANGED <<output, blob, served, writer, answer>>
    BY <1>6 DEF TransferEnds, AttemptSucceeded, Failed
  <2> QED
    BY <1>1, <2>1 DEF OutputInv, Reading, Unsuccessful, Delivers
<1>7. CASE AttemptFailed
  <2>1. pc = "callback" /\ pc' = "submit" /\ UNCHANGED <<promise, blob>>
    BY <1>7 DEF AttemptFailed
  <2> QED
    BY <1>1, <1>7, <2>1, RewindMoves DEF OutputInv, Reading
<1>8. CASE OutputGoesBad
  <2>1. output'.bad
    BY <1>1, <1>8 DEF OutputGoesBad
  <2> QED
    BY <2>1 DEF OutputInv
<1>9. CASE Serve
  <2>1. pc = "wait" /\ pc' = "head" /\ UNCHANGED <<promise, output>>
    BY <1>9 DEF Serve
  <2>2. op = "download" => /\ blob' = blob /\ served' = answer'.data
                           /\ ~Unsuccessful(answer'.code) => answer'.data = blob
    BY <1>9, ServeAnswers DEF Effect, HasInput
  <2> QED
    BY <1>1, <2>1, <2>2 DEF OutputInv, Reading, Unsuccessful
<1>10. CASE ApplyLate
  BY <1>1, <1>10 DEF ApplyLate, Inv, InputInv, HasInput, OutputInv
<1>11. CASE Replace
  <2>1. /\ blob = Original
        /\ UNCHANGED <<pc, curl, promise, output, served, writer, answer>>
    BY <1>11 DEF Replace
  <2> QED
    BY <1>1, <2>1 DEF OutputInv, Reading, Unsuccessful, Delivers
<1>12. CASE UNCHANGED vars
  BY <1>1, <1>12 DEF vars, OutputInv, Reading, Unsuccessful, Delivers
<1> QED
  BY <1>2, <1>3, <1>4, <1>5, <1>6, <1>7, <1>8, <1>9, <1>10, <1>11, <1>12
     DEF Next, Client, Transfer

LEMMA ListStep == ASSUME Inv, [Next]_vars PROVE ListInv'
<1> USE DEF clientVars, requestVars, serviceVars, streamVars, InFlight
<1>1. /\ ListInv /\ (pc \in InFlight \cup {"submit"} => promise = "unset") /\ op' = op
      /\ errors \in Seq(Pieces) /\ Len(errors) \in Nat
  BY Types, LenProperties, AnnouncedStays DEF Inv, CountInv
<1>2. CASE SendAttempt \/ ReportFailure
  <2>1. /\ pc = "submit" /\ pc' \in {"send", "done"} /\ promise' \in {promise, "error"}
        /\ errors' = <<>>
    BY <1>2 DEF SendAttempt, ReportFailure, Rebuild
  <2> QED
    BY <1>1, <2>1 DEF ListInv, Reading
<1>3. CASE ReadBody \/ ReadAborts \/ RequestSent \/ InterimStatus \/ TransferFails \/ Serve
           \/ AttemptFailed
  <2>1. /\ pc \in InFlight /\ UNCHANGED <<promise, errors>>
        /\ \/ pc \in {"send", "wait"} /\ pc' \in {"send", "wait", "head"}
           \/ pc' = "callback" /\ curl' = "failed"
           \/ pc' = "submit"
    BY <1>3 DEF ReadBody, ReadAborts, RequestSent, InterimStatus, TransferFails, Serve,
                AttemptFailed
  <2> QED
    BY <1>1, <2>1 DEF ListInv, Reading
<1>4. CASE FinalHeaders
  <2>1. /\ pc = "head" /\ pc' = "receive" /\ UNCHANGED <<promise, errors, answer, served>>
        /\ answer.data = served /\ served \in Seq(Pieces)
    BY <1>4, Types DEF FinalHeaders, Inv, AnswerInv
  <2>2. op = "list" => Len(errors) = 0
    BY <1>1, <2>1, EmptySeq DEF ListInv
  <2>3. op = "list" => Delivers(errors, Len(errors), answer.data)'
    BY <2>1, <2>2, LenProperties DEF Delivers
  <2> QED
    BY <1>1, <2>1, <2>3 DEF ListInv
<1>5. CASE ReceiveData
  <2>1. /\ pc = "receive" /\ pc' = "receive" /\ UNCHANGED <<promise, served>>
    BY <1>5 DEF ReceiveData
  <2>2. SUFFICES ASSUME op = "list" PROVE Delivers(errors, Len(errors), answer.data)'
    BY <1>1, <2>1 DEF ListInv
  <2>3. writer # "write" /\ Delivers(errors, Len(errors), answer.data)
    BY <1>1, <2>1, <2>2 DEF Inv, AnswerInv, ListInv, Reading, Switches
  <2>4. errors' = Append(errors, Head(answer.data)) /\ Head(answer.data) \in Pieces
    BY <1>5, <2>3, ReceiveMoves, ReceiveWrites
  <2>5. /\ Len(errors') = Len(errors) + 1 /\ errors'[Len(errors) + 1] = Head(answer.data)
        /\ \A i \in 1..Len(errors) : errors'[i] = errors[i]
    <3> DEFINE x == Head(answer.data)
    <3> HIDE DEF x
    <3>1. errors' = Append(errors, x) /\ x \in Pieces
      BY <2>4 DEF x
    <3> QED
      BY <1>1, <3>1, AppendProperties DEF x
  <2>6. Delivers(errors', Len(errors) + 1, answer'.data)
    BY <1>1, <1>5, <2>3, <2>5, DeliversNext
  <2> QED
    BY <2>1, <2>5, <2>6 DEF Delivers
<1>6. CASE TransferEnds \/ AttemptSucceeded
  <2>1. /\ \/ pc = "receive" /\ pc' = "callback" /\ curl' = "ok" /\ promise' = promise
           \/ pc = "callback" /\ curl = "ok" /\ pc' = "done" /\ promise' = "ok"
        /\ UNCHANGED <<errors, served, answer>>
    BY <1>6 DEF TransferEnds, AttemptSucceeded, Failed
  <2> QED
    BY <1>1, <2>1 DEF ListInv, Reading, Delivers
<1>7. CASE OutputGoesBad \/ ApplyLate \/ Replace \/ UNCHANGED vars
  <2>1. UNCHANGED <<pc, curl, promise, errors, served, answer>>
    BY <1>7 DEF OutputGoesBad, ApplyLate, Replace, vars
  <2> QED
    BY <1>1, <2>1 DEF ListInv, Reading, Delivers
<1> QED
  BY <1>2, <1>3, <1>4, <1>5, <1>6, <1>7 DEF Next, Client, Transfer

-----------------------------------------------------------------------------
(* Theorems. *)

LEMMA InitInv == Init => Inv
<1> SUFFICES ASSUME Init PROVE Inv
  OBVIOUS
<1> USE DEF max_retry_count
<1>1. /\ {Source, Original, Other} \subseteq Seq(Tokens) /\ Declared \subseteq Nat
      /\ Codes \subseteq 200..599 /\ Len(Source) \in Nat /\ Len(Original) \in Nat
  BY ContentAssumption, LenProperties
<1>2. /\ <<>> \in Seq(Tokens) /\ <<>> \in Seq(Pieces) /\ Len(<<>>) = 0
  BY EmptySeq
<1>3. PICK m \in Nat : input = [pos |-> 0, read_pos |-> 0, fail |-> FALSE, length |-> m]
  BY <1>1 DEF Init
<1>4. TypeOK
  BY <1>1, <1>2, <1>3 DEF Init, TypeOK
<1>5. ShapeInv
  BY <1>1, <1>2, <1>3 DEF Init, ShapeInv, NoAnswer, Answer
<1>6. CountInv /\ RequestIsFresh
  BY DEF Init, CountInv, RequestIsFresh, InFlight
<1>7. InputInv
  BY <1>1, <1>2, <1>3 DEF Init, InputInv, InFlight
<1>8. AnswerInv
  BY DEF Init, AnswerInv, Reading
<1>9. BlobInv
  <2>1. Appended[0] = Original
    BY AppendedSteps DEF Unfolds
  <2>2. Applied(0)
    BY <2>1 DEF Init, Applied, Contains, Reading
  <2> QED
    BY <2>2 DEF BlobInv
<1>10. OutputInv
  BY <1>1, <1>2 DEF Init, OutputInv, Reading
<1>11. ListInv
  BY DEF Init, ListInv, Reading
<1> QED
  BY <1>4, <1>5, <1>6, <1>7, <1>8, <1>9, <1>10, <1>11 DEF Inv

\* The inductive invariant: the failed attempts are counted, the body is the
\* beginning of the caller's data, the blob holds what a number of requests left
\* that is at most the number sent, and what was delivered is the answer so far.
THEOREM Invariance == Safety => []Inv
<1>1. Inv /\ [Next]_vars => Inv'
  <2> SUFFICES ASSUME Inv, [Next]_vars PROVE Inv'
    OBVIOUS
  <2>1. TypeOK' /\ ShapeInv' /\ CountInv' /\ RequestIsFresh'
    BY TypeStep, CountStep, FreshStep
  <2>2. InputInv' /\ AnswerInv' /\ BlobInv' /\ OutputInv' /\ ListInv'
    BY InputStep, AnswerStep, BlobStep, OutputStep, ListStep
  <2> QED
    BY <2>1, <2>2 DEF Inv
<1> QED
  BY InitInv, <1>1, PTL DEF Safety

\* The streams' positions stay inside their contents, the count of failed attempts
\* within four, and every variable keeps its type.
THEOREM TypeCorrect == Safety => []TypeOK
<1>1. Inv => TypeOK
  BY DEF Inv
<1> QED
  BY Invariance, <1>1, PTL

LEMMA Delivered == ASSUME Inv PROVE OkMeansDelivered
<1>1. /\ output.data \in Seq(Pieces) /\ Len(output.data) \in Nat /\ served \in Seq(Pieces)
      /\ Len(served) \in Nat /\ output.pos <= Len(output.data) /\ output.pos \in Nat
      /\ errors \in Seq(Pieces) /\ Len(errors) \in Nat
  BY Types, LenProperties
<1>2. ASSUME promise = "ok"
      PROVE  Reading /\ answer.data = <<>> /\ ~Unsuccessful(answer.code)
  <2>1. pc # "receive"
    BY <1>2 DEF Inv, CountInv, InFlight
  <2> QED
    BY <1>2, <2>1 DEF Inv, AnswerInv, Reading
<1>3. ASSUME promise = "ok", op = "download", writer = "write", ~output.bad
      PROVE  IsPrefixOf(served, output.data) /\ (blob = Original => output.data = served)
  <2>1. Delivers(output.data, output.pos, <<>>)
    BY <1>2, <1>3 DEF Inv, OutputInv
  <2>2. /\ Len(served) = output.pos
        /\ \A i \in 1..Len(served) : output.data[i] = served[i]
    BY <1>1, <2>1, EmptySeq DEF Delivers
  <2>3. IsPrefixOf(served, output.data)
    <3> DEFINE k == Len(served)
               s == SubSeq(output.data, 1, k)
    <3>1. k \in Int /\ 1 \in Int /\ k <= Len(output.data) /\ k \in Nat
      BY <1>1, <2>2
    <3>2. \A i \in 1..k : output.data[i] \in Pieces
      BY <1>1, <3>1, ElementOfSeq
    <3> HIDE DEF k
    <3>3. /\ s \in Seq(Pieces) /\ Len(s) = IF 1 <= k THEN k - 1 + 1 ELSE 0
          /\ \A i \in 1..(k - 1 + 1) : s[i] = output.data[1 + i - 1]
      BY <3>1, <3>2, SubSeqProperties
    <3> HIDE DEF s
    <3>4. Len(s) = k /\ \A i \in 1..k : s[i] = output.data[i]
      BY <3>1, <3>3
    <3>5. s = served
      BY <1>1, <2>2, <3>3, <3>4, SeqEqual DEF k
    <3> QED
      BY <3>1, <3>5 DEF IsPrefixOf, k, s
  <2>4. ASSUME blob = Original PROVE output.data = served
    <3>1. /\ Len(output.data) <= Len(Original) /\ served = Original
      BY <1>2, <1>3, <2>4 DEF Inv, OutputInv
    <3>2. Len(output.data) = Len(served)
      BY <1>1, <2>2, <3>1
    <3> QED
      BY <1>1, <2>2, <3>2, SeqEqual
  <2> QED
    BY <2>3, <2>4
<1>4. ASSUME promise = "ok", op = "list" PROVE errors = served
  <2>1. Delivers(errors, Len(errors), <<>>)
    BY <1>2, <1>4 DEF Inv, ListInv
  <2>2. Len(served) = Len(errors) /\ \A i \in 1..Len(errors) : errors[i] = served[i]
    BY <1>1, <2>1, EmptySeq DEF Delivers
  <2> QED
    BY <1>1, <2>2, SeqEqual
<1> QED
  BY <1>3, <1>4 DEF OkMeansDelivered

\* Whatever the attempts before it wrote and wherever they broke off, a download
\* that reports success has put one whole answer into the caller's stream, and a
\* listing is parsed from one whole answer.
THEOREM SuccessIsDelivered == Safety => []OkMeansDelivered
<1>1. Inv => OkMeansDelivered
  BY Delivered
<1> QED
  BY Invariance, <1>1, PTL

LEMMA Whole == ASSUME Inv PROVE BlobNeverTorn
<1>1. PICK n \in 0..4 : Applied(n)
  BY DEF Inv, BlobInv, max_retry_count
<1>2. n <= attempts
  BY SMTT(30), <1>1, Types DEF Applied
<1>3. promise = "ok" /\ HasInput => n > 0
  BY <1>1 DEF Inv, AnswerInv, Reading, Applied
<1>4. op \in Ops
  BY DEF Inv, ShapeInv
<1>5. (CASE ~HasInput -> blob \in {Original, Other}
         [] op = "upload" -> blob = IF n = 0 THEN Original ELSE Announced
         [] op = "append" -> blob = Appended[n])
  <2>1. CASE ~HasInput
    BY <1>1, <2>1 DEF Applied, Contains, HasInput
  <2>2. CASE op = "upload"
    BY <1>1, <2>2 DEF Applied, Contains, HasInput
  <2>3. CASE op = "append"
    BY <1>1, <2>3 DEF Applied, Contains, HasInput
  <2> QED
    BY <1>4, <2>1, <2>2, <2>3 DEF Ops, HasInput
<1>6. n \in 0..(max_retry_count + 1)
  BY DEF max_retry_count
<1> QED
  BY <1>2, <1>3, <1>5, <1>6, Zenon DEF BlobNeverTorn

\* An upload leaves the blob as it was or with the whole of the announced data,
\* and an append adds the whole of it, at least once on success, whichever of
\* the attempts the service received and whenever it applied them.
THEOREM BlobIsWhole == Safety => []BlobNeverTorn
<1>1. Inv => BlobNeverTorn
  BY Whole
<1> QED
  BY Invariance, <1>1, PTL

\* No policy sends more than four attempts, none follows an answer that a retry
\* cannot change, and each carries its headers once.
THEOREM AttemptsAreDue == Safety => []EachAttemptIsDue
<1>1. Inv => EachAttemptIsDue
  <2> SUFFICES ASSUME Inv PROVE EachAttemptIsDue
    OBVIOUS
  <2>1. CountInv /\ RequestIsFresh
    BY DEF Inv
  <2>2. pc \in {"send", "wait"} => result = 0 \/ Retryable(result)
    BY <2>1 DEF CountInv, InFlight, ShouldRetry
  <2>3. ~Retryable(404) /\ ~Retryable(501)
    BY DEF Retryable
  <2> QED
    BY <2>1, <2>2, <2>3 DEF CountInv, AttemptsBounded, EachAttemptIsDue
<1> QED
  BY Invariance, <1>1, PTL
=============================================================================
