--------------------------- MODULE HandlePoolProofs ---------------------------
(***************************************************************************)
(* What HandlePool's run shows for three threads and four handles, for any *)
(* number of either and of requests.  Each handle is in one place, and the *)
(* client's count of references is the number of requests: that is what    *)
(* makes its destructor find every handle.                                 *)
(***************************************************************************)
EXTENDS HandlePool, FiniteSetTheorems, SequenceTheorems, TLAPS

\* The requests that keep the client alive, with the handle they hold, or
\* NoHandle when they have just given it back.
Requests ==
    {r \in Threads \X (Handles \cup {NoHandle}) :
        r[2] \in held[r[1]] \/ (r[2] = NoHandle /\ place[r[1]] = "unref")}

QueueInv ==
    /\ \A i, j \in DOMAIN m_handles : m_handles[i] = m_handles[j] => i = j
    /\ \A h \in Handles : h \in Pooled <=> \A t \in Threads : h \notin held[t]
    /\ \A s, t \in Threads : s # t => held[s] \cap held[t] = {}

\* A request being destroyed still holds its handle, which was reset; a thread
\* in get_handle has the client and may have one more request.
PlaceInv ==
    \A t \in Threads :
        /\ place[t] = "release" => closing[t] \in held[t] \ dirty
        /\ place[t] \in {"asleep", "awake"} => takes[t] < MaxTakes /\ owner

LifeInv ==
    /\ refs = Cardinality(Requests)
    /\ client = "destroyed" => ~owner /\ refs = 0

Inv ==
    /\ TypeOK /\ QueueInv /\ PlaceInv /\ PooledAreClean /\ LifeInv
    /\ NoLostWakeup

-----------------------------------------------------------------------------
(* Finite sets and the queue. *)

LEMMA RequestsFinite == IsFiniteSet(Requests)
<1>1. IsFiniteSet(Handles \cup {NoHandle})
  BY PoolAssumption, FS_AddElement
<1>2. IsFiniteSet(Threads \X (Handles \cup {NoHandle}))
  BY <1>1, PoolAssumption, FS_Product
<1>3. Requests \subseteq Threads \X (Handles \cup {NoHandle})
  BY DEF Requests
<1> QED
  BY <1>2, <1>3, FS_Subset

LEMMA AwakeFinite == IsFiniteSet(Awake) /\ Cardinality(Awake) \in Nat
<1>1. Awake \subseteq Threads
  BY DEF Awake
<1> QED
  BY <1>1, PoolAssumption, FS_Subset, FS_CardinalityType

\* Taking the front of a queue without repetitions removes it from its range.
LEMMA TailOfQueue ==
    ASSUME NEW q \in Seq(Handles), q # <<>>,
           \A i, j \in DOMAIN q : q[i] = q[j] => i = j
    PROVE  /\ Head(q) \in {q[i] : i \in DOMAIN q}
           /\ {Tail(q)[i] : i \in DOMAIN Tail(q)} =
                  {q[i] : i \in DOMAIN q} \ {Head(q)}
           /\ \A i, j \in DOMAIN Tail(q) : Tail(q)[i] = Tail(q)[j] => i = j
<1> DEFINE n == Len(q)
<1>1. n \in Nat \ {0} /\ DOMAIN q = 1..n
  BY EmptySeq, LenProperties
<1>2. Tail(q) \in Seq(Handles) /\ Len(Tail(q)) = n - 1
      /\ \A i \in 1..(n - 1) : Tail(q)[i] = q[i + 1]
  BY HeadTailProperties
<1>3. DOMAIN Tail(q) = 1..(n - 1)
  BY <1>2, LenProperties
<1>4. Head(q) = q[1] /\ 1 \in DOMAIN q
  BY <1>1
<1>5. \A i, j \in DOMAIN Tail(q) : Tail(q)[i] = Tail(q)[j] => i = j
  BY <1>1, <1>2, <1>3
<1>6. ASSUME NEW i \in DOMAIN q, q[i] # Head(q)
      PROVE  q[i] \in {Tail(q)[j] : j \in DOMAIN Tail(q)}
  <2>1. i # 1 /\ i - 1 \in 1..(n - 1) /\ (i - 1) + 1 = i
    BY <1>1, <1>4, <1>6
  <2>2. Tail(q)[i - 1] = q[i]
    BY <2>1, <1>2
  <2> QED
    BY <2>1, <2>2, <1>3
<1>7. ASSUME NEW j \in DOMAIN Tail(q)
      PROVE  Tail(q)[j] \in {q[i] : i \in DOMAIN q} \ {Head(q)}
  <2>1. j + 1 \in 1..n /\ j + 1 # 1
    BY <1>1, <1>3
  <2>2. Tail(q)[j] = q[j + 1]
    BY <1>2, <1>3
  <2> QED
    BY <2>1, <2>2, <1>1, <1>4
<1> QED
  BY <1>4, <1>5, <1>6, <1>7

\* Queueing what is not in the queue adds it to its range.
LEMMA AppendToQueue ==
    ASSUME NEW q \in Seq(Handles), NEW h \in Handles,
           h \notin {q[i] : i \in DOMAIN q},
           \A i, j \in DOMAIN q : q[i] = q[j] => i = j
    PROVE  /\ {Append(q, h)[i] : i \in DOMAIN Append(q, h)} =
                  {q[i] : i \in DOMAIN q} \cup {h}
           /\ \A i, j \in DOMAIN Append(q, h) :
                  Append(q, h)[i] = Append(q, h)[j] => i = j
<1> DEFINE n == Len(q)
           a == Append(q, h)
<1>1. n \in Nat /\ DOMAIN q = 1..n
  BY LenProperties
<1>2. a \in Seq(Handles) /\ Len(a) = n + 1 /\ a[n + 1] = h
      /\ \A i \in 1..n : a[i] = q[i]
  BY AppendProperties
<1>3. DOMAIN a = 1..(n + 1)
  BY <1>2, LenProperties
<1> HIDE DEF a
<1>4. \A i \in 1..(n + 1) : i = n + 1 \/ i \in 1..n
  BY <1>1
<1>5. \A i \in 1..n : i \in 1..(n + 1) /\ i # n + 1
  BY <1>1
<1>6. n + 1 \in 1..(n + 1)
  BY <1>1
<1>7. {a[i] : i \in DOMAIN a} = {q[i] : i \in DOMAIN q} \cup {h}
  BY <1>1, <1>2, <1>3, <1>4, <1>5, <1>6
<1>8. \A i, j \in DOMAIN a : a[i] = a[j] => i = j
  BY <1>1, <1>2, <1>3, <1>4, <1>5
<1> QED
  BY <1>7, <1>8 DEF a

-----------------------------------------------------------------------------
(* The initial states: the constructor queued every handle once. *)

LEMMA MadeOnce ==
    /\ MadeHandles \in Seq(Handles)
    /\ \A i, j \in DOMAIN MadeHandles : MadeHandles[i] = MadeHandles[j] => i = j
    /\ \A h \in Handles : \E i \in DOMAIN MadeHandles : MadeHandles[i] = h
<1> DEFINE n == Cardinality(Handles)
           Good(q) == /\ \A i, j \in DOMAIN q : q[i] = q[j] => i = j
                      /\ \A h \in Handles : \E i \in DOMAIN q : q[i] = h
<1>1. n \in Nat /\ ExistsBijection(1..n, Handles)
  BY PoolAssumption, FS_CardinalityType
<1>2. PICK f : f \in Bijection(1..n, Handles)
  BY <1>1 DEF ExistsBijection
<1>3. f \in [1..n -> Handles] /\ Good(f)
  <2>1. f \in [1..n -> Handles]
    BY <1>2 DEF Bijection, Injection
  <2>2. \A i, j \in 1..n : f[i] = f[j] => i = j
    BY <1>2, <2>1 DEF Bijection, Injection, IsInjective
  <2>3. \A h \in Handles : \E i \in 1..n : f[i] = h
    BY <1>2 DEF Bijection, Surjection
  <2> QED
    BY <2>1, <2>2, <2>3
<1>4. MadeHandles \in [1..n -> Handles] /\ Good(MadeHandles)
  BY <1>3 DEF MadeHandles
<1>5. MadeHandles \in Seq(Handles)
  BY <1>1, <1>4
<1> QED
  BY <1>4, <1>5

LEMMA InitInv == Init => Inv
<1> SUFFICES ASSUME Init PROVE Inv
  OBVIOUS
<1> USE DEF Init
<1>1. TypeOK
  BY MadeOnce, PoolAssumption DEF TypeOK
<1>2. QueueInv
  <2>1. Pooled = Handles
    <3>1. DOMAIN MadeHandles = 1..Len(MadeHandles)
      BY MadeOnce, LenProperties
    <3>2. \A i \in DOMAIN MadeHandles : MadeHandles[i] \in Handles
      BY MadeOnce, <3>1, ElementOfSeq
    <3> QED
      BY MadeOnce, <3>2 DEF Pooled
  <2> QED
    BY <2>1, MadeOnce DEF QueueInv
<1>3. PlaceInv
  BY DEF PlaceInv
<1>4. PooledAreClean
  BY DEF PooledAreClean
<1>5. Requests = {}
  BY DEF Requests
<1>6. LifeInv
  BY <1>5, FS_EmptySet DEF LifeInv
<1>7. NoLostWakeup
  BY DEF NoLostWakeup, Asleep
<1> QED
  BY <1>1, <1>2, <1>3, <1>4, <1>6, <1>7 DEF Inv

-----------------------------------------------------------------------------
(* The steps.  A thread takes a handle, or sleeps for one, when it enters     *)
(* get_handle and when it is woken in it.                                     *)

InGetHandle(t) == WantsHandle(t) \/ place[t] = "awake"

Step(t) ==
    \/ InGetHandle(t) /\ TakeFront(t)
    \/ InGetHandle(t) /\ Sleep(t)
    \/ SpuriousWakeup(t) \/ ResetHandle(t) \/ ReleaseHandle(t)
    \/ DropRequestRef(t)

LEMMA NextSteps ==
    [Next]_vars => (\E t \in Threads : Step(t)) \/ DropClient \/ UNCHANGED vars
  BY DEF Next, Runs, GetHandle, Recheck, Step, InGetHandle

\* What taking a handle and giving it back do to the queue.
NoRepetition == \A i, j \in DOMAIN m_handles : m_handles[i] = m_handles[j] => i = j

LEMMA TakeFromPool ==
    ASSUME Inv, NEW t \in Threads, TakeFront(t)
    PROVE  /\ Head(m_handles) \in Handles /\ Head(m_handles) \in Pooled
           /\ Pooled' = Pooled \ {Head(m_handles)}
           /\ NoRepetition'
<1> DEFINE T == Tail(m_handles)
<1>1. m_handles \in Seq(Handles) /\ m_handles # <<>> /\ NoRepetition /\ m_handles' = T
  BY DEF Inv, TypeOK, QueueInv, NoRepetition, TakeFront
<1>2. /\ Head(m_handles) \in Pooled
      /\ {T[i] : i \in DOMAIN T} = Pooled \ {Head(m_handles)}
      /\ \A i, j \in DOMAIN T : T[i] = T[j] => i = j
  BY <1>1, TailOfQueue DEF NoRepetition, Pooled
<1>3. Head(m_handles) \in Handles
  BY <1>1, HeadTailProperties
<1> HIDE DEF T
<1>4. Pooled' = {T[i] : i \in DOMAIN T} /\ (NoRepetition' <=>
          \A i, j \in DOMAIN T : T[i] = T[j] => i = j)
  BY <1>1 DEF Pooled, NoRepetition
<1> QED
  BY <1>2, <1>3, <1>4

LEMMA ReturnToPool ==
    ASSUME Inv, NEW t \in Threads, ReleaseHandle(t)
    PROVE  /\ closing[t] \in held[t] \ dirty
           /\ closing[t] \in Handles /\ closing[t] \notin Pooled
           /\ Pooled' = Pooled \cup {closing[t]}
           /\ NoRepetition'
<1> DEFINE A == Append(m_handles, closing[t])
<1>1. m_handles \in Seq(Handles) /\ NoRepetition /\ m_handles' = A
  BY DEF Inv, TypeOK, QueueInv, NoRepetition, ReleaseHandle
<1>2. closing[t] \in held[t] \ dirty /\ closing[t] \in Handles
  BY DEF Inv, TypeOK, PlaceInv, ReleaseHandle
<1>3. closing[t] \notin Pooled
  BY <1>2 DEF Inv, QueueInv
<1>4. /\ {A[i] : i \in DOMAIN A} = Pooled \cup {closing[t]}
      /\ \A i, j \in DOMAIN A : A[i] = A[j] => i = j
  BY <1>1, <1>2, <1>3, AppendToQueue DEF NoRepetition, Pooled
<1> HIDE DEF A
<1>5. Pooled' = {A[i] : i \in DOMAIN A} /\ (NoRepetition' <=>
          \A i, j \in DOMAIN A : A[i] = A[j] => i = j)
  BY <1>1 DEF Pooled, NoRepetition
<1> QED
  BY <1>2, <1>3, <1>4, <1>5

LEMMA TypeStep == Inv /\ [Next]_vars => TypeOK'
<1> SUFFICES ASSUME Inv, [Next]_vars PROVE TypeOK'
  OBVIOUS
<1> USE DEF Inv, TypeOK, Goto, lifeVars
<1>1. ASSUME NEW t \in Threads, InGetHandle(t), TakeFront(t) PROVE TypeOK'
  <2>1. Head(m_handles) \in Handles /\ Tail(m_handles) \in Seq(Handles)
    BY <1>1, HeadTailProperties DEF TakeFront
  <2>2. takes[t] < MaxTakes /\ takes[t] \in 0..MaxTakes /\ MaxTakes \in Nat
    BY <1>1, PoolAssumption DEF InGetHandle, WantsHandle, PlaceInv
  <2>3. takes' \in [Threads -> 0..MaxTakes]
    BY <1>1, <2>2 DEF TakeFront
  <2>4. held' \in [Threads -> SUBSET Handles]
    BY <1>1, <2>1 DEF TakeFront
  <2> QED
    BY <1>1, <2>1, <2>3, <2>4 DEF TakeFront
<1>2. ASSUME NEW t \in Threads, Sleep(t) PROVE TypeOK'
  BY <1>2 DEF Sleep
<1>3. ASSUME NEW t \in Threads, SpuriousWakeup(t) PROVE TypeOK'
  BY <1>3 DEF SpuriousWakeup
<1>4. ASSUME NEW t \in Threads, ResetHandle(t) PROVE TypeOK'
  BY <1>4 DEF ResetHandle
<1>5. ASSUME NEW t \in Threads, ReleaseHandle(t) PROVE TypeOK'
  <2>1. closing[t] \in Handles
    BY <1>5 DEF ReleaseHandle, PlaceInv
  <2>2. m_handles' \in Seq(Handles)
    BY <1>5, <2>1, AppendProperties DEF ReleaseHandle
  <2>3. place' \in [Threads -> {"idle", "asleep", "awake", "release", "unref"}]
    BY <1>5 DEF ReleaseHandle
  <2> QED
    BY <1>5, <2>2, <2>3 DEF ReleaseHandle
<1>6. ASSUME NEW t \in Threads, DropRequestRef(t) PROVE TypeOK'
  <2>1. <<t, NoHandle>> \in Requests
    BY <1>6 DEF DropRequestRef, Requests
  <2>2. refs # 0
    BY <2>1, RequestsFinite, FS_EmptySet DEF LifeInv
  <2>3. refs' \in Nat
    BY <1>6, <2>2 DEF DropRequestRef
  <2> QED
    BY <1>6, <2>3 DEF DropRequestRef
<1>7. CASE DropClient
  BY <1>7 DEF DropClient
<1>8. CASE UNCHANGED vars
  BY <1>8 DEF vars
<1> QED
  BY <1>1, <1>2, <1>3, <1>4, <1>5, <1>6, <1>7, <1>8, NextSteps DEF Step

LEMMA QueueStep == Inv /\ [Next]_vars => QueueInv'
<1> SUFFICES ASSUME Inv, [Next]_vars PROVE QueueInv'
  OBVIOUS
<1> USE DEF Inv, TypeOK, QueueInv
<1>1. ASSUME NEW t \in Threads, TakeFront(t) PROVE QueueInv'
  <2> DEFINE h == Head(m_handles)
  <2>1. m_handles # <<>> /\ m_handles' = Tail(m_handles)
        /\ held' = [held EXCEPT ![t] = @ \cup {h}]
    BY <1>1 DEF TakeFront
  <2>2. h \in Handles /\ h \in Pooled /\ Pooled' = Pooled \ {h} /\ NoRepetition'
    BY <1>1, TakeFromPool
  <2>3. \A s \in Threads : h \notin held[s]
    BY <2>2
  <2>4. \A g \in Handles : g \in Pooled' <=> \A s \in Threads : g \notin held'[s]
    BY <2>1, <2>2, <2>3
  <2>5. \A r, s \in Threads : r # s => held'[r] \cap held'[s] = {}
    BY <2>1, <2>3
  <2> QED
    BY <2>2, <2>4, <2>5 DEF NoRepetition
<1>2. ASSUME UNCHANGED <<m_handles, held>> PROVE QueueInv'
  BY <1>2 DEF Pooled
<1>3. ASSUME NEW t \in Threads, ReleaseHandle(t) PROVE QueueInv'
  <2> DEFINE h == closing[t]
  <2>1. m_handles' = Append(m_handles, h) /\ held' = [held EXCEPT ![t] = @ \ {h}]
    BY <1>3 DEF ReleaseHandle
  <2>4. /\ h \in held[t] /\ h \in Handles /\ h \notin Pooled
        /\ Pooled' = Pooled \cup {h} /\ NoRepetition'
    BY <1>3, ReturnToPool
  <2>5. \A s \in Threads : h \notin held'[s]
    BY <2>1, <2>4
  <2>6. \A g \in Handles : g \in Pooled' <=> \A s \in Threads : g \notin held'[s]
    BY <2>1, <2>4, <2>5
  <2>7. \A r, s \in Threads : r # s => held'[r] \cap held'[s] = {}
    BY <2>1
  <2> QED
    BY <2>4, <2>6, <2>7 DEF NoRepetition
<1> QED
  BY <1>1, <1>2, <1>3, NextSteps
     DEF Step, Sleep, SpuriousWakeup, ResetHandle, DropRequestRef, DropClient, vars

LEMMA PlaceStep == Inv /\ [Next]_vars => PlaceInv' /\ PooledAreClean'
<1> SUFFICES ASSUME Inv, [Next]_vars PROVE PlaceInv' /\ PooledAreClean'
  OBVIOUS
<1> USE DEF Inv, TypeOK, PlaceInv, PooledAreClean, Goto, lifeVars
<1>1. ASSUME NEW t \in Threads, InGetHandle(t), TakeFront(t)
      PROVE  PlaceInv' /\ PooledAreClean'
  <2> DEFINE h == Head(m_handles)
  <2>1. h \in Handles /\ h \in Pooled /\ Pooled' = Pooled \ {h}
    BY <1>1, TakeFromPool
  <2>2. \A s \in Threads : h \notin held[s]
    BY <2>1 DEF QueueInv
  <2>3. \A s \in Threads : place'[s] = "release" =>
            closing'[s] \in held'[s] \ dirty'
    BY <1>1, <2>2 DEF TakeFront
  <2>4. \A s \in Threads : place'[s] \in {"asleep", "awake"} =>
            takes'[s] < MaxTakes /\ owner'
    BY <1>1 DEF TakeFront
  <2>5. PooledAreClean'
    BY <1>1, <2>1 DEF TakeFront
  <2> QED
    BY <2>3, <2>4, <2>5
<1>2. ASSUME NEW t \in Threads, InGetHandle(t), Sleep(t)
      PROVE  PlaceInv' /\ PooledAreClean'
  BY <1>2 DEF Sleep, InGetHandle, WantsHandle, Pooled
<1>3. ASSUME NEW t \in Threads, SpuriousWakeup(t) PROVE PlaceInv' /\ PooledAreClean'
  BY <1>3 DEF SpuriousWakeup, Pooled
<1>4. ASSUME NEW t \in Threads, ResetHandle(t) PROVE PlaceInv' /\ PooledAreClean'
  BY <1>4 DEF ResetHandle, Pooled
<1>5. ASSUME NEW t \in Threads, ReleaseHandle(t) PROVE PlaceInv' /\ PooledAreClean'
  <2> DEFINE h == closing[t]
  <2>1. h \in held[t] /\ h \in Handles /\ h \notin dirty
    BY <1>5, ReturnToPool
  <2>2. Pooled' = Pooled \cup {h}
    BY <1>5, ReturnToPool
  <2>3. PooledAreClean'
    BY <1>5, <2>1, <2>2 DEF ReleaseHandle
  <2>4. \A s \in Threads \ {t} : held'[s] = held[s]
    BY <1>5 DEF ReleaseHandle
  <2>5. place'[t] = "unref"
    BY <1>5 DEF ReleaseHandle, Asleep
  <2>6. \A s \in Threads \ {t} :
            place'[s] = place[s] \/ (place[s] = "asleep" /\ place'[s] = "awake")
    BY <1>5 DEF ReleaseHandle, Asleep
  <2>7. PlaceInv'
    BY <1>5, <2>4, <2>5, <2>6 DEF ReleaseHandle
  <2> QED
    BY <2>3, <2>7
<1>6. ASSUME NEW t \in Threads, DropRequestRef(t) PROVE PlaceInv' /\ PooledAreClean'
  BY <1>6 DEF DropRequestRef, Pooled
<1>7. CASE DropClient
  BY <1>7 DEF DropClient, Pooled, Asleep, Awake
<1>8. CASE UNCHANGED vars
  BY <1>8 DEF vars, Pooled
<1> QED
  BY <1>1, <1>2, <1>3, <1>4, <1>5, <1>6, <1>7, <1>8, NextSteps DEF Step

LEMMA OneRequestLess ==
    ASSUME NEW r, r \in Requests
    PROVE  /\ IsFiniteSet(Requests \ {r})
           /\ Cardinality(Requests \ {r}) = Cardinality(Requests) - 1
           /\ Cardinality(Requests) # 0
  BY RequestsFinite, FS_RemoveElement, FS_EmptySet

LEMMA OneMore ==
    ASSUME NEW S, IsFiniteSet(S), NEW r, r \notin S
    PROVE  Cardinality(S \cup {r}) = Cardinality(S) + 1
  BY FS_AddElement

\* The count of references follows the requests.
LEMMA LifeStep == Inv /\ [Next]_vars => LifeInv'
<1> SUFFICES ASSUME Inv, [Next]_vars PROVE LifeInv'
  OBVIOUS
<1> USE DEF Inv, TypeOK, LifeInv, Goto, lifeVars
<1>0. IsFiniteSet(Requests) /\ Cardinality(Requests) \in Nat
  BY RequestsFinite, FS_CardinalityType
<1>1. ASSUME NEW t \in Threads, InGetHandle(t), TakeFront(t) PROVE LifeInv'
  <2> DEFINE h == Head(m_handles)
  <2>1. h \in Handles /\ \A s \in Threads : h \notin held[s]
    BY <1>1, TakeFromPool DEF QueueInv
  <2>2. place[t] # "unref" /\ owner
    BY <1>1 DEF InGetHandle, WantsHandle, PlaceInv
  <2>3. Requests' = Requests \cup {<<t, h>>}
    <3>1. held' = [held EXCEPT ![t] = @ \cup {h}] /\ place' = [place EXCEPT ![t] = "idle"]
      BY <1>1 DEF TakeFront
    <3>2. ASSUME NEW s \in Threads, NEW g \in Handles \cup {NoHandle}
          PROVE  (g \in held'[s] \/ (g = NoHandle /\ place'[s] = "unref")) <=>
                 (g \in held[s] \/ (g = NoHandle /\ place[s] = "unref")
                  \/ (s = t /\ g = h))
      BY <3>1, <2>2
    <3> QED
      BY <3>2, <2>1 DEF Requests
  <2>4. <<t, h>> \notin Requests
    BY <2>1, PoolAssumption DEF Requests
  <2>5. Cardinality(Requests') = Cardinality(Requests) + 1
    BY <1>0, <2>3, <2>4, FS_AddElement
  <2> QED
    BY <1>1, <2>2, <2>5 DEF TakeFront
<1>2. ASSUME NEW t \in Threads, ReleaseHandle(t) PROVE LifeInv'
  <2> DEFINE h == closing[t]
             Rest == Requests \ {<<t, h>>}
  <2>1. h \in held[t] /\ h \in Handles
    BY <1>2, ReturnToPool
  <2>2. place[t] # "unref" /\ place'[t] = "unref"
        /\ \A s \in Threads \ {t} : place'[s] = "unref" <=> place[s] = "unref"
    BY <1>2 DEF ReleaseHandle, Asleep
  <2>3. held' = [held EXCEPT ![t] = @ \ {h}]
    BY <1>2 DEF ReleaseHandle
  <2>4. Requests' = Rest \cup {<<t, NoHandle>>}
    <3>1. ASSUME NEW s \in Threads, NEW g \in Handles \cup {NoHandle}
          PROVE  (g \in held'[s] \/ (g = NoHandle /\ place'[s] = "unref")) <=>
                 \/ (g \in held[s] \/ (g = NoHandle /\ place[s] = "unref"))
                    /\ ~(s = t /\ g = h)
                 \/ s = t /\ g = NoHandle
      BY <2>1, <2>2, <2>3, PoolAssumption
    <3> QED
      BY <3>1 DEF Requests
  <2>5. <<t, h>> \in Requests /\ <<t, NoHandle>> \notin Requests
    BY <2>1, <2>2, PoolAssumption DEF Requests
  <2>6. IsFiniteSet(Rest) /\ Cardinality(Rest) = Cardinality(Requests) - 1
    BY <2>5, OneRequestLess
  <2>7. Cardinality(Requests') = Cardinality(Rest) + 1
    <3>1. <<t, NoHandle>> \notin Rest
      BY <2>5
    <3> HIDE DEF Rest
    <3> QED
      BY <2>4, <2>6, <3>1, OneMore
  <2>8. Cardinality(Requests') = Cardinality(Requests)
    BY <1>0, <2>6, <2>7
  <2> QED
    BY <1>2, <2>8 DEF ReleaseHandle
<1>3. ASSUME NEW t \in Threads, DropRequestRef(t) PROVE LifeInv'
  <2>1. place[t] = "unref" /\ place' = [place EXCEPT ![t] = "idle"] /\ held' = held
    BY <1>3 DEF DropRequestRef
  <2>2. Requests' = Requests \ {<<t, NoHandle>>} /\ <<t, NoHandle>> \in Requests
    <3>1. ASSUME NEW s \in Threads, NEW g \in Handles \cup {NoHandle}
          PROVE  (g \in held'[s] \/ (g = NoHandle /\ place'[s] = "unref")) <=>
                 (g \in held[s] \/ (g = NoHandle /\ place[s] = "unref"))
                    /\ ~(s = t /\ g = NoHandle)
      BY <2>1, PoolAssumption
    <3> QED
      BY <3>1, <2>1 DEF Requests
  <2>3. Cardinality(Requests') = Cardinality(Requests) - 1
    BY <2>2, OneRequestLess
  <2>4. refs # 0
    BY <2>2, OneRequestLess
  <2> QED
    BY <1>3, <2>3, <2>4 DEF DropRequestRef
<1>4. ASSUME UNCHANGED <<held, refs>>,
             \A s \in Threads : place'[s] = "unref" <=> place[s] = "unref",
             client' = "destroyed" => ~owner' /\ refs' = 0
      PROVE  LifeInv'
  <2>1. Requests' = Requests
    BY <1>4 DEF Requests
  <2> QED
    BY <1>4, <2>1
<1>5. ASSUME NEW t \in Threads,
             (Sleep(t) /\ InGetHandle(t)) \/ SpuriousWakeup(t) \/ ResetHandle(t)
      PROVE  LifeInv'
  <2>1. UNCHANGED <<held, refs, owner, client>>
    BY <1>5 DEF Sleep, SpuriousWakeup, ResetHandle
  <2>2. \A s \in Threads : place'[s] = "unref" <=> place[s] = "unref"
    BY <1>5 DEF Sleep, SpuriousWakeup, ResetHandle, InGetHandle, WantsHandle
  <2> QED
    BY <2>1, <2>2, <1>4
<1>6. CASE DropClient
  BY <1>6, <1>4 DEF DropClient
<1>7. CASE UNCHANGED vars
  BY <1>7, <1>4 DEF vars
<1> QED
  BY <1>1, <1>2, <1>3, <1>5, <1>6, <1>7, NextSteps DEF Step

\* A free handle that no woken thread is about to find, with threads asleep,
\* would be a lost wake-up: a handle is freed together with a notification.
LEMMA WakeupStep == Inv /\ [Next]_vars => NoLostWakeup'
<1> SUFFICES ASSUME Inv, [Next]_vars PROVE NoLostWakeup'
  OBVIOUS
<1> USE DEF Inv, TypeOK, NoLostWakeup, Goto, lifeVars
<1>0. Len(m_handles) \in Nat /\ IsFiniteSet(Awake) /\ Cardinality(Awake) \in Nat
  BY AwakeFinite
<1>1. ASSUME NEW t \in Threads, InGetHandle(t), TakeFront(t) PROVE NoLostWakeup'
  <2>1. Len(m_handles') = Len(m_handles) - 1 /\ place' = [place EXCEPT ![t] = "idle"]
    BY <1>1, HeadTailProperties DEF TakeFront
  <2>2. Awake' = Awake \ {t}
    BY <2>1 DEF Awake
  <2>3. Cardinality(Awake') >= Cardinality(Awake) - 1
    <3>1. Cardinality(Awake \ {t}) =
              IF t \in Awake THEN Cardinality(Awake) - 1 ELSE Cardinality(Awake)
      BY <1>0, FS_RemoveElement
    <3> QED
      BY <1>0, <2>2, <3>1
  <2>4. Asleep' \subseteq Asleep
    BY <2>1 DEF Asleep
  <2>5. Cardinality(Awake') \in Nat
    BY <1>0, <2>2, FS_RemoveElement, FS_CardinalityType
  <2> QED
    BY <1>0, <2>1, <2>3, <2>4, <2>5
<1>2. ASSUME NEW t \in Threads, Sleep(t) PROVE NoLostWakeup'
  <2>1. Len(m_handles') = 0
    BY <1>2 DEF Sleep
  <2>2. Awake' \subseteq Threads
    BY DEF Awake
  <2>3. Cardinality(Awake') \in Nat
    BY <2>2, PoolAssumption, FS_Subset, FS_CardinalityType
  <2> QED
    BY <2>1, <2>3
<1>3. ASSUME NEW t \in Threads, SpuriousWakeup(t) PROVE NoLostWakeup'
  <2>1. Awake' = Awake \cup {t} /\ t \notin Awake /\ t \in Asleep /\ m_handles' = m_handles
    BY <1>3 DEF SpuriousWakeup, Awake, Asleep
  <2>2. Cardinality(Awake') = Cardinality(Awake) + 1
    BY <1>0, <2>1, OneMore
  <2> QED
    BY <1>0, <2>1, <2>2
<1>4. ASSUME NEW t \in Threads, ReleaseHandle(t) PROVE NoLostWakeup'
  <2>1. Len(m_handles') = Len(m_handles) + 1
    BY <1>4, ReturnToPool, AppendProperties DEF ReleaseHandle
  <2>2. CASE Asleep = {}
    BY <1>4, <2>2 DEF ReleaseHandle, Asleep
  <2>3. CASE Asleep # {}
    <3>1. PICK s \in Asleep : place' = [place EXCEPT ![t] = "unref", ![s] = "awake"]
      BY <1>4, <2>3 DEF ReleaseHandle
    <3>2. place[t] = "release" /\ place[s] = "asleep" /\ s \in Threads
      BY <1>4, <3>1 DEF ReleaseHandle, Asleep
    <3>3. Awake' = Awake \cup {s} /\ s \notin Awake
      BY <3>1, <3>2 DEF Awake
    <3>4. Cardinality(Awake') = Cardinality(Awake) + 1
      BY <1>0, <3>3, OneMore
    <3> QED
      BY <1>0, <2>1, <2>3, <3>4
  <2> QED
    BY <2>2, <2>3
<1>5. ASSUME UNCHANGED m_handles,
             \A s \in Threads : place'[s] \in {"asleep", "awake"} \/
                                place[s] \in {"asleep", "awake"} => place'[s] = place[s]
      PROVE  NoLostWakeup'
  <2>1. Awake' = Awake /\ Asleep' = Asleep
    BY <1>5 DEF Awake, Asleep
  <2> QED
    BY <1>5, <2>1
<1>6. ASSUME NEW t \in Threads, ResetHandle(t) \/ DropRequestRef(t)
      PROVE  NoLostWakeup'
  BY <1>5, <1>6 DEF ResetHandle, DropRequestRef
<1>7. CASE DropClient \/ UNCHANGED vars
  BY <1>5, <1>7 DEF DropClient, vars
<1> QED
  BY <1>1, <1>2, <1>3, <1>4, <1>6, <1>7, NextSteps DEF Step

-----------------------------------------------------------------------------
(* What holds in every reachable state. *)

\* Every part of the invariant holds, for any threads, handles and requests.
THEOREM Invariance == Spec => []Inv
<1>1. Init => Inv
  BY InitInv
<1>2. Inv /\ [Next]_vars => Inv'
  BY TypeStep, QueueStep, PlaceStep, LifeStep, WakeupStep DEF Inv
<1> QED
  BY <1>1, <1>2, PTL DEF Spec

\* Every variable keeps to its values; the count of references never drops below
\* zero.
THEOREM TypeCorrect == Spec => []TypeOK
<1>1. Inv => TypeOK
  BY DEF Inv
<1> QED
  BY <1>1, Invariance, PTL

\* Every handle is in the queue once or in one request; and when the client is
\* destroyed, with its last reference, all are in the queue and no thread is in
\* get_handle or in a request's destructor.
THEOREM HandlesAreConserved == Spec => []HandlesConserved
<1>1. ASSUME Inv PROVE DestroyedWhole
  <2> SUFFICES ASSUME client = "destroyed"
               PROVE  Pooled = Handles
                      /\ \A t \in Threads : place[t] = "idle" /\ held[t] = {}
    BY DEF DestroyedWhole
  <2>1. ~owner /\ Requests = {}
    BY <1>1, RequestsFinite, FS_EmptySet DEF Inv, LifeInv
  <2>2. \A t \in Threads : held[t] = {} /\ place[t] # "unref"
    <3>1. ASSUME NEW t \in Threads, NEW h \in held[t] PROVE FALSE
      <4>1. h \in Handles
        BY <1>1, <3>1 DEF Inv, TypeOK
      <4>2. <<t, h>> \in Requests
        BY <3>1, <4>1 DEF Requests
      <4> QED
        BY <4>2, <2>1
    <3>2. ASSUME NEW t \in Threads, place[t] = "unref" PROVE FALSE
      <4>1. <<t, NoHandle>> \in Requests
        BY <3>2 DEF Requests
      <4> QED
        BY <4>1, <2>1
    <3> QED
      BY <3>1, <3>2
  <2>3. \A t \in Threads : place[t] = "idle"
    BY <1>1, <2>1, <2>2 DEF Inv, TypeOK, PlaceInv
  <2>4. Handles \subseteq Pooled
    BY <1>1, <2>2 DEF Inv, QueueInv
  <2>5. Pooled \subseteq Handles
    BY <1>1, LenProperties, ElementOfSeq DEF Inv, TypeOK, Pooled
  <2> QED
    BY <2>2, <2>3, <2>4, <2>5
<1>2. Inv => HandlesConserved
  BY <1>1 DEF Inv, QueueInv, HandlesConserved
<1> QED
  BY <1>2, Invariance, PTL

\* A handle in the queue carries nothing of an earlier request.
THEOREM PoolIsClean == Spec => []PooledAreClean
<1>1. Inv => PooledAreClean
  BY DEF Inv
<1> QED
  BY <1>1, Invariance, PTL

\* While threads sleep, every free handle has a woken thread that will find it.
THEOREM WakeupsAreKept == Spec => []NoLostWakeup
<1>1. Inv => NoLostWakeup
  BY DEF Inv
<1> QED
  BY <1>1, Invariance, PTL
===============================================================================
