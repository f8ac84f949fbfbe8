----------------------------- MODULE HandlePool -----------------------------
(***************************************************************************)
(* CurlEasyClient and the life of a CurlEasyRequest                        *)
(* (include/http/libcurl_http_client.h, src/http/libcurl_http_client.cpp). *)
(* The client owns a fixed number of curl handles in a queue guarded by a  *)
(* mutex and a condition variable.  A request takes one handle, keeps a    *)
(* shared_ptr to the client, and gives the handle back when it is          *)
(* destroyed.  The last shared_ptr to go destroys the client.              *)
(*                                                                         *)
(* A critical section of m_handles_mutex is one action: no other thread    *)
(* sees its middle, and wait() gives up the mutex and starts to sleep in   *)
(* one step.  A thread may hold several requests: get_blob_properties and  *)
(* get_container_properties keep theirs until their deferred future is     *)
(* consumed.                                                               *)
(***************************************************************************)
EXTENDS Integers, FiniteSets, Sequences

CONSTANTS Threads,    \* threads that use the client
          Handles,    \* curl handles: m_size of them
          NoHandle,   \* no handle
          MaxHeld,    \* requests a thread holds at once
          MaxTakes    \* bound: requests a thread makes in all

ASSUME PoolAssumption ==
    /\ IsFiniteSet(Threads) /\ IsFiniteSet(Handles)
    /\ NoHandle \notin Handles
    /\ MaxHeld \in Nat \ {0} /\ MaxTakes \in Nat

VARIABLES
    m_handles,  \* the queue of free handles
    place,      \* where each thread is
    held,       \* the handles of the requests each thread holds
    closing,    \* the handle of the request each thread is destroying
    dirty,      \* handles with options or callbacks of some request set
    takes,      \* how many handles each thread has taken
    owner,      \* the blob_client still holds its shared_ptr
    refs,       \* requests that hold a shared_ptr to the client
    client      \* "alive", or "destroyed" when ~CurlEasyClient has run

lifeVars == <<owner, refs, client>>
vars == <<m_handles, place, held, closing, dirty, takes, lifeVars>>

Asleep == {t \in Threads : place[t] = "asleep"}
Awake == {t \in Threads : place[t] = "awake"}
Pooled == {m_handles[i] : i \in DOMAIN m_handles}

\* The order in which the constructor queued the handles it made.
MadeHandles == CHOOSE q \in [1..Cardinality(Handles) -> Handles] :
                   /\ \A i, j \in DOMAIN q : q[i] = q[j] => i = j
                   /\ \A h \in Handles : \E i \in DOMAIN q : q[i] = h

Init ==
    /\ m_handles = MadeHandles
    /\ place = [t \in Threads |-> "idle"]
    /\ held = [t \in Threads |-> {}]
    /\ closing = [t \in Threads |-> NoHandle]
    /\ dirty = {}
    /\ takes = [t \in Threads |-> 0]
    /\ owner = TRUE
    /\ refs = 0
    /\ client = "alive"

Goto(t, p) == place' = [place EXCEPT ![t] = p]

-----------------------------------------------------------------------------
(* get_handle *)

\* A definition named X_Y is a faulty variant of X: no behaviour uses it, it
\* only serves to see a property fail.
TakeFront_RawPointer(t) ==
    /\ m_handles # <<>>
    /\ m_handles' = Tail(m_handles)
    /\ held' = [held EXCEPT ![t] = @ \cup {Head(m_handles)}]
    /\ dirty' = dirty \cup {Head(m_handles)}
    /\ takes' = [takes EXCEPT ![t] = @ + 1]
    /\ Goto(t, "idle")
    /\ UNCHANGED <<closing, lifeVars>>

\* The CurlEasyRequest is built on the front handle: its constructor sets the
\* header callback.
TakeFront(t) ==
    /\ m_handles # <<>>
    /\ m_handles' = Tail(m_handles)
    /\ held' = [held EXCEPT ![t] = @ \cup {Head(m_handles)}]
    /\ dirty' = dirty \cup {Head(m_handles)}
    /\ takes' = [takes EXCEPT ![t] = @ + 1]
    /\ refs' = refs + 1
    /\ Goto(t, "idle")
    /\ UNCHANGED <<closing, owner, client>>

Sleep(t) ==
    /\ m_handles = <<>>
    /\ Goto(t, "asleep")
    /\ UNCHANGED <<m_handles, held, closing, dirty, takes, lifeVars>>

WantsHandle(t) ==
    /\ place[t] = "idle"
    /\ owner
    /\ takes[t] < MaxTakes
    /\ Cardinality(held[t]) < MaxHeld

GetHandle(t) == WantsHandle(t) /\ (TakeFront(t) \/ Sleep(t))

\* cv.wait evaluates its predicate again after every wake-up.
Recheck(t) == place[t] = "awake" /\ (TakeFront(t) \/ Sleep(t))

SpuriousWakeup(t) ==
    /\ place[t] = "asleep"
    /\ Goto(t, "awake")
    /\ UNCHANGED <<m_handles, held, closing, dirty, takes, lifeVars>>

-----------------------------------------------------------------------------
(* ~CurlEasyRequest *)

\* curl_easy_reset(m_curl)
ResetHandle_Forgotten(t) ==
    /\ place[t] = "idle"
    /\ \E h \in held[t] : closing' = [closing EXCEPT ![t] = h]
    /\ Goto(t, "release")
    /\ UNCHANGED <<m_handles, held, dirty, takes, lifeVars>>
ResetHandle(t) ==
    /\ place[t] = "idle"
    /\ \E h \in held[t] :
           /\ closing' = [closing EXCEPT ![t] = h]
           /\ dirty' = dirty \ {h}
    /\ Goto(t, "release")
    /\ UNCHANGED <<m_handles, held, takes, lifeVars>>

\* m_client->release_handle(m_curl): push and notify_one under the mutex
ReleaseHandle_NoNotify(t) ==
    /\ place[t] = "release"
    /\ m_handles' = Append(m_handles, closing[t])
    /\ held' = [held EXCEPT ![t] = @ \ {closing[t]}]
    /\ Goto(t, "unref")
    /\ UNCHANGED <<closing, dirty, takes, lifeVars>>
ReleaseHandle_Keeps(t) ==
    /\ place[t] = "release"
    /\ m_handles' = Append(m_handles, closing[t])
    /\ Goto(t, "unref")
    /\ UNCHANGED <<held, closing, dirty, takes, lifeVars>>
ReleaseHandle(t) ==
    /\ place[t] = "release"
    /\ m_handles' = Append(m_handles, closing[t])
    /\ held' = [held EXCEPT ![t] = @ \ {closing[t]}]
    /\ IF Asleep = {}
       THEN Goto(t, "unref")
       ELSE \E s \in Asleep :
                place' = [place EXCEPT ![t] = "unref", ![s] = "awake"]
    /\ UNCHANGED <<closing, dirty, takes, lifeVars>>

\* The members of the request go: its shared_ptr to the client is dropped, and
\* ~CurlEasyClient runs when it was the last.
DropRequestRef(t) ==
    /\ place[t] = "unref"
    /\ refs' = refs - 1
    /\ client' = IF ~owner /\ refs = 1 THEN "destroyed" ELSE client
    /\ closing' = [closing EXCEPT ![t] = NoHandle]
    /\ Goto(t, "idle")
    /\ UNCHANGED <<m_handles, held, dirty, takes, owner>>

\* The blob_client is destroyed, by a program that has no call in progress on
\* it; requests may still be alive in futures that were not consumed.
DropClient ==
    /\ owner
    /\ Asleep \cup Awake = {}
    /\ owner' = FALSE
    /\ client' = IF refs = 0 THEN "destroyed" ELSE client
    /\ UNCHANGED <<m_handles, place, held, closing, dirty, takes, refs>>

-----------------------------------------------------------------------------

\* A thread's own code, woken or running; sleepers only move when notified.
Runs(t) == \/ GetHandle(t) \/ Recheck(t)
           \/ ResetHandle(t) \/ ReleaseHandle(t) \/ DropRequestRef(t)

Next == \/ DropClient
        \/ \E t \in Threads : Runs(t) \/ SpuriousWakeup(t)

\* Running threads run, and every request is destroyed in the end.
Fairness ==
    /\ WF_vars(DropClient)
    /\ \A t \in Threads :
           /\ WF_vars(GetHandle(t) \/ Recheck(t))
           /\ WF_vars(ResetHandle(t) \/ ReleaseHandle(t) \/ DropRequestRef(t))

Spec == Init /\ [][Next]_vars /\ Fairness

-----------------------------------------------------------------------------

\* The values each variable takes.
TypeOK ==
    /\ m_handles \in Seq(Handles)
    /\ place \in [Threads -> {"idle", "asleep", "awake", "release", "unref"}]
    /\ held \in [Threads -> SUBSET Handles]
    /\ closing \in [Threads -> Handles \cup {NoHandle}]
    /\ dirty \subseteq Handles
    /\ takes \in [Threads -> 0..MaxTakes]
    /\ owner \in BOOLEAN
    /\ refs \in Nat
    /\ client \in {"alive", "destroyed"}

\* The client is destroyed only when all its handles are back in the queue, so
\* that its destructor cleans up every one, and no thread will use it again.
DestroyedWhole ==
    client = "destroyed" =>
        /\ Pooled = Handles
        /\ \A t \in Threads : place[t] = "idle" /\ held[t] = {}

\* No handle is lost, duplicated or shared: each is either queued once or held
\* by exactly one request, up to the end of the client.
HandlesConserved ==
    /\ DestroyedWhole
    /\ \A i, j \in DOMAIN m_handles : m_handles[i] = m_handles[j] => i = j
    /\ \A h \in Handles : h \in Pooled <=> \A t \in Threads : h \notin held[t]
    /\ \A s, t \in Threads : s # t => held[s] \cap held[t] = {}

\* A handle in the queue carries nothing of the request that used it before:
\* no callback that would write into a destroyed object.
PooledAreClean == Pooled \cap dirty = {}

\* No wake-up is lost: while threads sleep, each free handle has a thread that
\* was woken and has yet to look at the queue.
NoLostWakeup == Asleep # {} => Len(m_handles) <= Cardinality(Awake)

\* Every call of get_handle returns, and the client is destroyed in the end.
EveryoneServed == <>(client = "destroyed" /\ \A t \in Threads : place[t] = "idle")
=============================================================================
