------------------------- MODULE ForkBackendProofs -------------------------
(***************************************************************************)
(* Proofs about ForkBackend, for any number of clients, keys and blocks:   *)
(* what the handler fetches, to whom it listens and when it sleeps; then   *)
(* where a blocked call is held, that it is answered as the abstract store *)
(* answers it, and that the last drop leaves nothing fetched unwritten.    *)
(***************************************************************************)
EXTENDS ForkBackend, SequenceTheorems, FiniteSetTheorems, TLAPS

-----------------------------------------------------------------------------
(* Type correctness                                                        *)

LEMMA MessageTypes ==
    /\ GetMsg \subseteq BackendRequest
    /\ PinMsg \subseteq BackendRequest
    /\ InsertMsg \subseteq BackendRequest
    /\ StorageMsg \subseteq BackendRequest
  BY DEF BackendRequest

LEMMA InsertMsgShape ==
    ASSUME NEW m \in BackendRequest, m.t = "insert"
    PROVE  \A k \in DOMAIN m.data : m.data[k] \in UserVals
  <1>1. m \in InsertMsg
    BY DEF BackendRequest, GetMsg, PinMsg, InsertMsg, StorageMsg
  <1>2. m.data \in PartialMaps(AccountKeys) \cup PartialMaps(HashKeys)
    BY <1>1 DEF InsertMsg
  <1> QED BY <1>2 DEF PartialMaps

LEMMA StorageMsgShape ==
    ASSUME NEW m \in BackendRequest, m.t = "storage"
    PROVE  \A k \in DOMAIN m.data : m.data[k] \in UserVals
  <1>1. m \in StorageMsg
    BY DEF BackendRequest, GetMsg, PinMsg, InsertMsg, StorageMsg
  <1>2. PICK a \in Addrs : m.data \in PartialMaps(SlotsOf(a))
    BY <1>1 DEF StorageMsg
  <1> QED BY <1>2 DEF PartialMaps

LEMMA GetMsgShape ==
    ASSUME NEW m \in BackendRequest, m.t = "get"
    PROVE  m.client \in Clients /\ m.key \in Keys \cup {Direct}
  <1>1. m \in GetMsg
    BY DEF BackendRequest, GetMsg, PinMsg, InsertMsg, StorageMsg
  <1> QED BY <1>1 DEF GetMsg

LEMMA PinMsgShape ==
    ASSUME NEW m \in BackendRequest, m.t = "pin"
    PROVE  m.block \in Pins
  <1>1. m \in PinMsg
    BY DEF BackendRequest, GetMsg, PinMsg, InsertMsg, StorageMsg
  <1> QED BY <1>1 DEF PinMsg

LEMMA ReplyTyped ==
    ASSUME TypeOK, NEW S \in SUBSET Clients,
           NEW tag \in {"none", "ok", "direct", "provider", "send", "recv"},
           NEW v \in Vals \cup {Absent},
           Reply(S, [tag |-> tag, val |-> v])
    PROVE  /\ waiting' \in [Clients -> Keys \cup {Direct, NoReq}]
           /\ answer' \in [Clients -> [tag : {"none", "ok", "direct", "provider", "send", "recv"},
                                       val : Vals \cup {Absent}]]
  BY DEF TypeOK, Reply

LEMMA SendTyped ==
    ASSUME TypeOK, NEW m \in BackendRequest, UnboundedSend(m)
    PROVE  channel' \in Seq(BackendRequest) /\ rxArmed' \in BOOLEAN /\ woken' \in BOOLEAN
  <1>1. channel' \in Seq(BackendRequest)
    BY DEF TypeOK, UnboundedSend
  <1>2. rxArmed' \in BOOLEAN /\ woken' \in BOOLEAN
    BY Zenon DEF TypeOK, UnboundedSend
  <1> QED BY <1>1, <1>2

LEMMA TypeClient == ASSUME TypeOK, NEW c \in Clients, ClientNext(c) PROVE TypeOK'
  <1> USE BoundAssumption
  <1>1. ASSUME NEW k \in Keys \cup {Direct}, Get(c, k) PROVE TypeOK'
    <2>1. [t |-> "get", client |-> c, key |-> k] \in BackendRequest
      BY MessageTypes DEF GetMsg
    <2>2. CASE HandlerAlive
      <3>1. UnboundedSend([t |-> "get", client |-> c, key |-> k])
              /\ waiting' = [waiting EXCEPT ![c] = k]
              /\ answer' = [answer EXCEPT ![c] = Failed("none")]
        BY <1>1, <2>2 DEF Get
      <3>2. channel' \in Seq(BackendRequest) /\ rxArmed' \in BOOLEAN /\ woken' \in BOOLEAN
        BY <2>1, <3>1, SendTyped
      <3> QED BY <1>1, <3>1, <3>2 DEF Get, TypeOK, Failed, diskVars, taskVars
    <2>3. CASE ~HandlerAlive
      BY <1>1, <2>3 DEF Get, TypeOK, Failed, diskVars, taskVars, wakeVars
    <2> QED BY <2>2, <2>3
  <1>2. ASSUME NEW m \in BackendRequest, Post(c, m) PROVE TypeOK'
    <2>1. CASE HandlerAlive
      BY <1>2, <2>1, SendTyped DEF Post, TypeOK, diskVars, taskVars, clientVars
    <2>2. CASE ~HandlerAlive
      BY <1>2, <2>2 DEF Post, TypeOK, diskVars, taskVars, wakeVars, clientVars
    <2> QED BY <2>1, <2>2
  <1>3. CASE SetPinnedBlock(c)
    BY <1>2, <1>3, MessageTypes DEF SetPinnedBlock
  <1>4. CASE InsertOrUpdate(c)
    BY <1>2, <1>4, MessageTypes DEF InsertOrUpdate
  <1>5. CASE InsertOrUpdateStorage(c)
    BY <1>2, <1>5, MessageTypes DEF InsertOrUpdateStorage
  <1>6. CASE FlushCache(c)
    BY <1>6 DEF FlushCache, TypeOK, clientVars, taskVars, wakeVars
  <1>7. CASE CloneHandle(c)
    BY <1>7 DEF CloneHandle, TypeOK, diskVars, taskVars, wakeVars
  <1>8. CASE DropHandle(c)
    BY <1>8 DEF DropHandle, TypeOK, taskVars, wakeVars
  <1> QED
    BY <1>1, <1>3, <1>4, <1>5, <1>6, <1>7, <1>8 DEF ClientNext, GetUncached, DoAnyRequest

LEMMA TypeDrain == ASSUME TypeOK, DrainOne PROVE TypeOK'
  <1> DEFINE m == Head(queued)
  <1>1. m \in BackendRequest /\ queued' \in Seq(BackendRequest)
    BY DEF DrainOne, TypeOK
  <1>2. CASE OnGet(m)
    <2>1. m.client \in Clients /\ m.key \in Keys \cup {Direct}
      BY <1>1, <1>2, GetMsgShape DEF OnGet
    <2>2. CASE m.key = Direct /\ direct' = [direct EXCEPT ![m.client] = "created"]
                 /\ UNCHANGED <<answer, waiting, listeners, fetches>>
      BY <1>1, <1>2, <2>1, <2>2 DEF OnGet, DrainOne, TypeOK, FutureState, diskVars, wakeVars
    <2>3. CASE m.key \in Keys /\ Reply({m.client}, Ok(db[m.key])) /\ UNCHANGED <<listeners, fetches, direct>>
      <3>1. db[m.key] \in Vals \cup {Absent}
        BY <2>3 DEF TypeOK
      <3>2. /\ waiting' \in [Clients -> Keys \cup {Direct, NoReq}]
            /\ answer' \in [Clients -> [tag : {"none", "ok", "direct", "provider", "send", "recv"},
                                        val : Vals \cup {Absent}]]
        BY <2>1, <2>3, <3>1, ReplyTyped DEF Ok
      <3> QED BY <1>1, <1>2, <2>3, <3>2 DEF OnGet, DrainOne, TypeOK, diskVars, wakeVars
    <2>4. CASE m.key \in Keys /\ RequestKey(m.client, m.key) /\ UNCHANGED <<answer, waiting, direct>>
      <3>1. NewFetch(m.key) \in Fetch
        BY <2>4 DEF NewFetch, Fetch, FutureState, TypeOK
      <3> QED BY <1>1, <1>2, <2>1, <2>4, <3>1 DEF OnGet, RequestKey, DrainOne, TypeOK, diskVars, wakeVars
    <2> QED BY <1>2, <2>1, <2>2, <2>3, <2>4
            DEF OnGet, RequestAccount, RequestAccountStorage, RequestHash
  <1>3. CASE OnSetPinnedBlock(m)
    BY <1>1, <1>3, PinMsgShape DEF OnSetPinnedBlock, DrainOne, TypeOK, diskVars, wakeVars
  <1>4. CASE OnInsert(m)
    <2>1. db' \in [Keys -> Vals \cup {Absent}]
      BY <1>1, <1>4, InsertMsgShape DEF OnInsert, TypeOK, Vals
    <2> QED BY <1>1, <1>4, <2>1 DEF OnInsert, DrainOne, TypeOK, diskVars, wakeVars
  <1>5. CASE OnUpdateStorage(m)
    <2>1. db' \in [Keys -> Vals \cup {Absent}]
      BY <1>1, <1>5, StorageMsgShape DEF OnUpdateStorage, StorageAfter, TypeOK, Vals
    <2> QED BY <1>1, <1>5, <2>1 DEF OnUpdateStorage, DrainOne, TypeOK, diskVars, wakeVars
  <1> QED BY <1>2, <1>3, <1>4, <1>5 DEF DrainOne, OnRequest

LEMMA TypePollFetch == ASSUME TypeOK, PollFetch PROVE TypeOK'
  <1>1. PICK f \in fetches :
          /\ phase = "poll" /\ f.key \in toPoll
          /\ PollCreated(f) \/ PollPending(f) \/ PollOk(f) \/ PollErr(f)
          /\ toPoll' = toPoll \ {f.key}
          /\ UNCHANGED <<diskVars, handles, channel, sends, phase, queued, direct, pin, wakeVars>>
    BY DEF PollFetch
  <1>2. f \in Fetch /\ f.key \in Keys /\ f.block \in Pins /\ listeners[f.key] \in SUBSET Clients
    BY DEF TypeOK, Fetch
  <1>3. CASE PollCreated(f)
    <2>1. [f EXCEPT !.st = "sent"] \in Fetch
      BY <1>2 DEF Fetch, FutureState
    <2> QED BY <1>1, <1>3, <2>1 DEF PollCreated, TypeOK, diskVars, wakeVars
  <1>4. CASE PollPending(f)
    BY <1>1, <1>4 DEF PollPending, TypeOK, diskVars, wakeVars
  <1>5. CASE PollOk(f)
    <2>1. PICK v \in Resolved(f) : db' = [db EXCEPT ![f.key] = v] /\ Reply(listeners[f.key], Ok(v))
      BY <1>5 DEF PollOk
    <2>2. v \in Vals
      BY <1>2, <2>1 DEF Resolved, Vals, ChainVals
    <2>3. /\ waiting' \in [Clients -> Keys \cup {Direct, NoReq}]
          /\ answer' \in [Clients -> [tag : {"none", "ok", "direct", "provider", "send", "recv"},
                                      val : Vals \cup {Absent}]]
      BY <1>2, <2>1, <2>2, ReplyTyped DEF Ok
    <2> QED BY <1>1, <1>2, <1>5, <2>1, <2>2, <2>3 DEF PollOk, TypeOK, diskVars, wakeVars
  <1>6. CASE PollErr(f)
    <2>1. /\ waiting' \in [Clients -> Keys \cup {Direct, NoReq}]
          /\ answer' \in [Clients -> [tag : {"none", "ok", "direct", "provider", "send", "recv"},
                                      val : Vals \cup {Absent}]]
      BY <1>2, <1>6, ReplyTyped DEF PollErr, Failed
    <2> QED BY <1>1, <1>2, <1>6, <2>1 DEF PollErr, TypeOK, diskVars, wakeVars
  <1> QED BY <1>1, <1>3, <1>4, <1>5, <1>6

LEMMA TypePollDirect == ASSUME TypeOK, PollDirect PROVE TypeOK'
  <1>1. PICK c \in Clients \cap toPoll :
          /\ \/ /\ direct[c] = "created"
                /\ direct' = [direct EXCEPT ![c] = "sent"]
                /\ UNCHANGED <<answer, waiting>>
             \/ /\ direct[c] = "sent"
                /\ UNCHANGED <<direct, answer, waiting>>
             \/ /\ direct[c] \in {"ok", "err"}
                /\ direct' = [direct EXCEPT ![c] = "none"]
                /\ Reply({c}, Failed(IF direct[c] = "ok" THEN "direct" ELSE "provider"))
          /\ toPoll' = toPoll \ {c}
          /\ UNCHANGED <<db, diskVars, handles, channel, sends, phase, queued, listeners,
                         fetches, pin, wakeVars>>
    BY DEF PollDirect
  <1>2. CASE UNCHANGED <<answer, waiting>>
    BY <1>1, <1>2 DEF TypeOK, FutureState, diskVars, wakeVars
  <1>3. CASE Reply({c}, Failed(IF direct[c] = "ok" THEN "direct" ELSE "provider"))
               /\ direct' = [direct EXCEPT ![c] = "none"]
    <2>1. /\ waiting' \in [Clients -> Keys \cup {Direct, NoReq}]
          /\ answer' \in [Clients -> [tag : {"none", "ok", "direct", "provider", "send", "recv"},
                                      val : Vals \cup {Absent}]]
      BY <1>3, ReplyTyped DEF Failed
    <2> QED BY <1>1, <1>3, <2>1 DEF TypeOK, diskVars, wakeVars
  <1> QED BY <1>1, <1>2, <1>3

LEMMA TypeHandlerDropped == ASSUME TypeOK, HandlerDropped PROVE TypeOK'
  <1>1. /\ waiting' \in [Clients -> Keys \cup {Direct, NoReq}]
        /\ answer' \in [Clients -> [tag : {"none", "ok", "direct", "provider", "send", "recv"},
                                    val : Vals \cup {Absent}]]
    BY ReplyTyped DEF HandlerDropped, Failed
  <1> QED BY <1>1 DEF HandlerDropped, TypeOK, diskVars, wakeVars

LEMMA TypeProvider == ASSUME TypeOK, ProviderNext PROVE TypeOK'
  <1>1. ASSUME NEW k \in Keys, ProviderAnswersFetch(k) PROVE TypeOK'
    <2>1. PICK f \in fetches, r \in {"ok", "err"} :
            fetches' = (fetches \ {f}) \cup {[f EXCEPT !.st = r]}
      BY <1>1 DEF ProviderAnswersFetch
    <2>2. [f EXCEPT !.st = r] \in Fetch
      BY DEF TypeOK, Fetch, FutureState
    <2>3. fetches' \subseteq Fetch
      BY <2>1, <2>2 DEF TypeOK
    <2> QED BY <1>1, <2>3 DEF ProviderAnswersFetch, TypeOK, diskVars, clientVars
  <1>2. ASSUME NEW c \in Clients, ProviderAnswersDirect(c) PROVE TypeOK'
    BY <1>2 DEF ProviderAnswersDirect, TypeOK, FutureState, diskVars, clientVars
  <1> QED BY <1>1, <1>2 DEF ProviderNext

LEMMA TypeInit == Init => TypeOK
  <1> SUFFICES ASSUME Init PROVE TypeOK
    OBVIOUS
  <1>1. rxArmed \in BOOLEAN /\ woken \in BOOLEAN
    BY Zenon DEF Init
  <1>2. sends \in 0..MaxSends
    BY BoundAssumption DEF Init
  <1>3. answer \in [Clients -> [tag : {"none", "ok", "direct", "provider", "send", "recv"},
                                val : Vals \cup {Absent}]]
    BY DEF Init, Failed
  <1> QED BY <1>1, <1>2, <1>3 DEF Init, TypeOK

LEMMA TypeStep == TypeOK /\ [Next]_vars => TypeOK'
  <1> SUFFICES ASSUME TypeOK, [Next]_vars PROVE TypeOK'
    OBVIOUS
  <1>1. ASSUME NEW c \in Clients, ClientNext(c) PROVE TypeOK'
    BY <1>1, TypeClient
  <1>2. CASE FlushOnDrop
    BY <1>2 DEF FlushOnDrop, TypeOK, clientVars, taskVars, wakeVars
  <1>3. CASE HandlerNext
    <2>1. CASE PollStart
      BY <2>1 DEF PollStart, TypeOK, diskVars, clientVars
    <2>2. CASE DrainEnd
      BY <2>2 DEF DrainEnd, TypeOK, diskVars, clientVars, wakeVars
    <2>3. CASE RecvOne
      BY <2>3 DEF RecvOne, TypeOK, diskVars, clientVars, wakeVars
    <2>4. CASE RecvClosed
      BY <2>4 DEF RecvClosed, TypeOK, diskVars, clientVars, wakeVars
    <2>5. CASE RecvPending
      <3>1. InFlight \subseteq Keys \cup Clients
        BY DEF InFlight, TypeOK, Fetch
      <3> QED BY <2>5, <3>1 DEF RecvPending, TypeOK, diskVars, clientVars
    <2>6. CASE PollEnd
      BY <2>6 DEF PollEnd, TypeOK, diskVars, clientVars, wakeVars
    <2> QED BY <1>3, <2>1, <2>2, <2>3, <2>4, <2>5, <2>6, TypeDrain, TypePollFetch, TypePollDirect
            DEF HandlerNext
  <1>4. CASE UNCHANGED vars
    BY <1>4 DEF vars, diskVars, clientVars, taskVars, wakeVars, TypeOK
  <1> QED BY <1>1, <1>2, <1>3, <1>4, TypeHandlerDropped, TypeProvider DEF Next

\* Every reachable state of the backend is well typed, whatever the clients,
\* keys and blocks.
THEOREM TypeCorrect == Spec => []TypeOK
  BY TypeInit, TypeStep, PTL DEF Spec

-----------------------------------------------------------------------------
(* Bundling                                                                *)

\* Neither conjunct is inductive alone: RequestKey starts a fetch when a key has
\* no listeners, and PollOk and PollErr drop the listeners with the one fetch.
Bundled == OneFetchPerKey /\ ListenersMatchFetches

LEMMA BundledInit == Init => Bundled
  BY DEF Init, Bundled, OneFetchPerKey, ListenersMatchFetches

\* A future that changes its progress stays the only one of its key.
LEMMA BundledProgress ==
    ASSUME TypeOK, Bundled, NEW f \in fetches, NEW r \in FutureState,
           fetches' = (fetches \ {f}) \cup {[f EXCEPT !.st = r]}, UNCHANGED listeners
    PROVE  Bundled'
  <1> DEFINE g == [f EXCEPT !.st = r]
  <1>1. f \in Fetch /\ g \in Fetch /\ g.key = f.key
    BY DEF TypeOK, Fetch
  <1>2. \A h \in fetches' : h = g \/ (h \in fetches /\ h # f)
    OBVIOUS
  <1>3. OneFetchPerKey'
    BY <1>1, <1>2 DEF Bundled, OneFetchPerKey
  <1>4. \A k \in Keys : (\E h \in fetches : h.key = k) <=> (\E h \in fetches' : h.key = k)
    BY <1>1
  <1>5. ListenersMatchFetches'
    BY <1>4 DEF Bundled, ListenersMatchFetches
  <1> QED BY <1>3, <1>5 DEF Bundled

\* A future that resolves goes together with the listeners of its key.
LEMMA BundledResolve ==
    ASSUME TypeOK, Bundled, NEW f \in fetches, fetches' = fetches \ {f},
           listeners' = [listeners EXCEPT ![f.key] = {}]
    PROVE  Bundled'
  <1>1. f.key \in Keys
    BY DEF TypeOK, Fetch
  <1>2. OneFetchPerKey'
    BY DEF Bundled, OneFetchPerKey
  <1>3. ASSUME NEW k \in Keys
        PROVE  listeners'[k] # {} <=> \E h \in fetches' : h.key = k
    <2>1. CASE k = f.key
      BY <1>1, <2>1 DEF Bundled, OneFetchPerKey, TypeOK
    <2>2. CASE k # f.key
      BY <1>1, <2>2 DEF Bundled, ListenersMatchFetches, TypeOK
    <2> QED BY <2>1, <2>2
  <1> QED BY <1>2, <1>3 DEF Bundled, ListenersMatchFetches

\* A request joins the fetch of its key, or starts the first one.
LEMMA BundledRequest ==
    ASSUME TypeOK, Bundled, NEW c \in Clients, NEW k \in Keys, RequestKey(c, k)
    PROVE  Bundled'
  <1> DEFINE n == NewFetch(k)
  <1>0. n.key = k
    BY DEF NewFetch
  <1>1. listeners' = [listeners EXCEPT ![k] = @ \cup {c}] /\ listeners'[k] # {}
    BY DEF RequestKey, TypeOK
  <1>2. CASE listeners[k] = {}
    <2>1. fetches' = fetches \cup {n} /\ ~ \E h \in fetches : h.key = k
      BY <1>2 DEF RequestKey, Bundled, ListenersMatchFetches
    <2>2. OneFetchPerKey'
      BY <1>0, <2>1 DEF Bundled, OneFetchPerKey
    <2>3. ListenersMatchFetches'
      BY <1>0, <1>1, <2>1 DEF Bundled, ListenersMatchFetches, TypeOK
    <2> QED BY <2>2, <2>3 DEF Bundled
  <1>3. CASE listeners[k] # {}
    BY <1>1, <1>3 DEF RequestKey, Bundled, OneFetchPerKey, ListenersMatchFetches, TypeOK
  <1> QED BY <1>2, <1>3

LEMMA BundledStep == TypeOK /\ Bundled /\ [Next]_vars => Bundled'
  <1> SUFFICES ASSUME TypeOK, Bundled, [Next]_vars PROVE Bundled'
    OBVIOUS
  <1>1. CASE UNCHANGED <<listeners, fetches>>
    BY <1>1 DEF Bundled, OneFetchPerKey, ListenersMatchFetches
  <1>2. ASSUME NEW c \in Clients, ClientNext(c) PROVE UNCHANGED <<listeners, fetches>>
    BY <1>2 DEF ClientNext, Get, GetUncached, DoAnyRequest, Post, SetPinnedBlock, InsertOrUpdate,
       InsertOrUpdateStorage, FlushCache, CloneHandle, DropHandle, taskVars
  <1>3. CASE DrainOne
    <2> DEFINE m == Head(queued)
    <2>1. m \in BackendRequest
      BY <1>3 DEF DrainOne, TypeOK
    <2>2. CASE OnGet(m)
      <3>1. m.client \in Clients /\ m.key \in Keys \cup {Direct}
        BY <2>1, <2>2, GetMsgShape DEF OnGet
      <3>2. UNCHANGED <<listeners, fetches>> \/ (m.key \in Keys /\ RequestKey(m.client, m.key))
        BY <2>2, <3>1 DEF OnGet, RequestAccount, RequestAccountStorage, RequestHash
      <3> QED BY <1>1, <3>1, <3>2, BundledRequest
    <2>3. CASE OnSetPinnedBlock(m) \/ OnInsert(m) \/ OnUpdateStorage(m)
      BY <1>1, <2>3 DEF OnSetPinnedBlock, OnInsert, OnUpdateStorage
    <2> QED BY <1>3, <2>2, <2>3 DEF DrainOne, OnRequest
  <1>4. CASE PollFetch
    <2>1. PICK f \in fetches : PollCreated(f) \/ PollPending(f) \/ PollOk(f) \/ PollErr(f)
      BY <1>4 DEF PollFetch
    <2>2. CASE PollCreated(f)
      BY <2>2, BundledProgress DEF PollCreated, FutureState
    <2>3. CASE PollPending(f)
      BY <1>1, <2>3 DEF PollPending
    <2>4. CASE PollOk(f) \/ PollErr(f)
      BY <2>4, BundledResolve DEF PollOk, PollErr
    <2> QED BY <2>1, <2>2, <2>3, <2>4
  <1>5. CASE HandlerDropped
    BY <1>5 DEF HandlerDropped, Bundled, OneFetchPerKey, ListenersMatchFetches
  <1>6. CASE ProviderNext
    <2>1. ASSUME NEW k \in Keys, ProviderAnswersFetch(k) PROVE Bundled'
      <3>1. PICK f \in fetches, r \in {"ok", "err"} :
              fetches' = (fetches \ {f}) \cup {[f EXCEPT !.st = r]} /\ UNCHANGED listeners
        BY <2>1 DEF ProviderAnswersFetch
      <3> QED BY <3>1, BundledProgress DEF FutureState
    <2>2. ASSUME NEW c \in Clients, ProviderAnswersDirect(c) PROVE Bundled'
      BY <1>1, <2>2 DEF ProviderAnswersDirect
    <2> QED BY <1>6, <2>1, <2>2 DEF ProviderNext
  <1>7. CASE FlushOnDrop
    BY <1>1, <1>7 DEF FlushOnDrop, taskVars
  <1>8. CASE HandlerNext
    <2>1. CASE PollStart \/ DrainEnd \/ RecvOne \/ RecvClosed \/ RecvPending \/ PollEnd
      BY <1>1, <2>1 DEF PollStart, DrainEnd, RecvOne, RecvClosed, RecvPending, PollEnd
    <2>2. CASE PollDirect
      BY <1>1, <2>2 DEF PollDirect
    <2> QED BY <1>3, <1>4, <1>8, <2>1, <2>2 DEF HandlerNext
  <1>9. CASE UNCHANGED vars
    BY <1>1, <1>9 DEF vars, taskVars
  <1> QED BY <1>1, <1>2, <1>5, <1>6, <1>7, <1>8, <1>9 DEF Next

\* request_account, request_account_storage and request_hash never have two
\* provider requests in flight for one key.
THEOREM NoDuplicateFetch == Spec => []OneFetchPerKey
  <1>1. Bundled => OneFetchPerKey
    BY DEF Bundled
  <1> QED BY <1>1, TypeCorrect, BundledInit, BundledStep, PTL DEF Spec

\* Somebody listens to a key exactly while its provider request is in flight.
THEOREM ListenersTracked == Spec => []ListenersMatchFetches
  <1>1. Bundled => ListenersMatchFetches
    BY DEF Bundled
  <1> QED BY <1>1, TypeCorrect, BundledInit, BundledStep, PTL DEF Spec

-----------------------------------------------------------------------------
(* Fetched values                                                          *)

\* A request is in flight only for a key without a fetched value: requests start
\* at a miss, and a response goes to the only future of its key.
FetchesAreMisses == \A f \in fetches : db[f.key] \notin ChainVals

LEMMA MissesInit == Init => FetchesAreMisses
  BY DEF Init, FetchesAreMisses

\* The messages that write the cache write what a caller put in, or erase.
LEMMA WritesByCallers ==
    ASSUME TypeOK, DrainOne, NEW k \in Keys
    PROVE  db'[k] \in {db[k], Absent} \cup UserVals
  <1> DEFINE m == Head(queued)
  <1>1. m \in BackendRequest
    BY DEF DrainOne, TypeOK
  <1>2. CASE OnGet(m) \/ OnSetPinnedBlock(m)
    BY <1>2 DEF OnGet, OnSetPinnedBlock
  <1>3. CASE OnInsert(m)
    BY <1>1, <1>3, InsertMsgShape DEF OnInsert
  <1>4. CASE OnUpdateStorage(m)
    BY <1>1, <1>4, StorageMsgShape DEF OnUpdateStorage, StorageAfter
  <1> QED BY <1>2, <1>3, <1>4 DEF DrainOne, OnRequest

\* A drained message starts a request only at a miss.
LEMMA RequestsAtMisses ==
    ASSUME TypeOK, DrainOne, NEW f \in fetches' \ fetches
    PROVE  f.key \in Keys /\ db[f.key] = Absent /\ UNCHANGED db
  <1> DEFINE m == Head(queued)
  <1>1. m \in BackendRequest
    BY DEF DrainOne, TypeOK
  <1>2. OnGet(m)
    BY DEF DrainOne, OnRequest, OnSetPinnedBlock, OnInsert, OnUpdateStorage
  <1>3. m.key \in Keys \cup {Direct}
    BY <1>1, <1>2, GetMsgShape DEF OnGet
  <1>4. m.key \in Keys /\ db[m.key] = Absent /\ RequestKey(m.client, m.key) /\ UNCHANGED db
    BY <1>2, <1>3 DEF OnGet, RequestAccount, RequestAccountStorage, RequestHash
  <1>5. f = NewFetch(m.key)
    BY <1>4 DEF RequestKey
  <1> QED BY <1>4, <1>5 DEF NewFetch

\* Outside of on_request and poll, nothing touches the cache.
LEMMA CacheWriters ==
    ASSUME TypeOK, [Next]_vars, ~DrainOne, ~PollFetch
    PROVE  UNCHANGED db
  <1>1. ASSUME NEW c \in Clients, ClientNext(c) PROVE UNCHANGED db
    BY <1>1 DEF ClientNext, Get, GetUncached, DoAnyRequest, Post, SetPinnedBlock, InsertOrUpdate,
       InsertOrUpdateStorage, FlushCache, CloneHandle, DropHandle
  <1>2. HandlerNext => UNCHANGED db
    BY DEF HandlerNext, PollStart, DrainEnd, RecvOne, RecvClosed, RecvPending, PollEnd, PollDirect
  <1>3. ProviderNext => UNCHANGED db
    BY DEF ProviderNext, ProviderAnswersFetch, ProviderAnswersDirect
  <1> QED BY <1>1, <1>2, <1>3 DEF Next, FlushOnDrop, HandlerDropped, vars

LEMMA MissesStep == TypeOK /\ Bundled /\ FetchesAreMisses /\ [Next]_vars => FetchesAreMisses'
  <1> SUFFICES ASSUME TypeOK, Bundled, FetchesAreMisses, [Next]_vars, NEW f \in fetches'
               PROVE  db'[f.key] \notin ChainVals
    BY DEF FetchesAreMisses
  <1> USE ValsAssumption
  <1>1. CASE DrainOne
    <2>1. CASE f \in fetches
      <3>1. f.key \in Keys /\ db[f.key] \notin ChainVals
        BY <2>1 DEF TypeOK, Fetch, FetchesAreMisses
      <3> QED BY <1>1, <3>1, WritesByCallers DEF Vals
    <2>2. CASE f \notin fetches
      BY <1>1, <2>2, RequestsAtMisses DEF Vals
    <2> QED BY <2>1, <2>2
  <1>2. CASE PollFetch
    <2>1. PICK g \in fetches : PollCreated(g) \/ PollPending(g) \/ PollOk(g) \/ PollErr(g)
      BY <1>2 DEF PollFetch
    <2>2. g \in Fetch
      BY DEF TypeOK
    <2>3. CASE PollOk(g)
      <3>1. f \in fetches /\ f # g /\ f.key # g.key
        BY <2>1, <2>3 DEF PollOk, Bundled, OneFetchPerKey
      <3> QED BY <2>3, <3>1 DEF PollOk, FetchesAreMisses, TypeOK, Fetch
    <2>4. CASE PollCreated(g)
      BY <2>2, <2>4 DEF PollCreated, FetchesAreMisses, Fetch
    <2>5. CASE PollPending(g) \/ PollErr(g)
      BY <2>5 DEF PollPending, PollErr, FetchesAreMisses
    <2> QED BY <2>1, <2>3, <2>4, <2>5
  <1>3. CASE ~DrainOne /\ ~PollFetch
    <2>1. UNCHANGED db
      BY <1>3, CacheWriters
    <2>2. CASE f \in fetches
      BY <2>1, <2>2 DEF FetchesAreMisses
    <2>3. CASE f \notin fetches
      <3>1. ~ \E c \in Clients : ClientNext(c)
        BY <2>3 DEF ClientNext, Get, GetUncached, DoAnyRequest, Post, SetPinnedBlock,
           InsertOrUpdate, InsertOrUpdateStorage, FlushCache, CloneHandle, DropHandle, taskVars
      <3>2. ~HandlerNext
        BY <1>3, <2>3 DEF HandlerNext, PollStart, DrainEnd, RecvOne, RecvClosed, RecvPending,
           PollEnd, PollDirect
      <3>3. \E k \in Keys : ProviderAnswersFetch(k)
        BY <2>3, <3>1, <3>2 DEF Next, FlushOnDrop, HandlerDropped, ProviderNext,
           ProviderAnswersDirect, vars, taskVars
      <3>4. PICK g \in fetches, r \in {"ok", "err"} : fetches' = (fetches \ {g}) \cup {[g EXCEPT !.st = r]}
        BY <3>3 DEF ProviderAnswersFetch
      <3>5. g \in Fetch /\ f.key = g.key
        BY <2>3, <3>4 DEF TypeOK, Fetch
      <3> QED BY <2>1, <3>5 DEF FetchesAreMisses
    <2> QED BY <2>2, <2>3
  <1> QED BY <1>1, <1>2, <1>3

\* A fetched value is never replaced by another fetched value, of whatever block
\* the handler is pinned to meanwhile.
THEOREM RepeatedReadsAgree == Spec => FetchedValuesStable
  <1> DEFINE Kept == \A k \in Keys : db[k] \in ChainVals => db'[k] \in {db[k], Absent} \cup UserVals
  <1>1. TypeOK /\ FetchesAreMisses /\ [Next]_vars => [Kept]_vars
    <2> SUFFICES ASSUME TypeOK, FetchesAreMisses, [Next]_vars, NEW k \in Keys, db[k] \in ChainVals
                 PROVE  db'[k] \in {db[k], Absent} \cup UserVals
      OBVIOUS
    <2>1. CASE DrainOne
      BY <2>1, WritesByCallers
    <2>2. CASE PollFetch
      <3>1. PICK g \in fetches : PollCreated(g) \/ PollPending(g) \/ PollOk(g) \/ PollErr(g)
        BY <2>2 DEF PollFetch
      <3>2. g.key # k
        BY DEF FetchesAreMisses
      <3> QED BY <3>1, <3>2 DEF PollCreated, PollPending, PollOk, PollErr, TypeOK
    <2>3. CASE ~DrainOne /\ ~PollFetch
      BY <2>3, CacheWriters
    <2> QED BY <2>1, <2>2, <2>3
  <1> QED
    BY <1>1, TypeCorrect, BundledInit, BundledStep, MissesInit, MissesStep, PTL
    DEF Spec, FetchedValuesStable

-----------------------------------------------------------------------------
(* Wake-ups                                                                *)

\* A round of the loop ends in Pending only if it received nothing.
NothingKept == phase = "asleep" => queued = <<>>

\* From the moment the receiver returned Pending until the task is woken, its
\* waker is in the channel, nothing is in the channel, and a sender is left.
ReceiverArmed ==
    (phase \in {"poll", "asleep"} /\ ~woken) => channel = <<>> /\ handles # {} /\ rxArmed

\* Until the task is woken, a future is waiting for the provider unless this
\* pass has still to visit it.
Unvisited(x) == phase = "poll" /\ x \in toPoll
FuturesVisited ==
    (phase \in {"poll", "asleep"} /\ ~woken) =>
        /\ \A f \in fetches : f.st = "sent" \/ Unvisited(f.key)
        /\ \A c \in Clients : direct[c] \in {"none", "sent"} \/ Unvisited(c)

WakeInv == NothingKept /\ ReceiverArmed /\ FuturesVisited

LEMMA WakeInit == Init => WakeInv
  BY Zenon DEF Init, WakeInv, NothingKept, ReceiverArmed, FuturesVisited

LEMMA WakeSend ==
    ASSUME WakeInv, NEW m, UnboundedSend(m), UNCHANGED <<handles, taskVars>>
    PROVE  WakeInv'
  <1>1. NothingKept'
    BY DEF WakeInv, NothingKept, taskVars
  <1>2. ~(phase' \in {"poll", "asleep"} /\ ~woken')
    BY DEF WakeInv, ReceiverArmed, UnboundedSend, taskVars
  <1> QED BY <1>1, <1>2 DEF WakeInv, ReceiverArmed, FuturesVisited

\* What a step leaves alone it cannot disturb.
LEMMA WakeFrame ==
    ASSUME WakeInv, UNCHANGED <<channel, queued, fetches, direct, toPoll, phase>>,
           \/ handles' # {} /\ UNCHANGED wakeVars
           \/ woken' = (woken \/ rxArmed)
           \/ handles' = handles /\ UNCHANGED wakeVars
    PROVE  WakeInv'
  <1>1. NothingKept'
    BY DEF WakeInv, NothingKept
  <1>2. ReceiverArmed'
    BY DEF WakeInv, ReceiverArmed, wakeVars
  <1>3. CASE phase \in {"poll", "asleep"} /\ ~woken'
    <2>1. ~woken
      BY <1>3 DEF wakeVars
    <2> QED BY <1>1, <1>2, <1>3, <2>1 DEF WakeInv, FuturesVisited, Unvisited
  <1>4. CASE ~(phase \in {"poll", "asleep"} /\ ~woken')
    <2>1. FuturesVisited'
      BY <1>4 DEF FuturesVisited
    <2> QED BY <1>1, <1>2, <2>1 DEF WakeInv
  <1> QED BY <1>3, <1>4

LEMMA WakeClient == ASSUME WakeInv, NEW c \in Clients, ClientNext(c) PROVE WakeInv'
  <1>1. ASSUME NEW k \in Keys \cup {Direct}, Get(c, k) PROVE WakeInv'
    <2>1. CASE HandlerAlive
      BY <1>1, <2>1, WakeSend DEF Get
    <2>2. CASE ~HandlerAlive
      BY <1>1, <2>2, WakeFrame DEF Get, taskVars
    <2> QED BY <2>1, <2>2
  <1>2. ASSUME NEW m, Post(c, m) PROVE WakeInv'
    <2>1. CASE HandlerAlive
      BY <1>2, <2>1, WakeSend DEF Post, clientVars
    <2>2. CASE ~HandlerAlive
      BY <1>2, <2>2, WakeFrame DEF Post, clientVars, taskVars
    <2> QED BY <2>1, <2>2
  <1>3. CASE SetPinnedBlock(c) \/ InsertOrUpdate(c) \/ InsertOrUpdateStorage(c)
    BY <1>2, <1>3 DEF SetPinnedBlock, InsertOrUpdate, InsertOrUpdateStorage
  <1>4. CASE FlushCache(c)
    BY <1>4, WakeFrame DEF FlushCache, clientVars, taskVars
  <1>5. CASE CloneHandle(c)
    BY <1>5, WakeFrame DEF CloneHandle, taskVars
  <1>6. CASE DropHandle(c)
    BY <1>6, WakeFrame DEF DropHandle, taskVars, wakeVars
  <1> QED BY <1>1, <1>3, <1>4, <1>5, <1>6 DEF ClientNext, GetUncached, DoAnyRequest

LEMMA WakePollFetch == ASSUME TypeOK, Bundled, WakeInv, PollFetch PROVE WakeInv'
  <1>1. PICK f \in fetches :
          /\ phase = "poll" /\ f.key \in toPoll
          /\ PollCreated(f) \/ PollPending(f) \/ PollOk(f) \/ PollErr(f)
          /\ toPoll' = toPoll \ {f.key}
          /\ UNCHANGED <<diskVars, handles, channel, sends, phase, queued, direct, pin, wakeVars>>
    BY DEF PollFetch
  <1>2. f \in Fetch /\ f.key \in Keys
    BY DEF TypeOK, Fetch
  <1>3. NothingKept' /\ ReceiverArmed'
    BY <1>1 DEF WakeInv, NothingKept, ReceiverArmed, wakeVars
  <1>4. ASSUME NEW g \in fetches', ~woken' PROVE g.st = "sent" \/ (g.key \in toPoll')
    <2>1. CASE g \in fetches /\ g # f
      <3>1. g.key # f.key
        BY <2>1 DEF Bundled, OneFetchPerKey
      <3> QED BY <1>1, <1>4, <2>1, <3>1 DEF WakeInv, FuturesVisited, Unvisited, wakeVars
    <2>2. CASE ~(g \in fetches /\ g # f)
      BY <1>1, <1>2, <2>2 DEF PollCreated, PollPending, PollOk, PollErr, Fetch
    <2> QED BY <2>1, <2>2
  <1>5. ASSUME NEW c \in Clients, ~woken' PROVE direct[c] \in {"none", "sent"} \/ c \in toPoll'
    <2>1. c # f.key
      BY <1>2, KeysAssumption
    <2> QED BY <1>1, <1>5, <2>1 DEF WakeInv, FuturesVisited, Unvisited, wakeVars
  <1>6. FuturesVisited'
    BY <1>1, <1>4, <1>5 DEF FuturesVisited, Unvisited
  <1> QED BY <1>3, <1>6 DEF WakeInv

LEMMA WakePollDirect == ASSUME TypeOK, WakeInv, PollDirect PROVE WakeInv'
  <1>1. PICK c \in Clients \cap toPoll :
          /\ phase = "poll"
          /\ direct' \in {direct, [direct EXCEPT ![c] = "sent"], [direct EXCEPT ![c] = "none"]}
          /\ direct' = direct => direct[c] = "sent"
          /\ toPoll' = toPoll \ {c}
          /\ UNCHANGED <<handles, channel, phase, queued, fetches, wakeVars>>
    BY DEF PollDirect, TypeOK
  <1>2. NothingKept' /\ ReceiverArmed'
    BY <1>1 DEF WakeInv, NothingKept, ReceiverArmed, wakeVars
  <1>3. ASSUME NEW f \in fetches, ~woken' PROVE f.st = "sent" \/ f.key \in toPoll'
    <2>1. f.key # c
      BY KeysAssumption DEF TypeOK, Fetch
    <2> QED BY <1>1, <1>3, <2>1 DEF WakeInv, FuturesVisited, Unvisited, wakeVars
  <1>4. ASSUME NEW d \in Clients, ~woken' PROVE direct'[d] \in {"none", "sent"} \/ d \in toPoll'
    <2>1. CASE d = c
      BY <1>1, <2>1 DEF TypeOK
    <2>2. CASE d # c
      BY <1>1, <1>4, <2>2 DEF WakeInv, FuturesVisited, Unvisited, wakeVars, TypeOK
    <2> QED BY <2>1, <2>2
  <1>5. FuturesVisited'
    BY <1>1, <1>3, <1>4 DEF FuturesVisited, Unvisited
  <1> QED BY <1>2, <1>5 DEF WakeInv

\* The pass starts with every future there is still to visit.
LEMMA WakeRecvPending == ASSUME RecvPending PROVE WakeInv'
  BY DEF RecvPending, InFlight, WakeInv, NothingKept, ReceiverArmed, FuturesVisited, Unvisited,
     clientVars

LEMMA WakeStep == TypeOK /\ Bundled /\ WakeInv /\ [Next]_vars => WakeInv'
  <1> SUFFICES ASSUME TypeOK, Bundled, WakeInv, [Next]_vars PROVE WakeInv'
    OBVIOUS
  <1>1. ASSUME NEW c \in Clients, ClientNext(c) PROVE WakeInv'
    BY <1>1, WakeClient
  <1>2. CASE FlushOnDrop
    BY <1>2, WakeFrame DEF FlushOnDrop, clientVars, taskVars
  <1>3. CASE HandlerNext
    <2>1. CASE PollStart \/ DrainOne \/ DrainEnd \/ RecvOne \/ RecvClosed
      <3>1. phase' \notin {"poll", "asleep"}
        BY <2>1 DEF PollStart, DrainOne, DrainEnd, RecvOne, RecvClosed
      <3> QED BY <3>1 DEF WakeInv, NothingKept, ReceiverArmed, FuturesVisited
    <2>2. CASE PollEnd
      BY <2>2 DEF PollEnd, WakeInv, NothingKept, ReceiverArmed, FuturesVisited, Unvisited,
         clientVars, wakeVars
    <2> QED BY <1>3, <2>1, <2>2, WakeRecvPending, WakePollFetch, WakePollDirect DEF HandlerNext
  <1>4. CASE HandlerDropped
    BY <1>4 DEF HandlerDropped, WakeInv, NothingKept, ReceiverArmed, FuturesVisited
  <1>5. CASE ProviderNext
    <2>1. woken' = TRUE /\ UNCHANGED <<phase, queued>>
      BY <1>5 DEF ProviderNext, ProviderAnswersFetch, ProviderAnswersDirect
    <2> QED BY <2>1 DEF WakeInv, NothingKept, ReceiverArmed, FuturesVisited
  <1>6. CASE UNCHANGED vars
    BY <1>6, WakeFrame DEF vars, clientVars, taskVars
  <1> QED BY <1>1, <1>2, <1>3, <1>4, <1>5, <1>6 DEF Next

\* The handler never suspends with work it will not be woken for.
THEOREM WakeupsNotLost == Spec => []NoLostWakeup
  <1>1. WakeInv => NoLostWakeup
    BY DEF WakeInv, NothingKept, ReceiverArmed, FuturesVisited, Unvisited, NoLostWakeup
  <1> QED BY <1>1, TypeCorrect, BundledInit, BundledStep, WakeInit, WakeStep, PTL DEF Spec

-----------------------------------------------------------------------------
(* The mailbox                                                             *)

\* The requests the handler has still to look at, oldest first.
Mail == queued \o channel

LEMMA MailTyped == ASSUME TypeOK PROVE Mail \in Seq(BackendRequest)
  BY ConcatProperties DEF Mail, TypeOK

LEMMA MailSent ==
    ASSUME TypeOK, NEW m \in BackendRequest, channel' = Append(channel, m), UNCHANGED queued
    PROVE  Mail' = Append(Mail, m)
  <1> DEFINE S == BackendRequest
  <1>1. queued \in Seq(S) /\ channel \in Seq(S) /\ Mail \in Seq(S)
    BY MailTyped DEF TypeOK
  <1>2. <<m>> \in Seq(S) /\ channel' = channel \o <<m>> /\ Append(Mail, m) = Mail \o <<m>>
    BY <1>1, AppendProperties
  <1>3. Mail' = queued \o (channel \o <<m>>)
    BY <1>2 DEF Mail
  <1>4. queued \o (channel \o <<m>>) = (queued \o channel) \o <<m>>
    BY <1>1, <1>2, ConcatAssociative
  <1> QED BY <1>2, <1>3, <1>4 DEF Mail

LEMMA MailReceived == ASSUME TypeOK, RecvOne PROVE Mail' = Mail
  <1> DEFINE S == BackendRequest
  <1>1. /\ queued \in Seq(S) /\ channel \in Seq(S) /\ channel # <<>>
        /\ channel' = Tail(channel) /\ queued' = Append(queued, Head(channel))
    BY DEF TypeOK, RecvOne
  <1>2. <<Head(channel)>> \in Seq(S) /\ channel = <<Head(channel)>> \o Tail(channel)
        /\ queued' = queued \o <<Head(channel)>> /\ Tail(channel) \in Seq(S)
    BY <1>1, HeadTailProperties, AppendProperties
  <1>3. Mail' = (queued \o <<Head(channel)>>) \o Tail(channel)
    BY <1>1, <1>2 DEF Mail
  <1>4. Mail' = queued \o (<<Head(channel)>> \o Tail(channel))
    BY <1>1, <1>2, <1>3, ConcatAssociative
  <1> QED BY <1>2, <1>4 DEF Mail

LEMMA MailDrained ==
    ASSUME TypeOK, DrainOne
    PROVE  /\ Mail' \in Seq(BackendRequest)
           /\ Len(Mail) = Len(Mail') + 1
           /\ Mail[1] = Head(queued)
           /\ \A i \in 1..Len(Mail') : Mail'[i] = Mail[i + 1]
  <1> DEFINE S == BackendRequest
             h == <<Head(queued)>>
  <1>1. /\ queued \in Seq(S) /\ channel \in Seq(S) /\ queued # <<>>
        /\ channel' = channel /\ queued' = Tail(queued)
    BY DEF TypeOK, DrainOne
  <1>2. h \in Seq(S) /\ queued' \in Seq(S) /\ queued = h \o queued'
    BY <1>1, HeadTailProperties
  <1>3. Mail = h \o Mail'
    BY <1>1, <1>2, ConcatAssociative DEF Mail
  <1>4. Mail' \in Seq(S)
    BY <1>1, <1>2, ConcatProperties DEF Mail
  <1>5. Len(h) = 1 /\ h[1] = Head(queued) /\ Len(Mail') \in Nat
    BY <1>4
  <1>6. /\ Len(Mail) = 1 + Len(Mail')
        /\ \A i \in 1..1 + Len(Mail') : Mail[i] = IF i <= 1 THEN h[i] ELSE Mail'[i - 1]
    BY <1>2, <1>3, <1>4, <1>5, ConcatProperties
  <1>7. ASSUME NEW i \in 1..Len(Mail') PROVE Mail'[i] = Mail[i + 1]
    BY <1>5, <1>6
  <1> QED BY <1>4, <1>5, <1>6, <1>7

-----------------------------------------------------------------------------
(* Where a blocked call is held                                            *)

IsCall(i, c) == i \in 1..Len(Mail) /\ Mail[i].t = "get" /\ Mail[i].client = c

\* Whatever holds a reply channel holds the one its client is blocked on.
CallsTracked ==
    /\ \A i \in 1..Len(Mail) : Mail[i].t = "get" => waiting[Mail[i].client] = Mail[i].key
    /\ \A k \in Keys : \A c \in listeners[k] : waiting[c] = k
    /\ \A c \in Clients : direct[c] # "none" => waiting[c] = Direct

\* A client has one request in the mailbox at most, and then it is nowhere else.
CallsApart ==
    /\ \A c \in Clients, i, j \in 1..Len(Mail) : IsCall(i, c) /\ IsCall(j, c) => i = j
    /\ \A c \in Clients, i \in 1..Len(Mail) : IsCall(i, c) =>
          direct[c] = "none" /\ \A k \in Keys : c \notin listeners[k]

\* A blocked client's reply channel is somewhere.
CallsHeld ==
    \A c \in Clients : waiting[c] # NoReq =>
        \/ \E i \in 1..Len(Mail) : IsCall(i, c)
        \/ \E k \in Keys : c \in listeners[k]
        \/ direct[c] # "none"

CallsInv == CallsTracked /\ CallsApart /\ CallsHeld

LEMMA CallsInit == Init => CallsInv
  <1> SUFFICES ASSUME Init PROVE CallsInv
    OBVIOUS
  <1>1. Mail = <<>> /\ Len(Mail) = 0
    BY DEF Init, Mail
  <1>2. 1..Len(Mail) = {}
    BY <1>1
  <1> QED BY <1>2 DEF Init, CallsInv, CallsTracked, CallsApart, CallsHeld

\* Steps that move no call: the mailbox, the listeners and the uncached futures
\* hold what they held.
LEMMA CallsFrame ==
    ASSUME CallsInv, Mail' = Mail, UNCHANGED <<waiting, listeners>>,
           \A c \in Clients : direct'[c] # "none" <=> direct[c] # "none"
    PROVE  CallsInv'
  <1>1. CallsTracked'
    BY DEF CallsInv, CallsTracked
  <1>2. CallsApart'
    BY DEF CallsInv, CallsApart, IsCall
  <1>3. CallsHeld'
    BY DEF CallsInv, CallsHeld, IsCall
  <1> QED BY <1>1, <1>2, <1>3 DEF CallsInv

\* A client that is not blocked is held nowhere.
LEMMA IdleNowhere ==
    ASSUME TypeOK, CallsTracked, NEW c \in Clients, waiting[c] = NoReq
    PROVE  /\ \A i \in 1..Len(Mail) : ~IsCall(i, c)
           /\ \A k \in Keys : c \notin listeners[k]
           /\ direct[c] = "none"
  <1>1. ASSUME NEW i \in 1..Len(Mail), IsCall(i, c) PROVE FALSE
    <2>1. Mail[i] \in BackendRequest
      BY MailTyped, ElementOfSeq
    <2>2. Mail[i].key \in Keys \cup {Direct}
      BY <1>1, <2>1, GetMsgShape DEF IsCall
    <2> QED BY <1>1, <2>2, KeysAssumption DEF IsCall, CallsTracked
  <1> QED BY <1>1, KeysAssumption DEF CallsTracked

LEMMA CallsSend ==
    ASSUME TypeOK, CallsInv, NEW m \in BackendRequest, channel' = Append(channel, m),
           m.t # "get", UNCHANGED <<waiting, queued, listeners, direct>>
    PROVE  CallsInv'
  <1>1. Mail' = Append(Mail, m) /\ Mail \in Seq(BackendRequest)
    BY MailSent, MailTyped
  <1>2. /\ Len(Mail) \in Nat /\ Len(Mail') = Len(Mail) + 1
        /\ \A i \in 1..Len(Mail) : Mail'[i] = Mail[i]
        /\ Mail'[Len(Mail) + 1] = m
    BY <1>1, AppendProperties
  <1>3. \A i \in 1..Len(Mail') : Mail'[i].t = "get" => i \in 1..Len(Mail)
    BY <1>2
  <1>4. CallsTracked'
    BY <1>2, <1>3 DEF CallsInv, CallsTracked
  <1>5. \A c : \A i \in 1..Len(Mail') : IsCall(i, c)' <=> IsCall(i, c)
    BY <1>2, <1>3 DEF IsCall
  <1>6. CallsApart'
    <2>1. ASSUME NEW c \in Clients, NEW i \in 1..Len(Mail'), IsCall(i, c)'
          PROVE  i \in 1..Len(Mail) /\ IsCall(i, c)
      BY <1>3, <1>5, <2>1 DEF IsCall
    <2>2. \A c \in Clients, i, j \in 1..Len(Mail') : IsCall(i, c)' /\ IsCall(j, c)' => i = j
      BY <2>1 DEF CallsInv, CallsApart
    <2>3. \A c \in Clients, i \in 1..Len(Mail') : IsCall(i, c)' =>
            direct'[c] = "none" /\ \A k \in Keys : c \notin listeners'[k]
      BY <2>1 DEF CallsInv, CallsApart
    <2> QED BY <2>2, <2>3 DEF CallsApart
  <1>7. CallsHeld'
    BY <1>2, <1>5 DEF CallsInv, CallsHeld, IsCall
  <1> QED BY <1>4, <1>6, <1>7 DEF CallsInv

LEMMA CallsGet ==
    ASSUME TypeOK, CallsInv, NEW c \in Clients, NEW k \in Keys \cup {Direct}, Get(c, k)
    PROVE  CallsInv'
  <1>1. CASE HandlerAlive
    <2> DEFINE m == [t |-> "get", client |-> c, key |-> k]
    <2>1. m \in BackendRequest
      BY MessageTypes DEF GetMsg
    <2>2. /\ channel' = Append(channel, m) /\ waiting[c] = NoReq
          /\ waiting' = [waiting EXCEPT ![c] = k]
          /\ UNCHANGED <<queued, listeners, direct>>
      BY <1>1 DEF Get, Idle, UnboundedSend, taskVars
    <2>3. Mail' = Append(Mail, m) /\ Mail \in Seq(BackendRequest)
      BY <2>1, <2>2, MailSent, MailTyped
    <2>4. /\ Len(Mail) \in Nat /\ Len(Mail') = Len(Mail) + 1
          /\ \A i \in 1..Len(Mail) : Mail'[i] = Mail[i]
          /\ Mail'[Len(Mail) + 1] = m
      BY <2>1, <2>3, AppendProperties
    <2>5. /\ \A i \in 1..Len(Mail) : ~IsCall(i, c)
          /\ \A l \in Keys : c \notin listeners[l]
          /\ direct[c] = "none"
      BY <2>2, IdleNowhere DEF CallsInv
    <2>6. \A d \in Clients, i \in 1..Len(Mail') :
             IsCall(i, d)' <=> IsCall(i, d) \/ (d = c /\ i = Len(Mail) + 1)
      BY <2>4 DEF IsCall
    <2>7. \A d \in Clients : d # c => waiting'[d] = waiting[d]
      BY <2>2 DEF TypeOK
    <2>8. waiting'[c] = k
      BY <2>2 DEF TypeOK
    <2>9. ASSUME NEW i \in 1..Len(Mail'), Mail'[i].t = "get"
          PROVE  waiting'[Mail'[i].client] = Mail'[i].key
      <3>1. CASE i = Len(Mail) + 1
        BY <2>4, <2>8, <3>1
      <3>2. CASE i \in 1..Len(Mail)
        <4>1. Mail[i].client \in Clients /\ IsCall(i, Mail[i].client)
          <5>1. Mail[i] \in BackendRequest
            BY <2>3, <3>2, ElementOfSeq
          <5> QED BY <2>4, <2>9, <3>2, <5>1, GetMsgShape DEF IsCall
        <4>2. Mail[i].client # c
          BY <2>5, <3>2, <4>1
        <4> QED BY <2>4, <2>7, <2>9, <3>2, <4>1, <4>2 DEF CallsInv, CallsTracked
      <3> QED BY <2>4, <3>1, <3>2
    <2>10. CallsTracked'
      BY <2>2, <2>5, <2>7, <2>9 DEF CallsInv, CallsTracked, TypeOK
    <2>11. CallsApart'
      BY <2>2, <2>4, <2>5, <2>6 DEF CallsInv, CallsApart, IsCall
    <2>12. CallsHeld'
      <3>1. CallsHeld /\ Len(Mail) + 1 \in 1..Len(Mail')
        BY <2>4 DEF CallsInv
      <3>2. \E i \in 1..Len(Mail') : IsCall(i, c)'
        BY <2>6, <3>1
      <3>3. \A d \in Clients, i \in 1..Len(Mail) : IsCall(i, d) => i \in 1..Len(Mail') /\ IsCall(i, d)'
        BY <2>4, <2>6
      <3> QED BY <2>2, <2>7, <3>1, <3>2, <3>3 DEF CallsHeld
    <2> QED BY <2>10, <2>11, <2>12 DEF CallsInv
  <1>2. CASE ~HandlerAlive
    BY <1>2, CallsFrame DEF Get, taskVars, Mail
  <1> QED BY <1>1, <1>2

\* A message drained from the mailbox leaves the others where they were.
LEMMA DrainShifts ==
    ASSUME TypeOK, DrainOne
    PROVE  /\ \A i \in 1..Len(Mail') : i + 1 \in 1..Len(Mail) /\ Mail'[i] = Mail[i + 1]
           /\ \A i \in 1..Len(Mail) : i # 1 => i - 1 \in 1..Len(Mail') /\ Mail'[i - 1] = Mail[i]
           /\ 1 \in 1..Len(Mail) /\ Mail[1] = Head(queued) /\ Len(Mail') \in Nat
  <1>1. /\ Len(Mail') \in Nat /\ Len(Mail) = Len(Mail') + 1
        /\ Mail[1] = Head(queued)
        /\ \A i \in 1..Len(Mail') : Mail'[i] = Mail[i + 1]
    BY MailDrained, LenProperties
  <1>2. \A i \in 1..Len(Mail') : i + 1 \in 1..Len(Mail)
    BY <1>1
  <1>3. ASSUME NEW i \in 1..Len(Mail), i # 1
        PROVE  i - 1 \in 1..Len(Mail') /\ Mail'[i - 1] = Mail[i]
    <2>1. i - 1 \in 1..Len(Mail') /\ (i - 1) + 1 = i
      BY <1>1, <1>3
    <2> QED BY <1>1, <2>1
  <1>4. 1 \in 1..Len(Mail)
    BY <1>1
  <1> QED BY <1>1, <1>2, <1>3, <1>4

\* Draining a message that is no call.
LEMMA CallsDrainOther ==
    ASSUME TypeOK, CallsInv, DrainOne, Head(queued).t # "get",
           UNCHANGED <<waiting, listeners, direct>>
    PROVE  CallsInv'
  <1>1. CallsTracked'
    BY DrainShifts DEF CallsInv, CallsTracked
  <1>2. ASSUME NEW c \in Clients, NEW i \in 1..Len(Mail'), NEW j \in 1..Len(Mail'),
               IsCall(i, c)', IsCall(j, c)'
        PROVE  i = j
    <2>1. IsCall(i + 1, c) /\ IsCall(j + 1, c)
      BY <1>2, DrainShifts DEF IsCall
    <2>2. i + 1 = j + 1
      BY <2>1 DEF CallsInv, CallsApart, IsCall
    <2> QED BY <2>2, DrainShifts
  <1>3. ASSUME NEW c \in Clients, NEW i \in 1..Len(Mail'), IsCall(i, c)'
        PROVE  direct'[c] = "none" /\ \A k \in Keys : c \notin listeners'[k]
    <2>1. IsCall(i + 1, c)
      BY <1>3, DrainShifts DEF IsCall
    <2> QED BY <2>1 DEF CallsInv, CallsApart, IsCall
  <1>4. CallsApart'
    BY <1>2, <1>3 DEF CallsApart
  <1>5. ASSUME NEW c \in Clients, NEW i \in 1..Len(Mail), IsCall(i, c)
        PROVE  i - 1 \in 1..Len(Mail') /\ IsCall(i - 1, c)'
    BY <1>5, DrainShifts DEF IsCall
  <1>6. CallsHeld'
    BY <1>5 DEF CallsInv, CallsHeld
  <1> QED BY <1>1, <1>4, <1>6 DEF CallsInv

\* Draining a call: its client is then in exactly one other place, or answered.
LEMMA CallsDrainGet ==
    ASSUME TypeOK, CallsInv, DrainOne, NEW c \in Clients, NEW key \in Keys \cup {Direct},
           Head(queued).t = "get", Head(queued).client = c, Head(queued).key = key,
           \/ /\ waiting' = [waiting EXCEPT ![c] = NoReq]
              /\ UNCHANGED <<listeners, direct>>
           \/ /\ key \in Keys
              /\ listeners' = [listeners EXCEPT ![key] = @ \cup {c}]
              /\ UNCHANGED <<waiting, direct>>
           \/ /\ key = Direct
              /\ direct' = [direct EXCEPT ![c] = "created"]
              /\ UNCHANGED <<waiting, listeners>>
    PROVE  CallsInv'
  <1>1. IsCall(1, c) /\ waiting[c] = key /\ direct[c] = "none" /\ \A k \in Keys : c \notin listeners[k]
    BY DrainShifts DEF IsCall, CallsInv, CallsTracked, CallsApart
  <1>2. ASSUME NEW d \in Clients, NEW i \in 1..Len(Mail'), IsCall(i, d)'
        PROVE  IsCall(i + 1, d) /\ i + 1 \in 1..Len(Mail) /\ d # c
    <2>1. IsCall(i + 1, d) /\ i + 1 \in 1..Len(Mail)
      BY <1>2, DrainShifts DEF IsCall
    <2>2. i + 1 # 1
      BY DrainShifts
    <2> QED BY <1>1, <2>1, <2>2, DrainShifts DEF CallsInv, CallsApart
  <1>3. /\ \A d \in Clients : d # c => waiting'[d] = waiting[d] /\ direct'[d] = direct[d]
        /\ \A d \in Clients, k \in Keys : d # c => (d \in listeners'[k] <=> d \in listeners[k])
    BY DEF TypeOK
  <1>4. CallsTracked'
    <2>0. ASSUME NEW i \in 1..Len(Mail'), NEW d \in Clients, IsCall(i, d)'
          PROVE  waiting'[d] = Mail'[i].key
      BY <1>2, <1>3, <2>0, DrainShifts DEF IsCall, CallsInv, CallsTracked
    <2>1. ASSUME NEW i \in 1..Len(Mail'), Mail'[i].t = "get"
          PROVE  waiting'[Mail'[i].client] = Mail'[i].key
      <3>1. Mail'[i] \in BackendRequest
        BY MailDrained, ElementOfSeq
      <3>2. Mail'[i].client \in Clients
        BY <2>1, <3>1, GetMsgShape
      <3> QED BY <2>0, <2>1, <3>2 DEF IsCall
    <2>2. ASSUME NEW k \in Keys, NEW d \in listeners'[k] PROVE waiting'[d] = k
      <3>1. CASE d = c
        <4>1. k = key /\ UNCHANGED waiting
          BY <1>1, <2>2, <3>1 DEF TypeOK
        <4> QED BY <1>1, <3>1, <4>1
      <3>2. CASE d # c
        <4>1. listeners' \in [Keys -> SUBSET Clients]
          BY DEF TypeOK
        <4>2. d \in Clients /\ d \in listeners[k]
          BY <1>3, <2>2, <3>2, <4>1
        <4> QED BY <1>3, <3>2, <4>2 DEF CallsInv, CallsTracked
      <3> QED BY <3>1, <3>2
    <2>3. ASSUME NEW d \in Clients, direct'[d] # "none" PROVE waiting'[d] = Direct
      <3>1. CASE d = c
        <4>1. key = Direct /\ UNCHANGED waiting
          BY <1>1, <2>3, <3>1
        <4> QED BY <1>1, <3>1, <4>1
      <3>2. CASE d # c
        BY <1>3, <2>3, <3>2 DEF CallsInv, CallsTracked
      <3> QED BY <3>1, <3>2
    <2> QED BY <2>1, <2>2, <2>3 DEF CallsTracked
  <1>5. CallsApart'
    <2>1. ASSUME NEW d \in Clients, NEW i \in 1..Len(Mail'), NEW j \in 1..Len(Mail'),
                 IsCall(i, d)', IsCall(j, d)'
          PROVE  i = j
      <3>1. i + 1 = j + 1
        BY <1>2, <2>1 DEF CallsInv, CallsApart
      <3> QED BY <3>1, DrainShifts
    <2>2. ASSUME NEW d \in Clients, NEW i \in 1..Len(Mail'), IsCall(i, d)'
          PROVE  direct'[d] = "none" /\ \A k \in Keys : d \notin listeners'[k]
      BY <1>2, <1>3, <2>2 DEF CallsInv, CallsApart
    <2> QED BY <2>1, <2>2 DEF CallsApart
  <1>6. CallsHeld'
    <2>1. ASSUME NEW d \in Clients, waiting'[d] # NoReq, d # c
          PROVE  \/ \E i \in 1..Len(Mail') : IsCall(i, d)'
                 \/ \E k \in Keys : d \in listeners'[k]
                 \/ direct'[d] # "none"
      <3>1. ASSUME NEW i \in 1..Len(Mail), IsCall(i, d)
            PROVE  i - 1 \in 1..Len(Mail') /\ IsCall(i - 1, d)'
        <4>1. i # 1
          BY <2>1, <3>1, DrainShifts DEF IsCall
        <4> QED BY <3>1, <4>1, DrainShifts DEF IsCall
      <3> QED BY <1>3, <2>1, <3>1 DEF CallsInv, CallsHeld
    <2>2. waiting'[c] # NoReq => (\E k \in Keys : c \in listeners'[k]) \/ direct'[c] # "none"
      BY DEF TypeOK
    <2> QED BY <2>1, <2>2 DEF CallsHeld
  <1> QED BY <1>4, <1>5, <1>6 DEF CallsInv

LEMMA CallsDrain == ASSUME TypeOK, CallsInv, DrainOne PROVE CallsInv'
  <1> DEFINE m == Head(queued)
  <1>1. m \in BackendRequest
    BY DEF DrainOne, TypeOK
  <1>2. CASE OnGet(m)
    <2>1. m.client \in Clients /\ m.key \in Keys \cup {Direct} /\ m.t = "get"
      BY <1>1, <1>2, GetMsgShape DEF OnGet
    <2>2. CASE m.key = Direct
      BY <1>2, <2>1, <2>2, CallsDrainGet DEF OnGet
    <2>3. CASE m.key # Direct /\ db[m.key] # Absent
      <3>1. waiting' = [waiting EXCEPT ![m.client] = NoReq]
        BY <1>2, <2>1, <2>3 DEF OnGet, Reply, TypeOK
      <3> QED BY <1>2, <2>1, <2>3, <3>1, CallsDrainGet DEF OnGet
    <2>4. CASE m.key # Direct /\ db[m.key] = Absent
      <3>1. RequestKey(m.client, m.key) /\ UNCHANGED <<waiting, direct>>
        BY <1>2, <2>4 DEF OnGet, RequestAccount, RequestAccountStorage, RequestHash
      <3> QED BY <2>1, <2>4, <3>1, CallsDrainGet DEF RequestKey
    <2> QED BY <2>2, <2>3, <2>4
  <1>3. CASE OnSetPinnedBlock(m) \/ OnInsert(m) \/ OnUpdateStorage(m)
    BY <1>3, CallsDrainOther DEF OnSetPinnedBlock, OnInsert, OnUpdateStorage
  <1> QED BY <1>2, <1>3 DEF DrainOne, OnRequest

\* Answering a set of clients, all held in one place, and forgetting the place.
LEMMA CallsAnswered ==
    ASSUME TypeOK, CallsInv, NEW S \in SUBSET Clients, NEW a, Reply(S, a), Mail' = Mail,
           \A c \in S : waiting[c] # NoReq /\ \A i \in 1..Len(Mail) : ~IsCall(i, c),
           \A c \in Clients : direct'[c] = IF c \in S THEN "none" ELSE direct[c],
           \A k \in Keys : listeners'[k] = listeners[k] \ S
    PROVE  CallsInv'
  <1>1. \A c \in Clients : waiting'[c] = IF c \in S THEN NoReq ELSE waiting[c]
    BY DEF Reply
  <1>2. \A i \in 1..Len(Mail) : Mail[i].t = "get" => Mail[i].client \in Clients \ S
    <2> SUFFICES ASSUME NEW i \in 1..Len(Mail), Mail[i].t = "get"
                 PROVE  Mail[i].client \in Clients \ S
      OBVIOUS
    <2>1. Mail[i].client \in Clients
      BY MailTyped, ElementOfSeq, GetMsgShape
    <2>2. IsCall(i, Mail[i].client)
      BY DEF IsCall
    <2> QED BY <2>1, <2>2
  <1>3. CallsTracked'
    BY <1>1, <1>2 DEF CallsInv, CallsTracked, TypeOK
  <1>4. CallsApart'
    BY DEF CallsInv, CallsApart, IsCall
  <1>5. CallsHeld'
    BY <1>1 DEF CallsInv, CallsHeld, IsCall
  <1> QED BY <1>3, <1>4, <1>5 DEF CallsInv

LEMMA CallsClient == ASSUME TypeOK, CallsInv, NEW c \in Clients, ClientNext(c) PROVE CallsInv'
  <1>1. CASE (\E k \in Keys : Get(c, k)) \/ GetUncached(c) \/ DoAnyRequest(c)
    BY <1>1, CallsGet DEF GetUncached, DoAnyRequest
  <1>2. ASSUME NEW m \in BackendRequest, m.t # "get", Post(c, m) PROVE CallsInv'
    <2>1. CASE HandlerAlive
      BY <1>2, <2>1, CallsSend DEF Post, UnboundedSend, clientVars, taskVars
    <2>2. CASE ~HandlerAlive
      BY <1>2, <2>2, CallsFrame DEF Post, clientVars, taskVars, Mail
    <2> QED BY <2>1, <2>2
  <1>3. CASE SetPinnedBlock(c) \/ InsertOrUpdate(c) \/ InsertOrUpdateStorage(c)
    <2>1. PICK m \in PinMsg \cup InsertMsg \cup StorageMsg : Post(c, m)
      BY <1>3 DEF SetPinnedBlock, InsertOrUpdate, InsertOrUpdateStorage
    <2>2. m \in BackendRequest /\ m.t # "get"
      BY <2>1, MessageTypes DEF PinMsg, InsertMsg, StorageMsg
    <2> QED BY <1>2, <2>1, <2>2
  <1>4. CASE FlushCache(c) \/ CloneHandle(c) \/ DropHandle(c)
    BY <1>4, CallsFrame DEF FlushCache, CloneHandle, DropHandle, clientVars, taskVars, Mail
  <1> QED BY <1>1, <1>3, <1>4 DEF ClientNext

LEMMA CallsPollFetch == ASSUME TypeOK, CallsInv, PollFetch PROVE CallsInv'
  <1>1. PICK f \in fetches :
          /\ PollCreated(f) \/ PollPending(f) \/ PollOk(f) \/ PollErr(f)
          /\ UNCHANGED <<channel, queued, direct>>
    BY DEF PollFetch
  <1>2. Mail' = Mail
    BY <1>1 DEF Mail
  <1>3. CASE PollCreated(f) \/ PollPending(f)
    BY <1>1, <1>2, <1>3, CallsFrame DEF PollCreated, PollPending
  <1>4. CASE PollOk(f) \/ PollErr(f)
    <2> DEFINE S == listeners[f.key]
    <2>1. f.key \in Keys /\ S \in SUBSET Clients
      BY DEF TypeOK, Fetch
    <2>2. PICK a : Reply(S, a)
      BY <1>4 DEF PollOk, PollErr
    <2>3. \A c \in S : waiting[c] = f.key
      BY <2>1 DEF CallsInv, CallsTracked
    <2>4. \A c \in S : waiting[c] # NoReq /\ direct[c] = "none"
      BY <2>1, <2>3, KeysAssumption DEF CallsInv, CallsTracked
    <2>5. \A c \in S : \A i \in 1..Len(Mail) : ~IsCall(i, c)
      BY <2>1 DEF CallsInv, CallsApart
    <2>6. \A k \in Keys : listeners'[k] = listeners[k] \ S
      <3> SUFFICES ASSUME NEW k \in Keys PROVE listeners'[k] = listeners[k] \ S
        OBVIOUS
      <3>1. CASE k = f.key
        BY <1>4, <2>1, <3>1 DEF PollOk, PollErr, TypeOK
      <3>2. CASE k # f.key
        <4>1. listeners[k] \cap S = {}
          BY <2>3, <3>2 DEF CallsInv, CallsTracked
        <4> QED BY <1>4, <2>1, <3>2, <4>1 DEF PollOk, PollErr, TypeOK
      <3> QED BY <3>1, <3>2
    <2> QED BY <1>1, <1>2, <2>1, <2>2, <2>4, <2>5, <2>6, CallsAnswered
  <1> QED BY <1>1, <1>3, <1>4

LEMMA CallsPollDirect == ASSUME TypeOK, CallsInv, PollDirect PROVE CallsInv'
  <1>1. PICK c \in Clients \cap toPoll :
          /\ \/ /\ direct[c] = "created"
                /\ direct' = [direct EXCEPT ![c] = "sent"]
                /\ UNCHANGED <<answer, waiting>>
             \/ /\ direct[c] = "sent"
                /\ UNCHANGED <<direct, answer, waiting>>
             \/ /\ direct[c] \in {"ok", "err"}
                /\ direct' = [direct EXCEPT ![c] = "none"]
                /\ Reply({c}, Failed(IF direct[c] = "ok" THEN "direct" ELSE "provider"))
          /\ UNCHANGED <<channel, queued, listeners>>
    BY DEF PollDirect
  <1>2. Mail' = Mail
    BY <1>1 DEF Mail
  <1>3. CASE UNCHANGED waiting /\ direct[c] # "none" /\ direct' \in {direct, [direct EXCEPT ![c] = "sent"]}
    BY <1>1, <1>2, <1>3, CallsFrame DEF TypeOK
  <1>4. CASE direct[c] # "none" /\ direct' = [direct EXCEPT ![c] = "none"]
             /\ Reply({c}, Failed(IF direct[c] = "ok" THEN "direct" ELSE "provider"))
    <2>1. waiting[c] = Direct
      BY <1>4 DEF CallsInv, CallsTracked
    <2>2. waiting[c] # NoReq /\ \A k \in Keys : c \notin listeners[k]
      BY <2>1, KeysAssumption DEF CallsInv, CallsTracked
    <2>3. \A i \in 1..Len(Mail) : ~IsCall(i, c)
      BY <1>4 DEF CallsInv, CallsApart
    <2>4. \A d \in Clients : direct'[d] = IF d \in {c} THEN "none" ELSE direct[d]
      BY <1>4 DEF TypeOK
    <2>5. \A k \in Keys : listeners'[k] = listeners[k] \ {c}
      BY <1>1, <2>2
    <2> QED BY <1>2, <1>4, <2>2, <2>3, <2>4, <2>5, CallsAnswered
  <1> QED BY <1>1, <1>3, <1>4

LEMMA CallsDropped == ASSUME HandlerDropped PROVE CallsInv'
  <1>1. channel' = <<>> /\ queued' = <<>>
    BY DEF HandlerDropped
  <1>2. Mail' = <<>> \o <<>>
    BY <1>1 DEF Mail
  <1>3. Mail' = <<>> /\ 1..Len(Mail') = {}
    BY <1>2
  <1> QED BY <1>3 DEF HandlerDropped, Reply, CallsInv, CallsTracked, CallsApart, CallsHeld

LEMMA CallsStep == TypeOK /\ CallsInv /\ [Next]_vars => CallsInv'
  <1> SUFFICES ASSUME TypeOK, CallsInv, [Next]_vars PROVE CallsInv'
    OBVIOUS
  <1>1. ASSUME NEW c \in Clients, ClientNext(c) PROVE CallsInv'
    BY <1>1, CallsClient
  <1>2. CASE FlushOnDrop
    BY <1>2, CallsFrame DEF FlushOnDrop, clientVars, taskVars, Mail
  <1>3. CASE HandlerNext
    <2>1. CASE PollStart \/ DrainEnd \/ RecvClosed \/ RecvPending \/ PollEnd
      BY <2>1, CallsFrame DEF PollStart, DrainEnd, RecvClosed, RecvPending, PollEnd, clientVars, Mail
    <2>2. CASE RecvOne
      BY <2>2, MailReceived, CallsFrame DEF RecvOne, clientVars
    <2> QED BY <1>3, <2>1, <2>2, CallsDrain, CallsPollFetch, CallsPollDirect DEF HandlerNext
  <1>4. CASE HandlerDropped
    BY <1>4, CallsDropped
  <1>5. CASE ProviderNext
    <2>1. UNCHANGED <<channel, queued, waiting, listeners>>
          /\ \A c \in Clients : direct'[c] # "none" <=> direct[c] # "none"
      BY <1>5 DEF ProviderNext, ProviderAnswersFetch, ProviderAnswersDirect, clientVars, TypeOK
    <2> QED BY <2>1, CallsFrame DEF Mail
  <1>6. CASE UNCHANGED vars
    BY <1>6, CallsFrame DEF vars, clientVars, taskVars, Mail
  <1> QED BY <1>1, <1>2, <1>3, <1>4, <1>5, <1>6 DEF Next

\* The positions of the two queues are those of the mailbox.
LEMMA MailPositions ==
    ASSUME TypeOK
    PROVE  /\ DOMAIN queued = 1..Len(queued) /\ DOMAIN channel = 1..Len(channel)
           /\ Len(queued) \in Nat /\ Len(channel) \in Nat
           /\ \A i \in DOMAIN queued : i \in 1..Len(Mail) /\ Mail[i] = queued[i]
           /\ \A i \in DOMAIN channel :
                 Len(queued) + i \in 1..Len(Mail) /\ Mail[Len(queued) + i] = channel[i]
           /\ \A j \in 1..Len(Mail) :
                 \/ j \in DOMAIN queued
                 \/ j > Len(queued) /\ j - Len(queued) \in DOMAIN channel
  <1>1. queued \in Seq(BackendRequest) /\ channel \in Seq(BackendRequest)
    BY DEF TypeOK
  <1>2. /\ Len(queued) \in Nat /\ Len(channel) \in Nat
        /\ DOMAIN queued = 1..Len(queued) /\ DOMAIN channel = 1..Len(channel)
    BY <1>1, LenProperties
  <1>3. /\ Len(Mail) = Len(queued) + Len(channel)
        /\ \A i \in 1..Len(queued) + Len(channel) :
              Mail[i] = IF i <= Len(queued) THEN queued[i] ELSE channel[i - Len(queued)]
    BY <1>1, ConcatProperties DEF Mail
  <1>4. ASSUME NEW i \in DOMAIN queued PROVE i \in 1..Len(Mail) /\ Mail[i] = queued[i]
    BY <1>2, <1>3
  <1>5. ASSUME NEW i \in DOMAIN channel
        PROVE  Len(queued) + i \in 1..Len(Mail) /\ Mail[Len(queued) + i] = channel[i]
    <2>1. /\ Len(queued) + i \in 1..Len(Mail) /\ ~(Len(queued) + i <= Len(queued))
          /\ (Len(queued) + i) - Len(queued) = i
      BY <1>2, <1>3
    <2> QED BY <1>3, <2>1
  <1>6. ASSUME NEW j \in 1..Len(Mail), j \notin DOMAIN queued
        PROVE  j > Len(queued) /\ j - Len(queued) \in DOMAIN channel
    BY <1>2, <1>3, <1>6
  <1> QED BY <1>2, <1>4, <1>5, <1>6

\* No client is in two places.
LEMMA PlacesUnique ==
    ASSUME TypeOK, CallsInv, NEW c \in Clients, NEW p \in Places(c), NEW q \in Places(c)
    PROVE  p = q
  <1> DEFINE InQueued(x) == \E i \in DOMAIN queued : x = <<"queued", i>> /\ IsCall(i, c)
             InChannel(x) == \E i \in DOMAIN channel : x = <<"channel", i>> /\ IsCall(Len(queued) + i, c)
             Listens(x) == \E k \in Keys : x = <<"listener", k>> /\ c \in listeners[k]
             Asks(x) == x = <<"direct", c>> /\ direct[c] # "none"
  <1>1. \A x \in Places(c) : InQueued(x) \/ InChannel(x) \/ Listens(x) \/ Asks(x)
    BY MailPositions DEF Places, IsCall
  <1>2. \A i, j \in 1..Len(Mail) : IsCall(i, c) /\ IsCall(j, c) => i = j
    BY DEF CallsInv, CallsApart
  <1>3. (InQueued(p) \/ InChannel(p)) => ~Listens(q) /\ ~Asks(q)
    BY DEF CallsInv, CallsApart, IsCall
  <1>4. (Listens(p) \/ Asks(p)) => ~InQueued(q) /\ ~InChannel(q)
    BY DEF CallsInv, CallsApart, IsCall
  <1>5. CASE InQueued(p) /\ InQueued(q)
    BY <1>2, <1>5 DEF IsCall
  <1>6. CASE InChannel(p) /\ InChannel(q)
    <2>1. PICK i \in DOMAIN channel : p = <<"channel", i>> /\ IsCall(Len(queued) + i, c)
      BY <1>6
    <2>2. PICK j \in DOMAIN channel : q = <<"channel", j>> /\ IsCall(Len(queued) + j, c)
      BY <1>6
    <2>3. Len(queued) + i = Len(queued) + j
      BY <1>2, <2>1, <2>2 DEF IsCall
    <2>4. i = j
      BY <2>3, MailPositions
    <2> QED BY <2>1, <2>2, <2>4
  <1>7. ~(InQueued(p) /\ InChannel(q)) /\ ~(InChannel(p) /\ InQueued(q))
    <2>1. ASSUME NEW i \in DOMAIN queued, NEW j \in DOMAIN channel, IsCall(i, c), IsCall(Len(queued) + j, c)
          PROVE  FALSE
      <3>1. i = Len(queued) + j
        BY <1>2, <2>1 DEF IsCall
      <3> QED BY <3>1, MailPositions
    <2> QED BY <2>1
  <1>8. CASE Listens(p) /\ Listens(q)
    BY <1>8 DEF CallsInv, CallsTracked
  <1>9. ~(Listens(p) /\ Asks(q)) /\ ~(Asks(p) /\ Listens(q))
    BY KeysAssumption DEF CallsInv, CallsTracked
  <1>10. CASE Asks(p) /\ Asks(q)
    BY <1>10
  <1> HIDE DEF InQueued, InChannel, Listens, Asks
  <1> QED BY <1>1, <1>3, <1>4, <1>5, <1>6, <1>7, <1>8, <1>9, <1>10

\* A client is somewhere exactly while it is blocked.
LEMMA PlacesWhileBlocked ==
    ASSUME TypeOK, CallsInv, NEW c \in Clients
    PROVE  Places(c) # {} <=> waiting[c] # NoReq
  <1>1. ASSUME NEW j \in 1..Len(Mail), IsCall(j, c) PROVE Places(c) # {}
    <2>1. CASE j \in DOMAIN queued
      <3>1. <<"queued", j>> \in Places(c)
        BY <1>1, <2>1, MailPositions DEF Places, IsCall
      <3> QED BY <3>1
    <2>2. CASE j > Len(queued) /\ j - Len(queued) \in DOMAIN channel
      <3>1. Mail[j] = channel[j - Len(queued)]
        <4>1. Len(queued) + (j - Len(queued)) = j
          BY MailPositions
        <4> QED BY <2>2, <4>1, MailPositions
      <3>2. <<"channel", j - Len(queued)>> \in Places(c)
        BY <1>1, <2>2, <3>1 DEF Places, IsCall
      <3> QED BY <3>2
    <2> QED BY <2>1, <2>2, MailPositions
  <1>2. ASSUME NEW k \in Keys, c \in listeners[k] PROVE Places(c) # {}
    <2>1. <<"listener", k>> \in Places(c)
      BY <1>2 DEF Places
    <2> QED BY <2>1
  <1>3. ASSUME direct[c] # "none" PROVE Places(c) # {}
    <2>1. <<"direct", c>> \in Places(c)
      BY <1>3 DEF Places
    <2> QED BY <2>1
  <1>4. waiting[c] # NoReq => Places(c) # {}
    BY <1>1, <1>2, <1>3 DEF CallsInv, CallsHeld
  <1>5. ASSUME waiting[c] = NoReq PROVE Places(c) = {}
    <2>1. /\ \A i \in 1..Len(Mail) : ~IsCall(i, c)
          /\ \A k \in Keys : c \notin listeners[k]
          /\ direct[c] = "none"
      BY <1>5, IdleNowhere DEF CallsInv
    <2>2. /\ \A i \in DOMAIN queued : ~(queued[i].t = "get" /\ queued[i].client = c)
          /\ \A i \in DOMAIN channel : ~(channel[i].t = "get" /\ channel[i].client = c)
      BY <2>1, MailPositions DEF IsCall
    <2> QED BY <2>1, <2>2 DEF Places
  <1> QED BY <1>4, <1>5

\* Every blocked call is held in exactly one place from which it will be
\* answered, and a client that is not blocked is held in none.
THEOREM CallsHeldOnce == Spec => []EachCallHeldOnce
  <1>1. ASSUME TypeOK, CallsInv PROVE EachCallHeldOnce
    <2> SUFFICES ASSUME NEW c \in Clients
                 PROVE  Cardinality(Places(c)) = IF waiting[c] = NoReq THEN 0 ELSE 1
      BY DEF EachCallHeldOnce
    <2>1. CASE waiting[c] = NoReq
      BY <1>1, <2>1, PlacesWhileBlocked, FS_EmptySet
    <2>2. CASE waiting[c] # NoReq
      <3>1. PICK p : p \in Places(c)
        BY <1>1, <2>2, PlacesWhileBlocked
      <3>2. Places(c) = {p}
        BY <1>1, <3>1, PlacesUnique
      <3> QED BY <2>2, <3>2, FS_Singleton
    <2> QED BY <2>1, <2>2
  <1> QED BY <1>1, TypeCorrect, CallsInit, CallsStep, PTL DEF Spec

-----------------------------------------------------------------------------
(* The abstract store                                                      *)

LEMMA StoreInit == Init => Store!Init
  BY DEF Init, Store!Init, Failed

\* A reply is the store's answer to the same callers.
LEMMA ReplyAnswers ==
    ASSUME NEW S, NEW tag, NEW v, Reply(S, [tag |-> tag, val |-> v])
    PROVE  Store!Answer(S, tag, v)
  BY DEF Reply, Store!Answer

LEMMA StoreGet ==
    ASSUME NEW c \in Clients, NEW k \in Keys \cup {Direct}, Get(c, k)
    PROVE  Store!Next
  <1>1. waiting[c] = NoReq /\ UNCHANGED db
    BY DEF Get, Idle
  <1>2. CASE HandlerAlive
    <2>1. Store!Ask(c, k)
      BY <1>1, <1>2 DEF Get, Store!Ask, Failed
    <2> QED BY <2>1 DEF Store!Next
  <1>3. CASE ~HandlerAlive
    <2>1. Store!Refuse(c)
      BY <1>1, <1>3 DEF Get, Store!Refuse, Failed
    <2> QED BY <2>1 DEF Store!Next
  <1> QED BY <1>2, <1>3

\* A drained call is a hit or is not visible; a drained write is a put.
LEMMA StoreDrain ==
    ASSUME TypeOK, TypeOK', CallsInv, DrainOne
    PROVE  Store!Next \/ UNCHANGED Store!vars
  <1> DEFINE m == Head(queued)
  <1>1. m \in BackendRequest
    BY DEF DrainOne, TypeOK
  <1>2. CASE OnGet(m)
    <2>1. m.client \in Clients /\ m.key \in Keys \cup {Direct} /\ m.t = "get" /\ UNCHANGED db
      BY <1>1, <1>2, GetMsgShape DEF OnGet
    <2>2. waiting[m.client] = m.key
      BY <2>1, DrainShifts DEF CallsInv, CallsTracked
    <2>3. CASE m.key # Direct /\ db[m.key] # Absent
      <3>1. Reply({m.client}, Ok(db[m.key]))
        BY <1>2, <2>3 DEF OnGet
      <3>2. Store!Hit(m.client)
        BY <2>1, <2>2, <2>3, <3>1, ReplyAnswers DEF Ok, Store!Hit
      <3> QED BY <2>1, <3>2 DEF Store!Next
    <2>4. CASE ~(m.key # Direct /\ db[m.key] # Absent)
      BY <1>2, <2>1, <2>4 DEF OnGet, Store!vars
    <2> QED BY <2>3, <2>4
  <1>3. CASE OnSetPinnedBlock(m)
    BY <1>3 DEF OnSetPinnedBlock, Store!vars
  <1>4. CASE OnInsert(m)
    <2>1. Store!Put
      BY <1>1, <1>4, InsertMsgShape DEF OnInsert, Store!Put, TypeOK, Vals
    <2> QED BY <2>1 DEF Store!Next
  <1>5. CASE OnUpdateStorage(m)
    <2>1. Store!Put
      BY <1>1, <1>5, StorageMsgShape DEF OnUpdateStorage, StorageAfter, SlotsOf, Store!Put, TypeOK, Vals
    <2> QED BY <2>1 DEF Store!Next
  <1> QED BY <1>2, <1>3, <1>4, <1>5 DEF DrainOne, OnRequest

\* A response fills the store for everyone who listens; an error fails them.
LEMMA StorePollFetch ==
    ASSUME TypeOK, Bundled, FetchesAreMisses, CallsInv, PollFetch
    PROVE  Store!Next \/ UNCHANGED Store!vars
  <1>1. PICK f \in fetches : PollCreated(f) \/ PollPending(f) \/ PollOk(f) \/ PollErr(f)
    BY DEF PollFetch
  <1> DEFINE k == f.key
             S == listeners[k]
  <1>2. k \in Keys /\ f.block \in Pins /\ S \in SUBSET Clients /\ S # {}
    BY DEF TypeOK, Fetch, Bundled, ListenersMatchFetches
  <1>3. \A c \in S : waiting[c] = k
    BY <1>2 DEF CallsInv, CallsTracked
  <1>4. CASE PollCreated(f) \/ PollPending(f)
    BY <1>4 DEF PollCreated, PollPending, Store!vars
  <1>5. CASE PollOk(f)
    <2>1. PICK v \in Resolved(f) : db' = [db EXCEPT ![k] = v] /\ Reply(S, Ok(v))
      BY <1>5 DEF PollOk
    <2>2. v \in ChainVals
      BY <1>2, <2>1 DEF Resolved, ChainVals
    <2>3. Store!Fill(k, v, S)
      BY <1>2, <1>3, <2>1, ReplyAnswers DEF FetchesAreMisses, Ok, Store!Fill
    <2> QED BY <1>2, <2>2, <2>3 DEF Store!Next
  <1>6. CASE PollErr(f)
    <2>1. Store!Fail(k, S)
      BY <1>2, <1>3, <1>6, ReplyAnswers DEF PollErr, Failed, Store!Fail
    <2> QED BY <1>2, <2>1 DEF Store!Next
  <1> QED BY <1>1, <1>4, <1>5, <1>6

LEMMA StorePollDirect ==
    ASSUME CallsInv, PollDirect
    PROVE  Store!Next \/ UNCHANGED Store!vars
  <1>1. PICK c \in Clients :
          \/ UNCHANGED <<answer, waiting>>
          \/ /\ direct[c] \in {"ok", "err"}
             /\ Reply({c}, Failed(IF direct[c] = "ok" THEN "direct" ELSE "provider"))
    BY DEF PollDirect
  <1>2. UNCHANGED db
    BY DEF PollDirect
  <1>3. CASE UNCHANGED <<answer, waiting>>
    BY <1>2, <1>3 DEF Store!vars
  <1>4. CASE direct[c] = "ok" /\ Reply({c}, Failed("direct"))
    <2>1. Store!Uncached(c)
      BY <1>2, <1>4, ReplyAnswers DEF CallsInv, CallsTracked, Failed, Store!Uncached
    <2> QED BY <2>1 DEF Store!Next
  <1>5. CASE direct[c] = "err" /\ Reply({c}, Failed("provider"))
    <2>1. Store!Fail(Direct, {c})
      BY <1>2, <1>5, ReplyAnswers DEF CallsInv, CallsTracked, Failed, Store!Fail
    <2> QED BY <2>1 DEF Store!Next
  <1> QED BY <1>1, <1>3, <1>4, <1>5

LEMMA StoreStep ==
    TypeOK /\ TypeOK' /\ Bundled /\ FetchesAreMisses /\ CallsInv /\ [Next]_vars
      => [Store!Next]_Store!vars
  <1> SUFFICES ASSUME TypeOK, TypeOK', Bundled, FetchesAreMisses, CallsInv, [Next]_vars
               PROVE  Store!Next \/ UNCHANGED Store!vars
    OBVIOUS
  <1>1. ASSUME NEW c \in Clients, ClientNext(c) PROVE Store!Next \/ UNCHANGED Store!vars
    <2>1. CASE (\E k \in Keys : Get(c, k)) \/ GetUncached(c) \/ DoAnyRequest(c)
      BY <2>1, StoreGet DEF GetUncached, DoAnyRequest
    <2>2. CASE SetPinnedBlock(c) \/ InsertOrUpdate(c) \/ InsertOrUpdateStorage(c)
      BY <2>2 DEF SetPinnedBlock, InsertOrUpdate, InsertOrUpdateStorage, Post, clientVars, Store!vars
    <2>3. CASE FlushCache(c) \/ CloneHandle(c) \/ DropHandle(c)
      BY <2>3 DEF FlushCache, CloneHandle, DropHandle, clientVars, Store!vars
    <2> QED BY <1>1, <2>1, <2>2, <2>3 DEF ClientNext
  <1>2. CASE FlushOnDrop
    BY <1>2 DEF FlushOnDrop, clientVars, Store!vars
  <1>3. CASE HandlerNext
    <2>1. CASE PollStart \/ DrainEnd \/ RecvOne \/ RecvClosed \/ RecvPending \/ PollEnd
      BY <2>1 DEF PollStart, DrainEnd, RecvOne, RecvClosed, RecvPending, PollEnd, clientVars, Store!vars
    <2> QED BY <1>3, <2>1, StoreDrain, StorePollFetch, StorePollDirect DEF HandlerNext
  <1>4. CASE HandlerDropped
    <2>1. Store!Abandon
      BY <1>4, ReplyAnswers DEF HandlerDropped, Failed, Store!Abandon
    <2> QED BY <2>1 DEF Store!Next
  <1>5. CASE ProviderNext
    BY <1>5 DEF ProviderNext, ProviderAnswersFetch, ProviderAnswersDirect, clientVars, Store!vars
  <1>6. CASE UNCHANGED vars
    BY <1>6 DEF vars, clientVars, Store!vars
  <1> QED BY <1>1, <1>2, <1>3, <1>4, <1>5, <1>6 DEF Next

\* The backend, with its queues, listeners and futures hidden, is the store its
\* callers see: every step is a hit, a fill, a failure or a put, or is invisible.
THEOREM BackendImplementsStore == Spec => ImplementsStore
  BY TypeCorrect, BundledInit, BundledStep, MissesInit, MissesStep, CallsInit, CallsStep,
     StoreInit, StoreStep, PTL
  DEF Spec, ImplementsStore, Store!Spec

\* In the store, and therefore in the backend, an answer is the cached value.
THEOREM AnswersCached == Spec => AnswersAreCached
  <1> DEFINE Cached == \A c \in Clients :
                         (waiting[c] \in Keys /\ waiting'[c] = NoReq /\ answer'[c].tag = "ok")
                           => db'[waiting[c]] = answer'[c].val
  <1>1. TypeOK /\ [Store!Next]_Store!vars => Cached
    <2> SUFFICES ASSUME TypeOK, [Store!Next]_Store!vars, NEW c \in Clients, waiting[c] \in Keys,
                        waiting'[c] = NoReq, answer'[c].tag = "ok"
                 PROVE  db'[waiting[c]] = answer'[c].val
      OBVIOUS
    <2>1. waiting[c] # NoReq /\ waiting' # waiting
      BY KeysAssumption
    <2>2. CASE \E d \in Clients : Store!Hit(d)
      <3>1. PICK d \in Clients : Store!Hit(d)
        BY <2>2
      <3>2. c = d
        BY <2>1, <3>1 DEF Store!Hit, Store!Answer
      <3> QED BY <3>1, <3>2 DEF Store!Hit, Store!Answer
    <2>3. CASE \E k \in Keys, v \in ChainVals, S \in SUBSET Clients : Store!Fill(k, v, S)
      <3>1. PICK k \in Keys, v \in ChainVals, S \in SUBSET Clients : Store!Fill(k, v, S)
        BY <2>3
      <3>2. c \in S
        BY <2>1, <3>1 DEF Store!Fill, Store!Answer
      <3> QED BY <3>1, <3>2 DEF Store!Fill, Store!Answer, TypeOK
    <2>4. CASE \E d \in Clients : Store!Refuse(d) \/ Store!Uncached(d)
      BY <2>1, <2>4 DEF Store!Refuse, Store!Uncached, Store!Answer
    <2>5. CASE \E d \in Clients, r \in Keys \cup {Direct} : Store!Ask(d, r)
      BY <2>1, <2>5, KeysAssumption DEF Store!Ask, TypeOK
    <2>6. CASE (\E r \in Keys \cup {Direct}, S \in SUBSET Clients : Store!Fail(r, S)) \/ Store!Abandon
      BY <2>1, <2>6 DEF Store!Fail, Store!Abandon, Store!Answer
    <2>7. CASE Store!Put \/ UNCHANGED Store!vars
      BY <2>1, <2>7 DEF Store!Put, Store!vars
    <2> QED BY <2>2, <2>3, <2>4, <2>5, <2>6, <2>7 DEF Store!Next
  <1> QED
    BY <1>1, TypeCorrect, BundledInit, BundledStep, MissesInit, MissesStep, CallsInit, CallsStep,
       StoreStep, PTL
    DEF Spec, AnswersAreCached

-----------------------------------------------------------------------------
(* The flush of the last drop                                              *)

\* A call borrows its handle: a blocked client cannot drop it.
WaitersHold == \A c \in Clients : waiting[c] # NoReq => c \in handles

\* The cache is flushed when its last handle is gone, and not before.
FlushAfterLast == flush # "held" => handles = {}

FlushInv == WaitersHold /\ FlushAfterLast /\ FlushKeepsFetched

LEMMA FlushInit == Init => FlushInv
  BY DEF Init, FlushInv, WaitersHold, FlushAfterLast, FlushKeepsFetched

\* With no handle left nobody is blocked, hence nobody listens, hence no request
\* is in flight: nothing can be fetched any more.
LEMMA NoFetchWithoutHandles ==
    ASSUME TypeOK, Bundled, CallsInv, FlushInv, handles = {}
    PROVE  fetches = {}
  <1>1. \A c \in Clients : waiting[c] = NoReq
    BY DEF FlushInv, WaitersHold
  <1>2. \A k \in Keys : listeners[k] = {}
    BY <1>1, IdleNowhere DEF CallsInv, TypeOK
  <1> QED BY <1>2 DEF Bundled, ListenersMatchFetches, TypeOK, Fetch

LEMMA HandlesClient ==
    ASSUME TypeOK, FlushInv, NEW c \in Clients, ClientNext(c)
    PROVE  FlushInv'
  <1>1. ASSUME NEW k, Get(c, k) PROVE FlushInv'
    BY <1>1 DEF Get, Idle, FlushInv, WaitersHold, FlushAfterLast, FlushKeepsFetched, TypeOK,
       diskVars
  <1>2. ASSUME NEW m, Post(c, m) PROVE FlushInv'
    BY <1>2 DEF Post, FlushInv, WaitersHold, FlushAfterLast, FlushKeepsFetched, diskVars, clientVars
  <1>3. CASE FlushCache(c)
    BY <1>3 DEF FlushCache, FlushInv, WaitersHold, FlushAfterLast, FlushKeepsFetched, clientVars
  <1>4. CASE CloneHandle(c)
    BY <1>4 DEF CloneHandle, FlushInv, WaitersHold, FlushAfterLast, FlushKeepsFetched, diskVars
  <1>5. CASE DropHandle(c)
    BY <1>5 DEF DropHandle, Idle, FlushInv, WaitersHold, FlushAfterLast, FlushKeepsFetched
  <1> QED BY <1>1, <1>2, <1>3, <1>4, <1>5
          DEF ClientNext, GetUncached, DoAnyRequest, SetPinnedBlock, InsertOrUpdate, InsertOrUpdateStorage

\* The handler answers calls and makes none.
LEMMA HandlerMakesNoCalls ==
    ASSUME TypeOK, HandlerNext \/ HandlerDropped \/ ProviderNext
    PROVE  UNCHANGED <<handles, flush, disk>> /\ \A c \in Clients : waiting'[c] \in {waiting[c], NoReq}
  <1>1. CASE HandlerNext
    <2>1. CASE DrainOne
      <3>1. waiting' = waiting \/ \E S, a : Reply(S, a)
        BY <2>1 DEF DrainOne, OnRequest, OnGet, OnSetPinnedBlock, OnInsert, OnUpdateStorage
      <3> QED BY <2>1, <3>1 DEF DrainOne, Reply, diskVars
    <2>2. CASE PollFetch
      <3>1. waiting' = waiting \/ \E S, a : Reply(S, a)
        BY <2>2 DEF PollFetch, PollCreated, PollPending, PollOk, PollErr
      <3> QED BY <2>2, <3>1 DEF PollFetch, Reply, diskVars
    <2>3. CASE PollDirect
      BY <2>3 DEF PollDirect, Reply, diskVars
    <2>4. CASE PollStart \/ DrainEnd \/ RecvOne \/ RecvClosed \/ RecvPending \/ PollEnd
      BY <2>4 DEF PollStart, DrainEnd, RecvOne, RecvClosed, RecvPending, PollEnd, clientVars, diskVars
    <2> QED BY <1>1, <2>1, <2>2, <2>3, <2>4 DEF HandlerNext
  <1>2. CASE HandlerDropped
    BY <1>2 DEF HandlerDropped, Reply, diskVars
  <1>3. CASE ProviderNext
    BY <1>3 DEF ProviderNext, ProviderAnswersFetch, ProviderAnswersDirect, clientVars, diskVars
  <1> QED BY <1>1, <1>2, <1>3

LEMMA FlushStep == TypeOK /\ Bundled /\ CallsInv /\ FlushInv /\ [Next]_vars => FlushInv'
  <1> SUFFICES ASSUME TypeOK, Bundled, CallsInv, FlushInv, [Next]_vars PROVE FlushInv'
    OBVIOUS
  <1>1. ASSUME NEW c \in Clients, ClientNext(c) PROVE FlushInv'
    BY <1>1, HandlesClient
  <1>2. CASE FlushOnDrop
    BY <1>2 DEF FlushOnDrop, FlushInv, WaitersHold, FlushAfterLast, FlushKeepsFetched, clientVars
  <1>3. CASE HandlerNext \/ HandlerDropped \/ ProviderNext
    <2>1. WaitersHold' /\ FlushAfterLast'
      BY <1>3, HandlerMakesNoCalls DEF FlushInv, WaitersHold, FlushAfterLast
    <2>2. ASSUME flush' = "done", NEW k \in Keys, db'[k] \in ChainVals PROVE disk'[k] = db'[k]
      <3>1. flush = "done" /\ UNCHANGED disk
        BY <1>3, <2>2, HandlerMakesNoCalls
      <3>2. ~PollFetch
        BY <3>1, NoFetchWithoutHandles DEF FlushInv, FlushAfterLast, PollFetch
      <3>3. db'[k] = db[k]
        <4>1. CASE DrainOne
          BY <2>2, <4>1, WritesByCallers, ValsAssumption DEF Vals
        <4>2. CASE ~DrainOne
          BY <3>2, <4>2, CacheWriters
        <4> QED BY <4>1, <4>2
      <3> QED BY <2>2, <3>1, <3>3 DEF FlushInv, FlushKeepsFetched
    <2> QED BY <2>1, <2>2 DEF FlushInv, FlushKeepsFetched
  <1>4. CASE UNCHANGED vars
    BY <1>4 DEF vars, diskVars, clientVars, FlushInv, WaitersHold, FlushAfterLast, FlushKeepsFetched
  <1> QED BY <1>1, <1>2, <1>3, <1>4 DEF Next

\* Once the last handle's drop has flushed, every value that came from the
\* provider and is still cached is in the file, whatever the handler still does.
THEOREM LastFlushKeepsFetched == Spec => []FlushKeepsFetched
  <1>1. FlushInv => FlushKeepsFetched
    BY DEF FlushInv
  <1> QED BY <1>1, TypeCorrect, BundledInit, BundledStep, CallsInit, CallsStep, FlushInit, FlushStep, PTL
          DEF Spec

=============================================================================
