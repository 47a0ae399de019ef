---------------------------- MODULE ForkBackend ----------------------------
(***************************************************************************)
(* The forking backend of crates/fork-db: blocking `SharedBackend` handles *)
(* that send requests over an unbounded channel to one `BackendHandler`    *)
(* task, which answers from the shared cache or bundles the callers that   *)
(* miss on a key behind a single provider request.                         *)
(*                                                                         *)
(* The handler's `poll` is split at every point where another thread can   *)
(* act: one queued request, one received message, one polled future per    *)
(* step.  Wakers are explicit, so that a lost wake-up is a reachable state *)
(* and not something the model rules out.                                  *)
(*                                                                         *)
(* Data is abstracted to what the properties tell apart.  The remote value *)
(* of an account or slot at block p is written p itself; a value put in by *)
(* a caller is a member of UserVals.                                       *)
(***************************************************************************)
EXTENDS Integers, Sequences, FiniteSets

CONSTANTS
    Clients,        \* threads that may hold a SharedBackend clone
    AccountKeys,    \* keys of MemDb.accounts
    StorageKeys,    \* keys of MemDb.storage, as (address, slot) pairs
    HashKeys,       \* keys of MemDb.block_hashes
    AddrOf,         \* the account a storage key belongs to
    Pins,           \* block ids data can be fetched at
    UserVals,       \* values handed to insert_or_update_*
    BlockFound,     \* the hash of a block the provider knows
    KeccakEmpty,    \* the hash stored for a block the provider does not know
    Absent,         \* no entry in the cache
    NoReq,          \* the client is not blocked in a request
    Direct,         \* an uncached request: full block, transaction, any other
    MaxSends        \* bound on the non-blocking calls (updates, pins, flushes)

Keys == AccountKeys \cup StorageKeys \cup HashKeys
ChainVals == Pins \cup {BlockFound, KeccakEmpty}
Vals == ChainVals \cup UserVals

ASSUME KeysAssumption ==
    /\ AccountKeys \cap StorageKeys = {}
    /\ AccountKeys \cap HashKeys = {}
    /\ StorageKeys \cap HashKeys = {}
    /\ Clients \cap Keys = {}
    /\ Direct \notin Keys /\ NoReq \notin Keys /\ NoReq # Direct
ASSUME ValsAssumption ==
    /\ ChainVals \cap UserVals = {}
    /\ Absent \notin Vals
ASSUME BoundAssumption == MaxSends \in Nat

VARIABLES
    db,         \* MemDb: the value cached for a key, or Absent
    disk,       \* what the cache file holds
    flush,      \* FlushJsonBlockCacheDB: "held" | "due" | "done"
    handles,    \* clients holding a SharedBackend
    waiting,    \* the request each client is blocked in, or NoReq
    answer,     \* the last answer each client got
    channel,    \* the unbounded mpsc channel, oldest first
    sends,      \* non-blocking calls so far
    phase,      \* where BackendHandler::poll stands
    queued,     \* BackendHandler.queued_requests
    listeners,  \* account_requests, storage_requests and block_requests
    fetches,    \* the keyed futures of pending_requests
    direct,     \* the futures of pending_requests that own their sender
    toPoll,     \* futures this pass of poll has still to visit
    pin,        \* BackendHandler.block_id
    rxArmed,    \* the channel holds the task's waker
    woken       \* the task has been woken since its last poll began

clientVars == <<handles, waiting, answer>>
taskVars == <<phase, queued, listeners, fetches, direct, toPoll, pin>>
diskVars == <<disk, flush>>
wakeVars == <<rxArmed, woken>>
vars == <<db, diskVars, clientVars, channel, sends, taskVars, wakeVars>>

-----------------------------------------------------------------------------
(* Messages and futures                                                    *)

PartialMaps(S) == UNION {[T -> UserVals] : T \in SUBSET S}
SlotsOf(a) == {k \in StorageKeys : AddrOf[k] = a}
Addrs == {AddrOf[k] : k \in StorageKeys}

GetMsg == [t : {"get"}, client : Clients, key : Keys \cup {Direct}]
PinMsg == [t : {"pin"}, block : Pins]
InsertMsg == [t : {"insert"}, data : PartialMaps(AccountKeys) \cup PartialMaps(HashKeys)]
StorageMsg == UNION {[t : {"storage"}, addr : {a}, data : PartialMaps(SlotsOf(a))] : a \in Addrs}
BackendRequest == GetMsg \cup PinMsg \cup InsertMsg \cup StorageMsg

\* A future is lazy: it sends nothing and holds no waker until first polled.
FutureState == {"created", "sent", "ok", "err"}
Fetch == [key : Keys, block : Pins, st : FutureState]

Ok(v) == [tag |-> "ok", val |-> v]
Failed(tag) == [tag |-> tag, val |-> Absent]

HandlerAlive == phase # "exited"
Running == phase \in {"drain", "recv", "poll"}

Init ==
    /\ db = [k \in Keys |-> Absent]
    /\ disk = db
    /\ flush = "held"
    /\ handles = Clients
    /\ waiting = [c \in Clients |-> NoReq]
    /\ answer = [c \in Clients |-> Failed("none")]
    /\ channel = <<>>
    /\ sends = 0
    /\ phase = "asleep"
    /\ queued = <<>>
    /\ listeners = [k \in Keys |-> {}]
    /\ fetches = {}
    /\ direct = [c \in Clients |-> "none"]
    /\ toPoll = {}
    /\ pin \in Pins
    /\ rxArmed = FALSE
    /\ woken = TRUE         \* a spawned task is polled once unasked

-----------------------------------------------------------------------------
(* SharedBackend                                                           *)

Idle(c) == c \in handles /\ waiting[c] = NoReq

\* UnboundedSender::unbounded_send: wakes the receiver if it left its waker.
UnboundedSend(m) ==
    /\ channel' = Append(channel, m)
    /\ woken' = (woken \/ rxArmed)
    /\ rxArmed' = FALSE

\* do_get_basic, do_get_storage, do_get_block_hash: send, then block in recv.
Get(c, k) ==
    /\ Idle(c)
    /\ \/ /\ HandlerAlive
          /\ UnboundedSend([t |-> "get", client |-> c, key |-> k])
          /\ waiting' = [waiting EXCEPT ![c] = k]
          /\ answer' = [answer EXCEPT ![c] = Failed("none")]
       \/ /\ ~HandlerAlive
          /\ answer' = [answer EXCEPT ![c] = Failed("send")]
          /\ UNCHANGED <<waiting, channel, wakeVars>>
    /\ UNCHANGED <<db, diskVars, handles, sends, taskVars>>

\* get_full_block and get_transaction; do_any_request with a caller's own future.
GetUncached(c) == Get(c, Direct)
DoAnyRequest(c) == Get(c, Direct)

\* set_pinned_block and the insert_or_update_* calls do not block; on a closed
\* channel the message is dropped (an error is returned or logged).
Post(c, m) ==
    /\ Idle(c)
    /\ sends < MaxSends
    /\ sends' = sends + 1
    /\ IF HandlerAlive THEN UnboundedSend(m) ELSE UNCHANGED <<channel, wakeVars>>
    /\ UNCHANGED <<db, diskVars, clientVars, taskVars>>

SetPinnedBlock(c) == \E m \in PinMsg : Post(c, m)
InsertOrUpdate(c) == \E m \in InsertMsg : Post(c, m)
InsertOrUpdateStorage(c) == \E m \in StorageMsg : Post(c, m)

\* flush_cache
FlushCache(c) ==
    /\ Idle(c)
    /\ sends < MaxSends
    /\ sends' = sends + 1
    /\ disk' = db
    /\ UNCHANGED <<db, flush, clientVars, channel, taskVars, wakeVars>>

CloneHandle(c) ==
    /\ c \notin handles /\ handles # {}
    /\ handles' = handles \cup {c}
    /\ UNCHANGED <<db, diskVars, waiting, answer, channel, sends, taskVars, wakeVars>>

\* Mutant: the sender's drop does not wake the handler.
DropHandle_NoWake(c) ==
    /\ Idle(c)
    /\ handles' = handles \ {c}
    /\ flush' = IF handles' = {} THEN "due" ELSE flush
    /\ UNCHANGED <<db, disk, waiting, answer, channel, sends, taskVars, wakeVars>>

\* Mutant: any handle's drop flushes, and only the first.
DropHandle_FlushFirst(c) ==
    /\ Idle(c)
    /\ handles' = handles \ {c}
    /\ flush' = IF flush = "held" THEN "due" ELSE flush
    /\ woken' = (woken \/ rxArmed)
    /\ rxArmed' = FALSE
    /\ UNCHANGED <<db, disk, waiting, answer, channel, sends, taskVars>>

\* The sender is dropped before the Arc of the flushing cache: the last handle
\* closes the channel first and flushes afterwards, while the handler runs.
DropHandle(c) ==
    /\ Idle(c)
    /\ handles' = handles \ {c}
    /\ IF handles' = {}
         THEN /\ flush' = "due"
              /\ woken' = (woken \/ rxArmed)
              /\ rxArmed' = FALSE
         ELSE UNCHANGED <<flush, wakeVars>>
    /\ UNCHANGED <<db, disk, waiting, answer, channel, sends, taskVars>>

FlushOnDrop ==
    /\ flush = "due"
    /\ flush' = "done"
    /\ disk' = db
    /\ UNCHANGED <<db, clientVars, channel, sends, taskVars, wakeVars>>

-----------------------------------------------------------------------------
(* BackendHandler::on_request                                              *)

Reply(S, a) ==
    /\ answer' = [c \in Clients |-> IF c \in S THEN a ELSE answer[c]]
    /\ waiting' = [c \in Clients |-> IF c \in S THEN NoReq ELSE waiting[c]]

NewFetch(k) == [key |-> k, block |-> pin, st |-> "created"]

\* Mutant: the Occupied entry is not recognised.
RequestKey_NoDedup(c, k) ==
    /\ listeners' = [listeners EXCEPT ![k] = @ \cup {c}]
    /\ fetches' = fetches \cup {NewFetch(k)}

\* Mutant: the Occupied entry's listeners are replaced instead of extended.
RequestKey_Overwrite(c, k) ==
    /\ listeners' = [listeners EXCEPT ![k] = {c}]
    /\ fetches' = IF listeners[k] = {} THEN fetches \cup {NewFetch(k)} ELSE fetches

\* Join the listeners of a request in progress (Occupied), or start one (Vacant).
RequestKey(c, k) ==
    /\ listeners' = [listeners EXCEPT ![k] = @ \cup {c}]
    /\ fetches' = IF listeners[k] = {} THEN fetches \cup {NewFetch(k)} ELSE fetches

RequestAccount(c, k) == k \in AccountKeys /\ RequestKey(c, k)
RequestAccountStorage(c, k) == k \in StorageKeys /\ RequestKey(c, k)
RequestHash(c, k) == k \in HashKeys /\ RequestKey(c, k)

\* Mutant: on_request does not look at the cache first.
OnGet_NoCacheCheck(m) ==
    /\ m.t = "get"
    /\ \/ /\ m.key = Direct
          /\ direct' = [direct EXCEPT ![m.client] = "created"]
          /\ UNCHANGED <<answer, waiting, listeners, fetches>>
       \/ /\ m.key # Direct
          /\ RequestKey(m.client, m.key)
          /\ UNCHANGED <<answer, waiting, direct>>
    /\ UNCHANGED <<db, pin>>

OnGet(m) ==
    /\ m.t = "get"
    /\ \/ /\ m.key = Direct
          /\ direct' = [direct EXCEPT ![m.client] = "created"]
          /\ UNCHANGED <<answer, waiting, listeners, fetches>>
       \/ /\ m.key # Direct /\ db[m.key] # Absent
          /\ Reply({m.client}, Ok(db[m.key]))
          /\ UNCHANGED <<listeners, fetches, direct>>
       \/ /\ m.key # Direct /\ db[m.key] = Absent
          /\ \/ RequestAccount(m.client, m.key)
             \/ RequestAccountStorage(m.client, m.key)
             \/ RequestHash(m.client, m.key)
          /\ UNCHANGED <<answer, waiting, direct>>
    /\ UNCHANGED <<db, pin>>

OnSetPinnedBlock(m) ==
    /\ m.t = "pin"
    /\ pin' = m.block
    /\ UNCHANGED <<db, answer, waiting, listeners, fetches, direct>>

\* UpdateAddress, UpdateBlockHash: every named entry is inserted.
OnInsert(m) ==
    /\ m.t = "insert"
    /\ db' = [k \in Keys |-> IF k \in DOMAIN m.data THEN m.data[k] ELSE db[k]]
    /\ UNCHANGED <<pin, answer, waiting, listeners, fetches, direct>>

\* UpdateStorage: the account's whole slot map is replaced by the one given.
StorageAfter(m) ==
    [k \in Keys |-> IF k \in DOMAIN m.data THEN m.data[k]
                    ELSE IF k \in SlotsOf(m.addr) THEN Absent ELSE db[k]]

OnUpdateStorage(m) ==
    /\ m.t = "storage"
    /\ db' = StorageAfter(m)
    /\ UNCHANGED <<pin, answer, waiting, listeners, fetches, direct>>

OnRequest(m) == OnGet(m) \/ OnSetPinnedBlock(m) \/ OnInsert(m) \/ OnUpdateStorage(m)

-----------------------------------------------------------------------------
(* BackendHandler::poll                                                    *)

PollStart ==
    /\ phase = "asleep" /\ woken
    /\ phase' = "drain"
    /\ woken' = FALSE
    /\ UNCHANGED <<db, diskVars, clientVars, channel, sends, rxArmed, queued, listeners,
                   fetches, direct, toPoll, pin>>

DrainOne ==
    /\ phase = "drain" /\ queued # <<>>
    /\ OnRequest(Head(queued))
    /\ queued' = Tail(queued)
    /\ UNCHANGED <<diskVars, handles, channel, sends, phase, toPoll, wakeVars>>

DrainEnd ==
    /\ phase = "drain" /\ queued = <<>>
    /\ phase' = "recv"
    /\ UNCHANGED <<db, diskVars, clientVars, channel, sends, queued, listeners, fetches,
                   direct, toPoll, pin, wakeVars>>

RecvOne ==
    /\ phase = "recv" /\ channel # <<>>
    /\ queued' = Append(queued, Head(channel))
    /\ channel' = Tail(channel)
    /\ UNCHANGED <<db, diskVars, clientVars, sends, phase, listeners, fetches, direct,
                   toPoll, pin, wakeVars>>

\* Ready(None): the last sender is gone.  What was just received stays in
\* `queued` and is dropped with the handler.
RecvClosed ==
    /\ phase = "recv" /\ channel = <<>> /\ handles = {}
    /\ phase' = "exited"
    /\ UNCHANGED <<db, diskVars, clientVars, channel, sends, queued, listeners, fetches,
                   direct, toPoll, pin, wakeVars>>

InFlight == {f.key : f \in fetches} \cup {c \in Clients : direct[c] # "none"}

RecvPending ==
    /\ phase = "recv" /\ channel = <<>> /\ handles # {}
    /\ rxArmed' = TRUE
    /\ phase' = "poll"
    /\ toPoll' = InFlight
    /\ UNCHANGED <<db, diskVars, clientVars, channel, sends, queued, listeners, fetches,
                   direct, pin, woken>>

\* The values a fetch can resolve to: account and slot data of its block; for a
\* block hash, the hash, or KECCAK_EMPTY if the provider knows no such block.
Resolved(f) == IF f.key \in HashKeys THEN {BlockFound, KeccakEmpty} ELSE {f.block}

\* First poll of a future: the provider call goes out, the waker is left behind.
PollCreated(f) ==
    /\ f.st = "created"
    /\ fetches' = (fetches \ {f}) \cup {[f EXCEPT !.st = "sent"]}
    /\ UNCHANGED <<db, answer, waiting, listeners>>

PollPending(f) ==
    /\ f.st = "sent"
    /\ UNCHANGED <<db, answer, waiting, listeners, fetches>>

\* Mutant: the listeners are notified, the response is not cached.
PollOk_NoInsert(f) ==
    /\ f.st = "ok"
    /\ fetches' = fetches \ {f}
    /\ \E v \in Resolved(f) : Reply(listeners[f.key], Ok(v))
    /\ listeners' = [listeners EXCEPT ![f.key] = {}]
    /\ UNCHANGED db

\* The response is cached, then every listener is notified and forgotten.
PollOk(f) ==
    /\ f.st = "ok"
    /\ fetches' = fetches \ {f}
    /\ \E v \in Resolved(f) :
          /\ db' = [db EXCEPT ![f.key] = v]
          /\ Reply(listeners[f.key], Ok(v))
    /\ listeners' = [listeners EXCEPT ![f.key] = {}]

\* Mutant: a failed request leaves its listeners registered.
PollErr_KeepListeners(f) ==
    /\ f.st = "err"
    /\ fetches' = fetches \ {f}
    /\ Reply(listeners[f.key], Failed("provider"))
    /\ UNCHANGED <<db, listeners>>

\* Mutant: a failed request forgets its listeners without notifying them.
PollErr_Silent(f) ==
    /\ f.st = "err"
    /\ fetches' = fetches \ {f}
    /\ listeners' = [listeners EXCEPT ![f.key] = {}]
    /\ UNCHANGED <<db, answer, waiting>>

PollErr(f) ==
    /\ f.st = "err"
    /\ fetches' = fetches \ {f}
    /\ Reply(listeners[f.key], Failed("provider"))
    /\ listeners' = [listeners EXCEPT ![f.key] = {}]
    /\ UNCHANGED db

PollFetch ==
    \E f \in fetches :
        /\ phase = "poll" /\ f.key \in toPoll
        /\ PollCreated(f) \/ PollPending(f) \/ PollOk(f) \/ PollErr(f)
        /\ toPoll' = toPoll \ {f.key}
        /\ UNCHANGED <<diskVars, handles, channel, sends, phase, queued, direct, pin, wakeVars>>

\* FullBlock, Transaction and AnyRequest answer their own sender and cache nothing.
PollDirect ==
    \E c \in Clients \cap toPoll :
        /\ phase = "poll"
        /\ \/ /\ direct[c] = "created"
              /\ direct' = [direct EXCEPT ![c] = "sent"]
              /\ UNCHANGED <<answer, waiting>>
           \/ /\ direct[c] = "sent"
              /\ UNCHANGED <<direct, answer, waiting>>
           \/ /\ direct[c] \in {"ok", "err"}
              /\ direct' = [direct EXCEPT ![c] = "none"]
              /\ Reply({c}, Failed(IF direct[c] = "ok" THEN "direct" ELSE "provider"))
        /\ toPoll' = toPoll \ {c}
        /\ UNCHANGED <<db, diskVars, handles, channel, sends, phase, queued, listeners,
                       fetches, pin, wakeVars>>

\* Mutant: poll returns Pending whatever it has received.
PollEnd_AlwaysPending ==
    /\ phase = "poll" /\ toPoll = {}
    /\ phase' = "asleep"
    /\ UNCHANGED <<db, diskVars, clientVars, channel, sends, queued, listeners, fetches,
                   direct, toPoll, pin, wakeVars>>

\* Return Pending only if nothing was received in this round of the loop.
PollEnd ==
    /\ phase = "poll" /\ toPoll = {}
    /\ phase' = IF queued = <<>> THEN "asleep" ELSE "drain"
    /\ UNCHANGED <<db, diskVars, clientVars, channel, sends, queued, listeners, fetches,
                   direct, toPoll, pin, wakeVars>>

\* The runtime drops the task while it is suspended (shutdown): every oneshot
\* sender it holds is dropped, so blocked callers return a receive error.
HandlerDropped ==
    /\ phase = "asleep"
    /\ phase' = "exited"
    /\ Reply({c \in Clients : waiting[c] # NoReq}, Failed("recv"))
    /\ channel' = <<>> /\ queued' = <<>>
    /\ listeners' = [k \in Keys |-> {}]
    /\ fetches' = {}
    /\ direct' = [c \in Clients |-> "none"]
    /\ UNCHANGED <<db, diskVars, handles, sends, toPoll, pin, wakeVars>>

-----------------------------------------------------------------------------
(* The provider                                                            *)

ProviderAnswersFetch(k) ==
    \E f \in fetches, r \in {"ok", "err"} :
        /\ f.key = k /\ f.st = "sent"
        /\ fetches' = (fetches \ {f}) \cup {[f EXCEPT !.st = r]}
        /\ woken' = TRUE
        /\ UNCHANGED <<db, diskVars, clientVars, channel, sends, phase, queued, listeners,
                       direct, toPoll, pin, rxArmed>>

ProviderAnswersDirect(c) ==
    \E r \in {"ok", "err"} :
        /\ direct[c] = "sent"
        /\ direct' = [direct EXCEPT ![c] = r]
        /\ woken' = TRUE
        /\ UNCHANGED <<db, diskVars, clientVars, channel, sends, phase, queued, listeners,
                       fetches, toPoll, pin, rxArmed>>

-----------------------------------------------------------------------------
ClientNext(c) ==
    \/ \E k \in Keys : Get(c, k)
    \/ GetUncached(c) \/ DoAnyRequest(c)
    \/ SetPinnedBlock(c) \/ InsertOrUpdate(c) \/ InsertOrUpdateStorage(c)
    \/ FlushCache(c) \/ CloneHandle(c) \/ DropHandle(c)

HandlerNext ==
    \/ PollStart \/ DrainOne \/ DrainEnd
    \/ RecvOne \/ RecvClosed \/ RecvPending
    \/ PollFetch \/ PollDirect \/ PollEnd

ProviderNext ==
    \/ \E k \in Keys : ProviderAnswersFetch(k)
    \/ \E c \in Clients : ProviderAnswersDirect(c)

Next ==
    \/ \E c \in Clients : ClientNext(c)
    \/ FlushOnDrop
    \/ HandlerNext
    \/ HandlerDropped
    \/ ProviderNext

Spec == Init /\ [][Next]_vars

\* The runtime keeps polling a woken task, every provider call resolves (the
\* transport times out), and a drop runs to its end.  Callers owe nothing: they
\* may stop asking.
Fairness ==
    /\ WF_vars(HandlerNext)
    /\ WF_vars(FlushOnDrop)
    /\ \A k \in Keys : WF_vars(ProviderAnswersFetch(k))
    /\ \A c \in Clients : WF_vars(ProviderAnswersDirect(c))

FairSpec == Spec /\ Fairness

-----------------------------------------------------------------------------
(* Properties                                                              *)

\* The type of every variable: what each field of BackendHandler and
\* SharedBackend may hold.
TypeOK ==
    /\ db \in [Keys -> Vals \cup {Absent}]
    /\ disk \in [Keys -> Vals \cup {Absent}]
    /\ flush \in {"held", "due", "done"}
    /\ handles \subseteq Clients
    /\ waiting \in [Clients -> Keys \cup {Direct, NoReq}]
    /\ answer \in [Clients -> [tag : {"none", "ok", "direct", "provider", "send", "recv"},
                               val : Vals \cup {Absent}]]
    /\ channel \in Seq(BackendRequest)
    /\ sends \in 0..MaxSends
    /\ phase \in {"asleep", "drain", "recv", "poll", "exited"}
    /\ queued \in Seq(BackendRequest)
    /\ listeners \in [Keys -> SUBSET Clients]
    /\ fetches \subseteq Fetch
    /\ direct \in [Clients -> FutureState \cup {"none"}]
    /\ toPoll \subseteq Keys \cup Clients
    /\ pin \in Pins
    /\ rxArmed \in BOOLEAN
    /\ woken \in BOOLEAN

\* request_account, request_account_storage and request_hash bundle duplicate
\* requests: a key never has two provider requests in flight.
OneFetchPerKey == \A f, g \in fetches : f.key = g.key => f = g

\* A key has listeners exactly while its provider request is in flight: nobody
\* listens to a request that will not complete, and no completed or failed
\* request leaves listeners that would block the next request for its key.
ListenersMatchFetches ==
    \A k \in Keys : listeners[k] # {} <=> \E f \in fetches : f.key = k

\* The places that hold the reply channel of a blocked client.
Places(c) ==
    {<<"channel", i>> : i \in {j \in DOMAIN channel :
                                channel[j].t = "get" /\ channel[j].client = c}}
    \cup {<<"queued", i>> : i \in {j \in DOMAIN queued :
                                queued[j].t = "get" /\ queued[j].client = c}}
    \cup {<<"listener", k>> : k \in {k \in Keys : c \in listeners[k]}}
    \cup {<<"direct", c>> : d \in {e \in {c} : direct[e] # "none"}}

\* Every blocked call is held in exactly one place from which it will be
\* answered, and a client that is not blocked is held in none: no call is
\* forgotten, answered twice, or answered on another client's behalf.
EachCallHeldOnce ==
    \A c \in Clients : Cardinality(Places(c)) = IF waiting[c] = NoReq THEN 0 ELSE 1

\* The handler never suspends with work it has not been told it will be woken
\* for: no message, no received request, no future left unpolled.
NoLostWakeup ==
    (phase = "asleep" /\ ~woken) =>
        /\ channel = <<>> /\ queued = <<>>
        /\ handles # {} /\ rxArmed
        /\ \A f \in fetches : f.st = "sent"
        /\ \A c \in Clients : direct[c] \in {"none", "sent"}

\* Once the last handle is gone and its drop has flushed, every value that came
\* from the provider and is still cached is in the file.
FlushKeepsFetched ==
    flush = "done" => \A k \in Keys : db[k] \in ChainVals => disk[k] = db[k]

\* A value handed to a caller is the one in the cache at that moment, whether it
\* was found there or fetched: on_request and poll never answer one thing and
\* cache another.
AnswersAreCached ==
    [][\A c \in Clients :
          (waiting[c] \in Keys /\ waiting'[c] = NoReq /\ answer'[c].tag = "ok")
              => db'[waiting[c]] = answer'[c].val]_vars

\* Repeated reads agree: a fetched value is never replaced by another fetched
\* value (of another pinned block), only by what a caller puts in.
FetchedValuesStable ==
    [][\A k \in Keys : db[k] \in ChainVals => db'[k] \in {db[k], Absent} \cup UserVals]_vars

\* Every blocked call returns: do_get_*, get_full_block, get_transaction and
\* do_any_request are answered, or fail once the handler is gone.
EveryCallReturns == \A c \in Clients : waiting[c] # NoReq ~> waiting[c] = NoReq

\* The handler finishes once the last SharedBackend is dropped, and the cache
\* is flushed.
HandlerFinishes == handles = {} ~> (phase = "exited" /\ flush = "done")

\* The backend implements the store its callers see: every answer is a hit, a
\* fill or a failure of the abstract store, and nothing else changes it.
Store == INSTANCE ForkStore WITH store <- db
ImplementsStore == Store!Spec

-----------------------------------------------------------------------------
(* What the documentation says and the code does not do                    *)

\* "Inserts or updates data for multiple addresses": once applied, the caller's
\* value is not replaced by one from the provider.
UserValuesNotOverwritten ==
    [][\A k \in Keys : db[k] \in UserVals => db'[k] \notin ChainVals]_vars
=============================================================================
