--------------------------- MODULE BrowserWallet ---------------------------
(***************************************************************************)
(* The browser wallet of crates/wallets: callers put requests in one of    *)
(* three queues and poll for a response until they time out; HTTP handlers *)
(* driven by the web page show the front request, store responses and      *)
(* update the connection.  Every lock acquisition is a step of its own, so *)
(* that what one task read can be stale when it acts on it.                *)
(***************************************************************************)
EXTENDS Integers, Sequences, FiniteSets, SequencesExt

CONSTANTS
    Calls,      \* calls to request_*, each with its own request id
    KindOf,     \* the queue of each call
    FromOf,     \* the account each transaction is to be sent from
    Wallets,    \* wallets that can be connected
    Handlers,   \* concurrent HTTP handlers
    Clones,     \* clones of the BrowserSigner
    None

Kinds == <<"tx", "sign", "key">>    \* the order in which a disconnect drains
KindSet == {"tx", "sign", "key"}

ASSUME WalletAssumption ==
    /\ KindOf \in [Calls -> KindSet]
    /\ FromOf \in [Calls -> Wallets]
    /\ None \notin Wallets /\ None \notin Calls

VARIABLES
    connection,     \* BrowserWalletState.connection
    queue,          \* RequestQueue.requests, per kind
    responses,      \* RequestQueue.responses, by request id
    shutting,       \* BrowserWalletState.shutting_down
    serverUp,       \* the axum server accepts requests
    drain,          \* set_connection(None): 0, or the next queue to drain
    signer,         \* BrowserSigner.address, cached when it was created
    clones,         \* clones of the signer not yet dropped
    stopping,       \* a dropped clone has spawned server.stop()
    pc,             \* where each call stands
    late,           \* the call's timeout has elapsed
    result,         \* what the call returned
    handler,        \* per HTTP handler: the checked response it is about to store
    raced           \* history: disconnected between the call's check and its enqueue

stateVars == <<connection, queue, responses, shutting, drain>>
signerVars == <<signer, clones, stopping, serverUp>>
callVars == <<pc, late, result>>
vars == <<stateVars, signerVars, callVars, handler, raced>>

NoResponse == [tag |-> "none", good |-> FALSE, by |-> None]
Disconnected == [tag |-> "disconnected", good |-> FALSE, by |-> None]
Rejection == [tag |-> "error", good |-> FALSE, by |-> None]
Value(good, w) == [tag |-> "value", good |-> good, by |-> w]
Response == [tag : {"none", "value", "error", "disconnected"}, good : BOOLEAN,
             by : Wallets \cup {None}]
Idle == [id |-> None, body |-> NoResponse]

InQueue(c) == \E i \in DOMAIN queue[KindOf[c]] : queue[KindOf[c]][i] = c
HasResponse(c) == responses[c].tag # "none"
Active == {c \in Calls : pc[c] \notin {"start", "done"}}

Init ==
    /\ connection = None
    /\ queue = [k \in KindSet |-> <<>>]
    /\ responses = [c \in Calls |-> NoResponse]
    /\ shutting = FALSE
    /\ serverUp = TRUE
    /\ drain = 0
    /\ signer = None
    /\ clones = Clones
    /\ stopping = FALSE
    /\ pc = [c \in Calls |-> "start"]
    /\ late = [c \in Calls |-> FALSE]
    /\ result = [c \in Calls |-> Idle.body]
    /\ handler = [h \in Handlers |-> Idle]
    /\ raced = {}

-----------------------------------------------------------------------------
(* The signer and the server's request_* calls                             *)

\* BrowserSigner::new polls until a wallet is connected and keeps its address.
SignerNew ==
    /\ signer = None /\ connection # None
    /\ signer' = connection
    /\ UNCHANGED <<stateVars, clones, stopping, serverUp, callVars, handler, raced>>

Returns(c, r) ==
    /\ pc' = [pc EXCEPT ![c] = "done"]
    /\ result' = [result EXCEPT ![c] = r]
    /\ late' = [late EXCEPT ![c] = FALSE]

Failure(tag) == [tag |-> tag, good |-> FALSE, by |-> None]

\* send_transaction_via_browser compares `from` with the cached address.
Mismatch(c) == KindOf[c] = "tx" /\ FromOf[c] # signer

\* The is_connected check of request_transaction, request_signing and
\* request_key_authorization; the last also refuses unsupported fields.
CheckConnected(c) ==
    /\ pc[c] = "start" /\ signer # None /\ clones # {}
    /\ \/ Mismatch(c) /\ Returns(c, Failure("mismatch"))
       \/ ~Mismatch(c) /\ connection = None /\ Returns(c, Failure("not_connected"))
       \/ ~Mismatch(c) /\ connection # None /\ KindOf[c] = "key" /\ Returns(c, Failure("unsupported"))
       \/ /\ ~Mismatch(c) /\ connection # None
          /\ pc' = [pc EXCEPT ![c] = "checked"]
          /\ UNCHANGED <<late, result>>
    /\ UNCHANGED <<stateVars, signerVars, handler, raced>>

\* add_*_request, under the queue's own lock.
AddRequest(c) ==
    /\ pc[c] = "checked"
    /\ queue' = [queue EXCEPT ![KindOf[c]] = Append(@, c)]
    /\ pc' = [pc EXCEPT ![c] = "polling"]
    /\ UNCHANGED <<connection, responses, shutting, drain, signerVars, late, result, handler, raced>>

\* Mutant: a returned key authorization is not checked against the request.
Outcome_Unchecked(c) ==
    IF responses[c].tag # "value" THEN Failure("rejected") ELSE responses[c]

\* What a response means to its caller: request_key_authorization decodes the
\* value, compares the payload and recovers the signer.
Outcome(c) ==
    IF responses[c].tag # "value" THEN Failure("rejected")
    ELSE IF KindOf[c] = "key" /\ (~responses[c].good \/ responses[c].by # signer)
    THEN Failure("invalid")
    ELSE responses[c]

\* get_*_response removes what it returns.
TakeResponse(c) ==
    /\ pc[c] = "polling" /\ HasResponse(c)
    /\ responses' = [responses EXCEPT ![c] = NoResponse]
    /\ Returns(c, Outcome(c))
    /\ UNCHANGED <<connection, queue, shutting, drain, signerVars, handler, raced>>

Elapse(c) ==
    /\ pc[c] = "polling" /\ ~late[c]
    /\ late' = [late EXCEPT ![c] = TRUE]
    /\ UNCHANGED <<stateVars, signerVars, pc, result, handler, raced>>

\* Mutant: a disconnected caller does not time out, as the drain answers it.
Expire_WhileConnected(c) ==
    /\ pc[c] = "polling" /\ ~HasResponse(c) /\ late[c] /\ connection # None
    /\ pc' = [pc EXCEPT ![c] = "expired"]
    /\ UNCHANGED <<stateVars, signerVars, late, result, handler, raced>>

\* No response yet and the time is up; the removal takes the lock again.
Expire(c) ==
    /\ pc[c] = "polling" /\ ~HasResponse(c) /\ late[c]
    /\ pc' = [pc EXCEPT ![c] = "expired"]
    /\ UNCHANGED <<stateVars, signerVars, late, result, handler, raced>>

\* Mutant: a call that times out leaves its request in the queue.
RemoveRequest_Forgotten(c) ==
    /\ pc[c] = "expired"
    /\ Returns(c, Failure("timeout"))
    /\ UNCHANGED <<stateVars, signerVars, handler, raced>>

RemoveRequest(c) ==
    /\ pc[c] = "expired"
    /\ queue' = [queue EXCEPT ![KindOf[c]] = RemoveFirst(@, c)]
    /\ Returns(c, Failure("timeout"))
    /\ UNCHANGED <<connection, responses, shutting, drain, signerVars, handler, raced>>

-----------------------------------------------------------------------------
(* HTTP handlers                                                           *)

\* A body the handlers accept: exactly one of value and error, and no zero
\* hash for a transaction.
Accepted(c) ==
    {Rejection} \cup {Value(TRUE, w) : w \in Wallets}
    \cup IF KindOf[c] = "tx" THEN {} ELSE {Value(FALSE, w) : w \in Wallets}

\* post_*_response: has_request under the lock, then validation.  A refused
\* body changes nothing.
PostCheck(h, c) ==
    /\ serverUp /\ handler[h] = Idle
    /\ InQueue(c)
    /\ \E r \in Accepted(c) : handler' = [handler EXCEPT ![h] = [id |-> c, body |-> r]]
    /\ UNCHANGED <<stateVars, signerVars, callVars, raced>>

\* Mutant: the answered request stays in the queue.
PostStore_KeepRequest(h) ==
    /\ handler[h] # Idle
    /\ responses' = [responses EXCEPT ![handler[h].id] = handler[h].body]
    /\ handler' = [handler EXCEPT ![h] = Idle]
    /\ UNCHANGED <<connection, queue, shutting, drain, signerVars, callVars, raced>>

\* add_*_response: a new lock acquisition; the request is not looked up again.
PostStore(h) ==
    /\ handler[h] # Idle
    /\ LET c == handler[h].id IN
          /\ responses' = [responses EXCEPT ![c] = handler[h].body]
          /\ queue' = [queue EXCEPT ![KindOf[c]] = RemoveFirst(@, c)]
    /\ handler' = [handler EXCEPT ![h] = Idle]
    /\ UNCHANGED <<connection, shutting, drain, signerVars, callVars, raced>>

\* post_connection_update with a wallet: connect or switch.
Connect(w) ==
    /\ serverUp /\ connection # w
    /\ connection' = w
    /\ UNCHANGED <<queue, responses, shutting, drain, signerVars, callVars, handler, raced>>

\* set_connection(None): the connection is cleared, then each queue is drained
\* under its own lock.
Disconnect ==
    /\ serverUp /\ drain = 0
    /\ connection' = None
    /\ drain' = 1
    /\ raced' = raced \cup {c \in Calls : pc[c] = "checked"}
    /\ UNCHANGED <<queue, responses, shutting, signerVars, callVars, handler>>

\* Mutant: only the transaction queue is drained.
DrainQueue_TxOnly ==
    /\ drain # 0
    /\ LET k == Kinds[drain] IN
          /\ responses' = [c \in Calls |-> IF c \in ToSet(queue[k]) THEN Disconnected
                                           ELSE responses[c]]
          /\ queue' = [queue EXCEPT ![k] = <<>>]
    /\ drain' = 0
    /\ UNCHANGED <<connection, shutting, signerVars, callVars, handler, raced>>

DrainQueue ==
    /\ drain # 0
    /\ LET k == Kinds[drain] IN
          /\ responses' = [c \in Calls |-> IF c \in ToSet(queue[k]) THEN Disconnected
                                           ELSE responses[c]]
          /\ queue' = [queue EXCEPT ![k] = <<>>]
    /\ drain' = IF drain = Len(Kinds) THEN 0 ELSE drain + 1
    /\ UNCHANGED <<connection, shutting, signerVars, callVars, handler, raced>>

-----------------------------------------------------------------------------
(* Shutdown                                                                *)

\* Drop for BrowserSigner spawns server.stop(), whichever clone is dropped.  A
\* clone that is in use is borrowed by its call.
DropSigner(s) ==
    /\ signer # None /\ s \in clones
    /\ clones # {s} \/ Active = {}
    /\ clones' = clones \ {s}
    /\ stopping' = TRUE
    /\ UNCHANGED <<stateVars, signer, serverUp, callVars, handler, raced>>

\* stop(): first the flag, then, under the lock, the shutdown signal.
SetShuttingDown ==
    /\ stopping /\ ~shutting
    /\ shutting' = TRUE
    /\ UNCHANGED <<connection, queue, responses, drain, signerVars, callVars, handler, raced>>

SendShutdown ==
    /\ stopping /\ shutting /\ serverUp
    /\ serverUp' = FALSE
    /\ UNCHANGED <<stateVars, signer, clones, stopping, callVars, handler, raced>>

-----------------------------------------------------------------------------
CallNext(c) ==
    CheckConnected(c) \/ AddRequest(c) \/ TakeResponse(c) \/ Expire(c) \/ RemoveRequest(c)

Next ==
    \/ SignerNew
    \/ \E c \in Calls : CallNext(c) \/ Elapse(c)
    \/ \E h \in Handlers : PostStore(h) \/ \E c \in Calls : PostCheck(h, c)
    \/ \E w \in Wallets : Connect(w)
    \/ Disconnect \/ DrainQueue
    \/ \E s \in Clones : DropSigner(s)
    \/ SetShuttingDown \/ SendShutdown

Spec == Init /\ [][Next]_vars

\* A call, once started, is polled by the runtime and its clock runs.  The page
\* and its wallet owe nothing.
FairSpec ==
    /\ Spec
    /\ \A c \in Calls :
          /\ WF_vars(AddRequest(c) \/ TakeResponse(c) \/ Expire(c) \/ RemoveRequest(c))
          /\ WF_vars(Elapse(c))

-----------------------------------------------------------------------------
(* Properties                                                              *)

Results == {"none", "value", "mismatch", "not_connected", "unsupported", "rejected",
            "invalid", "timeout"}

\* The type of every variable.
TypeOK ==
    /\ connection \in Wallets \cup {None}
    /\ queue \in [KindSet -> Seq(Calls)]
    /\ responses \in [Calls -> Response]
    /\ shutting \in BOOLEAN /\ serverUp \in BOOLEAN /\ stopping \in BOOLEAN
    /\ drain \in 0..Len(Kinds)
    /\ signer \in Wallets \cup {None}
    /\ clones \subseteq Clones
    /\ pc \in [Calls -> {"start", "checked", "polling", "expired", "done"}]
    /\ late \in [Calls -> BOOLEAN]
    /\ result \in [Calls -> [tag : Results, good : BOOLEAN, by : Wallets \cup {None}]]
    /\ handler \in [Handlers -> [id : Calls \cup {None}, body : Response]]
    /\ raced \subseteq Calls

\* A queue never holds the request of a call that has returned, nor one request
\* twice: the page is not shown what nobody waits for any more.
QueuesHoldLiveCalls ==
    \A k \in KindSet : \A i \in DOMAIN queue[k] :
        /\ KindOf[queue[k][i]] = k
        /\ pc[queue[k][i]] \in {"polling", "expired"}
        /\ \A j \in DOMAIN queue[k] : queue[k][i] = queue[k][j] => i = j

\* A polling call is waiting for the page or has its response ready, never both
\* and never neither: no interleaving of answers, duplicates and disconnects
\* loses its request or leaves it to be answered a second time.
RequestXorResponse ==
    \A c \in Calls : pc[c] = "polling" => (InQueue(c) <=> ~HasResponse(c))

\* After a disconnect has drained the queues, the only requests left waiting
\* are those of calls that had checked the connection before it was cleared and
\* queued themselves after.
OnlyRacersOutliveDisconnect ==
    (connection = None /\ drain = 0) => \A c \in Calls : InQueue(c) => c \in raced

\* request_key_authorization returns only what the signer's account signed over
\* the unmodified payload, even if another wallet was connected meanwhile.
KeyAuthorizationVerified ==
    \A c \in Calls : (KindOf[c] = "key" /\ result[c].tag = "value") =>
                        (result[c].good /\ result[c].by = signer)

\* Every call returns, whatever the page does: answered, disconnected or timed
\* out, also after the server has stopped.
EveryCallReturns == \A c \in Calls : pc[c] = "checked" ~> pc[c] = "done"

-----------------------------------------------------------------------------
(* What the documentation says and the code does not do                    *)

\* "When the new connection is `None`, all pending transaction and signing
\* requests are failed ... so that in-flight callers return immediately rather
\* than waiting for their per-request timeout."
DisconnectFailsAllPending ==
    (connection = None /\ drain = 0) => \A k \in KindSet : queue[k] = <<>>
=============================================================================
