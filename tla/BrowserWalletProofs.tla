------------------------- MODULE BrowserWalletProofs -------------------------
(***************************************************************************)
(* Proofs about BrowserWallet, for any number of calls of any kind,        *)
(* wallets, concurrent HTTP handlers and clones of the signer.             *)
(***************************************************************************)
EXTENDS BrowserWallet, SequenceTheorems, TLAPS

-----------------------------------------------------------------------------
(* Queues: sequences without duplicates                                    *)

Distinct(s) == \A i, j \in DOMAIN s : s[i] = s[j] => i = j

\* remove_request finds the one position of the request.
LEMMA RemoveFirstOf ==
    ASSUME NEW S, NEW s \in Seq(S), Distinct(s), NEW n \in 1..Len(s)
    PROVE  RemoveFirst(s, s[n]) = RemoveAt(s, n)
  <1> DEFINE I == {i \in 1..Len(s) : s[i] = s[n]}
  <1>1. I = {n}
    BY DEF Distinct
  <1>2. Min(I) = n
    BY <1>1 DEF Min
  <1>3. SelectInSeq(s, LAMBDA v : v = s[n]) = n
    BY <1>1, <1>2 DEF SelectInSeq
  <1> QED BY <1>3 DEF RemoveFirst

LEMMA RemoveAtMeans ==
    ASSUME NEW S, NEW s \in Seq(S), NEW n \in 1..Len(s)
    PROVE  LET t == RemoveAt(s, n)
           IN /\ t \in Seq(S) /\ Len(t) = Len(s) - 1
              /\ \A i \in 1..Len(t) : t[i] = IF i < n THEN s[i] ELSE s[i + 1]
  <1> DEFINE a == SubSeq(s, 1, n - 1)
             b == SubSeq(s, n + 1, Len(s))
  <1>1. Len(s) \in Nat /\ \A i \in 1..Len(s) : s[i] \in S
    BY LenProperties, ElementOfSeq
  <1>2. a \in Seq(S) /\ Len(a) = n - 1 /\ \A i \in 1..n-1 : a[i] = s[i]
    BY <1>1, SubSeqProperties
  <1>3. b \in Seq(S) /\ Len(b) = Len(s) - n /\ \A i \in 1..Len(s)-n : b[i] = s[n + i]
    BY <1>1, SubSeqProperties
  <1> HIDE DEF a, b
  <1>4. /\ a \o b \in Seq(S)
        /\ Len(a \o b) = Len(s) - 1
        /\ \A i \in 1..Len(s)-1 : (a \o b)[i] = IF i <= n - 1 THEN a[i] ELSE b[i - (n - 1)]
    BY <1>1, <1>2, <1>3, ConcatProperties
  <1>5. RemoveAt(s, n) = a \o b
    BY DEF RemoveAt, a, b
  <1>6. ASSUME NEW i \in 1..Len(s)-1
        PROVE  (a \o b)[i] = IF i < n THEN s[i] ELSE s[i + 1]
    <2>1. Len(s) \in Nat /\ n \in Int /\ i \in Int
      BY <1>1
    <2>2. CASE i < n
      <3>1. i \in 1..n-1 /\ i <= n - 1
        BY <2>1, <2>2
      <3>2. (a \o b)[i] = a[i]
        BY <1>4, <3>1
      <3> QED BY <1>2, <2>2, <3>1, <3>2
    <2>3. CASE ~(i < n)
      <3>1. ~(i <= n - 1) /\ i - (n - 1) \in 1..Len(s)-n
        BY <2>1, <2>3
      <3>2. (a \o b)[i] = b[i - (n - 1)]
        BY <1>4, <3>1
      <3>3. b[i - (n - 1)] = s[n + (i - (n - 1))] /\ n + (i - (n - 1)) = i + 1
        BY <1>3, <2>1, <3>1
      <3> QED BY <2>3, <3>2, <3>3
    <2> QED BY <2>2, <2>3
  <1> QED BY <1>4, <1>5, <1>6

\* What is left after a request is removed, in the queue or not.
LEMMA RemoveFirstMeans ==
    ASSUME NEW S, NEW s \in Seq(S), Distinct(s), NEW e
    PROVE  /\ RemoveFirst(s, e) \in Seq(S)
           /\ Distinct(RemoveFirst(s, e))
           /\ ToSet(RemoveFirst(s, e)) = ToSet(s) \ {e}
  <1>1. CASE \E n \in 1..Len(s) : s[n] = e
    <2>1. PICK n \in 1..Len(s) : s[n] = e
      BY <1>1
    <2> DEFINE t == RemoveFirst(s, e)
    <2>2. /\ t \in Seq(S) /\ Len(t) = Len(s) - 1
          /\ \A i \in 1..Len(t) : t[i] = IF i < n THEN s[i] ELSE s[i + 1]
      BY <2>1, RemoveFirstOf, RemoveAtMeans
    <2>3. DOMAIN t = 1..Len(t) /\ DOMAIN s = 1..Len(s) /\ Len(s) \in Nat
      BY <2>2, LenProperties
    <2> HIDE DEF t
    <2>4. Distinct(t)
      BY <2>1, <2>2, <2>3 DEF Distinct
    <2>5. ASSUME NEW x \in ToSet(t) PROVE x \in ToSet(s) \ {e}
      <3>1. PICK i \in 1..Len(t) : t[i] = x
        BY <2>3 DEF ToSet
      <3>2. PICK j \in 1..Len(s) : j # n /\ s[j] = x
        BY <2>2, <2>3, <3>1
      <3> QED BY <2>1, <2>3, <3>2 DEF ToSet, Distinct
    <2>6. ASSUME NEW x \in ToSet(s) \ {e} PROVE x \in ToSet(t)
      <3>1. PICK j \in 1..Len(s) : s[j] = x
        BY <2>3 DEF ToSet
      <3>2. j # n
        BY <2>1, <3>1
      <3>3. CASE j < n
        BY <2>2, <2>3, <3>1, <3>3 DEF ToSet
      <3>4. CASE j > n
        <4>1. j - 1 \in 1..Len(t) /\ t[j - 1] = s[j]
          BY <2>2, <2>3, <3>4
        <4> QED BY <2>3, <3>1, <4>1 DEF ToSet
      <3> QED BY <3>2, <3>3, <3>4, <2>3
    <2> QED BY <2>2, <2>4, <2>5, <2>6 DEF t
  <1>2. CASE ~\E n \in 1..Len(s) : s[n] = e
    <2>1. RemoveFirst(s, e) = s
      BY <1>2 DEF RemoveFirst
    <2>2. e \notin ToSet(s)
      BY <1>2, LenProperties DEF ToSet
    <2> QED BY <2>1, <2>2
  <1> QED BY <1>1, <1>2

LEMMA AppendMeans ==
    ASSUME NEW S, NEW s \in Seq(S), Distinct(s), NEW e \in S, e \notin ToSet(s)
    PROVE  /\ Append(s, e) \in Seq(S)
           /\ Distinct(Append(s, e))
           /\ ToSet(Append(s, e)) = ToSet(s) \cup {e}
  <1> DEFINE t == Append(s, e)
  <1>1. /\ t \in Seq(S) /\ Len(t) = Len(s) + 1
        /\ \A i \in 1..Len(s) : t[i] = s[i]
        /\ t[Len(s) + 1] = e
    BY AppendProperties
  <1>2. DOMAIN t = 1..Len(s)+1 /\ DOMAIN s = 1..Len(s) /\ Len(s) \in Nat
    BY <1>1, LenProperties
  <1> HIDE DEF t
  <1>3. Distinct(t)
    BY <1>1, <1>2 DEF Distinct, ToSet
  <1>4. ToSet(t) = ToSet(s) \cup {e}
    BY <1>1, <1>2 DEF ToSet
  <1> QED BY <1>1, <1>3, <1>4 DEF t

-----------------------------------------------------------------------------
(* Type correctness                                                        *)

LEMMA NoResponsesTyped ==
    NoResponse \in Response /\ Disconnected \in Response /\ Idle = [id |-> None, body |-> NoResponse]
  BY DEF Response, NoResponse, Disconnected, Idle

LEMMA AcceptedTyped ==
    ASSUME NEW c \in Calls, NEW r \in Accepted(c)
    PROVE  r \in Response /\ r.tag # "none"
  <1>1. CASE r = Rejection
    BY <1>1 DEF Response, Rejection
  <1>2. ASSUME NEW good \in BOOLEAN, NEW w \in Wallets, r = Value(good, w)
        PROVE  r \in Response /\ r.tag # "none"
    BY <1>2 DEF Response, Value
  <1> QED BY <1>1, <1>2 DEF Accepted

LEMMA OutcomeTyped ==
    ASSUME TypeOK, NEW c \in Calls
    PROVE  Outcome(c) \in [tag : Results, good : BOOLEAN, by : Wallets \cup {None}]
  <1>1. responses[c] \in Response
    BY DEF TypeOK
  <1> QED BY <1>1 DEF Outcome, Failure, Response, Results

LEMMA KindsTyped == Len(Kinds) = 3 /\ \A n \in 1..3 : Kinds[n] \in KindSet
  BY DEF Kinds, KindSet

-----------------------------------------------------------------------------
(* The queues                                                              *)

\* Every request is once in the queue of its kind.
QueuesSound ==
    /\ queue \in [KindSet -> Seq(Calls)]
    /\ \A k \in KindSet : Distinct(queue[k])
    /\ \A k \in KindSet : \A c \in ToSet(queue[k]) : KindOf[c] = k

LEMMA InQueueMeans ==
    ASSUME NEW c
    PROVE  /\ InQueue(c) <=> c \in ToSet(queue[KindOf[c]])
           /\ InQueue(c)' <=> c \in ToSet(queue'[KindOf[c]])
  BY DEF InQueue, ToSet

LEMMA Enqueued ==
    ASSUME QueuesSound, NEW c \in Calls, ~InQueue(c),
           queue' = [queue EXCEPT ![KindOf[c]] = Append(@, c)]
    PROVE  QueuesSound' /\ \A d \in Calls : InQueue(d)' <=> InQueue(d) \/ d = c
  <1> DEFINE k == KindOf[c]
  <1>1. k \in KindSet /\ c \notin ToSet(queue[k])
    BY WalletAssumption, InQueueMeans
  <1>2. /\ queue'[k] \in Seq(Calls) /\ Distinct(queue'[k])
        /\ ToSet(queue'[k]) = ToSet(queue[k]) \cup {c}
    BY <1>1, AppendMeans DEF QueuesSound
  <1>3. QueuesSound'
    BY <1>1, <1>2 DEF QueuesSound
  <1>4. ASSUME NEW d \in Calls PROVE InQueue(d)' <=> InQueue(d) \/ d = c
    BY <1>1, <1>2, InQueueMeans, WalletAssumption DEF QueuesSound
  <1> QED BY <1>3, <1>4

LEMMA Removed ==
    ASSUME QueuesSound, NEW c \in Calls,
           queue' = [queue EXCEPT ![KindOf[c]] = RemoveFirst(@, c)]
    PROVE  QueuesSound' /\ \A d \in Calls : InQueue(d)' <=> InQueue(d) /\ d # c
  <1> DEFINE k == KindOf[c]
  <1>1. k \in KindSet
    BY WalletAssumption
  <1>2. /\ queue'[k] \in Seq(Calls) /\ Distinct(queue'[k])
        /\ ToSet(queue'[k]) = ToSet(queue[k]) \ {c}
    BY <1>1, RemoveFirstMeans DEF QueuesSound
  <1>3. QueuesSound'
    BY <1>1, <1>2 DEF QueuesSound
  <1>4. ASSUME NEW d \in Calls PROVE InQueue(d)' <=> InQueue(d) /\ d # c
    BY <1>1, <1>2, InQueueMeans, WalletAssumption DEF QueuesSound
  <1> QED BY <1>3, <1>4

LEMMA Drained ==
    ASSUME QueuesSound, NEW k \in KindSet, queue' = [queue EXCEPT ![k] = <<>>]
    PROVE  /\ QueuesSound'
           /\ \A d \in Calls : InQueue(d)' <=> InQueue(d) /\ KindOf[d] # k
           /\ \A d \in Calls : d \in ToSet(queue[k]) <=> InQueue(d) /\ KindOf[d] = k
  <1>1. queue'[k] = <<>> /\ ToSet(<<>>) = {} /\ Distinct(<<>>) /\ <<>> \in Seq(Calls)
    BY DEF QueuesSound, ToSet, Distinct
  <1>2. QueuesSound'
    BY <1>1 DEF QueuesSound
  <1>3. ASSUME NEW d \in Calls PROVE InQueue(d)' <=> InQueue(d) /\ KindOf[d] # k
    BY <1>1, InQueueMeans, WalletAssumption DEF QueuesSound
  <1>4. ASSUME NEW d \in Calls PROVE d \in ToSet(queue[k]) <=> InQueue(d) /\ KindOf[d] = k
    BY InQueueMeans DEF QueuesSound
  <1> QED BY <1>2, <1>3, <1>4

LEMMA QueuesKept ==
    ASSUME queue' = queue
    PROVE  /\ QueuesSound => QueuesSound'
           /\ \A d \in Calls : InQueue(d)' <=> InQueue(d)
  BY InQueueMeans DEF QueuesSound

-----------------------------------------------------------------------------
(* The inductive invariant                                                 *)

\* Only a call that polls, or is about to give up, is in a queue.
QueuedWait == \A c \in Calls : InQueue(c) => pc[c] \in {"polling", "expired"}

\* A handler is about to store an answer to a call that was once queued.
HandlersAsked ==
    \A h \in Handlers :
        handler[h] # Idle =>
            /\ handler[h].id \in Calls /\ handler[h].body.tag # "none"
            /\ pc[handler[h].id] \in {"polling", "expired", "done"}

\* Nothing answers a call before it is queued.
UnaskedUnanswered ==
    \A c \in Calls : pc[c] \in {"start", "checked"} => ~HasResponse(c)

\* What each call waits for.
Waiting ==
    QueuesSound /\ QueuedWait /\ RequestXorResponse /\ HandlersAsked /\ UnaskedUnanswered

\* While disconnected, what is in a queue the drain has passed, and what is still
\* to be queued, belongs to a call that raced with the disconnect.
RacersTracked ==
    connection = None =>
        /\ \A c \in Calls : pc[c] = "checked" => c \in raced
        /\ \A c \in Calls : InQueue(c) => \/ c \in raced
                                          \/ drain # 0 /\ \E n \in drain..3 : Kinds[n] = KindOf[c]

\* The signer's address is there before any call and never changes after.
SignerFirst ==
    signer = None => \A c \in Calls : pc[c] = "start" /\ result[c].tag = "none"

WalletInv == TypeOK /\ Waiting /\ RacersTracked /\ SignerFirst /\ KeyAuthorizationVerified

LEMMA InvInit == Init => WalletInv
  <1> SUFFICES ASSUME Init PROVE WalletInv
    OBVIOUS
  <1>1. TypeOK
    <2>1. drain \in 0..Len(Kinds) /\ queue \in [KindSet -> Seq(Calls)] /\ clones \subseteq Clones
      BY KindsTyped DEF Init
    <2>2. responses \in [Calls -> Response]
      BY NoResponsesTyped DEF Init
    <2>3. result \in [Calls -> [tag : Results, good : BOOLEAN, by : Wallets \cup {None}]]
      BY NoResponsesTyped DEF Init, NoResponse, Results
    <2>4. handler \in [Handlers -> [id : Calls \cup {None}, body : Response]]
      BY NoResponsesTyped DEF Init
    <2> QED BY <2>1, <2>2, <2>3, <2>4 DEF Init, TypeOK
  <1>2. QueuesSound /\ \A c \in Calls : ~InQueue(c)
    BY InQueueMeans, WalletAssumption DEF Init, QueuesSound, Distinct, ToSet
  <1>3. Waiting
    BY <1>2 DEF Init, Waiting, QueuedWait, RequestXorResponse, HandlersAsked, UnaskedUnanswered,
                HasResponse, NoResponse
  <1>4. RacersTracked
    BY <1>2 DEF Init, RacersTracked
  <1>5. SignerFirst /\ KeyAuthorizationVerified
    BY NoResponsesTyped DEF Init, SignerFirst, KeyAuthorizationVerified, NoResponse
  <1> QED BY <1>1, <1>3, <1>4, <1>5 DEF WalletInv

\* The actions that touch neither queues, responses, calls' places nor handlers.
LEMMA QuietWaiting ==
    ASSUME Waiting, UNCHANGED <<queue, responses, pc, handler>>
    PROVE  Waiting'
  <1>1. QueuesSound' /\ \A c \in Calls : InQueue(c)' <=> InQueue(c)
    BY QueuesKept DEF Waiting
  <1> QED BY <1>1 DEF Waiting, QueuedWait, RequestXorResponse, HandlersAsked, UnaskedUnanswered,
                      HasResponse

LEMMA CheckConnectedWaiting ==
    ASSUME TypeOK, Waiting, NEW c \in Calls, CheckConnected(c)
    PROVE  Waiting'
  <1>1. /\ pc[c] = "start" /\ queue' = queue /\ responses' = responses /\ handler' = handler
        /\ \E p \in {"checked", "done"} : pc' = [pc EXCEPT ![c] = p]
    BY DEF CheckConnected, Returns, stateVars
  <1>2. QueuesSound' /\ \A d \in Calls : InQueue(d)' <=> InQueue(d)
    BY <1>1, QueuesKept DEF Waiting
  <1>3. /\ ~InQueue(c) /\ ~HasResponse(c)
        /\ \A h \in Handlers : handler[h] # Idle => handler[h].id # c
    BY <1>1 DEF Waiting, QueuedWait, UnaskedUnanswered, HandlersAsked
  <1> QED BY <1>1, <1>2, <1>3 DEF TypeOK, Waiting, QueuedWait, RequestXorResponse, HandlersAsked,
                                  UnaskedUnanswered, HasResponse

LEMMA AddRequestWaiting ==
    ASSUME TypeOK, Waiting, NEW c \in Calls, AddRequest(c)
    PROVE  Waiting'
  <1>1. /\ pc[c] = "checked" /\ pc' = [pc EXCEPT ![c] = "polling"]
        /\ responses' = responses /\ handler' = handler
        /\ queue' = [queue EXCEPT ![KindOf[c]] = Append(@, c)]
    BY DEF AddRequest
  <1>2. /\ ~InQueue(c) /\ ~HasResponse(c)
        /\ \A h \in Handlers : handler[h] # Idle => handler[h].id # c
    BY <1>1 DEF Waiting, QueuedWait, UnaskedUnanswered, HandlersAsked
  <1>3. QueuesSound' /\ \A d \in Calls : InQueue(d)' <=> InQueue(d) \/ d = c
    BY <1>1, <1>2, Enqueued DEF Waiting
  <1> QED BY <1>1, <1>2, <1>3 DEF TypeOK, Waiting, QueuedWait, RequestXorResponse, HandlersAsked,
                                  UnaskedUnanswered, HasResponse

LEMMA TakeResponseWaiting ==
    ASSUME TypeOK, Waiting, NEW c \in Calls, TakeResponse(c)
    PROVE  Waiting'
  <1>1. /\ pc[c] = "polling" /\ HasResponse(c) /\ pc' = [pc EXCEPT ![c] = "done"]
        /\ responses' = [responses EXCEPT ![c] = NoResponse]
        /\ queue' = queue /\ handler' = handler
    BY DEF TakeResponse, Returns
  <1>2. QueuesSound' /\ \A d \in Calls : InQueue(d)' <=> InQueue(d)
    BY <1>1, QueuesKept DEF Waiting
  <1>3. ~InQueue(c)
    BY <1>1 DEF Waiting, RequestXorResponse
  <1> QED BY <1>1, <1>2, <1>3 DEF TypeOK, Waiting, QueuedWait, RequestXorResponse, HandlersAsked,
                                  UnaskedUnanswered, HasResponse

LEMMA ExpireWaiting ==
    ASSUME TypeOK, Waiting, NEW c \in Calls, Expire(c)
    PROVE  Waiting'
  <1>1. /\ pc[c] = "polling" /\ pc' = [pc EXCEPT ![c] = "expired"]
        /\ responses' = responses /\ queue' = queue /\ handler' = handler
    BY DEF Expire, stateVars
  <1>2. QueuesSound' /\ \A d \in Calls : InQueue(d)' <=> InQueue(d)
    BY <1>1, QueuesKept DEF Waiting
  <1> QED BY <1>1, <1>2 DEF TypeOK, Waiting, QueuedWait, RequestXorResponse, HandlersAsked,
                            UnaskedUnanswered, HasResponse

LEMMA RemoveRequestWaiting ==
    ASSUME TypeOK, Waiting, NEW c \in Calls, RemoveRequest(c)
    PROVE  Waiting'
  <1>1. /\ pc[c] = "expired" /\ pc' = [pc EXCEPT ![c] = "done"]
        /\ responses' = responses /\ handler' = handler
        /\ queue' = [queue EXCEPT ![KindOf[c]] = RemoveFirst(@, c)]
    BY DEF RemoveRequest, Returns
  <1>2. QueuesSound' /\ \A d \in Calls : InQueue(d)' <=> InQueue(d) /\ d # c
    BY <1>1, Removed DEF Waiting
  <1> QED BY <1>1, <1>2 DEF TypeOK, Waiting, QueuedWait, RequestXorResponse, HandlersAsked,
                            UnaskedUnanswered, HasResponse

LEMMA PostCheckWaiting ==
    ASSUME TypeOK, Waiting, NEW h \in Handlers, NEW c \in Calls, PostCheck(h, c)
    PROVE  Waiting'
  <1>1. PICK r \in Accepted(c) : handler' = [handler EXCEPT ![h] = [id |-> c, body |-> r]]
    BY DEF PostCheck
  <1>2. InQueue(c) /\ pc' = pc /\ responses' = responses /\ queue' = queue
    BY DEF PostCheck, stateVars, callVars
  <1>3. QueuesSound' /\ \A d \in Calls : InQueue(d)' <=> InQueue(d)
    BY <1>2, QueuesKept DEF Waiting
  <1>4. r.tag # "none" /\ pc[c] \in {"polling", "expired"}
    BY <1>2, AcceptedTyped DEF Waiting, QueuedWait
  <1>5. HandlersAsked'
    BY <1>1, <1>2, <1>4 DEF TypeOK, Waiting, HandlersAsked
  <1> QED BY <1>2, <1>3, <1>5 DEF Waiting, QueuedWait, RequestXorResponse, UnaskedUnanswered,
                                  HasResponse

LEMMA PostStoreWaiting ==
    ASSUME TypeOK, Waiting, NEW h \in Handlers, PostStore(h)
    PROVE  Waiting'
  <1> DEFINE c == handler[h].id
  <1>1. /\ handler[h] # Idle /\ handler' = [handler EXCEPT ![h] = Idle] /\ pc' = pc
        /\ responses' = [responses EXCEPT ![c] = handler[h].body]
        /\ queue' = [queue EXCEPT ![KindOf[c]] = RemoveFirst(@, c)]
    BY DEF PostStore, callVars
  <1>2. c \in Calls /\ handler[h].body.tag # "none" /\ pc[c] \in {"polling", "expired", "done"}
    BY <1>1 DEF Waiting, HandlersAsked
  <1>3. QueuesSound' /\ \A d \in Calls : InQueue(d)' <=> InQueue(d) /\ d # c
    BY <1>1, <1>2, Removed DEF Waiting
  <1>4. HandlersAsked'
    BY <1>1 DEF TypeOK, Waiting, HandlersAsked
  <1> HIDE DEF c
  <1> QED BY <1>1, <1>2, <1>3, <1>4 DEF TypeOK, Waiting, QueuedWait, RequestXorResponse,
                                        UnaskedUnanswered, HasResponse

LEMMA DrainQueueWaiting ==
    ASSUME TypeOK, Waiting, DrainQueue
    PROVE  Waiting'
  <1> DEFINE k == Kinds[drain]
  <1>1. /\ responses' = [c \in Calls |-> IF c \in ToSet(queue[k]) THEN Disconnected ELSE responses[c]]
        /\ queue' = [queue EXCEPT ![k] = <<>>]
        /\ pc' = pc /\ handler' = handler
    BY DEF DrainQueue, callVars
  <1>2. k \in KindSet
    BY KindsTyped DEF TypeOK, DrainQueue
  <1> HIDE DEF k
  <1>3. /\ QueuesSound'
        /\ \A d \in Calls : InQueue(d)' <=> InQueue(d) /\ KindOf[d] # k
        /\ \A d \in Calls : d \in ToSet(queue[k]) <=> InQueue(d) /\ KindOf[d] = k
    BY <1>1, <1>2, Drained DEF Waiting
  <1>4. \A d \in Calls : responses'[d] = IF InQueue(d) /\ KindOf[d] = k THEN Disconnected
                                         ELSE responses[d]
    BY <1>1, <1>3
  <1> QED BY <1>1, <1>3, <1>4 DEF Waiting, QueuedWait, RequestXorResponse, HandlersAsked,
                                  UnaskedUnanswered, HasResponse, Disconnected

LEMMA WaitingStep ==
    ASSUME TypeOK, Waiting, [Next]_vars
    PROVE  Waiting'
  <1>1. ASSUME NEW c \in Calls, CallNext(c) PROVE Waiting'
    BY <1>1, CheckConnectedWaiting, AddRequestWaiting, TakeResponseWaiting, ExpireWaiting,
       RemoveRequestWaiting DEF CallNext
  <1>2. ASSUME NEW h \in Handlers, PostStore(h) \/ \E c \in Calls : PostCheck(h, c) PROVE Waiting'
    BY <1>2, PostStoreWaiting, PostCheckWaiting
  <1>3. CASE DrainQueue
    BY <1>3, DrainQueueWaiting
  <1>4. ASSUME \/ SignerNew \/ Disconnect \/ SetShuttingDown \/ SendShutdown \/ UNCHANGED vars
               \/ \E c \in Calls : Elapse(c)
               \/ \E w \in Wallets : Connect(w)
               \/ \E s \in Clones : DropSigner(s)
        PROVE  Waiting'
    BY <1>4, QuietWaiting DEF SignerNew, Disconnect, SetShuttingDown, SendShutdown, Elapse, Connect,
       DropSigner, vars, stateVars, callVars
  <1>5. ASSUME NEW c \in Calls, CallNext(c) \/ Elapse(c) PROVE Waiting'
    BY <1>1, <1>4, <1>5
  <1> QED BY <1>2, <1>3, <1>4, <1>5, Zenon DEF Next

\* The queues' type comes from what was just shown: removal keeps it only because
\* no request is queued twice.
LEMMA TypeStep ==
    ASSUME TypeOK, Waiting, [Next]_vars
    PROVE  TypeOK'
  <1>1. queue' \in [KindSet -> Seq(Calls)]
    BY WaitingStep DEF Waiting, QueuesSound
  <1> USE DEF TypeOK, vars, stateVars, signerVars, callVars
  <1>2. CASE SignerNew
    BY <1>2 DEF SignerNew
  <1>3. ASSUME NEW c \in Calls, CheckConnected(c) PROVE TypeOK'
    <2>1. /\ pc' \in [Calls -> {"start", "checked", "polling", "expired", "done"}]
          /\ late' \in [Calls -> BOOLEAN]
      BY <1>3 DEF CheckConnected, Returns
    <2>2. result' \in [Calls -> [tag : Results, good : BOOLEAN, by : Wallets \cup {None}]]
      <3>1. ASSUME NEW tag \in Results, Returns(c, Failure(tag))
            PROVE  result' \in [Calls -> [tag : Results, good : BOOLEAN, by : Wallets \cup {None}]]
        BY <3>1 DEF Returns, Failure
      <3>2. {"mismatch", "not_connected", "unsupported"} \subseteq Results
        BY DEF Results
      <3> QED BY <1>3, <3>1, <3>2 DEF CheckConnected
    <2> QED BY <1>3, <2>1, <2>2 DEF CheckConnected
  <1>4. ASSUME NEW c \in Calls, AddRequest(c) PROVE TypeOK'
    BY <1>1, <1>4 DEF AddRequest
  <1>5. ASSUME NEW c \in Calls, TakeResponse(c) PROVE TypeOK'
    <2>1. /\ pc' \in [Calls -> {"start", "checked", "polling", "expired", "done"}]
          /\ late' \in [Calls -> BOOLEAN]
          /\ responses' \in [Calls -> Response]
      BY <1>5, NoResponsesTyped DEF TakeResponse, Returns
    <2>2. result' \in [Calls -> [tag : Results, good : BOOLEAN, by : Wallets \cup {None}]]
      BY <1>5, OutcomeTyped DEF TakeResponse, Returns
    <2> QED BY <1>5, <2>1, <2>2 DEF TakeResponse
  <1>6. ASSUME NEW c \in Calls, Expire(c) \/ Elapse(c) PROVE TypeOK'
    BY <1>6 DEF Expire, Elapse
  <1>7. ASSUME NEW c \in Calls, RemoveRequest(c) PROVE TypeOK'
    <2>1. /\ pc' \in [Calls -> {"start", "checked", "polling", "expired", "done"}]
          /\ late' \in [Calls -> BOOLEAN]
      BY <1>7 DEF RemoveRequest, Returns
    <2>2. result' \in [Calls -> [tag : Results, good : BOOLEAN, by : Wallets \cup {None}]]
      BY <1>7 DEF RemoveRequest, Returns, Failure, Results
    <2> QED BY <1>1, <1>7, <2>1, <2>2 DEF RemoveRequest
  <1>8. ASSUME NEW h \in Handlers, NEW c \in Calls, PostCheck(h, c) PROVE TypeOK'
    <2>1. handler' \in [Handlers -> [id : Calls \cup {None}, body : Response]]
      BY <1>8, AcceptedTyped DEF PostCheck
    <2> QED BY <1>8, <2>1 DEF PostCheck
  <1>9. ASSUME NEW h \in Handlers, PostStore(h) PROVE TypeOK'
    <2>1. handler' \in [Handlers -> [id : Calls \cup {None}, body : Response]]
      BY <1>9, NoResponsesTyped DEF PostStore
    <2>2. responses' \in [Calls -> Response]
      BY <1>9 DEF PostStore, Waiting, HandlersAsked
    <2> QED BY <1>1, <1>9, <2>1, <2>2 DEF PostStore
  <1>10. ASSUME NEW w \in Wallets, Connect(w) PROVE TypeOK'
    BY <1>10 DEF Connect
  <1>11. CASE Disconnect
    BY <1>11, KindsTyped DEF Disconnect
  <1>12. CASE DrainQueue
    <2>1. responses' \in [Calls -> Response] /\ drain' \in 0..Len(Kinds)
      BY <1>12, NoResponsesTyped, KindsTyped DEF DrainQueue
    <2> QED BY <1>1, <1>12, <2>1 DEF DrainQueue
  <1>13. ASSUME NEW s \in Clones, DropSigner(s) PROVE TypeOK'
    BY <1>13 DEF DropSigner
  <1>14. CASE SetShuttingDown \/ SendShutdown
    BY <1>14 DEF SetShuttingDown, SendShutdown
  <1>15. CASE UNCHANGED vars
    BY <1>15
  <1>16. ASSUME NEW c \in Calls, CallNext(c) \/ Elapse(c) PROVE TypeOK'
    BY <1>3, <1>4, <1>5, <1>6, <1>7, <1>16 DEF CallNext
  <1> HIDE DEF TypeOK, vars, stateVars, signerVars, callVars
  <1> QED BY <1>2, <1>8, <1>9, <1>10, <1>11, <1>12, <1>13, <1>14, <1>15, <1>16, Zenon DEF Next

\* Connecting ends the claim, a disconnect renews it for the calls it races with,
\* and each drained queue needs it no more.
LEMMA RacersStep ==
    ASSUME TypeOK, Waiting, RacersTracked, [Next]_vars
    PROVE  RacersTracked'
  <1> USE DEF RacersTracked, vars, stateVars, signerVars, callVars
  <1>1. ASSUME queue' = queue PROVE \A c \in Calls : InQueue(c)' <=> InQueue(c)
    BY <1>1, QueuesKept
  <1>2. ASSUME NEW c \in Calls, CheckConnected(c) PROVE RacersTracked'
    <2>1. queue' = queue /\ connection' = connection /\ drain' = drain /\ raced' = raced
      BY <1>2 DEF CheckConnected
    <2>2. connection = None => \A d \in Calls : pc'[d] = "checked" => pc[d] = "checked"
      BY <1>2 DEF CheckConnected, Returns, TypeOK
    <2> QED BY <1>1, <2>1, <2>2
  <1>3. ASSUME NEW c \in Calls, AddRequest(c) PROVE RacersTracked'
    <2>1. /\ pc[c] = "checked" /\ pc' = [pc EXCEPT ![c] = "polling"]
          /\ connection' = connection /\ drain' = drain /\ raced' = raced
          /\ queue' = [queue EXCEPT ![KindOf[c]] = Append(@, c)]
      BY <1>3 DEF AddRequest
    <2>2. ~InQueue(c)
      BY <2>1 DEF Waiting, QueuedWait
    <2>3. \A d \in Calls : InQueue(d)' <=> InQueue(d) \/ d = c
      BY <2>1, <2>2, Enqueued DEF Waiting
    <2> QED BY <2>1, <2>3 DEF TypeOK
  <1>4. ASSUME NEW c \in Calls, TakeResponse(c) \/ Expire(c) \/ Elapse(c) PROVE RacersTracked'
    <2>1. queue' = queue /\ connection' = connection /\ drain' = drain /\ raced' = raced
      BY <1>4 DEF TakeResponse, Expire, Elapse
    <2>2. \A d \in Calls : pc'[d] = "checked" => pc[d] = "checked"
      BY <1>4 DEF TakeResponse, Returns, Expire, Elapse, TypeOK
    <2> QED BY <1>1, <2>1, <2>2
  <1>5. ASSUME NEW c \in Calls, RemoveRequest(c) PROVE RacersTracked'
    <2>1. /\ connection' = connection /\ drain' = drain /\ raced' = raced
          /\ queue' = [queue EXCEPT ![KindOf[c]] = RemoveFirst(@, c)]
          /\ pc' = [pc EXCEPT ![c] = "done"]
      BY <1>5 DEF RemoveRequest, Returns
    <2>2. \A d \in Calls : InQueue(d)' <=> InQueue(d) /\ d # c
      BY <2>1, Removed DEF Waiting
    <2> QED BY <2>1, <2>2 DEF TypeOK
  <1>6. ASSUME NEW h \in Handlers, PostStore(h) PROVE RacersTracked'
    <2>1. /\ handler[h].id \in Calls
          /\ connection' = connection /\ drain' = drain /\ raced' = raced /\ pc' = pc
          /\ queue' = [queue EXCEPT ![KindOf[handler[h].id]] = RemoveFirst(@, handler[h].id)]
      BY <1>6 DEF PostStore, Waiting, HandlersAsked
    <2>2. \A d \in Calls : InQueue(d)' <=> InQueue(d) /\ d # handler[h].id
      BY <2>1, Removed DEF Waiting
    <2> QED BY <2>1, <2>2
  <1>7. ASSUME NEW w \in Wallets, Connect(w) PROVE RacersTracked'
    BY <1>7, WalletAssumption DEF Connect
  <1>8. CASE Disconnect
    <2>1. \A c \in Calls : \E n \in 1..3 : Kinds[n] = KindOf[c]
      BY WalletAssumption DEF Kinds, KindSet
    <2> QED BY <2>1, <1>8 DEF Disconnect
  <1>9. CASE DrainQueue
    <2> DEFINE k == Kinds[drain]
    <2>1. k \in KindSet /\ drain \in 1..3 /\ drain' = IF drain = 3 THEN 0 ELSE drain + 1
      BY <1>9, KindsTyped DEF TypeOK, DrainQueue
    <2>2. /\ queue' = [queue EXCEPT ![k] = <<>>] /\ connection' = connection
          /\ pc' = pc /\ raced' = raced
      BY <1>9 DEF DrainQueue
    <2>3. \A d \in Calls : InQueue(d)' <=> InQueue(d) /\ KindOf[d] # k
      BY <2>1, <2>2, Drained DEF Waiting
    <2>4. ASSUME NEW d \in Calls, InQueue(d)', connection = None, d \notin raced
          PROVE  drain' # 0 /\ \E n \in drain'..3 : Kinds[n] = KindOf[d]
      <3>1. PICK n \in drain..3 : Kinds[n] = KindOf[d]
        BY <2>3, <2>4
      <3>2. n # drain
        BY <2>3, <2>4, <3>1
      <3> QED BY <2>1, <3>1, <3>2
    <2> QED BY <2>2, <2>4
  <1>10. ASSUME \/ SignerNew \/ SetShuttingDown \/ SendShutdown \/ UNCHANGED vars
                \/ \E s \in Clones : DropSigner(s)
                \/ \E h \in Handlers, c \in Calls : PostCheck(h, c)
         PROVE  RacersTracked'
    <2>1. /\ queue' = queue /\ connection' = connection /\ drain' = drain
          /\ raced' = raced /\ pc' = pc
      BY <1>10 DEF SignerNew, SetShuttingDown, SendShutdown, DropSigner, PostCheck
    <2> QED BY <1>1, <2>1
  <1>11. ASSUME NEW c \in Calls, CallNext(c) \/ Elapse(c) PROVE RacersTracked'
    BY <1>2, <1>3, <1>4, <1>5, <1>11 DEF CallNext
  <1>12. ASSUME NEW h \in Handlers, PostStore(h) \/ \E c \in Calls : PostCheck(h, c)
         PROVE  RacersTracked'
    BY <1>6, <1>10, <1>12
  <1> HIDE DEF RacersTracked, vars, stateVars, signerVars, callVars
  <1> QED BY <1>7, <1>8, <1>9, <1>10, <1>11, <1>12, Zenon DEF Next

\* A signer that exists is the one every returned value was checked against.
LEMMA VerifiedStep ==
    ASSUME TypeOK, SignerFirst, KeyAuthorizationVerified, [Next]_vars
    PROVE  SignerFirst' /\ KeyAuthorizationVerified'
  <1> USE DEF SignerFirst, KeyAuthorizationVerified, vars, stateVars, signerVars, callVars
  <1>1. ASSUME NEW c \in Calls, pc[c] # "start", signer' = signer,
               \A d \in Calls \ {c} : pc'[d] = pc[d] /\ result'[d] = result[d],
               result'[c] = result[c]
                 \/ (KindOf[c] = "key" /\ result'[c].tag = "value"
                       => result'[c].good /\ result'[c].by = signer)
        PROVE  SignerFirst' /\ KeyAuthorizationVerified'
    BY <1>1
  <1>2. ASSUME NEW c \in Calls, CheckConnected(c) PROVE SignerFirst' /\ KeyAuthorizationVerified'
    <2>1. signer # None /\ signer' = signer
      BY <1>2 DEF CheckConnected
    <2>2. \A d \in Calls : result'[d].tag = "value" => result'[d] = result[d]
      BY <1>2 DEF CheckConnected, Returns, Failure, TypeOK
    <2> QED BY <2>1, <2>2
  <1>3. ASSUME NEW c \in Calls, TakeResponse(c) PROVE SignerFirst' /\ KeyAuthorizationVerified'
    <2>1. /\ pc[c] = "polling" /\ signer' = signer /\ pc' = [pc EXCEPT ![c] = "done"]
          /\ result' = [result EXCEPT ![c] = Outcome(c)]
      BY <1>3 DEF TakeResponse, Returns
    <2>2. KindOf[c] = "key" /\ Outcome(c).tag = "value" => Outcome(c).good /\ Outcome(c).by = signer
      BY DEF Outcome, Failure, TypeOK, Response
    <2> QED BY <1>1, <2>1, <2>2 DEF TypeOK
  <1>4. ASSUME NEW c \in Calls, AddRequest(c) \/ Expire(c) \/ Elapse(c)
        PROVE  SignerFirst' /\ KeyAuthorizationVerified'
    BY <1>1, <1>4 DEF AddRequest, Expire, Elapse, TypeOK
  <1>5. ASSUME NEW c \in Calls, RemoveRequest(c) PROVE SignerFirst' /\ KeyAuthorizationVerified'
    <2>1. Failure("timeout").tag # "value"
      BY DEF Failure
    <2> QED BY <1>1, <1>5, <2>1 DEF RemoveRequest, Returns, TypeOK
  <1>6. CASE SignerNew
    BY <1>6, WalletAssumption DEF SignerNew, TypeOK
  <1>7. ASSUME \/ Disconnect \/ DrainQueue \/ SetShuttingDown \/ SendShutdown \/ UNCHANGED vars
               \/ \E w \in Wallets : Connect(w)
               \/ \E s \in Clones : DropSigner(s)
               \/ \E h \in Handlers : PostStore(h) \/ \E c \in Calls : PostCheck(h, c)
        PROVE  SignerFirst' /\ KeyAuthorizationVerified'
    <2>1. signer' = signer /\ pc' = pc /\ result' = result
      BY <1>7 DEF Disconnect, DrainQueue, SetShuttingDown, SendShutdown, Connect, DropSigner,
         PostStore, PostCheck
    <2> QED BY <2>1
  <1>8. ASSUME NEW c \in Calls, CallNext(c) \/ Elapse(c)
        PROVE  SignerFirst' /\ KeyAuthorizationVerified'
    BY <1>2, <1>3, <1>4, <1>5, <1>8 DEF CallNext
  <1> HIDE DEF SignerFirst, KeyAuthorizationVerified, vars, stateVars, signerVars, callVars
  <1> QED BY <1>6, <1>7, <1>8, Zenon DEF Next

LEMMA InvStep == WalletInv /\ [Next]_vars => WalletInv'
  BY TypeStep, WaitingStep, RacersStep, VerifiedStep DEF WalletInv

LEMMA InvHolds == Spec => []WalletInv
  BY InvInit, InvStep, PTL DEF Spec

-----------------------------------------------------------------------------
(* Theorems                                                                *)

\* Every variable of the wallet keeps its type: in particular a drain never
\* leaves the three queues, and a result is one the callers know.
THEOREM TypeCorrect == Spec => []TypeOK
  <1>1. WalletInv => TypeOK
    BY DEF WalletInv
  <1> QED BY <1>1, InvHolds, PTL

\* No queue holds a request twice, or one whose call has returned, whatever
\* answers, time-outs and disconnects did in between (RequestQueue).
THEOREM QueuesLive == Spec => []QueuesHoldLiveCalls
  <1>1. WalletInv => QueuesHoldLiveCalls
    <2> SUFFICES ASSUME WalletInv, NEW k \in KindSet, NEW i \in DOMAIN queue[k]
                 PROVE  /\ KindOf[queue[k][i]] = k
                        /\ pc[queue[k][i]] \in {"polling", "expired"}
                        /\ \A j \in DOMAIN queue[k] : queue[k][i] = queue[k][j] => i = j
      BY DEF QueuesHoldLiveCalls
    <2>1. queue[k][i] \in ToSet(queue[k]) /\ queue[k][i] \in Calls
      BY ElementOfSeq, LenProperties DEF WalletInv, TypeOK, ToSet
    <2>2. KindOf[queue[k][i]] = k /\ Distinct(queue[k])
      BY <2>1 DEF WalletInv, Waiting, QueuesSound
    <2>3. InQueue(queue[k][i])
      BY <2>1, <2>2, InQueueMeans
    <2> QED BY <2>1, <2>2, <2>3 DEF WalletInv, Waiting, QueuedWait, Distinct
  <1> QED BY <1>1, InvHolds, PTL

\* A call that polls has its request in the queue or its response ready, and not
\* both: add_*_response, get_*_response and the drain never lose or double one.
THEOREM RequestsAnsweredOnce == Spec => []RequestXorResponse
  <1>1. WalletInv => RequestXorResponse
    BY DEF WalletInv, Waiting
  <1> QED BY <1>1, InvHolds, PTL

\* After set_connection(None) only requests of calls that had already checked the
\* connection are left, however the drain of the queues interleaves with them.
THEOREM DisconnectLeavesRacers == Spec => []OnlyRacersOutliveDisconnect
  <1>1. WalletInv => OnlyRacersOutliveDisconnect
    BY DEF WalletInv, RacersTracked, OnlyRacersOutliveDisconnect
  <1> QED BY <1>1, InvHolds, PTL

\* A key authorization that is returned was signed by the account the signer
\* was created for (request_key_authorization).
THEOREM KeyAuthorizationsChecked == Spec => []KeyAuthorizationVerified
  <1>1. WalletInv => KeyAuthorizationVerified
    BY DEF WalletInv
  <1> QED BY <1>1, InvHolds, PTL
=============================================================================
