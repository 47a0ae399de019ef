----------------------------- MODULE ForkStore -----------------------------
(***************************************************************************)
(* What the forking backend promises its callers: a shared store that      *)
(* answers each call once, with a value that is in the store from that     *)
(* moment on.  A missing value is filled in together with the answers of   *)
(* some of the callers waiting for it; a value that was filled in is       *)
(* replaced only by what a caller puts in its place.  How calls travel,    *)
(* wait and are bundled is not visible here.                               *)
(***************************************************************************)
CONSTANTS Clients, Keys, StorageKeys, ChainVals, UserVals, Absent, NoReq, Direct

VARIABLES store, waiting, answer

vars == <<store, waiting, answer>>

Init ==
    /\ store = [k \in Keys |-> Absent]
    /\ waiting = [c \in Clients |-> NoReq]
    /\ answer = [c \in Clients |-> [tag |-> "none", val |-> Absent]]

Answer(S, tag, v) ==
    /\ waiting' = [c \in Clients |-> IF c \in S THEN NoReq ELSE waiting[c]]
    /\ answer' = [c \in Clients |-> IF c \in S THEN [tag |-> tag, val |-> v] ELSE answer[c]]

Ask(c, r) ==
    /\ waiting[c] = NoReq
    /\ waiting' = [waiting EXCEPT ![c] = r]
    /\ answer' = [answer EXCEPT ![c] = [tag |-> "none", val |-> Absent]]
    /\ UNCHANGED store

\* A call made after the backend is gone returns at once.
Refuse(c) ==
    /\ waiting[c] = NoReq
    /\ answer' = [answer EXCEPT ![c] = [tag |-> "send", val |-> Absent]]
    /\ UNCHANGED <<store, waiting>>

Hit(c) ==
    /\ waiting[c] \in Keys /\ store[waiting[c]] # Absent
    /\ Answer({c}, "ok", store[waiting[c]])
    /\ UNCHANGED store

Fill(k, v, S) ==
    /\ S # {} /\ \A c \in S : waiting[c] = k
    /\ store[k] \notin ChainVals
    /\ store' = [store EXCEPT ![k] = v]
    /\ Answer(S, "ok", v)

\* The provider fails for some of the callers of one request.
Fail(r, S) ==
    /\ S # {} /\ \A c \in S : waiting[c] = r
    /\ Answer(S, "provider", Absent)
    /\ UNCHANGED store

Uncached(c) ==
    /\ waiting[c] = Direct
    /\ Answer({c}, "direct", Absent)
    /\ UNCHANGED store

\* The backend goes away: everyone still waiting is told so.
Abandon ==
    /\ Answer({c \in Clients : waiting[c] # NoReq}, "recv", Absent)
    /\ UNCHANGED store

Put ==
    /\ store' \in [Keys -> ChainVals \cup UserVals \cup {Absent}]
    /\ \A k \in Keys : \/ store'[k] = store[k]
                       \/ store'[k] \in UserVals
                       \/ k \in StorageKeys /\ store'[k] = Absent
    /\ UNCHANGED <<waiting, answer>>

Next ==
    \/ \E c \in Clients : Refuse(c) \/ Hit(c) \/ Uncached(c)
    \/ \E c \in Clients, r \in Keys \cup {Direct} : Ask(c, r)
    \/ \E k \in Keys, v \in ChainVals, S \in SUBSET Clients : Fill(k, v, S)
    \/ \E r \in Keys \cup {Direct}, S \in SUBSET Clients : Fail(r, S)
    \/ Abandon
    \/ Put

Spec == Init /\ [][Next]_vars
=============================================================================
