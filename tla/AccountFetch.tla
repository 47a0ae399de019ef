---------------------------- MODULE AccountFetch ----------------------------
(***************************************************************************)
(* The futures BackendHandler::get_account_req builds: each one fetches an *)
(* account either with one eth_getAccountInfo call or with three separate  *)
(* calls (balance, nonce, code: one "triple" here, as try_join3 makes      *)
(* them).  All futures share `account_fetch_mode`, which each reads when   *)
(* it is first polled and any of them may change while others are in       *)
(* flight.  ForkBackend sees such a future as one lazy provider call.      *)
(***************************************************************************)
EXTENDS Naturals

CONSTANTS
    Reqs,           \* account requests in flight
    InfoAnswers     \* how the endpoint answers eth_getAccountInfo

ASSUME InfoAssumption == InfoAnswers \subseteq {"ok", "err"} /\ InfoAnswers # {}

VARIABLES
    mode,       \* ACCOUNT_FETCH_UNCHECKED | _SUPPORTS_ACC_INFO | _SEPARATE_REQUESTS
    stage,      \* where each future stands
    info,       \* its eth_getAccountInfo call
    triple      \* its three separate calls

fetchVars == <<mode, stage, info, triple>>

Call == {"unsent", "sent", "ok", "err"}
Done == {"done_ok", "done_err"}

FetchInit ==
    /\ mode = "unchecked"
    /\ stage = [r \in Reqs |-> "created"]
    /\ info = [r \in Reqs |-> "unsent"]
    /\ triple = [r \in Reqs |-> "unsent"]

Become(r, s) == stage' = [stage EXCEPT ![r] = s]

\* First poll: dispatch on the mode found now.
DispatchUnchecked(r) ==
    /\ stage[r] = "created" /\ mode = "unchecked"
    /\ Become(r, "race")
    /\ info' = [info EXCEPT ![r] = "sent"]
    /\ triple' = [triple EXCEPT ![r] = "sent"]
    /\ UNCHANGED mode

DispatchInfo(r) ==
    /\ stage[r] = "created" /\ mode = "supports"
    /\ Become(r, "info")
    /\ info' = [info EXCEPT ![r] = "sent"]
    /\ UNCHANGED <<mode, triple>>

DispatchSeparate(r) ==
    /\ stage[r] = "created" /\ mode = "separate"
    /\ Become(r, "triple")
    /\ triple' = [triple EXCEPT ![r] = "sent"]
    /\ UNCHANGED <<mode, info>>

\* select! over both calls; when both are ready either branch may run.
RaceInfo(r) ==
    /\ stage[r] = "race"
    /\ \/ info[r] = "ok" /\ mode' = "supports" /\ Become(r, "done_ok")
       \/ info[r] = "err" /\ mode' = "separate" /\ Become(r, "triple")
    /\ UNCHANGED <<info, triple>>

RaceTriple(r) ==
    /\ stage[r] = "race"
    /\ \/ triple[r] = "ok" /\ mode' = "separate" /\ Become(r, "done_ok")
       \/ triple[r] = "err" /\ Become(r, "done_err") /\ UNCHANGED mode
    /\ UNCHANGED <<info, triple>>

\* Mutant: a failed eth_getAccountInfo call fails the request.
AwaitInfo_NoFallback(r) ==
    /\ stage[r] = "info"
    /\ \/ info[r] = "ok" /\ Become(r, "done_ok") /\ UNCHANGED mode
       \/ info[r] = "err" /\ mode' = "separate" /\ Become(r, "done_err")
    /\ UNCHANGED <<info, triple>>

\* Mutant: the fallback awaits the separate calls without making them.
AwaitInfo_NotSent(r) ==
    /\ stage[r] = "info"
    /\ \/ info[r] = "ok" /\ Become(r, "done_ok") /\ UNCHANGED mode
       \/ info[r] = "err" /\ mode' = "separate" /\ Become(r, "triple")
    /\ UNCHANGED <<info, triple>>

\* The endpoint may be one of several behind a balancer: fall back on an error.
AwaitInfo(r) ==
    /\ stage[r] = "info"
    /\ \/ info[r] = "ok" /\ Become(r, "done_ok") /\ UNCHANGED <<mode, triple>>
       \/ /\ info[r] = "err"
          /\ mode' = "separate"
          /\ Become(r, "triple")
          /\ triple' = [triple EXCEPT ![r] = "sent"]
    /\ UNCHANGED info

AwaitTriple(r) ==
    /\ stage[r] = "triple"
    /\ \/ triple[r] = "ok" /\ Become(r, "done_ok")
       \/ triple[r] = "err" /\ Become(r, "done_err")
    /\ UNCHANGED <<mode, info, triple>>

ProviderInfo(r) ==
    /\ info[r] = "sent"
    /\ \E a \in InfoAnswers : info' = [info EXCEPT ![r] = a]
    /\ UNCHANGED <<mode, stage, triple>>

ProviderTriple(r) ==
    /\ triple[r] = "sent"
    /\ \E a \in {"ok", "err"} : triple' = [triple EXCEPT ![r] = a]
    /\ UNCHANGED <<mode, stage, info>>

\* The handler starts the next account request; its future is a new one.
NextRequest(r) ==
    /\ stage[r] \in Done
    /\ Become(r, "created")
    /\ info' = [info EXCEPT ![r] = "unsent"]
    /\ triple' = [triple EXCEPT ![r] = "unsent"]
    /\ UNCHANGED mode

Poll(r) ==
    \/ DispatchUnchecked(r) \/ DispatchInfo(r) \/ DispatchSeparate(r)
    \/ RaceInfo(r) \/ RaceTriple(r) \/ AwaitInfo(r) \/ AwaitTriple(r)

\* A future is polled when woken, and its provider calls resolve: one of the
\* two goes on.
Progress(r) == Poll(r) \/ ProviderInfo(r) \/ ProviderTriple(r)

FetchNext == \E r \in Reqs : Progress(r) \/ NextRequest(r)

FetchSpec == FetchInit /\ [][FetchNext]_fetchVars

\* Mode, stage and calls of every future stay in range: the match on the mode
\* never reaches its unreachable! arm.
FetchTypeOK ==
    /\ mode \in {"unchecked", "supports", "separate"}
    /\ stage \in [Reqs -> {"created", "race", "info", "triple"} \cup Done]
    /\ info \in [Reqs -> Call]
    /\ triple \in [Reqs -> Call]

\* A request fails only because one of the three standard calls failed: an
\* endpoint that lacks eth_getAccountInfo, or a balancer that reaches one that
\* does, is never the reason, whatever the mode was when the future started.
FailsOnlyOnSeparateCalls == \A r \in Reqs : stage[r] = "done_err" => triple[r] = "err"
=============================================================================
