---------------------------- MODULE ForkFetchMC ----------------------------
(***************************************************************************)
(* The backend and the account futures it polls, for TLC.  ForkBackend     *)
(* takes one future to be one lazy provider call; AccountFetch looks inside *)
(* such a future.  The two share no variable, so each behaviour runs one   *)
(* of them and leaves the other at its start.                              *)
(***************************************************************************)
EXTENDS ForkBackendMC, AccountFetch

VARIABLE part

BothInit == part \in {"backend", "account"} /\ Init /\ FetchInit

BothNext ==
    \/ part = "backend" /\ Next /\ UNCHANGED <<fetchVars, part>>
    \/ part = "account" /\ FetchNext /\ UNCHANGED <<vars, part>>

bothVars == <<vars, fetchVars, part>>

\* The fairness of ForkBackend and of AccountFetch, each for the behaviours in
\* which its part runs.
BothFairness ==
    /\ WF_bothVars(part = "backend" /\ HandlerNext /\ UNCHANGED <<fetchVars, part>>)
    /\ WF_bothVars(part = "backend" /\ FlushOnDrop /\ UNCHANGED <<fetchVars, part>>)
    /\ \A k \in Keys :
          WF_bothVars(part = "backend" /\ ProviderAnswersFetch(k) /\ UNCHANGED <<fetchVars, part>>)
    /\ \A c \in Clients :
          WF_bothVars(part = "backend" /\ ProviderAnswersDirect(c) /\ UNCHANGED <<fetchVars, part>>)
    /\ \A r \in Reqs : WF_bothVars(part = "account" /\ Progress(r) /\ UNCHANGED <<vars, part>>)

BothSpec == BothInit /\ [][BothNext]_bothVars /\ BothFairness

\* Every account request resolves, whichever way its future went about it.
EveryFetchResolves == \A r \in Reqs : part = "account" /\ stage[r] = "created" ~> stage[r] \in Done
=============================================================================
