---------------------------- MODULE ForkStateMC ----------------------------
(***************************************************************************)
(* The backend's protocol and the state it fills, for TLC.  ForkBackend    *)
(* keeps one value per key; MemDb looks at what a key's value consists of: *)
(* accounts, slots, commits and the stored metadata.  They share no        *)
(* variable; each behaviour runs one of them.                              *)
(***************************************************************************)
EXTENDS ForkBackendMC, MemDb

VARIABLE part

\* An account with code and one slot that is not zero.
MCRemote ==
    [a \in Accts |-> [info |-> [nonce |-> 1, code |-> 5, code_hash |-> HashOf(5)],
                      slots |-> [s \in Slots |-> IF s = "s1" THEN 1 ELSE 0]]]

StateInit ==
    /\ part \in {"backend", "commits", "meta"}
    /\ Init /\ MemInit /\ MetaInit
    /\ part # "commits" => backing = "local"
    /\ part # "meta" => asked = NewMeta([f \in OldFields |-> 0], "h1")

StateNext ==
    \/ part = "backend" /\ Next /\ UNCHANGED <<memVars, metaVars, part>>
    \/ part = "commits" /\ MemNext /\ UNCHANGED <<vars, metaVars, part>>
    \/ part = "meta" /\ MetaNext /\ UNCHANGED <<vars, memVars, part>>

StateSpec == StateInit /\ [][StateNext]_<<vars, memVars, metaVars, part>>
=============================================================================
