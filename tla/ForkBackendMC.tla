--------------------------- MODULE ForkBackendMC ---------------------------
(***************************************************************************)
(* Instances of ForkBackend for TLC.                                       *)
(***************************************************************************)
EXTENDS ForkBackend, TLC

CONSTANTS c1, c2, a1, s1, h1

MCClients == {c1, c2}
MCAddrOf == [k \in StorageKeys |-> a1]
Symmetry == Permutations(MCClients)
=============================================================================
