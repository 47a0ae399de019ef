-------------------------- MODULE BrowserWalletMC --------------------------
(***************************************************************************)
(* Instances of BrowserWallet for TLC.                                     *)
(***************************************************************************)
EXTENDS BrowserWallet, TLC

CONSTANTS t1, g1, k1, w1, w2

MCKindOf == [c \in Calls |-> IF c = k1 THEN "key" ELSE IF c = g1 THEN "sign" ELSE "tx"]
MCFromOf == [c \in Calls |-> w1]
Symmetry == Permutations(Handlers)
=============================================================================
