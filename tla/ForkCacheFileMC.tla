-------------------------- MODULE ForkCacheFileMC --------------------------
(***************************************************************************)
(* Instance of ForkCacheFile for TLC.                                      *)
(***************************************************************************)
EXTENDS ForkCacheFile, TLC

MCNoMeta == [env |-> "none", chain |-> "none"]

\* Texts of two writers: each map has an entry, not all of the metadata's block.
MCTornTexts == {f \in Complete : /\ f.accounts # {} /\ f.storage # {}
                                /\ ~OfEnv(f)}

\* Nothing tells two processes, or two block environments, from each other.
Symmetry == Permutations(Procs) \cup Permutations(Envs)
=============================================================================
