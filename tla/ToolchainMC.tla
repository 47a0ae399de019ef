---------------------------- MODULE ToolchainMC -----------------------------
(***************************************************************************)
(* Two builds in one process: one on a pool of two threads, one on its own.*)
(***************************************************************************)
EXTENDS Toolchain

MCPool == [b1 |-> {"p1", "p2"}, b2 |-> {"q1"}]
MCJobs == [b1 |-> <<810, 824>>, b2 |-> <<810>>]
=============================================================================
