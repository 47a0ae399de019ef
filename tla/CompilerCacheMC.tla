-------------------------- MODULE CompilerCacheMC --------------------------
(***************************************************************************)
(* A project for TLC: base, a library, is imported by token, and token by  *)
(* the tests plain and stub, of which stub extends it as a mock.           *)
(***************************************************************************)
EXTENDS CompilerCache, TLC

CONSTANTS base, token, plain, stub, v1, v2, p1, p2, x0, x1, e0

MCImports ==
    [f \in Files |-> IF f = base THEN {} ELSE IF f = token THEN {base} \cap Files ELSE {token} \cap Files]
MCOrder == SelectSeq(<<plain, stub, base, token>>, LAMBDA f : f \in Files)
MCScopes == {Files, {plain}} \cap SUBSET Files
\* x0 and x1 have the same interface, e0 defines no contract.
MCIface == [c \in Contents |-> IF c = x1 THEN x0 ELSE c]
\* base has a compiler version of its own, the tests a settings profile.
MCJobOf ==
    [f \in Files |-> <<IF f = base THEN v1 ELSE v2, IF f \in SrcFiles THEN p1 ELSE p2>>]
=============================================================================
