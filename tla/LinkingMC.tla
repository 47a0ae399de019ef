----------------------------- MODULE LinkingMC ------------------------------
(***************************************************************************)
(* The contracts Linking is checked on: libraries that share a file or a   *)
(* name, used by the creation code, the runtime code or both.              *)
(***************************************************************************)
EXTENDS Linking

LibA == [file |-> "f", name |-> "A"]
LibB == [file |-> "f", name |-> "B"]
OtherA == [file |-> "g", name |-> "A"]
MCLibs == {LibA, LibB, OtherA}
MCCut == [l \in MCLibs |-> IF l = LibA THEN "f:A" ELSE IF l = LibB THEN "f:B" ELSE "g:A"]

Object(cells) ==
    LET refs == {l \in MCLibs : ToSet(cells) \cap {HashOf(l), Legacy(l)} # {}}
    IN [cells |-> cells, refs |-> refs, kind |-> IF refs = {} THEN "Bytecode" ELSE "Unlinked"]

CreationCode == {<<HashOf(LibA), Code, HashOf(LibA)>>, <<Legacy(LibA), HashOf(LibB)>>,
                 <<HashOf(LibB), HashOf(OtherA), HashOf(LibA)>>, <<Code>>}
RuntimeCode == {<<HashOf(LibA)>>, <<HashOf(OtherA), Legacy(LibA), Code>>, <<Code, Code>>}

WithCode ==
    [form : {"Contract"}, abi : {TRUE}, hasDeployed : {TRUE},
     bytecode : {Object(x) : x \in CreationCode}, deployed : {Object(x) : x \in RuntimeCode}]
Partial ==
    [form : {"Contract"}, abi : BOOLEAN, hasDeployed : BOOLEAN,
     bytecode : {None, Object(<<Code>>)}, deployed : {None, Object(<<Code, Code>>)}]
MCContracts == WithCode \cup {c \in Partial : c.deployed # None => c.hasDeployed}

\* Lines of --libraries: "file:name:address", or one with a part missing.
LibLine(p, l, a) == [parts |-> p, lib |-> l, addr |-> a]
MCArgs == {<<LibLine(3, LibA, 1), LibLine(p, l, 2)>> : l \in MCLibs, p \in {2, 3}}
          \cup {<<LibLine(3, LibB, 1), LibLine(3, LibA, 1), LibLine(3, OtherA, 2)>>}
=============================================================================
