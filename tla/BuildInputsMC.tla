--------------------------- MODULE BuildInputsMC ---------------------------
(***************************************************************************)
(* What goes into a build, for TLC: projects of two or three source files  *)
(* and a library, directory layouts, remapping lines, settings; the files  *)
(* a project keeps from build to build, and the compilers and reporters of *)
(* builds in one process.  The parts do not share state: `part` says which *)
(* of them moves.                                                          *)
(***************************************************************************)
EXTENDS Resolver, Remappings, ToolchainMC, ProjectFilesMC

VARIABLE part

inputVars == <<res, find, moved, pick>>

-----------------------------------------------------------------------------
(* Projects                                                                *)

Root == <<"/", "p">>
A == <<"/", "p", "src", "A.sol">>
B == <<"/", "p", "src", "B.sol">>
C == <<"/", "p", "lib", "dep", "src", "C.sol">>
D == <<"/", "p", "lib", "dep", "src", "sub", "D.sol">>
E == <<"/", "ext", "E.sol">>
J == <<"/", "p", "src", "J.json">>
V == <<"/", "p", "src", "A.vy">>
W == <<"/", "p", "src", "util", "W.vy">>
I == <<"/", "p", "I.vyi">>
L == <<"/", "p", "lib", "L.vy">>
VyperFiles == {V, W, I, L}
MCFs == {A, B, C, D, E, J} \cup VyperFiles \cup {Append(Root, "lib"), Append(Root, "src")}

FindDep == [lib \in {Append(Root, "lib")} |->
              <<[context |-> NoPath, name |-> <<"dep">>, path |-> <<"lib", "dep", "src">>]>>]
NoRemappings == <<>>
MCPaths == {BuildWithRoot(MCFs, Root, Unset, FindDep),
            BuildWithRoot(MCFs, Root, Unset, NoRemappings),
            BuildWithRoot(MCFs, Root, Dapptools(Root, FindDep), NoRemappings)}

ImpB == <<".", "B.sol">>
ImpA == <<"src", "A.sol">>
ImpC == <<"dep", "C.sol">>
ImpD == <<"sub", "D.sol">>
ImpE == <<"..", "..", "ext", "E.sol">>
ImpGone == <<".", "X.sol">>
ImpJ == <<".", "J.json">>

From(dots, parts, name) == [word |-> "from", dots |-> dots, parts |-> parts, next |-> "import", last |-> name]
Import(name) == [word |-> "import", dots |-> 0, parts |-> <<name>>, next |-> "as", last |-> "m"]
Ercs == From(0, <<"ethereum", "ercs">>, "IERC20")
Text == [word |-> "x:", dots |-> 0, parts |-> <<"uint256">>, next |-> "", last |-> ""]

AnyValue == [min |-> Unspecified, max |-> Unspecified]
Free == [version |-> Unspecified, evm |-> AnyValue, runs |-> AnyValue, viaIr |-> Unspecified, hash |-> Unspecified,
         vyper |-> AnyValue]
Strict == [Free EXCEPT !.evm = [min |-> 11, max |-> Unspecified], !.version = {824, 829}]

Profile(evm, viaIr) ==
    [evm |-> evm, viaIr |-> viaIr, hash |-> "ipfs", runs |-> 200, enabled |-> TRUE,
     options |-> {"debugInfo", "cborMetadata", "showProvedSafe"}, remappings |-> <<>>, selection |-> <<>>,
     vyper |-> [evm |-> evm, selection |-> <<>>, search |-> Unspecified]]

Project(paths, ia, ib, ic, rest, req, restricted, inputs, have, offline) ==
    [fs |-> MCFs, paths |-> paths, inputs |-> inputs,
     imports |-> (A :> ia) @@ (B :> ib) @@ (C :> ic) @@ (D :> rest)
        @@ [f \in {E, J} \cup VyperFiles |-> <<>>],
     lang |-> [f \in {A, B, C, D, E} |-> "Solidity"] @@ [f \in VyperFiles |-> "Vyper"],
     req |-> req @@ [f \in {D, E} \cup VyperFiles |-> Unspecified],
     restricted |-> restricted @@ [f \in {A, C, D, E} \cup VyperFiles |-> Unspecified],
     profiles |-> <<Profile(10, Unspecified), Profile(14, TRUE)>>,
     installed |-> [Solidity |-> have, Vyper |-> {304}],
     remote |-> [Solidity |-> {810, 824, 829}, Vyper |-> {}],
     offline |-> offline, repeat |-> have = {810}, clean |-> {}]

Reqs == {Unspecified, {810}, {824, 829}}
\* Import graphs with cycles, missing imports, imports within the library.
GraphWorlds ==
    {Project(paths, ia, ib, ic, rest, [f \in {A, B, C} |-> Unspecified], <<>> @@ (B :> Unspecified),
             inputs, have, FALSE) :
        paths \in MCPaths, ia \in {<<>>, <<ImpB>>, <<ImpC, ImpB>>, <<ImpGone, ImpB, ImpC>>, <<ImpJ, ImpE, ImpC>>},
        ib \in {<<ImpA>>, <<ImpC>>, <<ImpB, ImpC>>}, ic \in {<<>>, <<ImpD>>, <<ImpD, ImpA>>},
        rest \in {<<>>, <<ImpC>>}, inputs \in {<<A, B>>, <<A>>}, have \in {{829}, {810}}}
\* Version pragmas, restrictions and installed compilers.
VersionWorlds ==
    {Project(BuildWithRoot(MCFs, Root, Unset, FindDep), ia, ib, <<>>, <<>>,
             (A :> ra) @@ (B :> rb) @@ (C :> rc), (B :> restricted),
             IF offline THEN <<A, V, B>> ELSE <<A, B>>, have, offline) :
        ia \in {<<>>, <<ImpC>>}, ib \in {<<>>, <<ImpC>>}, ra \in Reqs, rb \in Reqs, rc \in Reqs,
        restricted \in {Unspecified, Strict},
        have \in {{}, {810}, {824}, {810, 824}}, offline \in BOOLEAN}
\* Vyper: imports relative and absolute, from the root and a library, built in,
\* missing and of each other; pragmas; a file read from the cache.
Pragma(op, nums) == [op |-> op, nums |-> nums, pre |-> FALSE]
VyperProject(iv, iw, rv, rw, have, clean) ==
    [Project(BuildWithRoot(MCFs, Root, Unset, FindDep), <<ImpB>>, <<>>, <<>>, <<>>,
             [f \in {A, B, C} |-> Unspecified], B :> Unspecified, <<A, V, B>>, {824}, TRUE)
     EXCEPT !.imports[V] = iv, !.imports[W] = iw, !.req[V] = rv, !.req[W] = rw,
            !.installed.Vyper = have, !.clean = clean]
VyperWorlds ==
    {VyperProject(iv, iw, rv, rw, have, clean) :
        iv \in {<<Text, From(1, <<"util">>, "W")>>, <<Ercs, From(0, <<"util">>, "W"), Import("I")>>,
                <<Import("L"), From(0, <<"src", "util">>, "W")>>, <<From(1, <<>>, "L")>>, <<Import("X")>>},
        iw \in {<<>>, <<From(2, <<>>, "A"), Import("L")>>, <<From(9, <<>>, "A")>>},
        rv \in {Unspecified, Pragma("~=", <<0, 3, 0>>), Pragma("~=", <<0, 3>>), Pragma("==", <<0, 4, 3>>),
                [Pragma("==", <<0, 4, 3>>) EXCEPT !.pre = TRUE]},
        rw \in {Unspecified, Pragma("^", <<0, 3, 4>>), Pragma("!=", <<0, 3, 4>>)},
        have \in {{}, {204}, {310}, {403}}, clean \in {{}, {W}}}
\* Every option and EVM version, for old and new versions of solc.
SolcWorlds ==
    {[Project(BuildWithRoot(MCFs, Root, Unset, FindDep), <<>>, <<>>, <<>>, <<>>,
              [f \in {A, B, C} |-> Unspecified], B :> Unspecified, <<A>>, {v}, TRUE)
      EXCEPT !.profiles = <<[Profile(e, TRUE) EXCEPT !.options = DOMAIN Introduced \cup {"loopIncrement"}]>>] :
        v \in {420, 422, 602, 704, 705, 806, 809, 818, 821, 829}, e \in {0, 4, 7, 11, 14}}
MCWorlds == {GraphWorlds, VersionWorlds, VyperWorlds, SolcWorlds}

-----------------------------------------------------------------------------
(* Settings                                                                *)

Bounds == {AnyValue, [min |-> 1, max |-> Unspecified], [min |-> 2, max |-> 2], [min |-> Unspecified, max |-> 1]}
MCRestrictions ==
    {[version |-> v, evm |-> e, runs |-> r, viaIr |-> i, hash |-> Unspecified, vyper |-> r] :
        v \in {Unspecified, {810}}, e \in Bounds, r \in Bounds, i \in {Unspecified, TRUE, FALSE}}
Selections ==
    <<("*" :> ("*" :> {"abi"})), ("*" :> ("*" :> {"abi", "evm"} @@ "" :> {"ast"})),
      ("*" :> ("*" :> {"abi"} @@ "C" :> {"evm"})), ("f" :> ("*" :> {"abi"})), ("f" :> <<>>),
      ("*" :> ("*" :> {"abi", "irOptimized", "evm.bytecode.object"}))>>
MCWords == {{}, {"ir-optimized"}, {"abi", "bin"}}
MCSettings ==
    {[Profile(e, i) EXCEPT !.runs = r, !.enabled = o, !.selection = Selections[k],
                           !.vyper.selection = Selections[7 - k]] :
        e \in {1, 2}, i \in {Unspecified, TRUE}, r \in {Unspecified, 0, 2}, o \in BOOLEAN, k \in 1..6}

-----------------------------------------------------------------------------
(* Layouts                                                                 *)

File(n) == [name |-> n, kind |-> IF n \in SolNames THEN "sol" ELSE "file", link |-> NoPath]
Dir(n) == [name |-> n, kind |-> "dir", link |-> NoPath]
Link(n, d) == [name |-> n, kind |-> "dir", link |-> d]
Lib == <<"/", "lib">>
In(p) == Lib \o p

\* A library with sources in src, one with a library of the same name in its
\* lib, test folders, hidden folders; contracts below a node_modules domain.
Nested ==
    [root |-> Lib,
     tree |-> (Lib :> {Dir("dep"), Dir("oz"), Dir(".git")}) @@ (In(<<".git">>) :> {})
        @@ (In(<<"dep">>) :> {Dir("src"), Dir("test")}) @@ (In(<<"dep", "src">>) :> {File("A.sol")})
        @@ (In(<<"dep", "test">>) :> {File("B.sol")})
        @@ (In(<<"oz">>) :> {Dir("lib"), File("A.sol")})
        @@ (In(<<"oz", "lib">>) :> {Dir("dep")})
        @@ (In(<<"oz", "lib", "dep">>) :> {Dir("contracts")})
        @@ (In(<<"oz", "lib", "dep", "contracts">>) :> {File("B.sol")})]
Node == <<"/", "node_modules">>
Domain ==
    [root |-> Node,
     tree |-> (Node :> {Dir("oz")}) @@ (Node \o <<"oz">> :> {Dir("contracts"), Dir("auth")})
        @@ (Node \o <<"oz", "contracts">> :> {File("A.sol"), File("package.json")})
        @@ (Node \o <<"oz", "auth">> :> {Dir("contracts")})
        @@ (Node \o <<"oz", "auth", "contracts">> :> {File("A.sol")})]
\* Libraries that link to each other, and to the folder above them.
Loop ==
    [root |-> Lib,
     tree |-> (Lib :> {Dir("dep"), Dir("oz")})
        @@ (In(<<"dep">>) :> {Dir("src"), Link("lib", In(<<"oz">>))}) @@ (In(<<"dep", "src">>) :> {File("A.sol")})
        @@ (In(<<"oz">>) :> {Link("auth", In(<<"dep">>)), File("B.sol")})]
Upwards ==
    [root |-> Lib,
     tree |-> (Lib :> {Dir("oz"), Dir("dep")}) @@ (In(<<"dep">>) :> {File("A.sol")})
        @@ (In(<<"oz">>) :> {File("B.sol"), Link("auth", Lib)})]
MCLayouts == {Nested, Domain, Loop, Upwards}
MCNameOrder == <<"/", ".git", "A.sol", "B.sol", "auth", "contracts", "dep", "lib", "node_modules", "oz",
                 "package.json", "src", "store", "test", "v">>

\* Lines of a file at /p that is moved to /q.
Names == {<<"dep">>, <<"dep", "/">>, <<" ">>, <<"dep", "A.sol">>}
Targets == {<<"lib", "dep">>, <<"lib", "dep", "/">>, <<"/", "p", "lib", "/">>, <<"/", "oz">>,
            <<"lib", "A.sol">>, <<"/", "p", "src", "A.sol">>, <<>>}
MCTexts ==
    {[line |-> c \o n \o <<"=">> \o t, from |-> Root, to |-> <<"/", "q">>] :
        c \in {<<>>, <<":">>, <<"src", ":">>, <<"/", "p", "src", ":">>}, n \in Names, t \in Targets}

-----------------------------------------------------------------------------
Init ==
    /\ part \in {"resolve", "find", "move", "settings", "tools", "files"}
    /\ ResolverInit /\ RemappingsInit /\ SettingsInit /\ ToolchainInit
    /\ IF part = "files" THEN TRUE
       ELSE root = (CHOOSE r \in Roots : TRUE) /\ given = (CHOOSE g \in Givens : TRUE)
    /\ FilesInit

Next ==
    \/ part = "resolve" /\ ResolverNext /\ UNCHANGED <<find, moved, pick, toolVars, filesVars, part>>
    \/ part = "find" /\ FindNext /\ UNCHANGED <<res, moved, pick, toolVars, filesVars, part>>
    \/ part = "move" /\ MoveNext /\ UNCHANGED <<res, find, pick, toolVars, filesVars, part>>
    \/ part = "settings" /\ SettingsNext /\ UNCHANGED <<res, find, moved, toolVars, filesVars, part>>
    \/ part = "tools" /\ ToolchainNext /\ UNCHANGED <<inputVars, filesVars, part>>
    \/ part = "files" /\ FilesNext /\ UNCHANGED <<inputVars, toolVars, part>>

Spec == Init /\ [][Next]_<<inputVars, toolVars, filesVars, part>>
=============================================================================
