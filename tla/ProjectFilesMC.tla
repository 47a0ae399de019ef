--------------------------- MODULE ProjectFilesMC ---------------------------
(***************************************************************************)
(* A project that may be moved between two folders, with its output inside *)
(* it or elsewhere.                                                        *)
(***************************************************************************)
EXTENDS ProjectFiles

MCRoots == {<<"/", "p">>, <<"/", "q">>}
MCCwds == {<<"/", "p">>}
\* All by default; other folders, as Hardhat has them, with the same cache file; all of it
\* elsewhere.
Default == [artifacts |-> NoPath, build_infos |-> NoPath, cache |-> NoPath]
MCGivens ==
    {Default, [Default EXCEPT !.artifacts = <<"artifacts">>, !.build_infos = <<"infos">>],
     [artifacts |-> <<"/", "x", "out">>, build_infos |-> <<"/", "x", "infos">>,
      cache |-> <<"/", "x", "files.json">>]}
MCElsewhere == {<<"/", "ext", "L.sol">>}
MCBuildIds == <<"build0", "build1">>
MCOther == <<"cache", "fuzz">>
=============================================================================
