-------------------------- MODULE OutputQueriesMC ---------------------------
(***************************************************************************)
(* The compiler outputs OutputQueries is checked on: three files, contracts*)
(* of one name in several of them, some built with two versions.           *)
(***************************************************************************)
EXTENDS OutputQueries, TLC

MCPathOf == <<<<"a.sol">>, <<"w", "a.sol">>, <<"b.sol">>>>
MCNamed == {<<"C">>, <<"D">>, <<"a.sol", "C">>, <<"b.sol", "C">>, <<"w", "a.sol", "C">>, <<"b.sol">>,
            <<"b.sol", "D">>}
CtrC == <<"C">>
CtrD == <<"D">>
InFirst == {<<>>, CtrC :> <<"1", "2">>, (CtrC :> <<"1">>) @@ (CtrD :> <<"1">>)}
InSecond == {<<>>, CtrC :> <<"1">>}
InThird == {<<>>, (CtrD :> <<"1", "2">>) @@ (CtrC :> <<"2">>), CtrC :> <<"1", "2">>}
MCOutputs == {<<a, b, c>> : a \in InFirst, b \in InSecond, c \in InThird}

Listed(i, v) == [id |-> i, version |-> v]
MCSources ==
    {<<a, b, <<>>>> : a \in {<<Listed(0, 1)>>, <<Listed(0, 1), Listed(1, 2)>>},
                      b \in {<<>>, <<Listed(1, 1), Listed(0, 2)>>}}
=============================================================================
