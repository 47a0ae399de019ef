----------------------------- MODULE ServicesMC -----------------------------
(***************************************************************************)
(* The parts that speak to what is outside the program, for TLC: the       *)
(* browser wallet (BrowserWallet), the signers made from options, key      *)
(* files and the channel database (Wallets), and the block explorer client *)
(* with its file cache (Explorer).  They share no variable; each behaviour *)
(* runs one of them.                                                       *)
(***************************************************************************)
EXTENDS BrowserWalletMC, Wallets, Explorer

VARIABLE part

\* Keystore files, and key files with an entry per line of keys.toml.
Store(n) == [kind |-> "file", key |-> "k" \o n, password |-> "pw" \o n]
Entry(w, k, ka, a) == [wallet |-> w, key |-> k, keyAddress |-> ka, authorization |-> a]
KeysFiles ==
    {<<>>,
     <<Entry("w", Absent, Absent, Absent), Entry("w", "a", "a", Absent)>>,
     <<Entry("w", "w", "w", Absent)>>,
     <<Entry("w", "a", "a", "bad"), Entry("w", "w", Absent, Absent)>>}

\* Options as the command line can combine them: most at most once.
MCSingle ==
    [accessKey : {Absent, "a", "bad"}, rootAccount : {Absent, "w"},
     hardware : {Absent, "ledger"}, remote : {Absent, "aws"}, env : {{}, {"aws"}},
     interactive : BOOLEAN, typed : {"x", "pw1"}, privateKey : {Absent, "x", "variable"},
     mnemonic : {Absent, "words"}, keystore : {Absent, Store("1")}, password : {Absent, "pw1"},
     from : {Absent, "w"}, keysFile : KeysFiles]

MCMulti ==
    [device : {Absent, "ledger"}, hdPaths : {<<>>, <<"m1">>, <<"m1", "m2">>}, indexes : {<<>>, <<"1">>},
     keystores : {<<>>, <<Store("1")>>, <<Store("1"), Store("2")>>},
     passwords : {<<>>, <<"pw1">>, <<"pw1", "pw2">>},
     passwordFiles : {<<>>, <<"pw2">>, <<"pw1", "pw2">>, <<"missing">>},
     privateKeys : {<<>>, <<"x">>, <<"variable">>}, mnemonics : {<<>>, <<"words">>},
     passphrases : {<<>>}, interactives : {<<>>, <<"t1">>, <<"t1", "t2">>}]

\* Source paths of an answer: with and without extension, absolute, with parents.
MCTreePaths ==
    {<<Named(n, e)>> : n \in {"A", "B"}, e \in {"none", "sol"}} \cup {<<ParentDir, Named("A", e)>> : e \in {"none", "sol"}}
        \cup {<<RootDir, Named("d", "none"), Named("A", e)>> : e \in {"none", "sol"}}
        \cup {<<Named("d", "none"), ParentDir, Named("B", "sol")>>}

ServicesInit ==
    /\ part \in {"browser", "choose", "multi", "channels", "explorer", "calls"}
    /\ Init /\ WalletsInit /\ ExplorerInit
    /\ part # "explorer" => expKind = "abi"

ServicesNext ==
    \/ part = "browser" /\ Next /\ UNCHANGED <<walletVars, expVars, part>>
    \/ part = "choose" /\ ChooseNext /\ UNCHANGED <<vars, expVars, part>>
    \/ part = "multi" /\ MultiNext /\ UNCHANGED <<vars, expVars, part>>
    \/ part = "channels" /\ ChannelsNext /\ UNCHANGED <<vars, expVars, part>>
    \/ part = "explorer" /\ ExplorerNext /\ UNCHANGED <<vars, walletVars, part>>
    \/ part = "calls" /\ PlainCallNext /\ UNCHANGED <<vars, walletVars, part>>

ServicesSpec == ServicesInit /\ [][ServicesNext]_<<vars, walletVars, expVars, part>>
=============================================================================
