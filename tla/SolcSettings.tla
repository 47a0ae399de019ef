---------------------------- MODULE SolcSettings ----------------------------
(***************************************************************************)
(* Settings of a compiler input: what a version accepts, what a file's     *)
(* restrictions allow, and when artifacts made with other settings can be  *)
(* used.  Compiler version 0.8.24 is written 824.  The settings of a build *)
(* are those of solc and, in the field vyper, those of Vyper               *)
(* (MultiCompilerSettings).                                                *)
(***************************************************************************)
EXTENDS Naturals, FiniteSets, Sequences

CONSTANTS
    Unspecified,       \* Option::None
    SomeSettings,      \* settings of two builds
    SomeRestrictions,  \* restrictions of a file
    SomeWords          \* sets of words that users select outputs with

VARIABLE pick

Optional(S) == {Unspecified} \cup S

\* Restriction: a value between two bounds.
Ranges == [min : Optional(Nat), max : Optional(Nat)]

\* SolcRestrictions with the version requirement, and those of both compilers.
SolcRestricted ==
    [version : Optional(SUBSET Nat), evm : Ranges, runs : Ranges, viaIr : Optional(BOOLEAN), hash : Optional(STRING)]
Restricted ==
    [version : Optional(SUBSET Nat), evm : Ranges, runs : Ranges, viaIr : Optional(BOOLEAN), hash : Optional(STRING),
     vyper : Ranges]

\* What is not specified is not a value; restrictions and settings have the fields
\* of the code's types, which hold values or are not specified.
ASSUME SettingsAssumption ==
    /\ Unspecified \notin Nat \cup BOOLEAN \cup Ranges \cup SolcRestricted \cup Restricted
    /\ SomeRestrictions \subseteq Restricted
    /\ \A s \in SomeSettings :
         /\ s = [evm |-> s.evm, viaIr |-> s.viaIr, hash |-> s.hash, runs |-> s.runs, enabled |-> s.enabled,
                 options |-> s.options, remappings |-> s.remappings, selection |-> s.selection, vyper |-> s.vyper]
         /\ s.vyper = [evm |-> s.vyper.evm, selection |-> s.vyper.selection, search |-> s.vyper.search]
         /\ {s.evm, s.runs, s.vyper.evm} \subseteq Optional(Nat)
         /\ s.viaIr \in Optional(BOOLEAN) /\ s.enabled \in BOOLEAN

-----------------------------------------------------------------------------
(* EvmVersion: the position in the enum                                    *)

Byzantium == 3
Osaka == 13
EvmVersions == 0..14

\* The compiler version that introduced an EVM version.
IntroducedBy == [e \in 4..12 |-> <<422, 505, 514, 805, 807, 818, 820, 824, 827>>[e - 3]]
ByzantiumSolc == 421
OsakaSolc == 829

\* normalize_version_solc: the newest EVM version not above e that v knows.
NormalizeEvm(e, v) ==
    LET known == {k \in DOMAIN IntroducedBy : k <= e /\ v >= IntroducedBy[k]}
    IN IF v < ByzantiumSolc THEN Unspecified
       ELSE IF v >= OsakaSolc THEN IF e < Osaka THEN e ELSE Osaka
       ELSE IF e < Byzantium THEN e
       ELSE IF known = {} THEN Byzantium
       ELSE CHOOSE k \in known : \A j \in known : j <= k

-----------------------------------------------------------------------------
(* Settings                                                                *)

\* Options that came with a later version than 0.4, by the version.
Introduced ==
    [bytecodeHash |-> 600, debug |-> 600, stopAfter |-> 703, viaIr |-> 705, inliner |-> 805,
     modelChecker |-> 807, debugInfo |-> 810, invariants |-> 810, cborMetadata |-> 818,
     eldarica |-> 818, showProvedSafe |-> 820]

\* sanitize: drops these options for older versions, and no others; Yul has no
\* remappings.
Sanitize(s, v, language) ==
    LET keeps(o) == o \in DOMAIN Introduced => v >= Introduced[o]
    IN [s EXCEPT !.options = {o \in @ : keeps(o)},
                 !.viaIr = IF keeps("viaIr") THEN @ ELSE Unspecified,
                 !.hash = IF keeps("bytecodeHash") THEN @ ELSE Unspecified,
                 !.evm = IF @ = Unspecified THEN @ ELSE NormalizeEvm(@, v),
                 !.remappings = IF language = "Yul" THEN <<>> ELSE @]

-----------------------------------------------------------------------------
(* VyperSettings                                                           *)

\* The Vyper version that brought an EVM version: Berlin, Paris, Shanghai, Cancun, Prague.
VyperSince == [e \in {7, 9, 10, 11, 12} |->
                 CASE e = 7 -> 300 [] e = 9 -> 307 [] e \in {10, 11} -> 308 [] e = 12 -> 403]
SearchPathsSince == 400
VyperRejects ==
    {"evm.bytecode.sourceMap", "evm.deployedBytecode.sourceMap", "evm.bytecode.linkReferences",
     "evm.deployedBytecode.linkReferences", "evm.deployedBytecode.immutableReferences"}

\* normalize_evm_version: the newest of these not above e that v has; e if it has none.
NormalizeVyperEvm(e, v) ==
    LET known == {k \in DOMAIN VyperSince : k <= e /\ v >= VyperSince[k]}
    IN IF e = Unspecified \/ known = {} THEN e ELSE CHOOSE k \in known : \A j \in known : j <= k

\* sanitize_output_selection: first a default for an empty list, then what Vyper
\* does not know is dropped.
SanitizeOutputs(outputs) == (IF outputs = {} THEN {"abi"} ELSE outputs) \ VyperRejects

\* VyperInput::new, sanitize: interface files are not selected.
VyperSanitize(s, v, interfaces) ==
    [s EXCEPT !.evm = NormalizeVyperEvm(@, v),
              !.search = IF v < SearchPathsSince THEN Unspecified ELSE @,
              !.selection = [f \in DOMAIN @ \ interfaces |->
                               [c \in DOMAIN @[f] |-> SanitizeOutputs(@[f][c])]]]

-----------------------------------------------------------------------------
(* Restriction and SolcRestrictions                                        *)

Within(r, x) ==
    /\ r.min # Unspecified => x # Unspecified /\ x >= r.min
    /\ r.max # Unspecified => x # Unspecified /\ x <= r.max

\* Mutant: the weaker of two lower bounds is kept.
MergeRange_Weaker(a, b) ==
    LET min == IF a.min = Unspecified THEN b.min
               ELSE IF b.min = Unspecified \/ a.min <= b.min THEN a.min ELSE b.min
        max == IF a.max = Unspecified THEN b.max
               ELSE IF b.max = Unspecified \/ a.max <= b.max THEN a.max ELSE b.max
    IN IF min # Unspecified /\ max # Unspecified /\ min > max THEN Unspecified
       ELSE [min |-> min, max |-> max]

\* Restriction::merge; Unspecified if nothing satisfies both.
MergeRange(a, b) ==
    LET min == IF a.min = Unspecified THEN b.min
               ELSE IF b.min = Unspecified \/ a.min >= b.min THEN a.min ELSE b.min
        max == IF a.max = Unspecified THEN b.max
               ELSE IF b.max = Unspecified \/ a.max <= b.max THEN a.max ELSE b.max
    IN IF min # Unspecified /\ max # Unspecified /\ min > max THEN Unspecified
       ELSE [min |-> min, max |-> max]

\* Restriction::apply: the nearest allowed value.
ApplyRange(r, x) ==
    IF x = Unspecified THEN IF r.min # Unspecified THEN r.min ELSE r.max
    ELSE IF r.min # Unspecified /\ x < r.min THEN r.min
    ELSE IF r.max # Unspecified /\ x > r.max THEN r.max
    ELSE x

Disagree(x, y) == x # Unspecified /\ y # Unspecified /\ x # y
Or(x, y) == IF x # Unspecified THEN x ELSE y

\* RestrictionsWithVersion::merge; a version requirement is the set of versions
\* that meet it.
MergeRestrictions(a, b) ==
    LET evm == MergeRange(a.evm, b.evm)
        runs == MergeRange(a.runs, b.runs)
    IN IF Disagree(a.viaIr, b.viaIr) \/ Disagree(a.hash, b.hash) \/ Unspecified \in {evm, runs}
       THEN Unspecified
       ELSE [version |-> IF Unspecified \in {a.version, b.version} THEN Or(a.version, b.version)
                         ELSE a.version \cap b.version,
             evm |-> evm, runs |-> runs, viaIr |-> Or(a.viaIr, b.viaIr), hash |-> Or(a.hash, b.hash)]

\* satisfies_restrictions: a lower bound on the runs asks for the optimizer, too.
SatisfiesRestrictions(s, r) ==
    /\ Within(r.evm, s.evm)
    /\ r.viaIr # Unspecified => r.viaIr = (s.viaIr = TRUE)
    /\ r.hash # Unspecified => r.hash = s.hash
    /\ Within(r.runs, s.runs)
    /\ r.runs.min \notin {Unspecified, 0} => s.enabled

\* MultiCompilerRestrictions: both compilers' restrictions hold.
MergeBoth(a, b) ==
    LET solc == MergeRestrictions(a, b)
        vyper == MergeRange(a.vyper, b.vyper)
    IN IF Unspecified \in {solc, vyper} THEN Unspecified
       ELSE [x \in DOMAIN solc \cup {"vyper"} |-> IF x = "vyper" THEN vyper ELSE solc[x]]
SatisfiesBoth(s, r) == SatisfiesRestrictions(s, r) /\ Within(r.vyper, s.vyper.evm)

-----------------------------------------------------------------------------
(* OutputSelection: a function from files to functions from contracts to   *)
(* sets of outputs; "*" stands for any file or contract, "" for the file   *)
(* itself.                                                                 *)

IsSubsetOf(a, b) ==
    \A f \in DOMAIN a : f \in DOMAIN b /\
        \A c \in DOMAIN a[f] : c \in DOMAIN b[f] /\ a[f][c] \subseteq b[f][c]

ContainsAst(a) == \E f \in DOMAIN a : "" \in DOMAIN a[f] /\ a[f][""] \cap {"ast", "*"} # {}

\* push_all, push_contract_output_selection: adds outputs for all files.
PushAll(a, c, outputs) ==
    LET all == IF "*" \in DOMAIN a THEN a["*"] ELSE <<>>
        had == IF c \in DOMAIN all THEN all[c] ELSE {}
        new == [k \in DOMAIN all \cup {c} |-> IF k = c THEN had \cup outputs ELSE all[k]]
    IN [f \in DOMAIN a \cup {"*"} |-> IF f = "*" THEN new ELSE a[f]]

\* Serialize: a file with nothing selected is written as no outputs for any contract.
StoredSelection(a) == [f \in DOMAIN a |-> IF a[f] = <<>> THEN [c \in {"*"} |-> {}] ELSE a[f]]

\* default_file_output_selection
DefaultFileSelection ==
    [c \in {"*"} |-> {"abi", "evm.methodIdentifiers", "evm.deployedBytecode.immutableReferences"}
        \cup {code \o part : code \in {"evm.bytecode.", "evm.deployedBytecode."},
                              part \in {"object", "sourceMap", "linkReferences"}}]

\* sparse_sources: the files to compile get the selection of all files, the others
\* (read from the cache) none; with the AST nothing is left out.
SparseSelection(a, files, compiled) ==
    IF ContainsAst(a) THEN a
    ELSE [f \in files \cup (DOMAIN a \ {"*"}) |->
            IF f \notin files THEN a[f]
            ELSE IF f \notin compiled THEN <<>>
            ELSE IF "*" \in DOMAIN a THEN a["*"] ELSE DefaultFileSelection]

\* The outputs by the compiler's names, and the other words for them.
CodeParts == {"functionDebugData", "object", "opcodes", "sourceMap", "linkReferences", "generatedSources"}
EwasmOutputs == {"ewasm", "ewasm.wast", "ewasm.wasm"}
SolcOutputs ==
    {"abi", "devdoc", "userdoc", "metadata", "ir", "irOptimized", "irOptimizedAst", "storageLayout",
     "transientStorageLayout", "evm", "evm.assembly", "evm.legacyAssembly", "evm.methodIdentifiers",
     "evm.gasEstimates", "evm.bytecode", "evm.deployedBytecode"}
    \cup EwasmOutputs \cup {"evm.bytecode." \o p : p \in CodeParts}
    \cup {"evm.deployedBytecode." \o p : p \in CodeParts \cup {"immutableReferences"}}
OtherWords ==
    [irOptimized |-> {"ir-optimized", "iroptimized"}, irOptimizedAst |-> {"ir-optimized-ast", "iroptimizedast"},
     storageLayout |-> {"storage-layout", "storagelayout"},
     transientStorageLayout |-> {"transient-storage-layout", "transientstoragelayout"}]
OtherEvmWords ==
    [assembly |-> {"asm"}, legacyAssembly |-> {"legacyAssembly"}, gasEstimates |-> {"gas", "evm.gasestimates"},
     methodIdentifiers |-> {"methodidentifiers", "evm.methodidentifiers"}]
OtherCodeWords ==
    [bytecode |-> {"code", "bin"}, deployedBytecode |-> {"deployed-code", "deployed-bin", "runtime-code", "runtime-bin"}]

\* FromStr, Display: the compiler's name of a word.
OutputsOf(word) ==
    (SolcOutputs \cap {word})
    \cup {o \in DOMAIN OtherWords : word \in OtherWords[o]}
    \cup {"evm." \o o : o \in {x \in DOMAIN OtherEvmWords : word \in OtherEvmWords[x]}}
    \cup {"evm." \o o \o ".object" : o \in {x \in DOMAIN OtherCodeWords : word \in OtherCodeWords[x]}}

\* can_use_cached: everything but the selection has to be equal.
CanUseCached(s, old) ==
    /\ [s EXCEPT !.selection = {}, !.vyper = {}] = [old EXCEPT !.selection = {}, !.vyper = {}]
    /\ IsSubsetOf(s.selection, old.selection)
VyperCanUseCached(s, old) ==
    /\ [s EXCEPT !.selection = {}] = [old EXCEPT !.selection = {}]
    /\ IsSubsetOf(s.selection, old.selection)
BothCanUseCached(s, old) == CanUseCached(s, old) /\ VyperCanUseCached(s.vyper, old.vyper)

\* What the compiler emits for a contract of a file (external).
Emits(a, f, c) ==
    UNION {UNION {a[g][d] : d \in DOMAIN a[g] \cap {c, "*"}} : g \in DOMAIN a \cap {f, "*"}}

-----------------------------------------------------------------------------
(* Two restrictions of one file are merged, a build's settings are made to *)
(* satisfy them, and another build asks for the artifacts.                 *)

NoPick == [st |-> "idle"]
SettingsInit == pick = NoPick
MergeStep ==
    /\ pick.st = "idle"
    /\ \E a, b \in SomeRestrictions :
        pick' = [st |-> "merged", a |-> a, b |-> b, merged |-> MergeBoth(a, b)]
\* The words are read and added to the settings; the other build's settings were
\* written to the cache file and are read back.
ReuseStep ==
    /\ pick.st = "idle"
    /\ \E s, old \in SomeSettings, words \in SomeWords :
        LET outputs == UNION {OutputsOf(w) : w \in words}
            asked == [s EXCEPT !.selection = IF words = {} THEN @ ELSE PushAll(@, "*", outputs)]
            stored == [old EXCEPT !.selection = StoredSelection(@), !.vyper.selection = StoredSelection(@)]
        IN /\ \A w \in words : OutputsOf(w) # {}
           /\ pick' = [st |-> "asked", s |-> asked, old |-> old, use |-> BothCanUseCached(asked, stored)]
SettingsNext == MergeStep \/ ReuseStep

SettingsSpec == SettingsInit /\ [][SettingsNext]_pick

\* Merged restrictions are satisfied by exactly the settings that satisfy both,
\* and are refused only if none do; a value moved by them is allowed by them.
RestrictionsExact ==
    pick.st = "merged" =>
        \A s \in SomeSettings :
            LET both == SatisfiesBoth(s, pick.a) /\ SatisfiesBoth(s, pick.b)
            IN IF pick.merged = Unspecified THEN ~both
               ELSE /\ both <=> SatisfiesBoth(s, pick.merged)
                    /\ Within(pick.merged.evm, ApplyRange(pick.merged.evm, s.evm))
                    /\ Within(pick.merged.runs, ApplyRange(pick.merged.runs, s.runs))

\* Artifacts of another build are used only if that build emitted everything
\* this one selects, for any contract of any file, and a build with the same
\* settings can always use them.
ReuseEmitsAll ==
    pick.st = "asked" =>
        /\ pick.s = pick.old => pick.use
        /\ pick.use => \A f \in {"f", "g"}, c \in {"", "C", "D"} :
                /\ Emits(pick.s.selection, f, c) \subseteq Emits(pick.old.selection, f, c)
                /\ Emits(pick.s.vyper.selection, f, c) \subseteq Emits(pick.old.vyper.selection, f, c)

\* Both: the settings the compiler is given, and those an artifact is reused for,
\* are what the files and the build asked for.
SettingsSound == RestrictionsExact /\ ReuseEmitsAll
=============================================================================
