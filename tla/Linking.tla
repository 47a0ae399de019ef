------------------------------ MODULE Linking ------------------------------
(***************************************************************************)
(* artifacts/solc/src/bytecode.rs, contract.rs and Libraries of lib.rs:    *)
(* the code of a contract with its library placeholders and their link     *)
(* references, linking it one library or a list of libraries at a time,    *)
(* and converting the contract between its representations in between.     *)
(*                                                                         *)
(* An object is a sequence of cells: code, a placeholder of a library (the *)
(* hash of its qualified name, or the name itself cut to 36 characters, as *)
(* old compilers wrote it), or an address.                                 *)
(***************************************************************************)
EXTENDS Integers, Sequences, SequencesExt, FiniteSets

CONSTANTS
    Libs,        \* libraries: [file, name]
    Addrs,       \* addresses
    Contracts,   \* what compilers return: [form, abi, bytecode, deployed]
    LibArgs,     \* lists of library arguments of the settings
    CutName      \* Libs -> the truncated qualified name

None == [kind |-> "None"]
NoAddr == 0

Code == <<"code">>
HashOf(lib) == <<"hash", lib.file, lib.name>>
Legacy(lib) == <<"legacy", CutName[lib]>>
Placeholders(lib) == {HashOf(lib), Legacy(lib)}
AddressCell(a) == <<"address", a>>
IsPlaceholder(cell) == cell[1] \in {"hash", "legacy"}

IsUnlinked(b) == b.kind = "Unlinked"
Holds(b, lib) == b # None /\ ToSet(b.cells) \cap Placeholders(lib) # {}

\* Code as a compiler returns it: its references are the libraries it has
\* placeholders of, and it is unlinked if there are any.
Cells == {Code} \cup UNION {Placeholders(l) : l \in Libs}
CompiledObject(b) ==
    /\ b.cells \in Seq(Cells)
    /\ LET refs == {l \in Libs : Holds(b, l)}
       IN b = [cells |-> b.cells, refs |-> refs, kind |-> IF refs = {} THEN "Bytecode" ELSE "Unlinked"]

\* Libraries are told apart by their placeholders, an address that was given from none.
ASSUME LinkAssumption ==
    /\ NoAddr \notin Addrs
    /\ \A k, l \in Libs : k # l => Placeholders(k) \cap Placeholders(l) = {}
    /\ \A c \in Contracts :
        /\ c = [form |-> "Contract", abi |-> c.abi, hasDeployed |-> c.hasDeployed,
                bytecode |-> c.bytecode, deployed |-> c.deployed]
        /\ c.abi \in BOOLEAN /\ c.hasDeployed \in BOOLEAN
        /\ c.bytecode = None \/ CompiledObject(c.bytecode)
        /\ c.deployed = None \/ CompiledObject(c.deployed)
    /\ \A args \in LibArgs : args \in Seq([parts : Nat, lib : Libs, addr : Addrs])

VARIABLES
    contract,    \* the contract in its present form
    origin,      \* ghost: the same as compiled
    given,       \* ghost: for either code, the address first given to a library
    answer       \* ghost: which code was linked last and what link returned

linkVars == <<contract, origin, given, answer>>

Where == {"bytecode", "deployed"}
CarryRefs == {"Contract", "ContractBytecode", "CompactContractBytecode", "CompactContractBytecodeCow",
              "ContractBytecodeSome"}

-----------------------------------------------------------------------------
\* Mutant: only the first occurrence of a placeholder is replaced.
LinkCells_First(cells, lib, a) ==
    [i \in DOMAIN cells |->
       IF cells[i] \in Placeholders(lib) /\ \A j \in 1..(i - 1) : cells[j] # cells[i]
       THEN AddressCell(a) ELSE cells[i]]

\* link(): every occurrence of either placeholder becomes the address.
LinkCells(cells, lib, a) ==
    [i \in DOMAIN cells |-> IF cells[i] \in Placeholders(lib) THEN AddressCell(a) ELSE cells[i]]

\* BytecodeObject::resolve: the text decodes when no placeholder is left.
Resolve(b) ==
    IF \A i \in DOMAIN b.cells : ~IsPlaceholder(b.cells[i]) THEN [b EXCEPT !.kind = "Bytecode"] ELSE b

\* Bytecode::link and CompactBytecode::link: the reference is taken out, and
\* the object resolved when no reference of any file is left.
BytecodeLink(b, lib, a) ==
    IF ~IsUnlinked(b) THEN [b |-> b, full |-> TRUE]
    ELSE IF \A r \in b.refs : r.file # lib.file THEN [b |-> b, full |-> FALSE]
    ELSE LET put == IF lib \in b.refs THEN [b EXCEPT !.cells = LinkCells(@, lib, a), !.refs = @ \ {lib}] ELSE b
             done == IF put.refs = {} THEN Resolve(put) ELSE put
         IN [b |-> done, full |-> put.refs = {} /\ ~IsUnlinked(done)]

\* link_all stops at the library that completes the object.
LinkedUpTo(b, libs) ==
    LET linked[n \in 0..Len(libs)] ==
            IF n = 0 THEN [b |-> b, full |-> FALSE]
            ELSE IF linked[n - 1].full THEN linked[n - 1]
            ELSE BytecodeLink(linked[n - 1].b, libs[n].lib, libs[n].addr)
    IN linked
LinkAll(b, libs) == LinkedUpTo(b, libs)[Len(libs)]

\* replace_placeholders_and_decode: the pattern takes 38 of the 40 characters
\* of a hash placeholder, so an underscore is left on either side of 40 zero
\* bytes and the text does not decode.  A cut name is not matched at all.
Decodes(cells) == \A i \in DOMAIN cells : ~IsPlaceholder(cells[i])
StripPlaceholders(b) == IF IsUnlinked(b) /\ ~Decodes(b.cells) THEN None ELSE b

\* Libraries::parse: file:name:address, the last of equal libraries wins.
ParseLibraries(args) ==
    IF \E i \in DOMAIN args : args[i].parts # 3 THEN [ok |-> FALSE, libs |-> <<>>]
    ELSE LET last == {i \in DOMAIN args : \A j \in (i + 1)..Len(args) : args[j].lib # args[i].lib}
         IN [ok |-> TRUE, libs |-> SetToSeq({[lib |-> args[i].lib, addr |-> args[i].addr] : i \in last})]

\* all_link_references: the runtime code's map replaces, file by file, that of
\* the creation code.
RefsOf(b) == IF b = None THEN {} ELSE b.refs
AllLinkReferences(c) ==
    LET files == {r.file : r \in RefsOf(c.deployed)}
    IN {r \in RefsOf(c.bytecode) : r.file \notin files} \cup RefsOf(c.deployed)

-----------------------------------------------------------------------------
\* The forms of a contract.  Those that carry link references keep everything;
\* the others keep the objects alone.
Bare(b) == IF b = None THEN None ELSE [b EXCEPT !.refs = {}]

Conversions ==
    {<<"Contract", "ContractBytecode">>, <<"Contract", "CompactContractBytecode">>,
     <<"Contract", "CompactContract">>, <<"Contract", "CompactContractRef">>,
     <<"ContractBytecode", "CompactContractBytecode">>, <<"ContractBytecode", "CompactContract">>,
     <<"ContractBytecode", "ContractBytecodeSome">>, <<"ContractBytecodeSome", "CompactContract">>,
     <<"CompactContractBytecode", "ContractBytecode">>, <<"CompactContractBytecode", "CompactContract">>,
     <<"Contract", "CompactContractBytecodeCow">>, <<"CompactContractBytecode", "CompactContractBytecodeCow">>,
     <<"CompactContractBytecodeCow", "CompactContractBytecode">>, <<"CompactContractBytecodeCow", "CompactContract">>,
     <<"CompactContract", "CompactContractSome">>, <<"CompactContractSome", "CompactContract">>,
     <<"CompactContractRef", "CompactContract">>, <<"CompactContractRef", "CompactContractRefSome">>,
     <<"CompactContractRefSome", "CompactContract">>}

\* The TryFrom conversions refuse a contract with a part missing; runtime code
\* counts as present by its deployed bytecode, which may hold no code.
NeedsAll == {"ContractBytecodeSome", "CompactContractSome", "CompactContractRefSome"}
Complete(c) ==
    c.abi /\ c.bytecode # None /\ (c.deployed # None \/ (c.form = "ContractBytecode" /\ c.hasDeployed))

ConvertTo(c, to) ==
    IF to \in CarryRefs THEN [c EXCEPT !.form = to]
    ELSE [c EXCEPT !.form = to, !.bytecode = Bare(@), !.deployed = Bare(@)]

\* into_parts: bytes only of linked code.
IntoParts(c) ==
    [abi |-> c.abi, bytecode |-> c.bytecode # None /\ ~IsUnlinked(c.bytecode),
     deployed |-> c.deployed # None /\ ~IsUnlinked(c.deployed)]

-----------------------------------------------------------------------------
LinkInit ==
    /\ contract \in Contracts
    /\ origin = contract
    /\ given = [w \in Where |-> [l \in Libs |-> NoAddr]]
    /\ answer = [where |-> "bytecode", asked |-> FALSE, full |-> FALSE]

\* The caller links code that is there, in a form with references of its own.
Linkable(w) == contract.form \in CarryRefs \ {"CompactContractBytecodeCow"} /\ contract[w] # None

LinkOne(w, lib, a) ==
    LET r == BytecodeLink(contract[w], lib, a)
    IN /\ Linkable(w)
       /\ contract' = [contract EXCEPT ![w] = r.b]
       /\ given' = IF lib \in contract[w].refs THEN [given EXCEPT ![w][lib] = a] ELSE given
       /\ answer' = [where |-> w, asked |-> TRUE, full |-> r.full]
       /\ UNCHANGED origin

LinkSettings(w, args) ==
    LET p == ParseLibraries(args)
        r == LinkAll(contract[w], p.libs)
        new(l) == l \in contract[w].refs /\ \E k \in DOMAIN p.libs : p.libs[k].lib = l
        address(l) == (CHOOSE x \in ToSet(p.libs) : x.lib = l).addr
    IN /\ Linkable(w) /\ p.ok /\ p.libs # <<>>
       /\ contract' = [contract EXCEPT ![w] = r.b]
       /\ given' = [given EXCEPT ![w] = [l \in Libs |-> IF new(l) THEN address(l) ELSE @[l]]]
       /\ answer' = [where |-> w, asked |-> TRUE, full |-> r.full]
       /\ UNCHANGED origin

Convert(to) ==
    /\ <<contract.form, to>> \in Conversions
    /\ to \in NeedsAll => Complete(contract)
    /\ contract' = ConvertTo(contract, to)
    /\ UNCHANGED <<origin, given, answer>>

LinkNext ==
    \/ \E w \in Where, lib \in Libs, a \in Addrs : LinkOne(w, lib, a)
    \/ \E w \in Where, args \in LibArgs : LinkSettings(w, args)
    \/ \E to \in {c[2] : c \in Conversions} : Convert(to)

LinkSpec == LinkInit /\ [][LinkNext]_linkVars

-----------------------------------------------------------------------------
\* The code a contract should have: every placeholder of a library holds the
\* first address given to it, and nothing else has changed.
WantedCells(w) ==
    [i \in DOMAIN origin[w].cells |->
       LET cell == origin[w].cells[i]
           owner == {l \in Libs : cell \in Placeholders(l) /\ given[w][l] # NoAddr}
       IN IF owner = {} THEN cell ELSE AddressCell(given[w][CHOOSE l \in owner : TRUE])]

\* all_link_references names libraries that either code still needs, and all
\* that the runtime code needs; a library that only the creation code needs is
\* left out when the runtime code needs another library of the same file.
ReferencesFound(c) ==
    LET found == AllLinkReferences(c)
        runtime == RefsOf(c.deployed)
        missing == RefsOf(c.bytecode) \ found
    IN /\ runtime \subseteq found /\ found \subseteq runtime \cup RefsOf(c.bytecode)
       /\ \A l \in missing : \E r \in runtime : r.file = l.file

\* Whatever is linked, in whatever order and form, and however the contract is
\* converted in between: its code is the compiled code with the first given
\* addresses in place; it counts as linked, for link's answer and for
\* into_parts, exactly when no placeholder is left ("Returns true if the
\* bytecode object is fully linked, false otherwise"); and its references are
\* the libraries with placeholders left.  What all_link_references says of them
\* is ReferencesFound.
LinkSound ==
    /\ contract.abi = origin.abi
    /\ \A w \in Where :
         IF origin[w] = None THEN contract[w] = None
         ELSE LET b == contract[w]
              IN /\ b # None /\ b.cells = WantedCells(w)
                 /\ IsUnlinked(b) <=> \E l \in Libs : Holds(b, l)
                 /\ IntoParts(contract)[w] <=> \A l \in Libs : ~Holds(b, l)
                 /\ contract.form \in CarryRefs => b.refs = {l \in Libs : Holds(b, l)}
    /\ answer.asked => (answer.full <=> ~IsUnlinked(contract[answer.where]))
    /\ contract.form \in CarryRefs => ReferencesFound(contract)
=============================================================================
