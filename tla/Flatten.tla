------------------------------ MODULE Flatten ------------------------------
(***************************************************************************)
(* compilers/src/flatten.rs: a target and everything it imports become one *)
(* file.  A source is a sequence of words ("." is a word), and the syntax  *)
(* tree of the compiler a set of nodes at positions of words; flattening   *)
(* collects replacements per file, applies them in order of position and   *)
(* concatenates the files.                                                 *)
(*                                                                         *)
(* A program maps each path to                                             *)
(*   license, pragmas   sequences of words                                 *)
(*   imports            sequence of [path, unit, syms]; unit is the alias  *)
(*                      of a qualified import or "", syms maps the local   *)
(*                      names of an aliased import to the imported ones    *)
(*   defs               sequence of [name, kind, base, members, uses]      *)
(* and a use is [how, words, ids]: ids[i] is the declaration that words[i] *)
(* refers to, and how says where it stands.                                *)
(***************************************************************************)
EXTENDS Integers, Sequences, SequencesExt, FiniteSets

CONSTANTS
    FileOrder    \* the paths in the order of their file names

TopId(p, d) == [p |-> p, d |-> d, m |-> 0]
Member(p, d, m) == [p |-> p, d |-> d, m |-> m]
ImportId(p, k) == [p |-> p, d |-> 0, m |-> k]
NoBase == [p |-> "", d |-> 0, m |-> 0]

FileRank(p) == CHOOSE i \in DOMAIN FileOrder : FileOrder[i] = p

-----------------------------------------------------------------------------
\* The compiler: words of a file and the nodes of its syntax tree.
Chunk(words, nodes) == [words |-> words, nodes |-> nodes]
Node(kind, id, start, end, name) ==
    [kind |-> kind, id |-> id, start |-> start, end |-> end, name |-> name]

Append2(c1, c2) ==
    LET n == Len(c1.words)
    IN Chunk(c1.words \o c2.words,
             c1.nodes \cup {[x EXCEPT !.start = @ + n, !.end = @ + n] : x \in c2.nodes})

Chunks(s) == FoldLeft(Append2, Chunk(<<>>, {}), s)

Dotted(words) == FlattenSeq([i \in DOMAIN words |-> IF i = 1 THEN <<words[1]>> ELSE <<".", words[i]>>])

\* What stands before and after a use: in an expression, as the type of a variable, of
\* an array, as a base, in a using directive.
Before == [expr |-> "use", path |-> "use", array |-> "use", base |-> "is", using |-> "using"]
After == [expr |-> "(", path |-> " ", array |-> "[", base |-> "{", using |-> " "]
Keywords == {Before[h] : h \in DOMAIN Before}
Closings == {After[h] : h \in DOMAIN After}

UseChunk(u) ==
    LET n == Len(u.words)
    IN IF u.how = "doc"
       THEN Chunk(<<"doc", "@inheritdoc", u.words[1], ";">>, {Node("doc", u.ids[1], 1, 3, u.words[1])})
       ELSE Chunk(<<Before[u.how]>> \o Dotted(u.words) \o <<After[u.how]>>,
                  IF u.how = "expr"
                  THEN {Node("ref", u.ids[i], 2 * i - 1, 2 * i, u.words[i]) : i \in 1..n}
                  ELSE {Node("ref", u.ids[n], 1, 2 * n, u.words[n])})

DefChunk(p, d, def) ==
    Chunks(<<Chunk(<<"def", def.name, " ">>, {Node(def.kind, TopId(p, d), 1, 2, def.name)})>>
           \o [m \in DOMAIN def.members |->
                 Chunk(<<"member", def.members[m], " ">>, {Node("member", Member(p, d, m), 1, 2, def.members[m])})]
           \o [u \in DOMAIN def.uses |-> UseChunk(def.uses[u])])

FileChunk(P, p) ==
    LET f == P[p]
    IN Chunks(<<Chunk(f.license, {})>>
              \o [k \in DOMAIN f.pragmas |-> Chunk(<<f.pragmas[k]>>, {Node("pragma", NoBase, 0, 1, f.pragmas[k])})]
              \o [k \in DOMAIN f.imports |-> Chunk(<<"import">>, {Node("import", ImportId(p, k), 0, 1, "")})]
              \o [d \in DOMAIN f.defs |-> DefChunk(p, d, f.defs[d])])

Licenses == {"mit", "gpl"}
AbiCoders == {"abicoder v2", "experimental"}
VersionPragmas == {"solidity >=1 <3", "solidity ^2", "solidity ^1 || ^2"}

\* The comparators of a version pragma; alternatives are not parsed.
Comparators(pragma) ==
    CASE pragma = "solidity >=1 <3" -> {">=1", "<3"}
      [] pragma = "solidity ^2" -> {"^2"}
      [] OTHER -> {}

-----------------------------------------------------------------------------
\* collect_deps: everything reachable, the file itself included.
RECURSIVE CollectDeps(_, _, _)
CollectDeps(P, todo, deps) ==
    IF todo = {} THEN deps
    ELSE LET new == todo \ deps
         IN CollectDeps(P, {P[p].imports[k].path : <<p, k>> \in
                              UNION {{p} \X DOMAIN P[p].imports : p \in new}},
                        deps \cup new)

DepsOf(P, p) == CollectDeps(P, {p}, {})

\* Mutant: the files are put in the order of their names alone.
CollectOrderedDeps_ByName(P, target) ==
    SetToSortSeq(DepsOf(P, target) \ {target}, LAMBDA p, q : FileRank(p) < FileRank(q)) \o <<target>>

\* collect_ordered_deps: fewest dependencies first, then by name; target last.
CollectOrderedDeps(P, target) ==
    LET count == [p \in DepsOf(P, target) |-> Cardinality(DepsOf(P, p))]
    IN SetToSortSeq(DepsOf(P, target) \ {target},
                    LAMBDA p, q : \/ count[p] < count[q]
                                  \/ count[p] = count[q] /\ FileRank(p) < FileRank(q))
       \o <<target>>

\* combine_version_pragmas
CombineVersionPragmas(pragmas) == UNION {Comparators(p) : p \in pragmas}

-----------------------------------------------------------------------------
\* Flattener::new: the ordered sources, their content and their trees.
Flattener(P, target) ==
    LET ordered == CollectOrderedDeps(P, target)
        chunk == [p \in ToSet(ordered) |-> FileChunk(P, p)]
    IN [target |-> target, ordered |-> ordered,
        content |-> [p \in ToSet(ordered) |-> chunk[p].words],
        ast |-> [p \in ToSet(ordered) |-> chunk[p].nodes],
        \* exported_symbols: what the file declares and imports, by local name
        exported |-> [p \in ToSet(ordered) |->
            {<<P[p].defs[d].name, TopId(p, d)>> : d \in DOMAIN P[p].defs}
            \cup UNION {P[p].imports[k].syms : k \in DOMAIN P[p].imports}]]

Update(p, start, end, text) == [path |-> p, start |-> start, end |-> end, text |-> text]
ItemLocation(p, n) == [path |-> p, start |-> n.start, end |-> n.end]

Nodes(F, kinds) ==
    UNION {{[path |-> p, node |-> n] : n \in {x \in F.ast[p] : x.kind \in kinds}} : p \in DOMAIN F.ast}

\* append_filenames
AppendFilenames(F) == {Update(p, 0, 0, <<"file">>) : p \in ToSet(F.ordered)}

\* collect_top_level_definitions: contracts, structs, functions, ...: the
\* match has no arm for file-level errors.
CollectTopLevelDefinitions(F) == Nodes(F, {"contract"})

\* collect_references
CollectReferences(F) == Nodes(F, {"ref"})

Suffixed(name, i) == name \o "_" \o ToString(i)

\* rename_top_level_definitions: the name each top-level declaration gets.
TopLevelNames(F) ==
    LET defs == CollectTopLevelDefinitions(F)
        before(x, y) ==
            LET i(z) == CHOOSE k \in DOMAIN F.ordered : F.ordered[k] = z.path
            IN i(x) < i(y) \/ (i(x) = i(y) /\ x.node.start < y.node.start)
        same(x) == {y \in defs : y.node.name = x.node.name}
        def(id) == CHOOSE x \in defs : x.node.id = id
    IN [id \in {x.node.id : x \in defs} |->
          IF Cardinality(same(def(id))) > 1
          THEN Suffixed(def(id).node.name, Cardinality({y \in same(def(id)) : before(y, def(id))}))
          ELSE def(id).node.name]

RenameTopLevelDefinitions(F, names) ==
    {Update(x.path, x.node.start, x.node.end, <<names[x.node.id]>>) :
       x \in {y \in CollectTopLevelDefinitions(F) \cup CollectReferences(F) :
                y.node.id \in DOMAIN names}}

\* rename_contract_level_types_references: a member named by more than its own
\* name is written Parent.Child.
RenameContractLevel(F, names) ==
    LET members == {x.node.id : x \in Nodes(F, {"member"})}
    IN {Update(x.path, x.node.start, x.node.end,
               <<names[TopId(x.node.id.p, x.node.id.d)], ".", x.node.name>>) :
          x \in {y \in CollectReferences(F) :
                   y.node.id \in members /\ y.node.end - y.node.start # 1}}

\* remove_qualified_imports: the alias and the dot after it.
RemoveQualifiedImports(F) ==
    LET ids == {x.node.id : x \in Nodes(F, {"import"})}
    IN {Update(x.path, x.node.start, x.node.end + 1, <<>>) :
          x \in {y \in CollectReferences(F) : y.node.id \in ids}}

\* update_inheritdocs: the name is looked up among the file's exported symbols
\* and replaced, or the tag is removed.
UpdateInheritdocs(F, names) ==
    {LET known == {e \in F.exported[x.path] : e[1] = x.node.name /\ e[2] \in DOMAIN names}
     IN IF known # {}
        THEN Update(x.path, x.node.start + 1, x.node.end, <<names[(CHOOSE e \in known : TRUE)[2]]>>)
        ELSE Update(x.path, x.node.start, x.node.end, <<>>) :
       x \in Nodes(F, {"doc"})}

\* remove_imports, process_pragmas, process_licenses
RemoveNodes(F, kind) ==
    {Update(x.path, x.node.start, x.node.end, <<>>) : x \in Nodes(F, {kind})}

CollectLicenses(F) ==
    {l \in [path : ToSet(F.ordered), start : 0..2] :
       /\ l.start < Len(F.content[l.path])
       /\ F.content[l.path][l.start + 1] \in Licenses
       /\ \A i \in 1..l.start : F.content[l.path][i] \notin Licenses}

ProcessLicenses(F) == {Update(l.path, l.start, l.start + 1, <<>>) : l \in CollectLicenses(F)}

TargetLicense(F) ==
    LET own == {l \in CollectLicenses(F) : l.path = F.target}
    IN IF own = {} THEN <<>>
       ELSE LET l == CHOOSE x \in own : TRUE IN <<F.content[l.path][l.start + 1]>>

Pragmas(F) == {x.node.name : x \in Nodes(F, {"pragma"})}

\* A set of pragma locations has no order: any abicoder pragma may be taken.
TargetPragmas(F) ==
    [versions |-> CombineVersionPragmas(Pragmas(F)), abicoder |-> Pragmas(F) \cap AbiCoders]

Updates(F) ==
    LET names == TopLevelNames(F)
    IN UNION {AppendFilenames(F), RenameTopLevelDefinitions(F, names),
              RenameContractLevel(F, names), RemoveQualifiedImports(F),
              UpdateInheritdocs(F, names), RemoveNodes(F, "import"),
              RemoveNodes(F, "pragma"), ProcessLicenses(F)}

-----------------------------------------------------------------------------

\* range_by_offset, replace_source_content: positions shift by what earlier
\* replacements added.
ReplaceOne(acc, u) ==
    LET from == u.start + acc.offset
        upto == u.end + acc.offset
    IN [content |-> SubSeq(acc.content, 1, from) \o u.text
                    \o SubSeq(acc.content, upto + 1, Len(acc.content)),
        offset |-> acc.offset + Len(u.text) - (u.end - u.start)]

\* A file's updates are kept sorted by start, then end.
InReplaceOrder(updates, n) ==
    FlattenSeq([k \in 1..(2 * n + 2) |->
      SetToSeq({u \in updates : 2 * u.start + (IF u.end > u.start THEN 2 ELSE 1) = k})])

ReplaceSourceContent(content, updates) ==
    FoldLeft(ReplaceOne, [content |-> content, offset |-> 0], InReplaceOrder(updates, Len(content))).content

\* apply_updates
ApplyUpdates(F, updates) ==
    [p \in DOMAIN F.content |->
       ReplaceSourceContent(F.content[p], {u \in updates : u.path = p})]

\* FlatteningResult: license, pragmas, sources in order.
FlattenTarget(P, target) ==
    LET F == Flattener(P, target)
        applied == ApplyUpdates(F, Updates(F))
    IN [license |-> TargetLicense(F), pragmas |-> TargetPragmas(F),
        words |-> FlattenSeq([i \in DOMAIN F.ordered |-> applied[F.ordered[i]]])]

-----------------------------------------------------------------------------
\* ProjectPathsConfig::flatten (config.rs), for sources that do not compile:
\* directives are cut out and the aliases of an import are replaced by the
\* imported names, one alias after the other.

\* create_contract_or_lib_name_regex: where it finds the name.  It looks for the name
\* in a using directive, in a list of bases, and before a dot, a parenthesis or a
\* space unless a function is declared with it; matches do not overlap.
Found(words, name) ==
    LET follows(i) == IF i < Len(words) THEN words[i + 1] ELSE ""
        hit[i \in 0..Len(words)] ==
            /\ i > 1 /\ words[i] = name
            /\ \/ words[i - 1] = "using" /\ follows(i) = " "
               \/ words[i - 1] = "is"
               \/ /\ words[i - 1] \notin {"function", "error", "as"}
                  /\ follows(i) \in {".", "(", " "}
                  /\ ~(i > 2 /\ hit[i - 2])
    IN {i \in DOMAIN words : hit[i]}

SimplyRenamed(words, imports) ==
    LET aliases == FlattenSeq([k \in DOMAIN imports |-> imports[k].renames])
        replace(ws, a) == [i \in DOMAIN ws |-> IF i \in Found(ws, a[1]) THEN a[2] ELSE ws[i]]
    IN FoldLeft(replace, words, aliases)

\* SolData keeps one pragma of a kind per file, the last.
Parsed(F, p, kind) ==
    LET all == {n \in F.ast[p] : n.kind = "pragma" /\ n.name \in kind}
    IN {n \in all : \A m \in all : m.start <= n.start}

\* ... and a license only if it is on the first line.
FirstLine(F, p) == IF F.content[p] # <<>> /\ F.content[p][1] \in Licenses THEN <<F.content[p][1]>> ELSE <<>>

SimplyCut(F, p) ==
    LET cut == {n \in F.ast[p] : n.kind = "import"} \cup Parsed(F, p, VersionPragmas)
                  \cup Parsed(F, p, {"experimental"})
    IN ReplaceSourceContent(F.content[p],
            {Update(p, n.start, n.end, <<>>) : n \in cut}
            \cup IF FirstLine(F, p) = <<>> THEN {} ELSE {Update(p, 0, 1, <<>>)})

SimplyFlattened(P, target) ==
    LET F == Flattener(P, target)
        kept(kind) == UNION {{n.name : n \in Parsed(F, p, kind)} : p \in ToSet(F.ordered)}
    IN [license |-> FirstLine(F, target),
        pragmas |-> [versions |-> CombineVersionPragmas(kept(VersionPragmas)),
                     abicoder |-> kept({"experimental"})],
        words |-> FlattenSeq([i \in DOMAIN F.ordered |->
                     <<"file">> \o SimplyRenamed(SimplyCut(F, F.ordered[i]), P[F.ordered[i]].imports)])]

-----------------------------------------------------------------------------
\* Reading the flattened file: names of its definitions, and what its uses say.
Sections(words, keywords, ends) ==
    LET at == SelectSeq([i \in DOMAIN words |-> i], LAMBDA i : words[i] \in keywords)
        stop(i) == CHOOSE j \in i..Len(words) : words[j] \in ends /\ \A k \in i..(j-1) : words[k] \notin ends
    IN [n \in DOMAIN at |-> SubSeq(words, at[n] + 1, stop(at[n]) - 1)]

\* The program's definitions and uses in the order of the flattened file.
DefsInOrder(P, ordered) ==
    FlattenSeq([i \in DOMAIN ordered |->
      [d \in DOMAIN P[ordered[i]].defs |-> [id |-> TopId(ordered[i], d), def |-> P[ordered[i]].defs[d]]]])

UsesInOrder(defs, hows) ==
    FlattenSeq([n \in DOMAIN defs |->
      LET mine == SelectSeq(defs[n].def.uses, LAMBDA u : u.how \in hows)
      IN [k \in DOMAIN mine |-> [in |-> n, use |-> mine[k]]]])

Acyclic(P) == \A p, q \in DOMAIN P : p # q => ~(p \in DepsOf(P, q) /\ q \in DepsOf(P, p))

FlatProgram(P, target, out) ==
    LET defs == DefsInOrder(P, CollectOrderedDeps(P, target))
    IN [defs |-> defs,
        names |-> Sections(out.words, {"def"}, {" "}),
        uses |-> UsesInOrder(defs, DOMAIN Before),
        said |-> Sections(out.words, Keywords, Closings),
        docs |-> UsesInOrder(defs, {"doc"}),
        tags |-> Sections(out.words, {"doc"}, {";"})]

PlaceOf(fp, id) == CHOOSE n \in DOMAIN fp.defs : fp.defs[n].id = TopId(id.p, id.d)

\* Every definition has a name of its own in the flattened file.
Unambiguous(fp) ==
    /\ Len(fp.names) = Len(fp.defs)
    /\ \A m, n \in DOMAIN fp.names : m # n => fp.names[m] # fp.names[n]

\* Use k says, in the flattened file, the declaration it referred to.
Meant(fp, k) ==
    LET id == fp.uses[k].use.ids[Len(fp.uses[k].use.ids)]
        n == PlaceOf(fp, id)
    IN IF id.m = 0 THEN fp.said[k] = fp.names[n]
       ELSE \/ fp.said[k] = fp.names[n] \o <<".", fp.defs[n].def.members[id.m]>>
            \/ /\ fp.said[k] = <<fp.defs[n].def.members[id.m]>>
               /\ fp.uses[k].in = n \/ fp.defs[fp.uses[k].in].def.base = fp.defs[n].id

MeaningKept(fp) == Len(fp.said) = Len(fp.uses) /\ \A k \in DOMAIN fp.uses : Meant(fp, k)

\* The same for the text-based flattener, which leaves an alias where its pattern does
\* not look for one.
SimplyMeant(fp) ==
    /\ Len(fp.said) = Len(fp.uses)
    /\ \A k \in DOMAIN fp.uses :
          \/ Meant(fp, k)
          \/ fp.uses[k].use.how = "array" /\ fp.said[k] = Dotted(fp.uses[k].use.words)

\* A documentation tag that is kept names the contract it named.
DocsKept(fp) ==
    /\ Len(fp.tags) = Len(fp.docs)
    /\ \A k \in DOMAIN fp.docs :
         fp.tags[k] \in {<<>>, <<"@inheritdoc">> \o fp.names[PlaceOf(fp, fp.docs[k].use.ids[1])]}

\* A base is written before what derives from it.
BasesFirst(fp) ==
    \A n \in DOMAIN fp.defs :
      fp.defs[n].def.base # NoBase => PlaceOf(fp, fp.defs[n].def.base) < n

Directives(words) == ToSet(words) \cap (Licenses \cup AbiCoders \cup VersionPragmas \cup {"import"})

AllPragmas(P, target) == UNION {ToSet(P[p].pragmas) : p \in DepsOf(P, target)}

\* Flattening keeps the program: names apart, uses and documentation tags say what they
\* said, bases come first when imports have no cycle, and of the directives one license,
\* an abicoder pragma if there was one, and the conjunction of all version pragmas that
\* can be parsed, not only the target's, are left.
FlattenKeeps(P, target, out) ==
    LET fp == FlatProgram(P, target, out)
        ps == AllPragmas(P, target)
    IN /\ Unambiguous(fp) /\ MeaningKept(fp) /\ DocsKept(fp)
       /\ Acyclic(P) => BasesFirst(fp)
       /\ Directives(out.words) = {}
       /\ out.license = P[target].license
       /\ \A p \in ps : Comparators(p) \subseteq out.pragmas.versions
       /\ (out.pragmas.abicoder # {}) <=> (ps \cap AbiCoders # {})

\* What the text-based flattener keeps: names and uses, the license, and every version
\* pragma, in the conjunction or where it was.
SimplyKeeps(P, target, out) ==
    LET fp == FlatProgram(P, target, out)
    IN /\ Unambiguous(fp) /\ SimplyMeant(fp)
       /\ Directives(out.words) \cap (Licenses \cup {"import", "experimental"}) = {}
       /\ out.license = P[target].license
       /\ \A p \in AllPragmas(P, target) \ Directives(out.words) :
            Comparators(p) \subseteq out.pragmas.versions

\* The updates of one file never overlap, so that the order in which they are
\* applied does not matter.
UpdatesApart(F) ==
    \A u, v \in Updates(F) :
      (u # v /\ u.path = v.path) => u.end <= v.start \/ v.end <= u.start
=============================================================================
