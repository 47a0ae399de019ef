------------------------------ MODULE Resolver ------------------------------
(***************************************************************************)
(* The dependency graph (compilers/src/resolver): Graph::resolve_sources   *)
(* builds it breadth first, get_input_node_versions and resolve_settings   *)
(* choose a compiler version and a settings profile for every input file,  *)
(* into_sources_by_version makes the compiler inputs of it.                *)
(*                                                                         *)
(* A world is a project on disk with its configuration:                    *)
(*   fs, paths        existing paths; the ProjectPathsConfig               *)
(*   inputs           the input files, in the order of their paths         *)
(*   imports[f]       the import paths of file f, in order; of a Vyper     *)
(*                    file its lines (module Vyper)                        *)
(*   lang[f]          its language                                         *)
(*   req[f]           the versions its pragma admits, of a Vyper file the  *)
(*                    pragma itself; or Unspecified                        *)
(*   restricted[f]    its restrictions, or Unspecified                     *)
(*   profiles         the settings profiles, in order                      *)
(*   clean            the files whose artifacts are read from the cache    *)
(*   installed, remote, offline    the compiler versions                   *)
(* Version choice is the same for every language but uses its own versions *)
(* (installed[l], remote[l]).  Indices start at 1.                         *)
(***************************************************************************)
EXTENDS Vyper, FiniteSetsExt

CONSTANT Worlds   \* families of projects

\* Every input file is there once, and the imports of every file that exists are known.
ASSUME WorldsAssumption == \A family \in Worlds : \A world \in family :
    /\ world.inputs \in Seq(DOMAIN world.imports) /\ IsInjective(world.inputs)
    /\ world.repeat \in BOOLEAN
    /\ \A f \in DOMAIN world.imports : world.imports[f] \in Seq(ToSet(world.imports[f]))

VARIABLE res

NoGraph ==
    [st |-> "idle", w |-> Unspecified, queue |-> <<>>, index |-> <<>>, nodes |-> <<>>,
     edges |-> <<>>, rev |-> <<>>, missing |-> {}, include |-> {}, chosen |-> <<>>, jobs |-> {},
     primary |-> <<>>, blame |-> {}, stack |-> <<>>, shown |-> <<>>, json |-> <<>>]

ResolverInit == res = NoGraph

proj == res.w
Inputs == 1..Len(proj.inputs)
IndexOf(index, f) == CHOOSE k \in 1..Len(index) : index[k] = f

-----------------------------------------------------------------------------
(* resolve_sources                                                         *)

\* All input files are parsed and queued before any import is looked at.
ParseSources ==
    /\ res.st = "idle"
    /\ \E family \in Worlds : \E world \in family :
        res' = [NoGraph EXCEPT !.st = "graph", !.w = world,
                               !.queue = ParseOrder(world.inputs),
                               !.index = ParseOrder(world.inputs), !.include = {world.paths.root}]

\* add_node: a file seen for the first time is read and queued; its index is
\* the number of files known so far.
AddNode(acc, target) ==
    IF target \in ToSet(acc.index)
    THEN [acc EXCEPT !.out = Append(@, IndexOf(acc.index, target))]
    ELSE [acc EXCEPT !.out = Append(@, Len(acc.index) + 1), !.index = Append(@, target),
                     !.queue = Append(@, target)]

\* One import: an import that cannot be resolved or read is only noted.
AddResolved(acc, f, import, r) ==
    IF r.file = NoPath \/ r.file \notin DOMAIN proj.imports \/ GuessLang(r.file) = Unspecified
    THEN [acc EXCEPT !.missing = @ \cup {<<import, f>>}, !.include = @ \cup ({r.include} \ {NoPath})]
    ELSE AddNode([acc EXCEPT !.include = @ \cup ({r.include} \ {NoPath})], r.file)
AddImport(acc, f, import) ==
    AddResolved(acc, f, import, ResolveImport(proj.fs, proj.paths, Parent(f), import))

\* The imports of f one after the other.
AddedUpTo(acc, f, imports) ==
    LET added[n \in 0..Len(imports)] ==
            IF n = 0 THEN acc ELSE AddImport(added[n - 1], f, imports[n])
    IN added

\* resolve_imports: a Solidity file's imports are taken as they are written.
ImportsOf(f) ==
    IF proj.lang[f] = "Vyper" THEN ResolveImports(proj.fs, proj.paths, f, proj.imports[f])
    ELSE [ok |-> TRUE, files |-> proj.imports[f], include |-> {}]

\* File f has been visited, with acc the state after its imports.
Visited(f, acc) ==
    [res EXCEPT !.queue = acc.queue, !.index = acc.index, !.missing = acc.missing,
                !.include = acc.include, !.nodes = Append(@, f), !.edges = Append(@, acc.out)]
Visit(f, queue, found) ==
    IF ~found.ok THEN [res EXCEPT !.st = "unresolved"]
    ELSE Visited(f, AddedUpTo([queue |-> queue, index |-> res.index, out |-> <<>>, missing |-> res.missing,
                               include |-> res.include \cup found.include],
                              f, found.files)[Len(found.files)])

\* Mutant: the file queued last is visited first.
VisitNode_Lifo ==
    /\ res.st = "graph" /\ res.queue # <<>>
    /\ res' = Visit(Last(res.queue), Front(res.queue), ImportsOf(Last(res.queue)))

VisitNode ==
    /\ res.st = "graph" /\ res.queue # <<>>
    /\ res' = Visit(Head(res.queue), Tail(res.queue), ImportsOf(Head(res.queue)))

\* The reverse edges; how often a file imports another is not asked for.
RevEdges(edges) == [k \in 1..Len(edges) |-> {j \in 1..Len(edges) : k \in ToSet(edges[j])}]

FinishGraph ==
    /\ res.st = "graph" /\ res.queue = <<>>
    /\ res' = [res EXCEPT !.st = "resolved", !.rev = RevEdges(res.edges)]

-----------------------------------------------------------------------------
(* GraphEdges                                                              *)

\* NodesIter: breadth first, every edge once: a node that several files
\* import is yielded several times, but expanded once.
NodeIds(start) ==
    LET bound == 1 + FoldLeft(LAMBDA n, es : n + Len(es), 0, res.edges)
        walk[n \in 0..bound] ==
            IF n = 0 THEN [stack |-> <<start>>, visited |-> {}, out |-> <<>>]
            ELSE LET it == walk[n - 1]
                 IN IF it.stack = <<>> THEN it
                    ELSE LET node == Head(it.stack)
                         IN [stack |-> Tail(it.stack) \o
                                 (IF node \in it.visited THEN <<>> ELSE res.edges[node]),
                             visited |-> it.visited \cup {node}, out |-> Append(it.out, node)]
    IN walk[bound].out

ImportersOf(f) == {res.nodes[k] : k \in res.rev[IndexOf(res.index, f)]}
IsInputFile(f) == f \in ToSet(res.index) /\ IndexOf(res.index, f) \in Inputs

-----------------------------------------------------------------------------
(* Versions and profiles                                                   *)

\* available_versions: what is installed and, unless offline, what can be (Vyper has
\* the one installed version or, without it, none).
AvailableVersions(l) == proj.installed[l] \cup IF proj.offline THEN {} ELSE proj.remote[l]

\* ParsedSource::version_req
PragmaOf(f) ==
    IF proj.lang[f] = "Vyper" THEN VersionReq(proj.req[f], AvailableVersions("Vyper")) ELSE proj.req[f]

\* version_requirement: what pragma and restrictions admit, taken together.
VersionRequirement(k) ==
    LET f == res.nodes[k]
        other == IF proj.restricted[f] = Unspecified THEN Unspecified ELSE proj.restricted[f].version
    IN IF Unspecified \in {PragmaOf(f), other} THEN Or(PragmaOf(f), other) ELSE PragmaOf(f) \cap other

VersionFits(v, k) == VersionRequirement(k) = Unspecified \/ v \in VersionRequirement(k)

ProfileFits(p, k) ==
    LET r == proj.restricted[res.nodes[k]]
    IN r = Unspecified \/ SatisfiesBoth(proj.profiles[p], r)

\* The candidates that fit every node, fits[j] being those that fit the j-th; if
\* there is none, the nodes named in the error: the one at which the candidates
\* ran out, and the first that conflicts with it, or all.
Retain(all, nodes, fits) ==
    LET left(n) == {c \in all : \A j \in 1..n : c \in fits[j]}
        out == {n \in 1..Len(nodes) : left(n) = {}}
        failed == Min(out)
        usable == fits[failed]
        against == {n \in 1..Len(nodes) : usable \cap fits[n] = {}}
    IN IF out = {} THEN [kept |-> left(Len(nodes)), blame |-> {}]
       ELSE [kept |-> {},
             blame |-> IF usable = {} THEN {nodes[failed]}
                       ELSE IF against # {} THEN {nodes[failed], nodes[Min(against)]}
                       ELSE ToSet(nodes)]

\* Mutant: only the pragma of the file itself is looked at.
RetainCompatibleVersions_OwnPragma(k, all) == Retain(all, <<k>>, <<{v \in all : VersionFits(v, k)}>>)

RetainCompatibleVersions(k, all) ==
    LET nodes == NodeIds(k)
    IN Retain(all, nodes, [j \in 1..Len(nodes) |-> {v \in all : VersionFits(v, nodes[j])}])
RetainCompatibleProfiles(k) ==
    LET nodes == NodeIds(k)
        all == 1..Len(proj.profiles)
    IN Retain(all, nodes, [j \in 1..Len(nodes) |-> {p \in all : ProfileFits(p, nodes[j])}])

\* Mutant: the newest version, installed or not.
Best_Newest(l, versions) == Max(versions)

\* remove_candidate: the highest installed version, else the highest.
Best(l, versions) ==
    IF versions \cap proj.installed[l] # {} THEN Max(versions \cap proj.installed[l]) ELSE Max(versions)

\* The last in the order of CompilerVersion, in which Remote follows Installed.
LastOf(l, versions) ==
    IF versions \ proj.installed[l] # {} THEN Max(versions \ proj.installed[l]) ELSE Max(versions)

\* resolve_multiple_versions: one version for all if there is one; otherwise each
\* file takes a version already taken, else its best one.
ResolveMultipleVersions(l, files, cand) ==
    LET common == {v \in AvailableVersions(l) : \A k \in ToSet(files) : v \in cand[k]}
        add(acc, k) ==
            LET taken == {acc[j] : j \in DOMAIN acc} \cap cand[k]
                v == IF taken # {} THEN LastOf(l, taken) ELSE Best(l, cand[k])
            IN [j \in DOMAIN acc \cup {k} |-> IF j = k THEN v ELSE acc[j]]
    IN IF common # {} THEN [k \in ToSet(files) |-> Best(l, common)]
       ELSE FoldLeft(add, <<>>, files)

\* input_nodes_by_language
InputsByLanguage(l) == SelectSeq([k \in Inputs |-> k], LAMBDA k : proj.lang[res.nodes[k]] = l)
Languages == {proj.lang[res.nodes[k]] : k \in Inputs}

\* get_input_node_versions: the versions of one language, or the errors of all
\* its files.
VersionsFrom(l, files, kept) ==
    LET cand == [k \in ToSet(files) |-> kept[k].kept]
        first == [k \in ToSet(files) |-> Best(l, cand[k])]
    IN IF \E k \in ToSet(files) : cand[k] = {}
       THEN [ok |-> FALSE, blame |-> {kept[k].blame : k \in {j \in ToSet(files) : cand[j] = {}}},
             versions |-> <<>>]
       ELSE [ok |-> TRUE, blame |-> {},
             versions |-> IF Cardinality({first[k] : k \in ToSet(files)}) > 1
                          THEN ResolveMultipleVersions(l, files, cand) ELSE first]
InputVersions(l) ==
    IF AvailableVersions(l) = {} THEN [ok |-> FALSE, blame |-> {}, versions |-> <<>>]
    ELSE VersionsFrom(l, InputsByLanguage(l),
                      [k \in ToSet(InputsByLanguage(l)) |-> RetainCompatibleVersions(k, AvailableVersions(l))])

ChooseVersions ==
    /\ res.st = "resolved"
    /\ \E found \in {[l \in Languages |-> InputVersions(l)]} :
        \/ /\ \A l \in Languages : found[l].ok
           /\ res' = [res EXCEPT !.st = "versions",
                                 !.chosen = [k \in Inputs |-> found[proj.lang[res.nodes[k]]].versions[k]]]
        \/ \E l \in Languages :
             /\ ~found[l].ok
             /\ res' = [res EXCEPT !.st = "failed", !.blame = found[l].blame]

\* resolve_settings: the first profile that fits the file and all its imports.
ChooseSettings ==
    /\ res.st = "versions"
    /\ LET kept == [k \in Inputs |-> RetainCompatibleProfiles(k)]
           bad == {k \in Inputs : kept[k].kept = {}}
       IN res' = IF bad # {} THEN [res EXCEPT !.st = "failed", !.blame = {kept[k].blame : k \in bad}]
                 ELSE [res EXCEPT !.st = "settings",
                                  !.primary = [k \in Inputs |-> Min(kept[k].kept)]]

-----------------------------------------------------------------------------
(* into_sources_by_version                                                 *)

\* The nodes at most n edges away from those to start with.
FollowedIn(start) ==
    LET grow[n \in 0..Len(res.nodes)] ==
            IF n = 0 THEN start ELSE grow[n - 1] \cup UNION {ToSet(res.edges[j]) : j \in grow[n - 1]}
    IN grow

\* Mutant: a file that another input of the job imports is not followed.
JobSources_Skipping(inputs) ==
    inputs \cup UNION {ToSet(res.edges[k]) : k \in inputs}

\* insert_imports from every input of the job; `processed` starts with all of them.
JobSources(inputs) == FollowedIn(inputs)[Len(res.nodes)]

\* MultiCompilerInput::build: the settings, with the sources' own selection and
\* the include paths of the graph, are adjusted to compiler and version.
BuildSettings(s, v, l, files) ==
    IF l = "Vyper"
    THEN VyperSanitize([s.vyper EXCEPT !.search = res.include,
                                       !.selection = SparseSelection(@, files, files \ proj.clean)],
                       v, {f \in files : Last(f) \in VyperInterfaces})
    ELSE [Sanitize(s, v, l) EXCEPT !.selection = SparseSelection(@, files, files \ proj.clean)]

\* One compiler input for each language, version and profile.
MakeJob(l, v, p, sources) ==
    [lang |-> l, version |-> v, profile |-> p, sources |-> sources,
     settings |-> BuildSettings(proj.profiles[p], v, l, {res.nodes[k] : k \in sources})]
MakeJobs ==
    /\ res.st = "settings"
    /\ LET key(k) == <<proj.lang[res.nodes[k]], res.chosen[k], res.primary[k]>>
       IN res' = [res EXCEPT !.st = "done",
            !.jobs = {MakeJob(key(k)[1], key(k)[2], key(k)[3],
                              JobSources({j \in Inputs : key(j) = key(k)})) : k \in Inputs}]

-----------------------------------------------------------------------------
(* tree::print, with duplicates suppressed or repeated                     *)

\* The nodes to print, each with the nodes it is printed under.
PrintTree ==
    /\ res.st = "resolved"
    /\ res' = [res EXCEPT !.st = "print",
                          !.stack = [k \in Inputs |-> [node |-> k, under |-> <<>>]]]

Shown(k) == \E i \in 1..Len(res.shown) : res.shown[i].node = k
ImportLines(line) ==
    [k \in 1..Len(res.edges[line.node]) |->
        [node |-> res.edges[line.node][k], under |-> Append(line.under, line.node)]]

\* print_node: its imports follow unless it was printed before or is below itself.
PrintNode ==
    /\ res.st = "print" /\ res.stack # <<>>
    /\ LET line == Head(res.stack)
           open == (proj.repeat \/ ~Shown(line.node)) /\ line.node \notin ToSet(line.under)
       IN res' = [res EXCEPT !.stack = (IF open THEN ImportLines(line) ELSE <<>>) \o Tail(@),
                             !.shown = Append(@, [node |-> line.node, open |-> open])]

-----------------------------------------------------------------------------
(* Project::standard_json_input                                            *)

\* The target and all it imports, each once, named relative to the root.
StandardJson(target) ==
    /\ res.st = "resolved" /\ target \in 1..Len(res.nodes)
    /\ LET add(acc, k) == IF k \in ToSet(acc) THEN acc ELSE Append(acc, k)
           sources == FoldLeft(add, <<target>>, NodeIds(target))
       IN res' = [res EXCEPT !.st = "json",
                    !.json = [k \in 1..Len(sources) |-> RebasePath(proj.paths.root, res.nodes[sources[k]])]]

ResolverNext ==
    \/ ParseSources \/ VisitNode \/ FinishGraph \/ ChooseVersions \/ ChooseSettings \/ MakeJobs
    \/ PrintTree \/ PrintNode \/ (\E k \in 1..Len(res.nodes) : StandardJson(k))

ResolverSpec == ResolverInit /\ [][ResolverNext]_res

-----------------------------------------------------------------------------
(* Properties                                                              *)

ReachIn(k) == FollowedIn({k})
Reach(k) == ReachIn(k)[Len(res.nodes)]

GraphAligned ==
    res.st \notin {"idle", "graph", "unresolved"} =>
        /\ res.nodes = res.index /\ Len(res.edges) = Len(res.nodes)
        /\ ToSet(SubSeq(res.nodes, 1, Len(proj.inputs))) = ToSet(proj.inputs)
        /\ \A k \in 1..Len(res.nodes) :
             /\ Len(res.edges[k])
                   = Cardinality({i \in 1..Len(ImportsOf(res.nodes[k]).files) :
                                    <<ImportsOf(res.nodes[k]).files[i], res.nodes[k]>> \notin res.missing})
             /\ \A j \in ToSet(res.edges[k]) :
                  /\ res.nodes[k] \in ImportersOf(res.nodes[j])
                  /\ \E i \in ToSet(ImportsOf(res.nodes[k]).files) :
                        ResolveImport(proj.fs, proj.paths, Parent(res.nodes[k]), i).file = res.nodes[j]
             /\ k \in Reach(k) /\ (k \in UNION {Reach(i) : i \in Inputs})

\* What the releases of solc brought: options, by the version, and EVM versions
\* after Byzantium.
SolcNews ==
    {<<600, {"bytecodeHash", "debug"}>>, <<703, {"stopAfter"}>>, <<705, {"viaIr"}>>, <<805, {"inliner"}>>,
     <<807, {"modelChecker"}>>, <<810, {"debugInfo", "invariants"}>>, <<818, {"cborMetadata", "eldarica"}>>,
     <<820, {"showProvedSafe"}>>, <<822, {"loopIncrement"}>>}
EvmNews == {422, 505, 514, 805, 807, 818, 820, 824, 827, OsakaSolc}
SolcHas(o, v) == \E news \in SolcNews : o \in news[2] /\ v >= news[1]

\* simple_counter_for_loop_unchecked_increment is sent to versions without it, too.
AlwaysSent == {"loopIncrement"}
SolcKnows(j) ==
    /\ \A o \in j.settings.options \ AlwaysSent : SolcHas(o, j.version)
    /\ j.settings.viaIr # Unspecified => SolcHas("viaIr", j.version)
    /\ j.settings.hash # Unspecified => SolcHas("bytecodeHash", j.version)
    /\ j.settings.evm # Unspecified =>
         /\ j.version >= ByzantiumSolc
         /\ j.settings.evm <= Byzantium + Cardinality({v \in EvmNews : v <= j.version})

\* Whether Vyper itself finds the imports of a file: a relative one by going up
\* from the file, any other from the job's search paths.  A relative import that
\* only a library has is resolved as well, although Vyper does not look there.
OnlyInLibrary(f, i) ==
    /\ i.level > 0
    /\ \A k \in 1..2 : Candidates(<<LevelsUp(f, i.level)>>, i.path)[k].file \notin proj.fs
VyperFinds(j, f) ==
    LET read == ParseImports(proj.imports[f])
        wanted == Selected(read, {i \in ToSet(read) : ~IsBuiltin(i)})
        found == ImportsOf(f).files
    IN \A k \in 1..Len(wanted) :
         \/ \E dir \in IF wanted[k].level > 0 THEN {LevelsUp(f, wanted[k].level)} ELSE j.settings.search :
               \E c \in 1..2 : Candidates(<<dir>>, wanted[k].path)[c].file = found[k]
         \/ OnlyInLibrary(f, wanted[k])

\* The list of outputs of a file that is read from the cache stays empty: it gets
\* its default before it is written, when it has no entry yet.
VyperKnows(j) ==
    LET selection == j.settings.selection
        files == {res.nodes[k] : k \in j.sources}
    IN /\ j.version >= VyperSince[7] =>
            /\ j.settings.evm <= 12
            /\ j.settings.evm \in DOMAIN VyperSince => j.version >= VyperSince[j.settings.evm]
       /\ \A f \in DOMAIN selection : Last(f) \notin VyperInterfaces
       /\ \A f \in DOMAIN selection : \A c \in DOMAIN selection[f] : selection[f][c] \cap VyperRejects = {}
       /\ \A f \in DOMAIN selection \ proj.clean :
            \A c \in DOMAIN StoredSelection(selection)[f] : StoredSelection(selection)[f][c] # {}
       /\ \A f \in files : proj.req[f] # Unspecified => Pep440Admits(proj.req[f], j.version)
       /\ j.version >= SearchPathsSince => \A f \in files : VyperFinds(j, f)
       /\ j.version < SearchPathsSince => j.settings.search = Unspecified

\* The jobs of a build, against the graph they are made from.
JobsWhole ==
    res.st = "done" =>
        /\ \A k \in Inputs :
             \E j \in res.jobs :
                /\ j.lang = proj.lang[res.nodes[k]] /\ j.version = res.chosen[k]
                /\ j.profile = res.primary[k] /\ k \in j.sources
        /\ \A j \in res.jobs : \A k \in j.sources : ToSet(res.edges[k]) \subseteq j.sources
JobsCompilable ==
    res.st = "done" =>
        /\ \A j \in res.jobs : \A k \in j.sources : VersionFits(j.version, k) /\ ProfileFits(j.profile, k)
        /\ \A j \in res.jobs : IF j.lang = "Vyper" THEN VyperKnows(j) ELSE SolcKnows(j)

\* Whether pragma and restrictions admit a version, a Vyper pragma in the sense of PEP 440.
Admitted(v, k) ==
    LET p == proj.req[res.nodes[k]]
    IN \/ VersionFits(v, k)
       \/ /\ proj.lang[res.nodes[k]] = "Vyper" /\ p # Unspecified
          /\ p.op \in {"~=", "=="} /\ Pep440Admits(p, v)

\* No version is downloaded that is not needed, and no second version used if one
\* serves all files of a language; when versions or profiles cannot be found, the
\* files named in the error really cannot be compiled together.
ChoiceJustified ==
    /\ res.st \in {"versions", "settings", "done"} =>
         \A k \in Inputs :
            LET l == proj.lang[res.nodes[k]]
                all == AvailableVersions(l)
                mine == ToSet(InputsByLanguage(l))
                serves(v, S) == \A i \in S : \A j \in Reach(i) : VersionFits(v, j)
            IN /\ (\E v \in all : serves(v, mine)) =>
                     \A j \in mine : res.chosen[j] = res.chosen[k]
               /\ res.chosen[k] \notin proj.installed[l] =>
                     ~\E v \in proj.installed[l] : serves(v, {j \in mine : res.chosen[j] = res.chosen[k]})
    /\ res.st = "failed" =>
         \A b \in res.blame :
            \/ ~\E v \in UNION {AvailableVersions(proj.lang[res.nodes[k]]) : k \in b} :
                   \A k \in b : Admitted(v, k)
            \/ ~\E p \in 1..Len(proj.profiles) : \A k \in b : ProfileFits(p, k)

TreeComplete ==
    res.st = "print" =>
        /\ res.stack = <<>> => \A k \in 1..Len(res.nodes) : Shown(k)
        /\ \A line \in ToSet(res.stack) : Len(line.under) <= Len(res.nodes)
        /\ ~proj.repeat => Cardinality({k \in 1..Len(res.shown) : res.shown[k].open}) <= Len(res.nodes)

JsonComplete ==
    res.st = "json" =>
        LET files == [k \in 1..Len(res.json) |-> CleanPath(Join(proj.paths.root, res.json[k]))]
        IN /\ Cardinality(ToSet(files)) = Len(files) /\ Cardinality(ToSet(res.json)) = Len(res.json)
           /\ ToSet(files) = {res.nodes[j] : j \in Reach(IndexOf(res.nodes, files[1]))}

\* The graph uses positions as names: nodes, index, edges and reverse edges
\* agree on them although a file gets its index when it is queued and its edges
\* when it is visited; every import is an edge or noted as missing.  The printed
\* tree has every file, no branch longer than there are files although files
\* import each other, and without repetition no file's imports twice.  Every input
\* is compiled by the compiler, the version and the profile chosen for it, in a job
\* that holds all that its files import.
GraphFaithful == GraphAligned /\ TreeComplete /\ JobsWhole

\* What the compilers are given they can compile: a job's version and profile fit
\* every one of its files, imported ones too, and its settings name nothing the
\* version of solc or Vyper does not know; Vyper finds the imports where it looks
\* for them, and has a version in the sense of PEP 440.  Left out, as the code does
\* not keep it: an option of the optimizer that is sent to every version of solc
\* (AlwaysSent), the empty output lists of Vyper files read from the cache, and
\* relative Vyper imports that only a library has.  The standard JSON input of a
\* target has the target and all it needs, each once and under a name that leads to
\* it from the root, files outside of it too.
InputsComplete == JobsCompilable /\ JsonComplete
=============================================================================
