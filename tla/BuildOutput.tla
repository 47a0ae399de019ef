----------------------------- MODULE BuildOutput -----------------------------
(***************************************************************************)
(* From compiler outputs to artifacts (compile/output, artifact_output):   *)
(* the outputs of all compiler runs of a build are aggregated, every       *)
(* contract gets an artifact file of its own and the extra files that are  *)
(* configured, and the result is handed out, with what was still cached,   *)
(* unless the diagnostics make the build a failure.                        *)
(*                                                                         *)
(* A plan is a sequence of builds of one project:                          *)
(*   artifacts      the artifacts folder                                   *)
(*   files, names   source files and contract names, in their order        *)
(*   stem[f]        the file's name without extension                      *)
(*   tests          the files whose names mark them as tests               *)
(*   primary[f]     the profile chosen for f as an input                   *)
(*   builds         for each build: defs[f], the contracts f defines;      *)
(*                  diags[f], what the compiler says of f; changed, the    *)
(*                  files edited since the last build; jobs, a sequence of *)
(*                  [version, profile, files]; values and extras, what to  *)
(*                  add to artifacts or write beside them; ast, whether    *)
(*                  syntax trees are requested; filter, the severity that  *)
(*                  fails a build; ignored, what is not to be reported     *)
(* Several jobs may have the same file.  A file's index in a job is the    *)
(* identifier the compiler gives it.                                       *)
(***************************************************************************)
EXTENDS ProjectPaths, FiniteSetsExt

CONSTANTS
    Plans,       \* the names of sequences of builds of a project
    PlanOf(_),   \* the project and its builds
    MaxRemoved,  \* how many artifacts are taken out of the last build's output
    Lower        \* names with capitals, in lower case

VARIABLE out

NoBuild ==
    [st |-> "idle", plan |-> NoPath, n |-> 0, contracts |-> <<>>, sources |-> <<>>, builds |-> {},
     errors |-> {}, todo |-> <<>>, cache |-> {}, seen |-> {}, saved |-> [artifacts |-> {}, seen |-> {}],
     stamp |-> <<>>, compiled |-> {}, cached |-> {}, extra |-> {}, removed |-> {}]

plan == out.plan
build == plan.builds[out.n]

-----------------------------------------------------------------------------
(* Diagnostics: [severity, code, file], the code NoPath if there is none   *)

Level(severity) == [error |-> 1, warning |-> 2, info |-> 3][severity]

\* should_ignore: only warnings with a code; SPDX and size warnings of tests too.
ShouldIgnore(b, d) ==
    /\ d.severity = "warning" /\ d.code # NoPath
    /\ \/ d.code \in b.ignored.codes
       \/ \E p \in b.ignored.paths : StartsWith(d.file, p)
       \/ \E x \in b.ignored.codesFrom : StartsWith(d.file, x.path) /\ d.code = x.code
       \/ d.file \in plan.tests /\ d.code \in {1878, 5574}

\* has_warning: anything that is not ignored.
HasWarning(b, errors) == \E d \in errors : ~ShouldIgnore(b, d)

\* has_error
HasError(b, errors) ==
    \E d \in errors :
        \/ d.severity = "error"
        \/ /\ Level(b.filter) >= Level(d.severity)
           /\ b.filter = "warning" => HasWarning(b, errors)

\* OutputDiagnostics: the verdict and what is shown.
Verdict(b, errors) ==
    [run |-> IF HasError(b, errors) THEN "failed"
             ELSE IF HasWarning(b, errors) THEN "successful with warnings" ELSE "successful",
     shown |-> {d \in errors : ~ShouldIgnore(b, d)}]

-----------------------------------------------------------------------------
(* What the configuration asks the compiler for, and keeps                 *)

Basic == {"abi", "bytecode", "sourceMap"}
ViaSelection == {"metadata", "ir", "asm"}     \* selected as a value or as a file
OnlyValue == {"generatedSources", "storageLayout"}

\* ConfigurableArtifacts::output_selection
OutputSelection(b) == Basic \cup (ViaSelection \cap (b.values \cup b.extras)) \cup (OnlyValue \cap b.values)

\* contract_to_artifact, standalone_source_file_to_artifact: the values kept.
Kept(b, f) == IF b.defs[f] = {} THEN {"bytecode"} ELSE OutputSelection(b)

\* is_dirty: an artifact without what an extra file needs; generated sources
\* cannot be told from none.
IsDirtyArtifact(b, a) ==
    (b.extras \cap {"metadata", "ir", "asm", "sourceMap"}) \ a.has # {} \/ "generatedSources" \in b.extras

\* write_extras, for a contract that was just compiled: all outputs are there.
WriteExtras(b, a) == {[path |-> a.path, kind |-> k, of |-> a.stamp] :
                        k \in b.extras \cap (OutputSelection(b) \cup {"generatedSources"})}
\* handle_cached_artifacts: what the artifact has.
CachedExtras(b, a) == {[path |-> a.path, kind |-> k, of |-> a.stamp] :
                        k \in b.extras \cap (a.has \cup {"generatedSources"})}

Overwrite(extra, new) == {x \in extra : ~\E y \in new : y.path = x.path /\ y.kind = x.kind} \cup new

-----------------------------------------------------------------------------
(* The compiler runs                                                       *)

\* is_missing_artifacts
Missing(f, j) ==
    LET of == {a \in out.cache : a.file = f}
    IN /\ ~(f \in out.seen /\ of = {})
       /\ \/ ~\E a \in of : a.version = j.version /\ a.profile = j.profile
          \/ \E a \in out.cache : IsDirtyArtifact(build, a)

StartPlan == out.st = "idle" /\ \E k \in Plans : out' = [NoBuild EXCEPT !.st = "ready", !.plan = PlanOf(k)]

\* The cache is read; files whose content is not the one of their entry are
\* dropped from it.
StartBuild ==
    /\ out.st \in {"ready", "done"} /\ out.n < Len(plan.builds)
    /\ LET b == plan.builds[out.n + 1]
           stamp == [f \in DOMAIN b.defs |->
                        IF out.n = 0 \/ f \in b.changed THEN out.n + 1 ELSE out.stamp[f]]
       IN out' = [out EXCEPT
            !.st = "compile", !.n = @ + 1, !.todo = b.jobs, !.contracts = <<>>, !.sources = <<>>,
            !.builds = {}, !.errors = {}, !.compiled = {}, !.cached = {}, !.removed = {},
            !.cache = {a \in out.saved.artifacts : a.stamp = stamp[a.file]},
            !.seen = {x[1] : x \in {y \in out.saved.seen : y[2] = stamp[y[1]]}}, !.stamp = stamp]

\* AggregatedCompilerOutput::extend with the output of one run, whose build id is
\* a hash of its version and input, and whose BuildContext names its files.  The
\* compiler emits no contracts if there is an error.
ExtendOutput ==
    /\ out.st = "compile" /\ out.todo # <<>>
    /\ LET j == Head(out.todo)
           files == SelectSeq(j.files, LAMBDA f : Missing(f, j))
           id == <<j.version, j.profile, files, [k \in 1..Len(files) |-> out.stamp[files[k]]]>>
           source(k) == [file |-> files[k], id |-> k, version |-> j.version, profile |-> j.profile,
                         build |-> id]
           errors == UNION {build.diags[f] : f \in ToSet(files)}
           ok == \A d \in errors : d.severity # "error"
           contracts(k) == LET ns == SelectSeq(plan.names, LAMBDA n : ok /\ n \in build.defs[files[k]])
                           IN [i \in 1..Len(ns) |->
                                [file |-> files[k], name |-> ns[i], version |-> j.version,
                                 profile |-> j.profile, build |-> id]]
       IN out' = [out EXCEPT
            !.todo = Tail(@),
            !.sources = @ \o [k \in 1..Len(files) |-> source(k)],
            !.contracts = @ \o FlattenSeq([k \in 1..Len(files) |-> contracts(k)]),
            !.errors = @ \cup errors,
            !.builds = @ \cup IF files = <<>> THEN {}
                              ELSE {[id |-> id, paths |-> [k \in 1..Len(files) |-> files[k]]]}]

-----------------------------------------------------------------------------
(* Artifact paths: [dir, name, version, profile], the last two NoPath if   *)
(* they are not part of the file's name                                    *)

LowerCase(n) == IF n \in DOMAIN Lower THEN Lower[n] ELSE n
LowerPath(p) == [p EXCEPT !.dir = [k \in 1..Len(@) |-> LowerCase(@[k])], !.name = LowerCase(@)]

\* output_file
OutputFile(f, name, version, profile, withVersion, withProfile) ==
    [dir |-> <<Last(f)>>, name |-> name, version |-> IF withVersion THEN version ELSE NoPath,
     profile |-> IF withProfile THEN profile ELSE NoPath]

\* conflict_free_output_file: the folders above the file are put in front until
\* the path is free; after that the first folder is numbered (the number is a
\* component of its own here), and compared and returned without the artifacts
\* folder.
ConflictFree(taken, p, f, folder) ==
    LET rel == Stripped(p.dir, folder)
        up == SelectSeq(Front(f), LAMBDA c : c # "/")
        longer(k) == [p EXCEPT !.dir = folder \o SubSeq(up, Len(up) - k + 1, Len(up)) \o rel]
        free == {k \in 1..Len(up) : LowerPath(longer(k)) \notin taken}
        numbered(n) == [p EXCEPT !.dir = <<rel[1], "_", ToString(n)>> \o Tail(rel)]
        num == {n \in 1..(Cardinality(taken) + 1) : LowerPath(numbered(n)) \notin taken}
    IN IF free # {} THEN longer(Min(free)) ELSE numbered(Min(num))

\* Mutant: conflicts are not looked for.
GetArtifactPath_NoCheck(taken, c, withVersion, withProfile) ==
    LET p == OutputFile(c.file, c.name, c.version, c.profile, withVersion, withProfile)
    IN [p EXCEPT !.dir = plan.artifacts \o @]

\* get_artifact_path: the one from the cache, else a free one.
GetArtifactPath(taken, c, withVersion, withProfile) ==
    LET old == {a \in out.cache : a.file = c.file /\ a.name = c.name /\ a.version = c.version
                                  /\ a.profile = c.profile}
        p == OutputFile(c.file, c.name, c.version, c.profile, withVersion, withProfile)
        path == [p EXCEPT !.dir = plan.artifacts \o @]
    IN IF old # {} THEN (CHOOSE a \in old : TRUE).path
       ELSE IF LowerPath(path) \in taken THEN ConflictFree(taken, path, c.file, plan.artifacts)
       ELSE path

\* join_all: a path that is still relative is put below the artifacts folder.
JoinFolder(p) == [p EXCEPT !.dir = Join(plan.artifacts, @)]

Place(acc, c, source, withVersion, withProfile) ==
    LET path == GetArtifactPath(acc.taken, c, withVersion, withProfile)
    IN [taken |-> acc.taken \cup {LowerPath(path)},
        made |-> acc.made \cup
            {[file |-> c.file, name |-> c.name, version |-> c.version, profile |-> c.profile,
              build |-> c.build, path |-> JoinFolder(path), id |-> source,
              has |-> Kept(build, c.file), stamp |-> out.stamp[c.file]]}]

ManyVersions(seq) == Cardinality({c.version : c \in ToSet(seq)}) > 1
ManyProfiles(seq) == Cardinality({c.profile : c \in ToSet(seq)}) > 1

\* output_to_artifacts, contracts: the version and the profile are part of the
\* name if this build made several.  The identifier is that of the first source
\* of the file with the version.
PlaceContract(acc, c) ==
    LET same == SelectSeq(out.contracts, LAMBDA d : d.file = c.file /\ d.name = c.name)
        source == SelectSeq(out.sources, LAMBDA s : s.file = c.file /\ s.version = c.version)[1].id
    IN Place(acc, c, source, ManyVersions(same),
             ManyProfiles(same) /\ plan.primary[c.file] # c.profile)

\* Files without contracts get an artifact with the file's name.
PlaceStandalone(acc, s) ==
    LET same == SelectSeq(out.sources, LAMBDA d : d.file = s.file)
        c == [file |-> s.file, name |-> plan.stem[s.file], version |-> s.version,
              profile |-> s.profile, build |-> s.build]
    IN Place(acc, c, s.id, ManyVersions(same), ManyProfiles(same))

\* Files nearest to the root come first.
InOrder ==
    LET depths == {Len(f) : f \in ToSet(plan.files)}
        deep(d) == SelectSeq(plan.files, LAMBDA f : Len(f) = d)
        files == FlattenSeq([d \in 1..Max(depths) |-> deep(d)])
        of(f) == FlattenSeq([i \in 1..Len(plan.names) |->
                    SelectSeq(out.contracts, LAMBDA c : c.file = f /\ c.name = plan.names[i])])
    IN FlattenSeq([k \in 1..Len(files) |-> of(files[k])])

\* write_artifacts: the artifacts are made; they and the extra files are written
\* if the build did not fail.
WriteArtifacts ==
    /\ out.st = "compile" /\ out.todo = <<>>
    /\ LET start == [taken |-> {LowerPath(a.path) : a \in out.cache}, made |-> {}]
           placed == FoldLeft(PlaceContract, start, InOrder)
           alone == SelectSeq(out.sources, LAMBDA s : build.ast /\ build.defs[s.file] = {})
           all == FoldLeft(PlaceStandalone, placed, alone).made
           contracts == {x \in all : build.defs[x.file] # {}}
       IN out' = [out EXCEPT
            !.st = "written", !.compiled = all,
            !.extra = IF HasError(build, out.errors) THEN @
                      ELSE Overwrite(@, UNION {WriteExtras(build, a) : a \in contracts})]

\* Mutant: artifacts of any version and profile of a compiled contract are dropped.
SameArtifact_AnyVersion(a, b) == a.file = b.file /\ a.name = b.name

\* find_artifact: file, name and version.
SameArtifact(a, b) == a.file = b.file /\ a.name = b.name /\ a.version = b.version

\* Mutant: the cache file is written after every build.
Saved_Always(old, new) == new

\* The cache file is not written after a failed build.
Saved(old, new) == IF HasError(build, out.errors) THEN old ELSE new

\* consume: artifacts of the cache that were not made again are handed out, too;
\* the cache gets the new ones; cached artifacts get their extra files.
ConsumeCache ==
    /\ out.st = "written"
    /\ LET inScope(a) == \E j \in ToSet(build.jobs) : a.version = j.version /\ a.file \in ToSet(j.files)
           cached == {a \in out.cache : inScope(a) /\ ~\E b \in out.compiled : SameArtifact(a, b)}
           kept == {a \in out.cache : ~\E b \in out.compiled : SameArtifact(a, b) /\ a.profile = b.profile}
           seen == out.seen \cup UNION {ToSet(j.files) : j \in ToSet(build.jobs)}
           new == [artifacts |-> kept \cup out.compiled, seen |-> {<<f, out.stamp[f]>> : f \in seen}]
       IN out' = [out EXCEPT !.st = "done", !.cached = cached, !.saved = Saved(@, new),
                             !.extra = Overwrite(@, UNION {CachedExtras(build, a) : a \in cached})]

-----------------------------------------------------------------------------
(* ProjectCompileOutput: compiled artifacts come before cached ones, and   *)
(* within each the order is that of the files                              *)

Rank(f) == CHOOSE k \in 1..Len(plan.files) : plan.files[k] = f
Candidates(set, f, name) == {a \in set : a.name = name /\ (f = NoPath \/ a.file = f)}
\* The first file that has the name; in a file, the first artifact.
First(set, f, name) ==
    LET c == Candidates(set, f, name)
    IN {a \in c : \A b \in c : Rank(a.file) <= Rank(b.file)}

\* remove_entry, remove(0), and the rest is put back.
Without(set, a) == set \ {a}

\* find_contract, remove_contract with or without a path.
RemoveContract ==
    /\ out.st = "done" /\ out.n = Len(plan.builds) /\ Cardinality(out.removed) < MaxRemoved
    /\ \E f \in ToSet(plan.files) \cup {NoPath}, name \in ToSet(plan.names) :
        \/ \E a \in First(out.compiled, f, name) :
            out' = [out EXCEPT !.compiled = Without(@, a), !.removed = @ \cup {a}]
        \/ /\ First(out.compiled, f, name) = {}
           /\ \E a \in First(out.cached, f, name) :
                out' = [out EXCEPT !.cached = Without(@, a), !.removed = @ \cup {a}]

OutputInit == out = NoBuild
OutputNext ==
    StartPlan \/ StartBuild \/ ExtendOutput \/ WriteArtifacts \/ ConsumeCache \/ RemoveContract

-----------------------------------------------------------------------------
(* Properties                                                              *)

Handed == out.compiled \cup out.cached \cup out.removed
Failed == HasError(build, out.errors)
InScope == UNION {ToSet(j.files) : j \in ToSet(build.jobs)}

\* conflict_free_output_file numbers the first folder when all folders above the
\* file have been used.
Numbered(a) == "_" \in ToSet(a.path.dir)

\* No two artifacts of any files, contracts, versions and profiles are written to
\* one place, in file systems that do not tell capitals apart either, however
\* builds followed each other, as long as the folders above a file make a free path
\* (output_to_artifacts, conflict_free_output_file).  Numbered paths are left out:
\* they are compared without the artifacts folder, so that a number of an earlier
\* build looks free.
ArtifactsApart ==
    out.st = "done" => \A a, b \in out.saved.artifacts : LowerPath(a.path) = LowerPath(b.path) =>
        \/ a.file = b.file /\ a.name = b.name /\ a.version = b.version /\ a.profile = b.profile
        \/ Numbered(a) /\ Numbered(b)

Wanted ==
    {w \in {[file |-> f, name |-> n, version |-> j.version, profile |-> j.profile] :
                j \in ToSet(build.jobs), n \in ToSet(plan.names), f \in ToSet(plan.files)} :
        /\ w.name \in build.defs[w.file]
        /\ \E j \in ToSet(build.jobs) : /\ j.version = w.version /\ j.profile = w.profile
                                        /\ w.file \in ToSet(j.files)}
HandsOut(w) == \E a \in Handed : /\ a.file = w.file /\ a.name = w.name /\ a.version = w.version
                                /\ a.profile = w.profile /\ a.stamp = out.stamp[w.file]
\* consume drops what was reused of a contract when another profile of it, at the
\* same version, was compiled.
DroppedFor(w) == \E a \in out.cache, b \in out.compiled \cup out.removed :
    /\ a.file = w.file /\ a.name = w.name /\ a.version = w.version /\ a.profile = w.profile
    /\ b.file = w.file /\ b.name = w.name /\ b.version = w.version /\ b.profile # w.profile

\* Every build, of any number of versions and profiles, hands out the artifact of the
\* current source for each contract of each of its jobs, new or cached, if the
\* compiler found no error.  Left out is what consume drops: the reused artifact of
\* one profile when another profile of the contract was compiled (cache.rs, consume).
NoError == \A d \in out.errors : d.severity # "error"
OutputWhole == out.st = "done" /\ NoError => \A w \in Wanted : ~DroppedFor(w) => HandsOut(w)

\* After every successful build each contract handed out has the extra files that
\* are configured now, made from the current source, whatever the builds before
\* were configured to write.
ExtrasCurrent ==
    out.st = "done" /\ ~Failed /\ out.removed = {} =>
        \A a \in Handed, k \in build.extras :
            build.defs[a.file] # {} => [path |-> a.path, kind |-> k, of |-> out.stamp[a.file]] \in out.extra

\* A build fails, and says so, while a source in its scope has an error; and a
\* source that failed a build by a warning fails the next ones until it is edited
\* or another configuration is used, although diagnostics are not cached.
SameFilter == \A k \in 1..Len(plan.builds) :
    plan.builds[k].filter = build.filter /\ plan.builds[k].ignored = build.ignored
VerdictSound ==
    out.st = "done" =>
        \A f \in InScope : \A d \in build.diags[f] :
            \/ d.severity = "error"
            \/ d.severity = "warning" /\ build.filter = "warning" /\ ~ShouldIgnore(build, d) /\ SameFilter
            => Verdict(build, out.errors).run = "failed" /\ d \in Verdict(build, out.errors).shown
=============================================================================
