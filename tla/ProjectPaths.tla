---------------------------- MODULE ProjectPaths ----------------------------
(***************************************************************************)
(* How an import becomes a file: the path operations of core/utils and the *)
(* resolution of ProjectPathsConfig (compilers/src/config.rs).             *)
(*                                                                         *)
(* A path is the sequence of its components; an absolute one starts with   *)
(* "/".  The file system is the set fs of the paths that exist.            *)
(***************************************************************************)
EXTENDS Naturals, Sequences, SequencesExt, FiniteSets

CONSTANTS
    NoPath,    \* no path: None, or an error
    SolNames   \* the names that end in ".sol"

FsRoot == <<"/">>

\* What of s is in S, in order: SelectSeq as a function, which can be proved about.
SelectedUpTo(s, S) ==
    LET kept[n \in 0..Len(s)] ==
            IF n = 0 THEN <<>> ELSE IF s[n] \in S THEN Append(kept[n - 1], s[n]) ELSE kept[n - 1]
    IN kept
Selected(s, S) == SelectedUpTo(s, S)[Len(s)]

-----------------------------------------------------------------------------
(* std::path                                                               *)

IsAbsolute(p) == p # <<>> /\ p[1] = "/"
Join(a, b) == IF IsAbsolute(b) THEN b ELSE a \o b
StartsWith(p, q) == IsPrefix(q, p)
Stripped(p, q) == SubSeq(p, Len(q) + 1, Len(p))
Parent(p) == IF p \in {<<>>, FsRoot} THEN NoPath ELSE Front(p)

\* Ancestors of p, the nearest first.
Ancestors(p) ==
    LET top == IF IsAbsolute(p) THEN 1 ELSE 0
    IN [k \in 1..(Len(p) - top) |-> SubSeq(p, 1, Len(p) - k)]

-----------------------------------------------------------------------------
(* core/src/utils                                                          *)

\* strip_prefix: relative to root, or as it is.
StripPrefix(p, root) == IF StartsWith(p, root) THEN Stripped(p, root) ELSE p

\* clean_solidity_path: drops ".", and ".." with the normal component before it.
CleanPath(p) ==
    LET push(acc, c) ==
            IF c = "." THEN acc
            ELSE IF c = ".." /\ acc # <<>> /\ Last(acc) \notin {"/", ".."} THEN Front(acc)
            ELSE Append(acc, c)
    IN FoldLeft(push, <<>>, p)

\* normalize_solidity_import_path: cleaned, and only if it exists.
Normalize(fs, dir, import) ==
    LET p == CleanPath(Join(dir, import)) IN IF p \in fs THEN p ELSE NoPath

\* resolve_library: <lib>/<import> or <lib>/<first dir>/src/<rest>.
ResolveLibrary(fs, libs, import) ==
    LET places(lib) == <<Join(lib, import), lib \o <<import[1], "src">> \o Tail(import)>>
        all == FlattenSeq([k \in 1..Len(libs) |-> places(libs[k])])
        found == SelectSeq(all, LAMBDA p : p \in fs)
    IN IF IsAbsolute(import) THEN import
       ELSE IF import[1] \in {".", ".."} \/ found = <<>> THEN NoPath
       ELSE found[1]

\* resolve_absolute_library: tries the ancestors of cwd up to, and without, the
\* library's root; if cwd is that root itself, all of them.
ResolveAbsoluteLibrary(fs, lib, cwd, import) ==
    LET up == Ancestors(cwd)
        stop == {k \in 1..Len(up) : up[k] = lib}
        tried == IF stop = {} THEN up
                 ELSE SubSeq(up, 1, (CHOOSE k \in stop : \A j \in stop : k <= j) - 1)
        hits == SelectSeq(tried, LAMBDA dir : Normalize(fs, dir, import) # NoPath)
    IN IF hits = <<>> THEN NoPath ELSE hits[1]

\* common_ancestor: the longest common prefix; none if the first components differ.
CommonAncestor(a, b) ==
    LET n == {k \in 0..Len(a) : k <= Len(b) /\ SubSeq(a, 1, k) = SubSeq(b, 1, k)}
        len == CHOOSE k \in n : \A j \in n : j <= k
    IN IF len = 0 THEN NoPath ELSE SubSeq(a, 1, len)

\* rebase_path (compilers/src/lib.rs): relative to base, with ".." for what of
\* base is not shared.
RebasePath(base, p) ==
    LET common == CommonAncestor(base, p)
    IN IF StartsWith(base, p) THEN <<>>
       ELSE [k \in 1..(Len(base) - Len(common)) |-> ".."] \o Stripped(p, common)

CommonAncestorAll(paths) ==
    IF paths = <<>> THEN NoPath
    ELSE FoldLeft(LAMBDA acc, p : IF acc = NoPath THEN NoPath ELSE CommonAncestor(acc, p),
                  paths[1], Tail(paths))

\* find_fave_or_alt_path: the alternative only if it alone exists.
FaveOrAlt(fs, root, fave, alt) ==
    IF Append(root, fave) \notin fs /\ Append(root, alt) \in fs
    THEN Append(root, alt) ELSE Append(root, fave)

-----------------------------------------------------------------------------
(* ProjectPathsConfig                                                      *)

\* Remapping::find_many: the remappings of a folder (module Remappings); found maps
\* the folders that have any.
FoundIn(found, lib) == IF lib \in DOMAIN found THEN found[lib] ELSE <<>>

PathOr(p, default) == IF p = NoPath THEN default ELSE p

\* build_with_root: what was not configured is looked for.  A given entry
\* NoPath is one that was not set.
BuildWithRoot(fs, root, given, found) ==
    LET artifacts == PathOr(given.artifacts, FaveOrAlt(fs, root, "out", "artifacts"))
        libs == PathOr(given.libraries, <<FaveOrAlt(fs, root, "lib", "node_modules")>>)
    IN [root |-> root,
        cache |-> PathOr(given.cache, root \o <<"cache", "solidity-files-cache.json">>),
        artifacts |-> artifacts,
        build_infos |-> PathOr(given.build_infos, Append(artifacts, "build-info")),
        sources |-> PathOr(given.sources, FaveOrAlt(fs, root, "src", "contracts")),
        tests |-> PathOr(given.tests, Append(root, "test")),
        scripts |-> PathOr(given.scripts, Append(root, "script")),
        libraries |-> libs,
        remappings |-> PathOr(given.remappings,
                              FlattenSeq([k \in 1..Len(libs) |-> FoundIn(found, libs[k])])),
        allowed |-> given.allowed \cup {root}]

\* PathStyle::paths, as the settings the builder is given.
Unset == [artifacts |-> NoPath, libraries |-> NoPath, cache |-> NoPath, build_infos |-> NoPath,
          sources |-> NoPath, tests |-> NoPath, scripts |-> NoPath, remappings |-> NoPath,
          allowed |-> {}]
Dapptools(root, found) ==
    [Unset EXCEPT !.sources = Append(root, "src"), !.artifacts = Append(root, "out"),
                  !.build_infos = root \o <<"out", "build-info">>,
                  !.libraries = <<Append(root, "lib")>>, !.remappings = FoundIn(found, Append(root, "lib"))]
HardHat(root) ==
    [Unset EXCEPT !.sources = Append(root, "contracts"), !.artifacts = Append(root, "artifacts"),
                  !.build_infos = root \o <<"artifacts", "build-info">>,
                  !.libraries = <<Append(root, "node_modules")>>]

\* path_starts_with_rooted, is_test_or_script.
StartsWithRooted(p, dir, root) ==
    StartsWith(p, dir) \/ (StartsWith(dir, root) /\ StartsWith(p, Stripped(dir, root)))
IsTestOrScript(c, p) == StartsWithRooted(p, c.tests, c.root) \/ StartsWithRooted(p, c.scripts, c.root)

\* input_files: the files under sources, tests and scripts, in this order.
InputFiles(fs, c) ==
    LET under(dir) == {p \in fs : StartsWith(p, dir) /\ Last(p) \in SolNames}
    IN <<under(c.sources), under(c.tests), under(c.scripts)>>

\* find_library_ancestor: the first library that is an ancestor of the file.
FindLibraryAncestor(c, p) ==
    LET holds(lib) ==
            \/ StartsWith(p, lib)
            \/ ~IsAbsolute(lib) /\ IsAbsolute(p) /\ StartsWith(p, Join(c.root, lib))
            \/ ~IsAbsolute(p) /\ IsAbsolute(lib) /\ StartsWith(lib, c.root)
                /\ StartsWith(Join(c.root, p), lib)
        libs == SelectSeq(c.libraries, holds)
    IN IF libs = <<>> THEN NoPath ELSE libs[1]

\* Remappings that are global or for the importing directory.
InContext(c, cwd) ==
    SelectSeq(c.remappings,
              LAMBDA r : r.context = NoPath \/ StartsWith(StripPrefix(cwd, c.root), r.context))

\* What remapping r makes of an import that starts with its name: "contracts/"
\* is not repeated if the path with both does not exist.
Remapped(fs, c, r, import) ==
    LET rest == Stripped(import, r.name)
        plain == Join(r.path, rest)
        twice == /\ r.path # <<>> /\ Last(r.path) = "contracts"
                 /\ rest # <<>> /\ rest[1] = "contracts"
    IN IF twice /\ Join(c.root, plain) \notin fs THEN Join(c.root, Join(r.path, Tail(rest)))
       ELSE Join(c.root, plain)

\* resolve_library_import: the first remapping that applies decides, whether or
\* not its target exists; without one the library folders are searched.
ResolveLibraryImport(fs, c, cwd, import) ==
    LET rs == SelectSeq(InContext(c, cwd), LAMBDA r : StartsWith(import, r.name))
    IN IF rs # <<>> THEN Remapped(fs, c, rs[1], import)
       ELSE ResolveLibrary(fs, c.libraries, import)

\* apply_remapping_to_path: a resolved path is redirected by the first remapping
\* whose target exists.
ApplyRemappingToPath(fs, c, cwd, p) ==
    LET rel == Stripped(p, c.root)
        to(r) == Join(c.root, Join(r.path, Stripped(rel, r.name)))
        rs == SelectSeq(InContext(c, cwd), LAMBDA r : StartsWith(rel, r.name) /\ to(r) \in fs)
    IN IF ~StartsWith(p, c.root) \/ rs = <<>> THEN p ELSE to(rs[1])

\* An import that starts with a dot: the file next to the importing one.
NearImport(fs, c, cwd, near) ==
    IF near = NoPath THEN NoPath ELSE ApplyRemappingToPath(fs, c, cwd, near)

\* Below a library, the nearest directory of it that has the import.
NestedImport(fs, c, cwd, import) ==
    LET lib == FindLibraryAncestor(c, cwd)
    IN IF lib = NoPath THEN NoPath ELSE ResolveAbsoluteLibrary(fs, lib, cwd, import)

\* The import taken from the first of the project's folders that has it.
OwnImport(fs, dirs, import) ==
    IF dirs = <<>> THEN NoPath ELSE Normalize(fs, dirs[1], import)

\* A name that no library has as it stands: nested, or else the project's own.
UnmappedImport(fs, c, cwd, import, nested) ==
    IF nested # NoPath THEN [file |-> Normalize(fs, nested, import), include |-> nested]
    ELSE [file |-> OwnImport(fs, SelectSeq(<<c.root, c.sources, c.tests, c.scripts>>,
                                           LAMBDA d : StartsWith(cwd, d) /\ Normalize(fs, d, import) # NoPath),
                             import),
          include |-> NoPath]
NamedImport(fs, c, cwd, import, library) ==
    IF library # NoPath THEN [file |-> library, include |-> NoPath]
    ELSE UnmappedImport(fs, c, cwd, import, NestedImport(fs, c, cwd, import))

\* resolve_import_and_include_paths: the file, and the directory that has to be
\* an include path for the compiler to find it.
ResolveImport(fs, c, cwd, import) ==
    IF import = <<>> THEN [file |-> NoPath, include |-> NoPath]
    ELSE IF import[1] \in {".", ".."} THEN
         [file |-> NearImport(fs, c, cwd, Normalize(fs, cwd, import)), include |-> NoPath]
    ELSE NamedImport(fs, c, cwd, import, ResolveLibraryImport(fs, c, cwd, import))

\* apply_lib_remappings: the file of each library to link, resolved from the root.
ApplyLibRemappings(fs, c, libs) ==
    {[l EXCEPT !.file = PathOr(ResolveImport(fs, c, c.root, l.file).file, l.file)] : l \in libs}
=============================================================================
