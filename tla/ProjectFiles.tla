---------------------------- MODULE ProjectFiles ----------------------------
(***************************************************************************)
(* Where a project keeps what it builds: the relative paths of the cache   *)
(* file (compilers/src/cache.rs, the ProjectPaths of config.rs), a project *)
(* that is moved or configured anew between builds, and Project::cleanup   *)
(* (compilers/src/lib.rs).  How a build decides what to compile is in      *)
(* CompilerCache; here any set of files may be compiled.                   *)
(***************************************************************************)
EXTENDS ProjectPaths, Functions

CONSTANTS
    Roots,        \* where the project may be moved
    Cwds,         \* where builds are started
    Givens,       \* where it may be configured to keep its output
    Elsewhere,    \* source files outside the project
    OtherFile,    \* a file that something else keeps in the project, relative to it
    SourceNames,  \* the names of the project's own source files
    BuildIds      \* the identifiers of builds, in order; how many there are bounds the builds

VARIABLES
    root, given,  \* the project: its folder and configuration
    cwd,          \* the working directory of the process
    disk,         \* path -> [kind, of, text] of the files there are
    dirs,         \* the directories there are
    cacheFile,    \* path -> the content of the cache file there
    nbuild,       \* builds so far
    pc, outcome,  \* Project::cleanup: the step it is at, how the last one ended
    before        \* ghost: the paths there were when it started

\* What paths are made of: strings, among them the names a layout has by default.
Components == STRING \cup {"/", "out", "build-info", "src", "cache", "solidity-files-cache.json", "C.json"}
\* Paths from the root of the file system.
AbsolutePaths == {p \in Seq(Components) : IsAbsolute(p) /\ \A i \in 2..Len(p) : p[i] # "/"}

\* A configuration: what is not set is NoPath, a relative path is in the project.
Places == [artifacts : Seq(Components) \cup {NoPath}, build_infos : Seq(Components) \cup {NoPath},
           cache : Seq(Components) \cup {NoPath}]
\* The artifacts folder of a configuration, and where its cache file is.
FolderOf(g) == PathOr(g.artifacts, <<"out">>)
CacheOf(g) == PathOr(g.cache, <<"cache", "solidity-files-cache.json">>)

\* Below the project's folder, or apart from all folders it is moved to.
IsPlace(p) ==
    /\ p \notin {<<>>, FsRoot} /\ "/" \notin ToSet(Tail(p))
    /\ IsAbsolute(p) => \A r \in Roots : ~StartsWith(p, r) /\ ~StartsWith(r, p)

\* Sources are told apart by their names, and no other file is named like one of them;
\* a folder that holds projects is not named like a file.  Configurations that have
\* their artifacts in one folder have one cache file: otherwise each would go on naming
\* what builds of the other have overwritten.
OutputNames == {"C.json", Last(OtherFile)} \cup {Last(CacheOf(g)) : g \in Givens} \cup ToSet(BuildIds)
ASSUME FilesAssumption ==
    /\ Roots \cup Elsewhere \subseteq AbsolutePaths \ {FsRoot} /\ SourceNames \subseteq Components \ {"/"}
    /\ OtherFile \in Seq(Components) \ {<<>>} /\ "/" \notin ToSet(OtherFile)
    /\ BuildIds \in Seq(Components \ {"/"}) /\ "C.json" \notin ToSet(BuildIds) \cup {Last(OtherFile)}
    /\ \A p, q \in Elsewhere : Last(p) = Last(q) => p = q
    /\ LET outside == {Last(p) : p \in Elsewhere} IN
         /\ outside \cap SourceNames = {} /\ OutputNames \cap (outside \cup SourceNames) = {}
         /\ {Last(r) : r \in Roots} \cap (outside \cup SourceNames \cup OutputNames) = {}
    /\ NoPath \notin Seq(Components) /\ Givens \subseteq Places
    /\ \A g \in Givens : \A p \in {g.artifacts, g.build_infos, g.cache} \ {NoPath} : IsPlace(p)
    /\ \A g \in Givens : Last(CacheOf(g)) # "C.json"
    /\ \A g, h \in Givens : FolderOf(g) = FolderOf(h) => CacheOf(g) = CacheOf(h)

filesVars == <<root, given, cwd, disk, dirs, cacheFile, nbuild, pc, outcome, before>>

NoRemaps == <<>>
Located(p) == IF p = NoPath THEN NoPath ELSE Join(root, p)
\* What the builder is given for a project in this folder (PathStyle::paths).
Layout == [Unset EXCEPT !.artifacts = Located(given.artifacts), !.build_infos = Located(given.build_infos),
                        !.cache = Located(given.cache)]
cfg == BuildWithRoot({}, root, Layout, NoRemaps)
Under(dir, paths) == {p \in paths : StartsWith(p, dir)}
Without(f, S) == Restrict(f, DOMAIN f \ S)
FileAt(p, content) == [q \in {p} |-> content]
Written(f, files) == [p \in DOMAIN f \cup DOMAIN files |-> IF p \in DOMAIN files THEN files[p] ELSE f[p]]

-----------------------------------------------------------------------------
(* ProjectPaths, CompilerCache: absolute in memory, relative in the file   *)

Kept == {"artifacts", "build_infos", "sources", "tests", "scripts"}
StripPrefixAll(paths, base) ==
    [d \in Kept \cup {"libraries"} |->
       IF d = "libraries" THEN {StripPrefix(p, base) : p \in paths[d]} ELSE StripPrefix(paths[d], base)]

\* paths_relative
PathsOf(c) == [d \in Kept \cup {"libraries"} |-> IF d = "libraries" THEN ToSet(c.libraries) ELSE c[d]]
PathsRelative(c) == StripPrefixAll(PathsOf(c), c.root)

\* An entry: its file with its content hash, the artifact with its build.
JoinEntries(entries, base) == {[e EXCEPT !.file = Join(base, @)] : e \in entries}
StripEntriesPrefix(entries, base) == {[e EXCEPT !.file = StripPrefix(@, base)] : e \in entries}
JoinArtifactsFiles(entries, base) == {[e EXCEPT !.artifact = Join(base, @)] : e \in entries}
StripArtifactFilesPrefixes(entries, base) == {[e EXCEPT !.artifact = StripPrefix(@, base)] : e \in entries}

ReadJoined(c) ==
    LET stored == cacheFile[c.cache]
    IN [stored EXCEPT !.entries = JoinArtifactsFiles(JoinEntries(@, c.root), c.artifacts)]

NewCache(c) == [paths |-> PathsRelative(c), entries |-> {}, builds |-> {}]

\* Mutant: a cache file is used whatever layout it was made for.
GetCache_AnyPaths(c) == IF c.cache \in DOMAIN cacheFile THEN ReadJoined(c) ELSE NewCache(c)

\* get_cache: a cache made with other paths is not used.
GetCache(c) ==
    IF c.cache \in DOMAIN cacheFile /\ cacheFile[c.cache].paths = PathsRelative(c)
    THEN ReadJoined(c) ELSE NewCache(c)

RemoveMissingFiles(cache) == [cache EXCEPT !.entries = {e \in @ : e.file \in DOMAIN disk}]

\* remove_outdated_builds: the files are looked for at the relative path the
\* cache has, that is, from the working directory.
Outdated(cache) == {b \in cache.builds : \A e \in cache.entries : e.build # b}
BuildInfoFile(dir, b) == Append(dir, b)
RemovedInfos(cache) == {Join(cwd, BuildInfoFile(cache.paths.build_infos, b)) : b \in Outdated(cache)}

-----------------------------------------------------------------------------
(* Builds, and what may happen between them                                *)

ProjectSources == {p \in DOMAIN disk : disk[p].kind = "source"}
ArtifactFile(c, file) == c.artifacts \o <<Last(file), "C.json">>
DirsAbove(paths) == UNION {ToSet(Ancestors(p)) : p \in paths}

\* compile: the files of S, and all that have no entry with their content, are
\* compiled.
CompileProject(S) ==
    LET old == RemoveMissingFiles(GetCache(cfg))
        clean == {e.file : e \in {x \in old.entries : x.hash = disk[x.file].text}}
        todo == S \cup (ProjectSources \ clean)
        b == BuildIds[nbuild + 1]
        made == {[file |-> f, hash |-> disk[f].text, artifact |-> ArtifactFile(cfg, f), build |-> b] : f \in todo}
        new == [old EXCEPT !.entries = {e \in @ : e.file \notin todo} \cup made, !.builds = @ \cup {b}]
        kept == [new EXCEPT !.builds = @ \ Outdated(new)]
        out == [p \in {e.artifact : e \in made} |->
                  [disk[(CHOOSE e \in made : e.artifact = p).file] EXCEPT !.kind = "artifact"]]
        info == FileAt(BuildInfoFile(cfg.build_infos, b), [kind |-> "info", of |-> b, text |-> 0])
        cached == FileAt(cfg.cache, [kind |-> "cache", of |-> NoPath, text |-> 0])
        stored == [kept EXCEPT !.entries = StripArtifactFilesPrefixes(StripEntriesPrefix(@, cfg.root), cfg.artifacts)]
    IN /\ pc = "idle" /\ nbuild < Len(BuildIds) /\ todo # {}
       /\ nbuild' = nbuild + 1
       /\ disk' = Without(Written(disk, Written(Written(cached, info), out)), RemovedInfos(new))
       /\ dirs' = dirs \cup DirsAbove(DOMAIN out \cup DOMAIN info \cup {cfg.cache})
       /\ cacheFile' = Written(cacheFile, FileAt(cfg.cache, stored))
       /\ outcome' = "none"
       /\ UNCHANGED <<root, given, cwd, pc, before>>

\* The folder is moved as it is, to where nothing is.
Relocated(p, to) == IF StartsWith(p, root) THEN to \o Stripped(p, root) ELSE p
MovedTo(f, to) == [q \in {Relocated(p, to) : p \in DOMAIN f} |-> f[CHOOSE p \in DOMAIN f : Relocated(p, to) = q]]
MoveProject(to) ==
    /\ pc = "idle" /\ to # root /\ Under(to, DOMAIN disk \cup DOMAIN cacheFile \cup dirs) = {}
    /\ disk' = MovedTo(disk, to) /\ cacheFile' = MovedTo(cacheFile, to)
    /\ dirs' = {Relocated(d, to) : d \in dirs}
    /\ root' = to /\ outcome' = "none"
    /\ UNCHANGED <<given, cwd, nbuild, pc, before>>

Configure(g) ==
    /\ pc = "idle" /\ g # given
    /\ given' = g /\ outcome' = "none"
    /\ UNCHANGED <<root, cwd, disk, dirs, cacheFile, nbuild, pc, before>>

EditSource(p) ==
    /\ pc = "idle" /\ disk[p].text = 1 /\ disk' = [disk EXCEPT ![p].text = 2] /\ outcome' = "none"
    /\ UNCHANGED <<root, given, cwd, dirs, cacheFile, nbuild, pc, before>>

DeleteSource(p) ==
    /\ pc = "idle" /\ disk' = Without(disk, {p}) /\ outcome' = "none"
    /\ UNCHANGED <<root, given, cwd, dirs, cacheFile, nbuild, pc, before>>

-----------------------------------------------------------------------------
(* Project::cleanup, one file system operation after the other             *)

StartCleanup ==
    /\ pc = "idle" /\ outcome = "none"
    /\ pc' = "cache" /\ before' = DOMAIN disk
    /\ UNCHANGED <<root, given, cwd, disk, dirs, cacheFile, nbuild, outcome>>

\* The cache file, and its folder if nothing else is in it.
CleanCache ==
    /\ pc = "cache" /\ pc' = "artifacts"
    /\ LET folder == Parent(cfg.cache)
           others == (DOMAIN disk \cup dirs) \ {folder, cfg.cache}
       IN /\ disk' = Without(disk, {cfg.cache})
          /\ cacheFile' = Without(cacheFile, {cfg.cache})
          /\ dirs' = IF cfg.cache \in DOMAIN disk /\ folder # root /\ Under(folder, others) = {}
                     THEN dirs \ {folder} ELSE dirs
    /\ UNCHANGED <<root, given, cwd, nbuild, outcome, before>>

\* remove_dir_all, unless the directory is the project's own.
CleanDir(dir) ==
    LET gone == IF dir = root THEN {} ELSE Under(dir, DOMAIN disk)
    IN /\ disk' = Without(disk, gone) /\ cacheFile' = Without(cacheFile, gone)
       /\ dirs' = IF dir = root THEN dirs ELSE dirs \ Under(dir, dirs)

CleanArtifacts ==
    /\ pc = "artifacts" /\ pc' = "builds" /\ CleanDir(cfg.artifacts)
    /\ UNCHANGED <<root, given, cwd, nbuild, outcome, before>>

CleanBuildInfos ==
    /\ pc = "builds" /\ pc' = "idle" /\ CleanDir(cfg.build_infos) /\ outcome' = "ok"
    /\ UNCHANGED <<root, given, cwd, nbuild, before>>

\* An operation fails and cleanup returns; remove_dir_all may have removed some.
CleanupFails ==
    /\ pc # "idle" /\ pc' = "idle" /\ outcome' = "failed"
    /\ LET dir == CASE pc = "artifacts" -> cfg.artifacts [] pc = "builds" -> cfg.build_infos [] OTHER -> root
       IN \E gone \in SUBSET (IF dir = root THEN {} ELSE Under(dir, DOMAIN disk)) :
            disk' = Without(disk, gone) /\ cacheFile' = Without(cacheFile, gone)
    /\ UNCHANGED <<root, given, cwd, dirs, nbuild, before>>

-----------------------------------------------------------------------------
FilesInit ==
    /\ root \in Roots /\ given \in Givens /\ cwd \in Cwds
    /\ disk = Written([p \in {root \o <<"src", n>> : n \in SourceNames} \cup Elsewhere |->
                         [kind |-> "source", of |-> Last(p), text |-> 1]],
                      FileAt(root \o OtherFile, [kind |-> "other", of |-> NoPath, text |-> 0]))
    /\ dirs = DirsAbove(DOMAIN disk)
    /\ cacheFile = <<>> /\ nbuild = 0 /\ pc = "idle" /\ outcome = "none" /\ before = {}

FilesNext ==
    \/ \E S \in SUBSET ProjectSources : CompileProject(S)
    \/ \E to \in Roots : MoveProject(to)
    \/ \E g \in Givens : Configure(g)
    \/ \E p \in ProjectSources \ Elsewhere : EditSource(p) \/ DeleteSource(p)
    \/ StartCleanup \/ CleanCache \/ CleanArtifacts \/ CleanBuildInfos \/ CleanupFails

FilesSpec == FilesInit /\ [][FilesNext]_filesVars

-----------------------------------------------------------------------------
\* However the project is moved between builds, and configured to keep its output in
\* other places (as long as configurations with one artifacts folder share their cache
\* file), what the next build reads from the cache file belongs together: an entry's
\* file is a source, and the artifact it names, if it is there, is the one of that file
\* with the content the entry was made for (CompilerCache::read_joined, write,
\* ArtifactsCache get_cache).
CacheNamesOwnFiles ==
    \A e \in RemoveMissingFiles(GetCache(cfg)).entries :
        /\ disk[e.file].kind = "source"
        /\ e.artifact \in DOMAIN disk => disk[e.artifact] = [kind |-> "artifact", of |-> disk[e.file].of, text |-> e.hash]

\* cleanup removes the cache, the artifacts and the build infos ("Removes the
\* project's artifacts and cache file") and nothing else; the cache file goes
\* first, so that however cleanup ends no cache file is left that describes
\* artifacts it removed.
CleanupSound ==
    /\ (pc # "idle" \/ outcome # "none") =>
         /\ before \ DOMAIN disk \subseteq
              {cfg.cache} \cup Under(cfg.artifacts, before) \cup Under(cfg.build_infos, before)
         /\ cfg.cache \in DOMAIN disk => before = DOMAIN disk
    /\ outcome = "ok" =>
         /\ cfg.cache \notin DOMAIN disk
         /\ \A dir \in {cfg.artifacts, cfg.build_infos} \ {root} : Under(dir, DOMAIN disk \cup dirs) = {}

\* The project's files stay its own: the cache names only files it describes,
\* and cleanup takes exactly what the builds made.
FilesSound == CacheNamesOwnFiles /\ CleanupSound

=============================================================================
