--------------------------- MODULE CompilerCache ---------------------------
(***************************************************************************)
(* Incremental compilation in crates/compilers: ProjectCompiler::compile   *)
(* drives preprocess -> compile -> write_artifacts -> write_cache, and     *)
(* ArtifactsCache decides from the cache file which artifacts of earlier   *)
(* runs are reused.  Between and during runs the user edits sources and    *)
(* settings; a run may fail or be killed between any two writes.           *)
(*                                                                         *)
(* A file stands for one contract; a unit <<f, <<v, p>>>> is that contract *)
(* compiled with compiler version v and settings profile p.  An artifact   *)
(* is identified by all it was compiled from.  The two hashes of a cache   *)
(* entry are represented by the content they are hashes of.  Each unit has *)
(* an artifact file of its own (get_artifact_path).  The sources read to   *)
(* build the graph and those read to find dirty files are one read.        *)
(***************************************************************************)
EXTENDS Naturals, FiniteSets, Sequences

CONSTANTS
    Files,      \* source files of the project
    SrcFiles,   \* those that are neither tests nor scripts
    Imports,    \* what each file imports directly
    Mocks,      \* tests that extend a contract of a source file
    Libraries,  \* files that define a library
    Order,      \* the files in the order of their paths
    Contents,   \* contents a file can have
    Iface,      \* the content that stands for a content's interface
    Barren,     \* contents that define no contract
    Profiles,   \* settings profiles
    Options,    \* settings a profile can have
    JobOf,      \* the <<version, profile>> resolved for each input file
    Scopes,     \* sets of input files a run can be asked for
    Modes,      \* sets of flags a run can have, of Flags
    Editable,   \* files the user changes
    MaxEdits,   \* bound on the user's changes and the crashes
    None

\* How a run can be configured: with the cache, the preprocessor, a filter for sparse
\* output, extra files the compiler gives the data for ("extra"), and extra files that
\* always count as missing ("generated": generated sources).
Flags == {"cached", "preprocessed", "sparse", "extra", "generated"}

Jobs == {JobOf[f] : f \in Files}
NoneGiven == [scope |-> {}, mode |-> {}]

\* What a depth-first search finds: the least subset of U that is closed under near.
Reached(near(_), U) == {x \in U : \A S \in SUBSET U : near(S) \subseteq S => x \in S}

\* GraphEdges::imports: everything reached from the file.  The file itself, which the
\* code includes when it is part of a cycle, is left out: no use below tells.
AllImports ==
    [f \in Files |->
        LET near(S) == Imports[f] \cup UNION {Imports[g] : g \in S}
        IN Reached(near, Files) \ {f}]

WithImports(f) == {f} \cup AllImports[f]

\* The units a run over the input files S is asked to produce: each is compiled
\* with its imports.
UnitsOf(S) == UNION {WithImports(i) \X {JobOf[i]} : i \in S}
Units == UnitsOf(Files)

Entry == [content : Contents, seen : BOOLEAN, arts : SUBSET Jobs]

\* What a cache file holds.
CacheType ==
    [pre : BOOLEAN, profiles : [Profiles -> Options \cup {None}],
     files : [Files -> Entry \cup {None}], mocks : SUBSET Files]

ASSUME CacheAssumption ==
    /\ SrcFiles \subseteq Files /\ Mocks \subseteq Files \ SrcFiles /\ Libraries \subseteq Files
    /\ Imports \in [Files -> SUBSET Files]
    /\ Order \in Seq(Files) /\ {Order[i] : i \in DOMAIN Order} = Files
    /\ Iface \in [Contents -> Contents] /\ Barren \subseteq Contents
    /\ \A f \in Files : JobOf[f][2] \in Profiles
    /\ Scopes \subseteq SUBSET Files
    /\ Modes \subseteq SUBSET Flags
    /\ Editable \subseteq Files /\ MaxEdits \in Nat
    /\ None \notin Contents \cup Options \cup Entry \cup CacheType
    /\ Contents \ Barren # {} /\ Options # {}

\* With the preprocessor the walk over dirty files relies on this: a test that sees a
\* mock through a source is not reached when that source is dirty itself.
ASSUME LayerAssumption ==
    (\E m \in Modes : "preprocessed" \in m) => \A f \in SrcFiles : Imports[f] \subseteq SrcFiles

VARIABLES
    src,        \* the sources on disk; None: deleted
    opts,       \* the configured settings of each profile
    cacheFile,  \* the cache file; None: missing or malformed
    artFile,    \* the artifact file of each unit; None: missing or malformed
    lost,       \* units whose build info, named by the cache, is missing
    bare,       \* units whose artifact lacks the data extra files are written from
    run,        \* the run in progress
    torn,       \* history: units written by a run that did not write the cache
    settled,    \* history: the last complete run, if nothing changed since
    edits       \* changes and crashes so far

user == <<src, opts, edits>>
disk == <<cacheFile, artFile, lost, bare>>
vars == <<user, disk, run, torn, settled>>

NewCache(pre) ==
    [pre |-> pre, profiles |-> [p \in Profiles |-> None], files |-> [f \in Files |-> None],
     mocks |-> {}]
Idle ==
    [st |-> "idle", scope |-> {}, mode |-> {}, snap |-> [f \in Files |-> None],
     opt |-> [p \in Profiles |-> None], cache |-> NewCache(FALSE), dirty |-> {}, loaded |-> {},
     todo |-> {}, made |-> {}, reused |-> {}, outcome |-> "none"]

Entries(c) == {f \in Files : c.files[f] # None}
Listed(c) == {u \in Units : c.files[u[1]] # None /\ u[2] \in c.files[u[1]].arts}
ListedOnDisk == IF cacheFile = None THEN {} ELSE Listed(cacheFile)

-----------------------------------------------------------------------------
(* What the compiler produces                                              *)

\* The preprocessor takes from a test the bytecode of the sources it imports,
\* except of those a mock extends: there only the interface matters.
Sees(f, g, pre) ==
    \/ ~pre \/ f \in SrcFiles \/ g \notin SrcFiles
    \/ \E m \in Mocks \cap WithImports(f) : g \in AllImports[m]

\* The artifact of unit u for sources s and settings o.
Artifact(u, s, o, pre) ==
    [view |-> [g \in WithImports(u[1]) |->
                  IF Sees(u[1], g, pre) THEN s[g] ELSE Iface[s[g]]],
     opt |-> o[u[2][2]], pre |-> pre]

-----------------------------------------------------------------------------
(* ArtifactsCache::new                                                     *)

\* get_cache: the cache on disk, if it was made in the same preprocess mode.
GetCache(pre) ==
    IF cacheFile # None /\ cacheFile.pre = pre THEN cacheFile ELSE NewCache(pre)

RemoveMissingFiles(c) ==
    [c EXCEPT !.files = [f \in Files |-> IF src[f] = None THEN None ELSE c.files[f]]]

\* read_artifacts and read_builds: one missing file and nothing is reused.
ReadArtifacts(c) ==
    IF \E u \in Listed(c) : artFile[u] = None \/ u \in lost THEN {} ELSE Listed(c)

-----------------------------------------------------------------------------
(* remove_dirty_sources                                                    *)

\* update_profiles: artifacts of profiles whose settings changed are forgotten,
\* and with the last of them the entry.
UpdateProfiles(c) ==
    LET bad == {p \in Profiles : c.profiles[p] # opts[p]}
        kept(f) == {j \in c.files[f].arts : j[2] \notin bad}
    IN [c EXCEPT !.profiles = opts,
                 !.files = [f \in Files |->
                     IF c.files[f] = None \/ (c.files[f].arts # {} /\ kept(f) = {}) THEN None
                     ELSE [c.files[f] EXCEPT !.arts = kept(f)]]]

\* Mutant: only direct importers are marked.
PopulateDirtyFiles_Direct(nodes, d, f) == d \cup {x \in nodes : f \in Imports[x]}

\* populate_dirty_files: the importers of f, up to those already dirty.
PopulateDirtyFiles(nodes, d, f) ==
    LET near(S) == {x \in nodes \ d : Imports[x] \cap ({f} \cup S) # {}}
    IN d \cup Reached(near, nodes \ d)

\* is_dirty: the file has no entry, or not one for what is on disk.
ContentDirty(c, f) == c.files[f] = None \/ c.files[f].content # src[f]
IfaceDirty(c, f) == c.files[f] = None \/ Iface[c.files[f].content] # Iface[src[f]]

\* Mutant: a mock is treated as any other test.
MarkPreprocessed_NoMocks(c, nodes, d, f) ==
    IF f \in d \/ f \notin nodes THEN d
    ELSE IF f \in SrcFiles THEN IF AllImports[f] \cap d # {} THEN d \cup {f} ELSE d
    ELSE IF \E g \in AllImports[f] \cap d : g \notin SrcFiles \/ IfaceDirty(c, g)
    THEN d \cup {f} ELSE d

\* One file of the walk in preprocessed mode.
MarkPreprocessed(c, nodes, d, f) ==
    LET hit == {g \in AllImports[f] \cap d :
                   f \in SrcFiles \cup c.mocks \/ g \notin SrcFiles \/ IfaceDirty(c, g)}
    IN IF f \in d \/ f \notin nodes \/ hit = {} THEN d
       ELSE {f} \cup IF f \in c.mocks THEN PopulateDirtyFiles(nodes, d, f) ELSE d

\* The graph is made of the files with an entry and what they import.
Nodes(c) == UNION {WithImports(f) : f \in Entries(c)}
DirtyAtFirst(c) == {f \in Nodes(c) : ContentDirty(c, f)}

\* What is dirty after each file of the walk.
Marked(c) ==
    LET dirty[i \in 0..Len(Order)] ==
            IF i = 0 THEN DirtyAtFirst(c)
            ELSE MarkPreprocessed(c, Nodes(c), dirty[i - 1], Order[i])
    IN dirty

DirtySources(c) ==
    IF c.pre THEN Marked(c)[Len(Order)]
    ELSE DirtyAtFirst(c) \cup
            UNION {PopulateDirtyFiles(Nodes(c), DirtyAtFirst(c), f) : f \in DirtyAtFirst(c)}

RemoveDirty(c, d) == [c EXCEPT !.files = [f \in Files |-> IF f \in d THEN None ELSE @[f]]]

-----------------------------------------------------------------------------
(* filter                                                                  *)

\* missing_extra_files: one cached artifact, of whatever file, that lacks what the
\* configured extra files need.
MissingExtraFiles(loaded, mode) ==
    \/ "extra" \in mode /\ loaded \cap bare # {}
    \/ "generated" \in mode /\ loaded # {}

\* Mutant: any listed artifact will do, also one that could not be read.
MissingArtifacts_ListedOnly(c, loaded, mode, u) ==
    LET e == c.files[u[1]] IN
    \/ e = None
    \/ ~(e.seen /\ e.arts = {}) /\ u[2] \notin e.arts

\* Mutant: extra files are not looked at.
MissingArtifacts_NoExtra(c, loaded, mode, u) ==
    LET e == c.files[u[1]] IN
    \/ e = None
    \/ /\ ~(e.seen /\ e.arts = {})
       /\ \/ u[2] \notin e.arts
          \/ \E j \in e.arts : j[1] = u[2][1] /\ <<u[1], j>> \notin loaded

\* is_missing_artifacts: no entry, not compiled for this job, an artifact of this
\* version, whatever its profile, was not read, or extra files cannot be written.
MissingArtifacts(c, loaded, mode, u) ==
    LET e == c.files[u[1]] IN
    \/ e = None
    \/ /\ ~(e.seen /\ e.arts = {})
       /\ \/ u[2] \notin e.arts
          \/ \E j \in e.arts : j[1] = u[2][1] /\ <<u[1], j>> \notin loaded
          \/ MissingExtraFiles(loaded, mode)

\* create_cache_entry for files in scope that have none.
WithEntries(c, S) ==
    LET inScope == UNION {WithImports(f) : f \in S} IN
    [c EXCEPT !.files = [f \in Files |->
        IF @[f] = None /\ f \in inScope THEN [content |-> src[f], seen |-> FALSE, arts |-> {}]
        ELSE @[f]]]

-----------------------------------------------------------------------------
Init ==
    /\ src \in [Files -> {CHOOSE c \in Contents \ Barren : TRUE}]
    /\ opts \in [Profiles -> {CHOOSE o \in Options : TRUE}]
    /\ cacheFile = None
    /\ artFile = [u \in Units |-> None]
    /\ lost = {} /\ bare = {}
    /\ run = Idle
    /\ torn = {}
    /\ settled = NoneGiven
    /\ edits = 0

\* ProjectCompiler::with_sources and preprocess.
Preprocess(wanted, mode) ==
    /\ run.st = "idle"
    /\ LET S == {f \in wanted : src[f] # None}
           pre == "preprocessed" \in mode
           kept == RemoveMissingFiles(GetCache(pre))
           loaded == ReadArtifacts(kept)
           current == UpdateProfiles(kept)
           dirty == DirtySources(current)
           clean == RemoveDirty(current, dirty)
           start == [Idle EXCEPT !.st = "filtered", !.scope = S, !.mode = mode,
                                 !.snap = src, !.opt = opts, !.cache.pre = pre]
       IN run' = IF "cached" \in mode
                 THEN [start EXCEPT !.cache = WithEntries(clean, S), !.dirty = dirty,
                          !.loaded = loaded,
                          !.todo = {u \in UnitsOf(S) : MissingArtifacts(clean, loaded, mode, u)}]
                 ELSE [start EXCEPT !.todo = UnitsOf(S)]
    /\ UNCHANGED <<user, disk, torn, settled>>

\* sparse_sources: with a filter, only the files asked for and the libraries
\* they import are compiled in full.
ActuallyDirty(r) ==
    {u \in r.todo :
        \/ "sparse" \notin r.mode \/ u[1] \in r.scope
        \/ \E i \in r.scope : <<i, u[2]>> \in r.todo /\ u[1] \in AllImports[i] \cap Libraries}

\* Mutant: files are not marked as seen.
Seen_Never(c, units) == c

\* compiler_seen for every file compiled in full.
Seen(c, units) ==
    [c EXCEPT !.files = [f \in Files |->
        IF @[f] # None /\ (\E u \in units : u[1] = f) THEN [@[f] EXCEPT !.seen = TRUE] ELSE @[f]]]

\* The preprocessor reports the mocks among the files it is given.
UpdateMocks(r, c) ==
    LET given == UNION {WithImports(u[1]) : u \in ActuallyDirty(r)}
    IN IF c.pre THEN [c EXCEPT !.mocks = @ \cup (Mocks \cap given)] ELSE c

\* CompilerSources::compile; the compiler reports errors or does not, and the
\* project may be configured with no_artifacts.
Compile ==
    /\ run.st = "filtered"
    /\ \E outcome \in {"ok", "error", "no_artifacts"} :
          run' = [run EXCEPT !.st = IF outcome = "ok" THEN "compiled" ELSE "written",
                             !.outcome = outcome,
                             !.cache = UpdateMocks(run, Seen(@, ActuallyDirty(run))),
                             !.made = {u \in ActuallyDirty(run) : run.snap[u[1]] \notin Barren}]
    /\ UNCHANGED <<user, disk, torn, settled>>

\* The compiler cannot be run: compile returns the error.
CompileFails ==
    /\ run.st = "filtered"
    /\ run' = Idle
    /\ UNCHANGED <<user, disk, torn, settled>>

Written(units) ==
    [u \in Units |-> IF u \in units THEN Artifact(u, run.snap, run.opt, run.cache.pre)
                     ELSE artFile[u]]

\* Those of the units that lack the extra data once the run has written units.
BareAfter(units) == IF "extra" \in run.mode THEN bare \ units ELSE bare \cup units

\* Artifact files the cache file does not name are never read: the state does
\* not keep them beyond the run that wrote them.
Named(art, units) == [u \in Units |-> IF u \in units THEN art[u] ELSE None]

\* write_artifacts of a successful compilation, with its build infos.
WriteArtifacts ==
    /\ run.st = "compiled"
    /\ artFile' = Written(run.made)
    /\ run' = [run EXCEPT !.st = "written"]
    /\ bare' = BareAfter(run.made)
    /\ torn' = torn \cup (run.made \cap ListedOnDisk)
    /\ settled' = NoneGiven
    /\ UNCHANGED <<user, cacheFile, lost>>

\* consume: the cached artifacts returned are those of a file and version in
\* scope that is not dirty and of which no profile was compiled.
Reused(r) ==
    LET same(u, w) == w[1] = u[1] /\ w[2][1] = u[2][1] IN
    {u \in r.loaded : /\ \E w \in UnitsOf(r.scope) : same(u, w)
                      /\ u[1] \notin r.dirty
                      /\ ~ \E w \in r.made : same(u, w)}

\* merge_artifacts for everything written.
Merged(r) ==
    LET files == r.cache.files IN
    [r.cache EXCEPT !.files = [f \in Files |->
        IF files[f] = None THEN None
        ELSE [files[f] EXCEPT !.arts = @ \cup {j \in Jobs : <<f, j>> \in r.made}]]]

\* remove_outdated_builds: only builds that an artifact links to are still read.
StillLost(c, made) == (lost \cap Listed(c)) \ made

Persists(r) == "cached" \in r.mode /\ r.outcome = "ok"

\* write_cache: consume, and the cache file if the build was good.
WriteCache ==
    /\ run.st = "written"
    /\ run' = [run EXCEPT !.st = "done", !.reused = Reused(run)]
    /\ \/ /\ Persists(run)
          /\ cacheFile' = Merged(run)
          /\ artFile' = Named(artFile, Listed(Merged(run)))
          /\ bare' = bare \cap Listed(Merged(run))
          /\ lost' = StillLost(Merged(run), run.made)
          /\ torn' = (torn \cap Listed(Merged(run))) \ run.made
          /\ settled' = IF src = run.snap /\ opts = run.opt
                        THEN [scope |-> run.scope, mode |-> run.mode] ELSE NoneGiven
       \/ /\ ~Persists(run)
          /\ artFile' = Named(artFile, ListedOnDisk)
          /\ bare' = bare \cap ListedOnDisk
          /\ UNCHANGED <<cacheFile, lost, torn, settled>>
    /\ UNCHANGED user

\* compile returns its output.
Return ==
    /\ run.st = "done"
    /\ run' = Idle
    /\ UNCHANGED <<user, disk, torn, settled>>

Disturbs ==
    /\ edits < MaxEdits
    /\ edits' = edits + 1
    /\ settled' = NoneGiven

\* The process dies while it writes artifacts, in the order of the files' paths:
\* those before the k-th file are new, one of that file may be cut off.
CrashInArtifacts ==
    /\ run.st = "compiled"
    /\ Disturbs
    /\ \E k \in DOMAIN Order :
          LET whole == {u \in run.made : \E i \in 1..(k - 1) : Order[i] = u[1]} IN
          \E cut \in {{}} \cup {{u} : u \in {w \in run.made : w[1] = Order[k]}} :
             /\ artFile' = Named([u \in Units |-> IF u \in cut THEN None ELSE Written(whole)[u]],
                                 ListedOnDisk)
             /\ bare' = BareAfter(whole) \cap ListedOnDisk
             /\ torn' = torn \cup (whole \cap ListedOnDisk)
    /\ run' = Idle
    /\ UNCHANGED <<src, opts, cacheFile, lost>>

\* ... or in consume: build infos no longer linked are removed first, then the
\* cache file is truncated and written in place.
CrashInCache ==
    /\ run.st = "written" /\ Persists(run)
    /\ Disturbs
    /\ \/ /\ cacheFile' = cacheFile
          /\ artFile' = Named(artFile, ListedOnDisk)
          /\ bare' = bare \cap ListedOnDisk
          /\ \E gone \in {{}, ListedOnDisk \ (Listed(Merged(run)) \ run.made)} :
                lost' = lost \cup gone
          /\ torn' = torn
       \/ /\ cacheFile' = None
          /\ artFile' = Named(artFile, {})
          /\ lost' = {} /\ bare' = {} /\ torn' = {}
    /\ run' = Idle
    /\ UNCHANGED <<src, opts>>

-----------------------------------------------------------------------------
(* The user                                                                *)

\* The user makes changes between runs and during a run.  A run does not read
\* the sources after preprocess, so a change after that counts as one at once.
Changes == run.st \in {"idle", "filtered"} /\ Disturbs

\* Only a file nobody imports is deleted.
Edit(f) ==
    /\ Changes
    /\ \E c \in Contents \cup {None} :
          /\ c # src[f]
          /\ c = None => \A g \in Files : f \notin Imports[g]
          /\ src' = [src EXCEPT ![f] = c]
    /\ UNCHANGED <<opts, disk, run, torn>>

SetOptions(p) ==
    /\ Changes
    /\ \E o \in Options \ {opts[p]} : opts' = [opts EXCEPT ![p] = o]
    /\ UNCHANGED <<src, disk, run, torn>>

DeleteArtifact(u) ==
    /\ run.st = "idle" /\ Disturbs
    /\ artFile[u] # None
    /\ artFile' = [artFile EXCEPT ![u] = None]
    /\ UNCHANGED <<src, opts, cacheFile, lost, bare, run, torn>>

Next ==
    \/ \E S \in Scopes, m \in Modes : Preprocess(S, m)
    \/ Compile \/ CompileFails \/ WriteArtifacts \/ WriteCache \/ Return
    \/ CrashInArtifacts \/ CrashInCache
    \/ \E f \in Editable : Edit(f)
    \/ \E p \in Profiles : SetOptions(p)
    \/ \E u \in Units : DeleteArtifact(u)

Spec == Init /\ [][Next]_vars

-----------------------------------------------------------------------------
(* Properties                                                              *)

RunType ==
    [st : {"idle", "filtered", "compiled", "written", "done"}, scope : SUBSET Files,
     mode : SUBSET Flags, snap : [Files -> Contents \cup {None}],
     opt : [Profiles -> Options \cup {None}], cache : CacheType, dirty : SUBSET Files,
     loaded : SUBSET Units, todo : SUBSET Units, made : SUBSET Units, reused : SUBSET Units,
     outcome : {"none", "ok", "error", "no_artifacts"}]

ArtifactType(u) == [view : [WithImports(u[1]) -> Contents], opt : Options, pre : BOOLEAN]

\* The type of the disk and of the run.
TypeOK ==
    /\ src \in [Files -> Contents \cup {None}]
    /\ opts \in [Profiles -> Options]
    /\ cacheFile \in CacheType \cup {None}
    /\ DOMAIN artFile = Units
    /\ \A u \in Units : artFile[u] \in ArtifactType(u) \cup {None}
    /\ lost \subseteq ListedOnDisk /\ bare \subseteq Units /\ torn \subseteq Units
    /\ run \in RunType /\ run.made \subseteq run.todo /\ run.reused \subseteq run.loaded
    /\ edits \in 0..MaxEdits

\* Every artifact the cache file names was compiled from exactly the contents
\* and settings the cache file records, also after a crash, a failed build or
\* an edit made during a build; torn artifacts are the exception.
CacheDescribesArtifacts ==
    cacheFile # None =>
        \A u \in Listed(cacheFile) \ torn :
            artFile[u] # None =>
                /\ artFile[u].pre = cacheFile.pre
                /\ artFile[u].opt = cacheFile.profiles[u[2][2]]
                /\ \A g \in DOMAIN artFile[u].view :
                      cacheFile.files[g] # None =>
                          artFile[u].view[g] =
                              IF Sees(u[1], g, cacheFile.pre) THEN cacheFile.files[g].content
                              ELSE Iface[cacheFile.files[g].content]

Requested(r) ==
    {u \in UnitsOf(r.scope) : r.snap[u[1]] \notin Barren /\ ("sparse" \in r.mode => u[1] \in r.scope)}

\* A reused artifact of a file that was asked for is the one a compilation
\* from scratch would produce from the sources and settings the run started
\* with, unless its file was left behind by a run that did not write the cache.
ReusedIsFresh ==
    run.st = "done" =>
        \A u \in (run.reused \cap Requested(run)) \ torn :
            artFile[u] \in {None, Artifact(u, run.snap, run.opt, run.cache.pre)}

ContractsComplete ==
    (run.st = "done" /\ run.outcome # "error") =>
        \A u \in Requested(run) :
            \E w \in run.made \cup run.reused : w[1] = u[1] /\ w[2][1] = u[2][1]

ExtrasComplete ==
    (run.st = "done" /\ run.outcome # "error" /\ "extra" \in run.mode) =>
        run.reused \cap Requested(run) \cap bare = {}

\* Every contract asked for is in the output of a run without errors, compiled
\* now or reused, for each compiler version it was asked for; if extra files are
\* configured, none of those reused lacks the data they are written from.
OutputComplete == ContractsComplete /\ ExtrasComplete

\* A second run with the same inputs compiles nothing: builds reach a fixed point.
\* What stands in the way is excepted: an artifact the cache names that cannot be
\* read, extra files that always count as missing, and, with any extra files, an
\* artifact without their data of a file the run is not asked for.
Converges ==
    (/\ run.st = "filtered" /\ "cached" \in run.mode
     /\ settled = [scope |-> run.scope, mode |-> run.mode]
     /\ src = run.snap /\ opts = run.opt
     /\ \A u \in ListedOnDisk : artFile[u] # None /\ u \notin lost
     /\ "generated" \notin run.mode
     /\ "extra" \in run.mode => ListedOnDisk \cap bare \subseteq Requested(run))
        => ActuallyDirty(run) = {}

-----------------------------------------------------------------------------
(* What the documentation says and the code does not do                    *)

\* "all things match, can be reused": a reused artifact of a file that was asked
\* for is always the one the sources and settings at hand produce.
ReusedMatchesSources ==
    run.st = "done" =>
        \A u \in run.reused \cap Requested(run) :
            artFile[u] \in {None, Artifact(u, run.snap, run.opt, run.cache.pre)}

\* update_profiles removes profiles "which are dirty alongside their artifacts":
\* no artifact made with other settings than the profile's current ones is
\* returned.
DirtyProfilesRemoved ==
    run.st = "done" =>
        \A u \in run.reused : artFile[u] # None => artFile[u].opt = run.opt[u[2][2]]
=============================================================================
