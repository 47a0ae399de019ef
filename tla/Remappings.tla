----------------------------- MODULE Remappings -----------------------------
(***************************************************************************)
(* Remappings (artifacts/solc/src/remappings): the parallel search for the *)
(* libraries of a project, and what becomes of a remapping that is written *)
(* to a configuration file and read at another place.                      *)
(*                                                                         *)
(* A layout is a directory tree: tree[d] is the set of entries of the real *)
(* directory d, [name, kind, link], link being the real directory a        *)
(* symbolic link leads to.  The operating system lists a directory in any  *)
(* order, and rayon searches directories in any order.                     *)
(***************************************************************************)
EXTENDS ProjectPaths, FiniteSetsExt

CONSTANTS
    Layouts,      \* [root, tree]
    NameOrder,    \* the names of the layouts in alphabetical order
    HiddenNames,  \* the names that start with "."
    RemapTexts    \* lines of a configuration file, with the two places of the file

VARIABLES find, moved

-----------------------------------------------------------------------------
(* Directories and windows                                                 *)

IsSourceDir(d) == d # <<>> /\ Last(d) \in {"src", "contracts"}
IsLibDir(d) == d # <<>> /\ Last(d) \in {"lib", "node_modules"}
NoRecurse(d) == Last(d) \in {"tests", "test", "demo"}
ReadDir(w, real) == {e \in w.tree[real] : e.name \notin HiddenNames}
DirDistance(root, d) == IF StartsWith(d, root) THEN Len(d) - Len(root) ELSE 0

\* next_nested_window: below a library folder, the first folder on the way.
NextNestedWindow(open, d) ==
    IF ~IsLibDir(open) \/ open = d \/ ~StartsWith(d, open) THEN open
    ELSE SubSeq(d, 1, Len(open) + 1)

\* last_nested_source_dir: the nearest source folder above d, up to root.
LastNestedSourceDir(root, d) ==
    LET above == <<d>> \o Ancestors(d)
        ends == {k \in 1..Len(above) : IsSourceDir(above[k]) \/ (k > 1 /\ above[k] = root)}
    IN IF ends = {} THEN root ELSE above[Min(ends)]

EndsWithJsSource(d) ==
    \/ Last(d) = "contracts"
    \/ Len(d) > 1 /\ Last(d) = "src" /\ d[Len(d) - 1] = "contracts"

\* Candidate::merge_on_same_level
MergeOnSameLevel(cands, dir, level, window, inNode) ==
    LET srcs == {k \in 1..Len(cands) : Last(cands[k].source) = "src"}
        others == SelectSeq(cands, LAMBDA c : c.level # level)
        source == IF inNode THEN window ELSE dir
        wrong == level > 0 /\ source = window /\ (IsSourceDir(source) \/ IsLibDir(source))
    IN IF Cardinality(srcs) = 1 THEN <<cands[CHOOSE k \in srcs : TRUE]>>
       ELSE IF wrong THEN others
       ELSE Append(others, [window |-> window, source |-> source, level |-> level])

\* The single nested candidate is moved to the folder imports start from.
AdjustNested(cands, open, level, window) ==
    LET at == {k \in 1..Len(cands) : cands[k].level = level}
        c == cands[Min(at)]
        source == IF DirDistance(c.window, c.source) > 1 /\ EndsWithJsSource(c.source) THEN window
                  ELSE IF ~IsSourceDir(c.source) /\ c.source # c.window
                  THEN LastNestedSourceDir(open, c.source)
                  ELSE c.source
    IN IF at = {} THEN cands ELSE [cands EXCEPT ![Min(at)].source = source]

-----------------------------------------------------------------------------
(* find_remapping_candidates: one task for each directory                  *)

Idle == [st |-> "idle", layout |-> <<>>, tasks |-> <<>>, top |-> <<>>, visited |-> {},
         found |-> <<>>, before |-> <<>>]

NewTask(layout, real, open, level) ==
    [st |-> "scan", real |-> real, open |-> open, level |-> level,
     left |-> ReadDir(layout, real), hasSol |-> FALSE, search |-> <<>>, out |-> <<>>]

RealDir(d, e) == IF e.link = NoPath THEN Append(d, e.name) ELSE e.link

\* find_many: the directories of the root are searched, each in its own window;
\* their order is the one in which they are listed.
StartSearch(layout, before) ==
    LET dirs == {e \in ReadDir(layout, layout.root) : e.kind = "dir"}
    IN \E order \in SetToSeqs(dirs) :
        LET path(e) == Append(layout.root, e.name)
        IN find' = [Idle EXCEPT
                !.st = "run", !.layout = layout, !.before = before,
                !.top = [k \in 1..Len(order) |-> path(order[k])],
                !.tasks = [d \in {path(e) : e \in dirs} |->
                    LET e == CHOOSE x \in dirs : path(x) = d
                    IN NewTask(layout, RealDir(layout.root, e), d, 0)]]

FindMany == find.st = "idle" /\ \E layout \in Layouts : StartSearch(layout, <<>>)

\* The same project is built again.
FindAgain == find.st = "done" /\ find.before = <<>> /\ StartSearch(find.layout, find.found)

Task(d) == find.tasks[d]
Step(d, task) == [find EXCEPT !.tasks[d] = task]

\* Mutant: a linked directory is followed every time.
ScanEntry_FollowsAgain(d) ==
    /\ find.st = "run" /\ Task(d).st = "scan"
    /\ \E e \in Task(d).left :
        LET rest == [Task(d) EXCEPT !.left = @ \ {e}]
            sub == [name |-> Append(d, e.name), real |-> RealDir(Task(d).real, e)]
        IN find' = Step(d, IF e.kind = "sol" THEN [rest EXCEPT !.hasSol = TRUE]
                           ELSE IF e.kind = "dir" /\ ~NoRecurse(sub.name)
                           THEN [rest EXCEPT !.search = Append(@, sub)] ELSE rest)

\* One entry of the listing.  A linked directory that was met before, by any
\* task, or that is above the window, ends the scan of the whole directory.
ScanEntry(d) ==
    /\ find.st = "run" /\ Task(d).st = "scan"
    /\ \E e \in Task(d).left :
        LET rest == [Task(d) EXCEPT !.left = @ \ {e}]
            sub == [name |-> Append(d, e.name), real |-> RealDir(Task(d).real, e)]
            linked == e.kind = "dir" /\ e.link # NoPath
            above == Len(Task(d).open) > Len(e.link) /\ CommonAncestor(Task(d).open, e.link) # NoPath
            short == linked /\ (e.link \in find.visited \/ above)
            task == IF short THEN [rest EXCEPT !.st = "done", !.left = {}, !.search = <<>>]
                    ELSE IF e.kind = "sol" THEN [rest EXCEPT !.hasSol = TRUE]
                    ELSE IF e.kind = "dir" /\ ~NoRecurse(sub.name)
                    THEN [rest EXCEPT !.search = Append(@, sub)] ELSE rest
        IN find' = [Step(d, task) EXCEPT !.visited = @ \cup IF linked THEN {e.link} ELSE {}]

\* The listing is read: the sub-directories are searched in parallel; a library
\* folder opens a window of its own.
SearchSubdirs(d) ==
    /\ find.st = "run" /\ Task(d).st = "scan" /\ Task(d).left = {}
    /\ LET subs == ToSet(Task(d).search)
           task(s) == IF IsLibDir(s.name) THEN NewTask(find.layout, s.real, s.name, Task(d).level + 1)
                      ELSE NewTask(find.layout, s.real, Task(d).open, Task(d).level)
           new == [p \in {s.name : s \in subs} |-> task(CHOOSE s \in subs : s.name = p)]
       IN find' = [find EXCEPT !.tasks = new @@ [@ EXCEPT ![d].st = "join"]]

\* All sub-directories are searched: their candidates, in the order of the
\* listing, are merged or adjusted.
JoinDir(d) ==
    /\ find.st = "run" /\ Task(d).st = "join"
    /\ \A s \in ToSet(Task(d).search) : Task(s.name).st = "done"
    /\ LET t == Task(d)
           cands == FlattenSeq([k \in 1..Len(t.search) |-> Task(t.search[k].name).out])
           window == NextNestedWindow(t.open, d)
           same == SelectSeq(cands, LAMBDA c : c.level = t.level /\ c.window = window)
           inNode == Last(find.layout.root) = "node_modules"
       IN find' = Step(d, [t EXCEPT !.st = "done",
            !.out = IF t.hasSol \/ Len(same) > 1
                    THEN MergeOnSameLevel(cands, d, t.level, window, inNode)
                    ELSE AdjustNested(cands, t.open, t.level, window)])

\* The order of paths.
Before(p, q) ==
    LET rank(n) == CHOOSE k \in 1..Len(NameOrder) : NameOrder[k] = n
        c == CommonAncestor(p, q)
        k == IF c = NoPath THEN 1 ELSE Len(c) + 1
    IN k <= Len(q) /\ (k > Len(p) \/ rank(p[k]) < rank(q[k]))

\* insert_prioritized: the shorter path, and one that ends with src, come first.
InsertPrioritized(map, c) ==
    LET name == Last(c.window)
        isSrc(p) == Last(p) = "src"
    IN IF name \in DOMAIN map /\ Len(map[name]) <= Len(c.source)
              /\ ~(isSrc(c.source) /\ ~isSrc(map[name]))
       THEN map ELSE (name :> c.source) @@ map

\* The candidates of all directories, sorted, become one remapping a name.
CollectRemappings ==
    /\ find.st = "run"
    /\ \A d \in ToSet(find.top) : Task(d).st = "done"
    /\ LET all == FlattenSeq([k \in 1..Len(find.top) |-> Task(find.top[k]).out])
           sorted == SortSeq(all, LAMBDA a, b : Before(a.source, b.source))
       IN find' = [find EXCEPT !.st = "done", !.tasks = <<>>, !.visited = {},
                               !.found = FoldLeft(InsertPrioritized, <<>>, sorted)]

-----------------------------------------------------------------------------
(* A line of a configuration file.  Text is a sequence of names and of the *)
(* characters "=", ":" and "/": the "/" between two names is left out.     *)

Find1(t, ch) == IF ch \in ToSet(t) THEN Min({k \in 1..Len(t) : t[k] = ch}) ELSE 0
IsBlank(t) == ToSet(t) \subseteq {" "}

\* Remapping::from_str
FromStr(t) ==
    LET eq == Find1(t, "=")
        left == SubSeq(t, 1, eq - 1)
        path == SubSeq(t, eq + 1, Len(t))
        colon == Find1(left, ":")
        name == SubSeq(left, colon + 1, Len(left))
        context == SubSeq(left, 1, colon - 1)
    IN IF eq = 0 \/ IsBlank(name) \/ IsBlank(path) THEN NoPath
       ELSE [context |-> IF colon = 0 \/ IsBlank(context) THEN NoPath ELSE context,
             name |-> name, path |-> path]

\* needs_trailing_slash: not for a remapping of a single file.
Slashed(t) == IF Last(t) = "/" \/ Last(t) \in SolNames THEN t ELSE Append(t, "/")
AsPath(t) == IF Len(t) > 1 /\ Last(t) = "/" THEN Front(t) ELSE t

\* Display for Remapping and RelativeRemapping.
Shown1(context) == IF context = NoPath THEN <<>> ELSE Append(context, ":")
ToString1(r) == Slashed(Shown1(r.context) \o Slashed(r.name) \o <<"=">> \o r.path)
RelativeToString(r) == Slashed(Shown1(r.context) \o r.name \o <<"=">> \o r.path.path)

\* RelativeRemappingPathBuf::with_root, relative.
WithRoot(root, t) ==
    IF StartsWith(AsPath(t), root) THEN [parent |-> root, path |-> Stripped(AsPath(t), root)]
    ELSE [parent |-> IF IsAbsolute(t) THEN NoPath ELSE root, path |-> t]
Relative(p) == IF IsAbsolute(p.path) \/ p.parent = NoPath THEN p.path ELSE p.parent \o p.path

\* RelativeRemapping::new, and From<RelativeRemapping> for Remapping.
IntoRelative(r, root) ==
    [context |-> IF r.context = NoPath THEN NoPath ELSE WithRoot(root, r.context).path,
     name |-> r.name, path |-> WithRoot(root, r.path)]
ToRemapping(r, root) ==
    [context |-> r.context, name |-> Slashed(r.name),
     path |-> Slashed(Relative([r.path EXCEPT !.parent = root]))]

\* A remapping is read, made relative to the file's place and saved; the file is
\* moved with the project; it is read again and made absolute.
NotMoved == [st |-> "idle", r |-> NoPath, line |-> <<>>, case |-> <<>>]

ReadLine ==
    /\ moved.st = "idle"
    /\ \E c \in RemapTexts :
        /\ FromStr(c.line) # NoPath
        /\ moved' = [st |-> "read", r |-> FromStr(c.line), line |-> <<>>, case |-> c]
SaveLine ==
    /\ moved.st = "read"
    /\ moved' = [moved EXCEPT !.st = "saved",
                              !.line = RelativeToString(IntoRelative(moved.r, moved.case.from))]
MoveLine ==
    /\ moved.st = "saved"
    /\ LET r == FromStr(moved.line)
           rel == [r EXCEPT !.path = [parent |-> NoPath, path |-> r.path]]
       IN moved' = [moved EXCEPT !.st = "moved", !.line = ToString1(ToRemapping(rel, moved.case.to))]

-----------------------------------------------------------------------------
RemappingsInit == find = Idle /\ moved = NotMoved
FindNext ==
    \/ FindMany \/ FindAgain \/ CollectRemappings
    \/ \E d \in DOMAIN find.tasks : ScanEntry(d) \/ SearchSubdirs(d) \/ JoinDir(d)
MoveNext == ReadLine \/ SaveLine \/ MoveLine

-----------------------------------------------------------------------------
(* Properties                                                              *)

RealDirs == DOMAIN find.layout.tree

\* Links may lead back into the tree: a branch enters a directory at most once by
\* its own path and once through a link.
ScanBounded == \A d \in DOMAIN find.tasks : Len(d) <= Len(find.layout.root) + 2 * Cardinality(RealDirs)

HasSol(real) == \E d \in RealDirs : StartsWith(d, real) /\ \E e \in find.layout.tree[d] : e.kind = "sol"
LibrariesFound ==
    find.st = "done" =>
        /\ \A n \in DOMAIN find.found : find.found[n] \in RealDirs => HasSol(find.found[n])
        /\ \A e \in ReadDir(find.layout, find.layout.root) :
             LET lib == Append(find.layout.root, e.name)
             IN /\ e.kind = "dir" /\ lib \in RealDirs
                /\ \A x \in ReadDir(find.layout, lib) : x.link = NoPath
                /\ \E x \in ReadDir(find.layout, lib) : x.kind = "sol" \/ x.name = "src"
                => e.name \in DOMAIN find.found

\* The search ends although links lead back into the tree, and what it finds can
\* be imported from: every remapping leads to a place with sources (unless it is
\* behind a link), and a library of the root whose sources are in the usual place
\* has a remapping of its name, whatever the other directories contain and in
\* whatever order they are searched.
SearchSound == ScanBounded /\ LibrariesFound

\* Two searches of an unchanged project find the same remappings, in whatever
\* order the threads go through it, unless libraries link to one another: which
\* of the two names of a linked library is searched depends on who comes first.
NoLinks(layout) == \A d \in DOMAIN layout.tree : \A e \in layout.tree[d] : e.kind = "dir" => e.link = NoPath
RemappingsRepeatable ==
    find.st = "done" /\ find.before # <<>> /\ NoLinks(find.layout) => find.found = find.before

\* A remapping keeps its meaning when it is saved and the project is moved: what
\* was below the old place is at the same place below the new one, the rest is
\* where it was, and a single file stays one.  (A name with a colon in it and no
\* context would be read back with a context: no such line is used.)
RemappingMoves ==
    moved.st = "moved" =>
        LET r == moved.r
            s == FromStr(moved.line)
            was == Join(moved.case.from, AsPath(r.path))
        IN /\ s # NoPath
           /\ AsPath(s.name) = AsPath(r.name)
           /\ AsPath(s.path) = IF StartsWith(was, moved.case.from)
                               THEN Join(moved.case.to, Stripped(was, moved.case.from)) ELSE was
           /\ (Last(s.path) \in SolNames) = (Last(AsPath(r.path)) \in SolNames)
           /\ (s.context = NoPath) = (r.context = NoPath)

\* Remappings that are found belong to real libraries, once each, and those
\* that are read and saved survive the move of the project (find_many,
\* RelativeRemapping).
RemappingsSound == SearchSound /\ RemappingsRepeatable /\ RemappingMoves
=============================================================================
