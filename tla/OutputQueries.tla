---------------------------- MODULE OutputQueries ----------------------------
(***************************************************************************)
(* The output of a build as its user takes it apart                        *)
(* (compilers/src/compile/output): contracts named by                      *)
(* `<path>:<contractname>` or by name only, and source files by path or    *)
(* identifier, are looked up and removed one after the other.              *)
(*                                                                         *)
(* Files are numbers, in the order of their paths; a text is the sequence  *)
(* of what is between its colons.                                          *)
(***************************************************************************)
EXTENDS Naturals, Sequences, SequencesExt, FiniteSetsExt

CONSTANTS
    PathOf,       \* file -> its path, as a text
    Texts,        \* what users name contracts by
    FileLike,     \* names that end with .sol or contain a slash
    Outputs,      \* file -> name -> the versions and profiles it was compiled with
    SourceLists,  \* file -> sequence of [id, version]
    Nothing       \* Option::None

VARIABLE query

Files == DOMAIN PathOf

\* What an output is made of: its contracts and its source files.
ContractsOf(m) ==
    UNION {UNION {{[file |-> f, name |-> n, made |-> v] : v \in ToSet(m[f][n])} : n \in DOMAIN m[f]} : f \in DOMAIN m}
SourcesOf(m) == UNION {{[file |-> f, made |-> s] : s \in ToSet(m[f])} : f \in DOMAIN m}
Items(o) == ContractsOf(o.contracts) \cup SourcesOf(o.sources)

\* The maps of VersionedContracts and VersionedSourceFiles: no version and profile
\* twice.  The name of a contract is an identifier.
DistinctSeq(s) == s \in Seq(ToSet(s)) /\ IsInjective(s)
ContractMap(m) ==
    /\ m = [f \in DOMAIN m |-> m[f]] /\ DOMAIN m \subseteq Files
    /\ \A f \in DOMAIN m :
        /\ m[f] = [n \in DOMAIN m[f] |-> m[f][n]]
        /\ \A n \in DOMAIN m[f] : n = <<n[1]>> /\ n[1] \notin FileLike /\ DistinctSeq(m[f][n])
SourceFileMap(m) ==
    /\ m = [f \in DOMAIN m |-> m[f]] /\ DOMAIN m \subseteq Files
    /\ \A f \in DOMAIN m : DistinctSeq(m[f])

ASSUME OutputsAssumption ==
    /\ Files \subseteq Nat
    /\ \A f \in Files : PathOf[f] \in Seq(ToSet(PathOf[f])) /\ PathOf[f] # Nothing
    /\ \A f, g \in Files : PathOf[f] = PathOf[g] => f = g
    /\ \A m \in Outputs : ContractMap(m) /\ Nothing \notin ContractsOf(m)
    /\ \A m \in SourceLists : SourceFileMap(m) /\ Nothing \notin SourcesOf(m)

-----------------------------------------------------------------------------
(* ContractInfo, FullContractInfo                                          *)

ContractInfo(text) ==
    IF Last(text) \in FileLike THEN [path |-> Nothing, name |-> text]
    ELSE [path |-> IF Len(text) = 1 THEN Nothing ELSE <<text[Len(text) - 1]>>, name |-> <<Last(text)>>]

\* Split at the first colon; Nothing if there is none.
FullContractInfo(text) ==
    IF Len(text) = 1 THEN Nothing ELSE [path |-> <<Head(text)>>, name |-> Tail(text)]

-----------------------------------------------------------------------------
(* VersionedContracts: the entries are in the order of files               *)

Has(m, f, name) == name \in DOMAIN m[f] /\ m[f][name] # <<>>
Holders(m, path, name) == {f \in DOMAIN m : (path = Nothing \/ PathOf[f] = path) /\ Has(m, f, name)}

\* find, find_first
FindContract(m, info) ==
    LET at == Holders(m, info.path, info.name)
    IN IF at = {} THEN Nothing ELSE [file |-> Min(at), name |-> info.name, made |-> m[Min(at)][info.name][1]]

\* Mutant: the other versions of the contract are not put back.
RemovedAt_AllVersions(m, f, name) ==
    [m EXCEPT ![f] = [n \in DOMAIN @ \ {name} |-> @[n]]]

\* remove_entry, remove(0), and the entry is put back if anything is left of it.
RemovedAt(m, f, name) ==
    [m EXCEPT ![f] = [n \in DOMAIN @ \ (IF Len(@[name]) > 1 THEN {} ELSE {name}) |->
                        IF n = name THEN Tail(@[n]) ELSE @[n]]]

\* remove_contract: remove, remove_first
RemoveNamed(text) ==
    LET found == FindContract(query.contracts, ContractInfo(text))
    IN /\ found # Nothing
       /\ query' = [query EXCEPT !.contracts = RemovedAt(@, found.file, found.name), !.taken = @ \cup {found}]

-----------------------------------------------------------------------------
(* VersionedSourceFiles                                                    *)

FindFile(m, f) == IF f \in DOMAIN m /\ m[f] # <<>> THEN [file |-> f, made |-> m[f][1]] ELSE Nothing

WithId(m, id) == {f \in DOMAIN m : \E k \in DOMAIN m[f] : m[f][k].id = id}
IndexOfId(s, id) == Min({k \in DOMAIN s : s[k].id = id})
FindId(m, id) ==
    IF WithId(m, id) = {} THEN Nothing
    ELSE LET f == Min(WithId(m, id)) IN [file |-> f, made |-> m[f][IndexOfId(m[f], id)]]

\* remove_by_path: the path stays, with nothing.
RemoveByPath(f) ==
    LET found == FindFile(query.sources, f)
    IN /\ found # Nothing
       /\ query' = [query EXCEPT !.sources[f] = Tail(@), !.taken = @ \cup {found}]

\* remove_by_id: the iterator is lazy, so only the first file that has it is touched.
RemoveById(id) ==
    LET found == FindId(query.sources, id)
    IN /\ found # Nothing
       /\ query' = [query EXCEPT !.sources[found.file] = RemoveAt(@, IndexOfId(@, id)), !.taken = @ \cup {found}]

-----------------------------------------------------------------------------
QueryInit ==
    \E c \in Outputs, s \in SourceLists :
        query = [contracts |-> c, sources |-> s, all |-> [contracts |-> c, sources |-> s], taken |-> {}]
QueryNext ==
    \/ \E t \in Texts : RemoveNamed(t)
    \/ \E f \in Files : RemoveByPath(f)
    \/ \E id \in 0..1 : RemoveById(id)

QuerySpec == QueryInit /\ [][QueryNext]_query

\* However an output is taken apart, every contract and source file is handed out
\* once and none is lost; and a contract that is left is found by its name alone,
\* and by its path and name unless the path has a colon.
QueriesSound ==
    /\ query.taken \cap Items(query) = {}
    /\ query.taken \cup Items(query) = Items(query.all)
    /\ \A c \in ContractsOf(query.contracts) :
         /\ FindContract(query.contracts, ContractInfo(c.name)) # Nothing
         /\ Len(PathOf[c.file]) = 1 =>
              LET text == PathOf[c.file] \o c.name
              IN /\ FindContract(query.contracts, ContractInfo(text)).file = c.file
                 /\ FullContractInfo(text) = ContractInfo(text)
=============================================================================
