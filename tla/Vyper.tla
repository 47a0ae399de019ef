------------------------------- MODULE Vyper -------------------------------
(***************************************************************************)
(* Vyper sources in a project that is compiled by MultiCompiler: their     *)
(* language, imports (VyperParsedSource) and version pragma.               *)
(*                                                                         *)
(* An import line is [word, dots, parts, next, last]: its first word, the  *)
(* dots and the dotted name after it, and the two words that may follow.   *)
(* A pragma is [op, nums, pre]: operator ("" for none), the numbers of the *)
(* version, and whether it names a pre-release.  Version 0.4.3 is 403.     *)
(***************************************************************************)
EXTENDS ProjectPaths, SolcSettings

CONSTANTS
    VyperNames,       \* the names that end in ".vy" or ".vyi"
    VyperInterfaces   \* those that end in ".vyi"

-----------------------------------------------------------------------------
(* MultiCompiler                                                           *)

\* guess_lang, from the extension; Unspecified is an error.
GuessLang(f) ==
    IF Last(f) \in SolNames THEN "Solidity"
    ELSE IF Last(f) \in VyperNames THEN "Vyper" ELSE Unspecified

\* parse_sources: the files of the Solidity parser come before those of Vyper.
ParseOrder(files) ==
    LET vyper == {f \in ToSet(files) : GuessLang(f) = "Vyper"}
    IN Selected(files, ToSet(files) \ vyper) \o Selected(files, vyper)

-----------------------------------------------------------------------------
(* Imports                                                                 *)

\* parse_imports: every line that starts like an import is one.
ParseImports(lines) ==
    LET read(l) == [level |-> l.dots, path |-> l.parts \o IF l.next = "import" THEN <<l.last>> ELSE <<>>,
                    module |-> l.parts]
        own == Selected(lines, {l \in ToSet(lines) : l.word \in {"from", "import"}})
    IN [k \in 1..Len(own) |-> read(own[k])]

IsBuiltin(i) ==
    /\ i.level = 0
    /\ \/ Len(i.module) > 1 /\ i.module[1] = "vyper"
       \/ StartsWith(i.module, <<"ethereum", "ercs">>)

\* The directory reached from the file by going n levels up.
LevelsUp(f, n) == IF n < Len(f) THEN SubSeq(f, 1, Len(f) - n) ELSE NoPath

\* Where an import is looked for, in this order.
CandidateDirs(c, f, i) ==
    (IF i.level > 0 THEN <<LevelsUp(f, i.level)>> ELSE <<Parent(f), c.root>>) \o c.libraries

\* Each directory is tried with both extensions (VYPER_EXTENSIONS).
Candidates(dirs, path) ==
    LET file(dir, ext) == Join(dir, Append(Front(path), Last(path) \o ext))
    IN FlattenSeq([k \in 1..Len(dirs) |->
           <<[file |-> file(dirs[k], ".vy"), dir |-> dirs[k]],
             [file |-> file(dirs[k], ".vyi"), dir |-> dirs[k]]>>])

\* The first candidate that exists, or none; too many levels are an error as well.
FindImport(fs, c, f, i) ==
    IF LevelsUp(f, i.level) = NoPath THEN <<>>
    ELSE SelectSeq(Candidates(CandidateDirs(c, f, i), i.path), LAMBDA x : x.file \in fs)

\* resolve_imports: one import that is not found fails the file.
ResolveFound(found) ==
    IF \E k \in 1..Len(found) : found[k] = <<>> THEN [ok |-> FALSE, files |-> <<>>, include |-> {}]
    ELSE [ok |-> TRUE, files |-> [k \in 1..Len(found) |-> found[k][1].file],
          include |-> {found[k][1].dir : k \in 1..Len(found)}]
ResolveWanted(fs, c, f, wanted) ==
    ResolveFound([k \in 1..Len(wanted) |-> FindImport(fs, c, f, wanted[k])])
ResolveImports(fs, c, f, lines) ==
    LET read == ParseImports(lines)
    IN ResolveWanted(fs, c, f, Selected(read, {i \in ToSet(read) : ~IsBuiltin(i)}))

-----------------------------------------------------------------------------
(* Version pragmas                                                         *)

Number(nums) ==
    LET part(k) == IF k <= Len(nums) THEN nums[k] ELSE 0
    IN 10000 * part(1) + 100 * part(2) + part(3)

\* semver (external): whether a released version meets a comparator.
UnitOf(nums) == <<10000, 100, 1>>[Len(nums)]
CaretEnd(nums) ==
    LET set == {k \in 1..Len(nums) : nums[k] # 0}
        n == IF set = {} THEN Len(nums) ELSE CHOOSE k \in set : \A j \in set : k <= j
    IN Number(SubSeq(nums, 1, n)) + UnitOf(SubSeq(nums, 1, n))
Meets(v, cmp) ==
    CASE cmp.op = ">=" -> v >= Number(cmp.nums)
      [] cmp.op = "<" -> v < Number(cmp.nums)
      [] cmp.op = "=" -> ~cmp.pre /\ Number(cmp.nums) <= v /\ v < Number(cmp.nums) + UnitOf(cmp.nums)
      [] cmp.op \in {"", "^"} -> Number(cmp.nums) <= v /\ v < CaretEnd(cmp.nums)
Parses(cmp) == cmp.op \in {"", "^", "=", ">=", "<"} /\ Len(cmp.nums) \in 1..3 /\ (cmp.pre => Len(cmp.nums) = 3)

\* compatible_release: from the version up to the next value of its last number but one.
CompatibleRelease(p) ==
    IF Len(p.nums) < 2 THEN {[p EXCEPT !.op = ">="]}
    ELSE {[p EXCEPT !.op = ">="],
          [op |-> "<", pre |-> FALSE,
           nums |-> [SubSeq(p.nums, 1, Len(p.nums) - 1) EXCEPT ![Len(p.nums) - 1] = @ + 1]]}

\* pep440_to_semver_req
Pep440ToSemver(p) ==
    CASE p.op = "~=" -> CompatibleRelease(p)
      [] p.op = "==" -> {[p EXCEPT !.op = "="]}
      [] OTHER -> {p}

\* parse_vyper_version_req: the versions of `all` that meet it; a pragma that
\* cannot be read does not constrain the version.
VersionReq(p, all) ==
    IF p = Unspecified THEN Unspecified
    ELSE IF Parses(p) THEN {v \in all : Meets(v, p)}
    ELSE IF \A cmp \in Pep440ToSemver(p) : Parses(cmp)
    THEN {v \in all : \A cmp \in Pep440ToSemver(p) : Meets(v, cmp)}
    ELSE Unspecified

\* PEP 440, by its text: ~= keeps all numbers but the last, == all three.
Pep440Admits(p, v) ==
    LET parts == <<v \div 10000, (v \div 100) % 100, v % 100>>
    IN CASE p.op = "~=" -> v >= Number(p.nums) /\ SubSeq(parts, 1, Len(p.nums) - 1) = Front(p.nums)
         [] p.op = "==" -> parts = p.nums /\ ~p.pre
         [] OTHER -> TRUE
=============================================================================
