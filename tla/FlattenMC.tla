----------------------------- MODULE FlattenMC ------------------------------
(***************************************************************************)
(* The programs Flatten is checked on.                                     *)
(***************************************************************************)
EXTENDS Flatten

CONSTANT Kinds   \* what the files other than the target declare

\* Three files: the target t, and a and b, of which a may derive from b's
\* contract.  Each import edge has a style.
MCFileOrder == <<"a", "b", "t">>
Styles == {"none", "plain", "alias", "unit"}

Shapes == [ab : Styles, ba : {"none", "plain"}, ta : {"plain", "alias", "unit"}, tb : Styles,
           aname : {"C", "D"}, tname : {"C", "T", "C_0"}, derives : BOOLEAN, heads : {"none", "some", "odd"},
           kind : Kinds]

Style(s, p, q) ==
    CASE p = "a" /\ q = "b" -> s.ab
      [] p = "b" /\ q = "a" -> s.ba
      [] p = "t" /\ q = "a" -> s.ta
      [] p = "t" /\ q = "b" -> s.tb
      [] OTHER -> "none"

NameOf(s, p) == CASE p = "a" -> s.aname [] p = "b" -> "C" [] p = "t" -> s.tname
Imported(s, p) == SelectSeq(MCFileOrder, LAMBDA q : Style(s, p, q) # "none")
Alias(q) == "X" \o q

\* What a file exports: its own names and what it imports, transitively.
Own(s, p) == {<<NameOf(s, p), TopId(p, 1)>>}
Brings(s, p, q, exported) ==
    CASE Style(s, p, q) = "plain" -> exported[q]
      [] Style(s, p, q) = "alias" -> {<<Alias(q), TopId(q, 1)>>}
      [] OTHER -> {}
Step(s, e) == [p \in {"a", "b", "t"} |-> Own(s, p) \cup UNION {Brings(s, p, q, e) : q \in {"a", "b", "t"}}]
Exports(s) == Step(s, Step(s, Step(s, [p \in {"a", "b", "t"} |-> Own(s, p)])))

\* How p writes the contract of q.
Spelled(s, p, q) ==
    CASE p = q \/ Style(s, p, q) = "plain" -> [words |-> <<NameOf(s, q)>>, ids |-> <<TopId(q, 1)>>]
      [] Style(s, p, q) = "alias" -> [words |-> <<Alias(q)>>, ids |-> <<TopId(q, 1)>>]
      [] OTHER -> LET k == CHOOSE i \in DOMAIN Imported(s, p) : Imported(s, p)[i] = q
                  IN [words |-> <<"Q" \o q, NameOf(s, q)>>, ids |-> <<ImportId(p, k), TopId(q, 1)>>]

Use(how, sp) == [how |-> how, words |-> sp.words, ids |-> sp.ids]
WithMember(sp, q) == [words |-> Append(sp.words, "S"), ids |-> Append(sp.ids, Member(q, 1, 1))]

\* An error is only named in expressions (revert); a contract also as a type or
\* base, with its members and in documentation.
UsesOf(s, p, q) ==
    LET sp == Spelled(s, p, q)
    IN <<Use("expr", sp)>> \o
       (IF s.kind = "error" THEN <<>>
        ELSE <<Use("path", sp), Use("array", sp), Use("using", sp), Use("path", WithMember(sp, q)), Use("expr", WithMember(sp, q)),
               [how |-> "doc", words |-> <<IF Len(sp.words) = 1 THEN sp.words[1] ELSE "qualified">>,
                ids |-> <<TopId(q, 1)>>]>>)

Derives(s, p) == p = "a" /\ s.derives /\ s.ab # "none"

File(s, p) ==
    LET ex == Exports(s)
        qs == Imported(s, p)
    IN [license |-> IF s.heads # "none" THEN <<IF p = "t" THEN "mit" ELSE "gpl">> ELSE <<>>,
        pragmas |-> CASE s.heads = "none" -> <<>>
                      [] p = "a" -> <<"solidity >=1 <3", "experimental">>
                      [] p = "b" /\ s.heads = "odd" -> <<"solidity ^2", "solidity >=1 <3">>
                      [] p = "t" /\ s.heads = "odd" -> <<"solidity ^1 || ^2">>
                      [] OTHER -> <<"solidity ^2", "abicoder v2">>,
        imports |-> [k \in DOMAIN qs |->
            [path |-> qs[k], unit |-> IF Style(s, p, qs[k]) = "unit" THEN "Q" \o qs[k] ELSE "",
             syms |-> Brings(s, p, qs[k], ex),
             renames |-> IF Style(s, p, qs[k]) = "alias" THEN <<<<Alias(qs[k]), NameOf(s, qs[k])>>>> ELSE <<>>]],
        defs |-> <<[name |-> NameOf(s, p), kind |-> IF p = "t" THEN "contract" ELSE s.kind,
                    base |-> IF Derives(s, p) THEN TopId("b", 1) ELSE NoBase,
                    members |-> IF s.kind = "error" THEN <<>> ELSE <<"S">>,
                    uses |-> (IF Derives(s, p)
                              THEN <<Use("base", Spelled(s, "a", "b")), Use("path", [words |-> <<"S">>, ids |-> <<Member("b", 1, 1)>>])>> ELSE <<>>)
                             \o FlattenSeq([k \in DOMAIN qs |->
                                  IF p = "t" \/ Derives(s, p) THEN UsesOf(s, p, qs[k]) ELSE <<>>])]>>]

Program(s) == [p \in {"a", "b", "t"} |-> File(s, p)]

\* The compiler accepts it: one declaration per name in every file.
Valid(s) ==
    /\ \A p \in {"a", "b", "t"} : \A e, f \in Exports(s)[p] : e[1] = f[1] => e[2] = f[2]
    /\ s.derives => s.ab # "none" /\ s.kind = "contract"

VARIABLE shape    \* the program flattened, NoShape before

NoShape == [kind |-> "none"]
FlattenInit == shape = NoShape
FlattenProgram == shape = NoShape /\ shape' \in {s \in Shapes : Valid(s)}

\* A name that rename_top_level_definitions makes, C_0, is one that a file has already.
SuffixTaken(P, used) ==
    \E p, q \in used : \E i \in 0..Cardinality(used) :
        Suffixed(P[p].defs[1].name, i) = P[q].defs[1].name

\* Flattening the target keeps the program's meaning, whatever mix of plain,
\* renaming and unit imports ties the files together and whichever names they
\* share, and no two updates overlap.  Three things are excepted.  A definition that
\* is given a number can meet one that has that name already: the code does not look,
\* and there are then two of one name.  Errors and events are not renamed
\* (collect_top_level_definitions), so for them the names must be apart already and
\* imported without an alias.  And a version pragma that does not parse is lost.  The
\* text-based flattener keeps the meaning where names are unique and no import is
\* qualified, except that it leaves aliases where its pattern does not look.
FlattenSound ==
    shape # NoShape =>
      LET P == Program(shape)
          used == DepsOf(P, "t")
          plain == \A p, q \in used : Style(shape, p, q) # "unit"
          apart == \A p, q \in used : p # q => NameOf(shape, p) # NameOf(shape, q)
          asIs == \A p, q \in used : Style(shape, p, q) # "alias"
          renamed == shape.kind = "contract" /\ (apart \/ ~SuffixTaken(P, used))
      IN /\ renamed \/ (apart /\ asIs) => FlattenKeeps(P, "t", FlattenTarget(P, "t"))
         /\ UpdatesApart(Flattener(P, "t"))
         /\ plain /\ apart => SimplyKeeps(P, "t", SimplyFlattened(P, "t"))

=============================================================================
