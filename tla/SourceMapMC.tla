---------------------------- MODULE SourceMapMC -----------------------------
(***************************************************************************)
(* The source maps SourceMap is checked on: all short token strings, and   *)
(* the same after an element that gives every field a value.               *)
(***************************************************************************)
EXTENDS SourceMap

Toks == {Num(-2), Num(-1), Num(0), Num(5), Num(20), Num(63), Num(64),
         Sym(";"), Sym(":"), Sym("i"), Sym("-"), Sym("?")}

\* "-5" is one token, and digits in a row are one number.
Lexed(s) ==
    \A i \in 1..(Len(s) - 1) : ~(s[i].k \in {"number", "-"} /\ s[i + 1].k = "number" /\ s[i + 1].v >= 0)

Whole == <<Num(5), Sym(":"), Num(5), Sym(":"), Num(5), Sym(":"), Sym("o"), Sym(":"), Num(5), Sym(";")>>
Upto(n, S) == {s \in UNION {[1..k -> S] : k \in 0..n} : Lexed(s)}
MCInputs == Upto(4, Toks) \cup {Whole \o s : s \in Upto(4, Toks \ {Num(-2), Num(64), Sym("?")})}
=============================================================================
