----------------------------- MODULE SourceMap -----------------------------
(***************************************************************************)
(* artifacts/solc/src/sourcemap.rs: the parser of compressed source maps   *)
(* "s:l:f:j:m;s:l:f:j:m;...", where an empty field repeats the previous    *)
(* instruction's.  The machine reads one token per step.                   *)
(***************************************************************************)
EXTENDS Integers, Sequences, SequencesExt

CONSTANTS
    W,        \* bits of the packed word and of u32
    Inputs    \* token sequences, as the lexer can produce them

\* Tokens: [k |-> "number", v |-> i] and the symbols ; : i o - and ? for any
\* character the lexer refuses.
Num(v) == [k |-> "number", v |-> v]
Sym(k) == [k |-> k, v |-> 0]
Jumps == {"i", "o", "-"}

MaxU32 == 2^W - 1
DepthBits == 2^(W - 2)

ToInt(jump) == CASE jump = "i" -> 0 [] jump = "o" -> 1 [] jump = "-" -> 2
FromInt(i) == CASE i = 0 -> "i" [] i = 1 -> "o" [] i = 2 -> "-"

\* An index that does not fit i32 wraps: the largest u32 becomes -1.
AsI32(x) == IF x < 2^(W - 1) THEN x ELSE x - 2^W
AsU32(x) == x % 2^W
NoSource == -1

\* SourceElement: the two fields of the packed word.
NewElement == [offset |-> 0, length |-> 0, index |-> NoSource, packed |-> 0]
JumpOf(e) == FromInt(e.packed \div DepthBits)
ModifierDepth(e) == (e.packed * 4 % 2^W) \div 4
SetPacked(e, jump, depth) == [e EXCEPT !.packed = ToInt(jump) * DepthBits + depth]
SetJump(e, jump) == SetPacked(e, jump, ModifierDepth(e))
SourceIndex(e) == IF e.index = -1 THEN NoSource ELSE AsU32(e.index)

VARIABLES
    input, pos,      \* the tokens and the next one
    state,           \* 1..5: Offset, Length, Index, Jmp, Modifier
    builder,         \* SourceElementBuilder: the fields set so far
    last,            \* last_element
    elements,        \* what the iterator has yielded
    failed, done

smVars == <<input, pos, state, builder, last, elements, failed, done>>

NoField == [set |-> FALSE, v |-> 0, j |-> "-"]
Field(v) == [set |-> TRUE, v |-> v, j |-> "-"]
EmptyBuilder == [i \in 1..5 |-> NoField]

\* SourceElementBuilder::finish; the depth must fit its 30 bits.
DepthFits(b) == b[5].set => b[5].v < DepthBits
Finish(b, prev) ==
    LET e1 == [prev EXCEPT !.offset = IF b[1].set THEN b[1].v ELSE @,
                           !.length = IF b[2].set THEN b[2].v ELSE @,
                           !.index = IF b[3].set THEN AsI32(b[3].v) ELSE @]
        e2 == IF b[4].set THEN SetJump(e1, b[4].j) ELSE e1
    IN IF b[5].set THEN SetPacked(e2, JumpOf(e2), b[5].v) ELSE e2

\* parse_number, and what -1 means for each field (no source is kept as the i32
\* -1, the largest u32).
BadNumber(v) == v < -1 \/ v > MaxU32
NumberField(s, v) ==
    Field(IF v # -1 THEN v ELSE IF s = 3 THEN MaxU32 ELSE 0)

SMInit ==
    /\ input \in Inputs
    /\ pos = 1
    /\ state = 1
    /\ builder = EmptyBuilder
    /\ last = NewElement
    /\ elements = <<>>
    /\ failed = FALSE
    /\ done = (input = <<>>)

Running == ~failed /\ pos <= Len(input)
Tok == input[pos]
Fail == /\ failed' = TRUE
        /\ UNCHANGED <<input, pos, state, builder, last, elements, done>>

\* Parser::advance: one element is complete at a semicolon or at the end.
Yield ==
    /\ last' = Finish(builder, last)
    /\ elements' = Append(elements, last')
    /\ builder' = EmptyBuilder
    /\ state' = 1
    /\ UNCHANGED <<input, failed>>

Semicolon ==
    /\ Running /\ Tok.k = ";"
    /\ pos' = pos + 1
    /\ IF ~DepthFits(builder)
       THEN failed' = TRUE /\ UNCHANGED <<input, state, builder, last, elements, done>>
       ELSE Yield /\ UNCHANGED done

\* The end of the input yields one more element, once.
End ==
    /\ ~failed /\ pos > Len(input) /\ ~done
    /\ done' = TRUE
    /\ pos' = pos
    /\ IF ~DepthFits(builder)
       THEN failed' = TRUE /\ UNCHANGED <<input, state, builder, last, elements>>
       ELSE Yield

Number ==
    /\ Running /\ Tok.k = "number"
    /\ IF state = 4 \/ BadNumber(Tok.v) \/ builder[state].set THEN Fail
       ELSE /\ builder' = [builder EXCEPT ![state] = NumberField(state, Tok.v)]
            /\ pos' = pos + 1
            /\ UNCHANGED <<input, state, last, elements, failed, done>>

\* State::advance
Colon ==
    /\ Running /\ Tok.k = ":"
    /\ IF state = 5 THEN Fail
       ELSE /\ state' = state + 1
            /\ pos' = pos + 1
            /\ UNCHANGED <<input, builder, last, elements, failed, done>>

\* set_jmp: a jump is taken in any field.
Jump ==
    /\ Running /\ Tok.k \in Jumps
    /\ IF builder[4].set THEN Fail
       ELSE /\ builder' = [builder EXCEPT ![4] = [set |-> TRUE, v |-> 0, j |-> Tok.k]]
            /\ pos' = pos + 1
            /\ UNCHANGED <<input, state, last, elements, failed, done>>

UnexpectedCharacter == Running /\ Tok.k = "?" /\ Fail

SMNext == Semicolon \/ End \/ Number \/ Colon \/ Jump \/ UnexpectedCharacter

-----------------------------------------------------------------------------
\* The format, read declaratively: segments between semicolons, fields between
\* colons, and for each field its last value so far.
SegmentOf(k) == 1 + Len(SelectSeq(SubSeq(input, 1, k - 1), LAMBDA t : t.k = ";"))
Semicolons(k) == {i \in 1..k : input[i].k = ";"}
FieldOf(k) ==
    LET start == IF Semicolons(k - 1) = {} THEN 1 ELSE 1 + CHOOSE i \in Semicolons(k - 1) :
                                                            \A j \in Semicolons(k - 1) : j <= i
    IN 1 + Len(SelectSeq(SubSeq(input, start, k - 1), LAMBDA t : t.k = ":"))
IsNumber(k) == input[k].k = "number"
IsJump(k) == input[k].k \in Jumps

Malformed ==
    \E k \in DOMAIN input :
      \/ input[k].k = "?"
      \/ input[k].k = ":" /\ FieldOf(k) = 5
      \/ IsNumber(k) /\ (FieldOf(k) = 4 \/ BadNumber(input[k].v) \/ (FieldOf(k) = 5 /\ input[k].v >= DepthBits))
      \/ \E j \in 1..(k - 1) :
           /\ SegmentOf(j) = SegmentOf(k)
           /\ \/ IsJump(j) /\ IsJump(k)
              \/ IsNumber(j) /\ IsNumber(k) /\ FieldOf(j) = FieldOf(k)

LastOf(S) == CHOOSE i \in S : \A j \in S : j <= i
Said(n, f) == {k \in DOMAIN input : IsNumber(k) /\ FieldOf(k) = f /\ SegmentOf(k) <= n}
NumberAt(n, f, default) ==
    IF Said(n, f) = {} THEN default
    ELSE LET v == input[LastOf(Said(n, f))].v IN IF v = -1 THEN default ELSE v
JumpAt(n) ==
    LET S == {k \in DOMAIN input : IsJump(k) /\ SegmentOf(k) <= n}
    IN IF S = {} THEN "i" ELSE input[LastOf(S)].k

\* A finished parse has one element per segment, every element says the last
\* value of each of its fields, and only malformed maps are refused.  (The
\* index 2^32 - 1 reads as "no source": it shares its i32 with -1.)
SourceMapSound ==
    /\ failed => Malformed
    /\ (done /\ ~failed) =>
         /\ ~Malformed
         /\ Len(elements) = IF input = <<>> THEN 0 ELSE 1 + Len(SelectSeq(input, LAMBDA t : t.k = ";"))
         /\ \A n \in DOMAIN elements :
              /\ elements[n].offset = NumberAt(n, 1, 0)
              /\ elements[n].length = NumberAt(n, 2, 0)
              /\ SourceIndex(elements[n]) = LET v == NumberAt(n, 3, NoSource)
                                        IN IF v = MaxU32 THEN NoSource ELSE v
              /\ JumpOf(elements[n]) = JumpAt(n)
              /\ ModifierDepth(elements[n]) = NumberAt(n, 5, 0)
=============================================================================
