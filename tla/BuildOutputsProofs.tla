------------------------- MODULE BuildOutputsProofs -------------------------
(***************************************************************************)
(* Proofs about what is done with the result of a build: Linking, for any  *)
(* libraries, addresses and contracts, however their code is put together; *)
(* and OutputQueries, for any output, however it is taken apart.           *)
(***************************************************************************)
EXTENDS Linking, OutputQueries, FiniteSetTheorems, SequenceTheorems, NaturalsInduction, WellFoundedInduction, TLAPS

-----------------------------------------------------------------------------
(* Induction, stated for sets: the prover cannot instantiate the induction    *)
(* theorems of the library.                                                   *)

LEMMA LeastNumber ==
    ASSUME NEW I \in SUBSET Nat, I # {}
    PROVE  \E m \in I : \A k \in I : m <= k
  <1> DEFINE R == OpToRel(<, Nat)
  <1>1. IsWellFoundedOn(R, Nat)
    BY NatLessThanWellFounded, Zenon
  <1>2. \A k, m \in Nat : k < m => <<k, m>> \in R
    BY DEF OpToRel
  <1> HIDE DEF R
  <1>3. PICK m \in I : \A k \in I : <<k, m>> \notin R
    BY <1>1, WFMin
  <1>4. ASSUME NEW k \in I PROVE m <= k
    <2>1. k \in Nat /\ m \in Nat
      OBVIOUS
    <2>2. ~(k < m)
      BY <1>2, <1>3, <2>1
    <2> QED BY <2>1, <2>2
  <1> QED BY <1>4

LEMMA UpTo ==
    ASSUME NEW n \in Nat, NEW A \in SUBSET (0..n), 0 \in A,
           \A k \in 0..(n - 1) : k \in A => k + 1 \in A
    PROVE  A = 0..n
  <1> SUFFICES ASSUME A # 0..n PROVE FALSE
    OBVIOUS
  <1> DEFINE B == (0..n) \ A
  <1>1. PICK m \in B : \A k \in B : m <= k
    <2>1. B # {} /\ B \in SUBSET (0..n)
      OBVIOUS
    <2> HIDE DEF B
    <2>2. B \in SUBSET Nat
      BY <2>1
    <2> QED BY <2>1, <2>2, LeastNumber
  <1>2. m # 0 /\ m - 1 \in 0..(n - 1) /\ m - 1 \notin B
    BY <1>1
  <1> QED BY <1>2

\* The library's Min is the least number of a set.
LEMMA LeastOf ==
    ASSUME NEW I \in SUBSET Nat, I # {}
    PROVE  Min(I) \in I
  BY LeastNumber DEF Min

-----------------------------------------------------------------------------
(* Cells: g gives each library the address it was first linked to, or NoAddr *)

Given == [Libs -> Addrs \cup {NoAddr}]
Put(cell, g) ==
    LET owner == {l \in Libs : cell \in Placeholders(l) /\ g[l] # NoAddr}
    IN IF owner = {} THEN cell ELSE AddressCell(g[CHOOSE l \in owner : TRUE])
Wanted(cells, g) == [i \in DOMAIN cells |-> Put(cells[i], g)]
Left(cells, g) == {l \in Libs : g[l] = NoAddr /\ \E i \in DOMAIN cells : cells[i] \in Placeholders(l)}

\* The object that the cells become: what is linked, and what is left to link.
ObjectOf(cells, g) ==
    [cells |-> Wanted(cells, g), refs |-> Left(cells, g),
     kind |-> IF Left(cells, g) = {} THEN "Bytecode" ELSE "Unlinked"]

LEMMA AddressIsNoPlaceholder ==
    ASSUME NEW a, NEW l
    PROVE  AddressCell(a) \notin Placeholders(l) /\ ~IsPlaceholder(AddressCell(a))
  BY DEF AddressCell, Placeholders, HashOf, Legacy, IsPlaceholder

LEMMA PlaceholderOfLibrary ==
    ASSUME NEW cell \in Cells
    PROVE  IsPlaceholder(cell) <=> \E l \in Libs : cell \in Placeholders(l)
  <1>1. ~IsPlaceholder(Code)
    BY DEF Code, IsPlaceholder
  <1>2. ASSUME NEW l \in Libs, cell \in Placeholders(l) PROVE IsPlaceholder(cell)
    BY <1>2 DEF Placeholders, HashOf, Legacy, IsPlaceholder
  <1> QED BY <1>1, <1>2 DEF Cells

\* A cell is a placeholder of a library exactly if the compiler left one there and
\* the library has no address yet.
LEMMA PutMeans ==
    ASSUME NEW cell \in Cells, NEW g \in Given, NEW l \in Libs
    PROVE  Put(cell, g) \in Placeholders(l) <=> cell \in Placeholders(l) /\ g[l] = NoAddr
  <1> DEFINE owner == {k \in Libs : cell \in Placeholders(k) /\ g[k] # NoAddr}
  <1>1. CASE owner = {}
    <2>1. Put(cell, g) = cell
      BY <1>1 DEF Put
    <2>2. cell \in Placeholders(l) => g[l] = NoAddr
      BY <1>1
    <2> QED BY <2>1, <2>2
  <1>2. CASE owner # {}
    <2>1. Put(cell, g) = AddressCell(g[CHOOSE k \in owner : TRUE])
      BY <1>2 DEF Put
    <2>2. Put(cell, g) \notin Placeholders(l)
      BY <2>1, AddressIsNoPlaceholder
    <2>3. PICK k \in Libs : cell \in Placeholders(k) /\ g[k] # NoAddr
      BY <1>2
    <2>4. cell \in Placeholders(l) => k = l
      BY <2>3, LinkAssumption
    <2> QED BY <2>2, <2>3, <2>4
  <1> QED BY <1>1, <1>2

LEMMA PutIsPlaceholder ==
    ASSUME NEW cell \in Cells, NEW g \in Given
    PROVE  IsPlaceholder(Put(cell, g)) <=> \E l \in Libs : cell \in Placeholders(l) /\ g[l] = NoAddr
  <1> DEFINE owner == {k \in Libs : cell \in Placeholders(k) /\ g[k] # NoAddr}
  <1>1. CASE owner = {}
    <2>1. Put(cell, g) = cell
      BY <1>1 DEF Put
    <2>2. \A l \in Libs : cell \in Placeholders(l) => g[l] = NoAddr
      BY <1>1
    <2> QED BY <2>1, <2>2, PlaceholderOfLibrary
  <1>2. CASE owner # {}
    <2>1. Put(cell, g) = AddressCell(g[CHOOSE k \in owner : TRUE])
      BY <1>2 DEF Put
    <2>2. ~IsPlaceholder(Put(cell, g))
      BY <2>1, AddressIsNoPlaceholder
    <2>3. PICK k \in Libs : cell \in Placeholders(k) /\ g[k] # NoAddr
      BY <1>2
    <2>4. \A l \in Libs : cell \in Placeholders(l) => k = l
      BY <2>3, LinkAssumption
    <2> QED BY <2>2, <2>3, <2>4
  <1> QED BY <1>1, <1>2

\* Giving a library its address changes its own placeholders and no other cell.
LEMMA PutStep ==
    ASSUME NEW cell \in Cells, NEW g \in Given, NEW l \in Libs, g[l] = NoAddr, NEW a \in Addrs
    PROVE  Put(cell, [g EXCEPT ![l] = a]) =
             IF Put(cell, g) \in Placeholders(l) THEN AddressCell(a) ELSE Put(cell, g)
  <1> DEFINE h == [g EXCEPT ![l] = a]
             owner == {k \in Libs : cell \in Placeholders(k) /\ g[k] # NoAddr}
             after == {k \in Libs : cell \in Placeholders(k) /\ h[k] # NoAddr}
  <1>1. a # NoAddr
    BY LinkAssumption
  <1>2. h[l] = a /\ \A k \in Libs : k # l => h[k] = g[k]
    BY DEF Given
  <1>3. Put(cell, g) \in Placeholders(l) <=> cell \in Placeholders(l)
    BY PutMeans
  <1>4. CASE cell \in Placeholders(l)
    <2>1. \A k \in Libs : cell \in Placeholders(k) => k = l
      BY <1>4, LinkAssumption
    <2>2. after = {l}
      BY <1>1, <1>2, <1>4, <2>1
    <2>3. (CHOOSE k \in after : TRUE) = l
      BY <2>2
    <2>4. Put(cell, h) = AddressCell(h[l])
      BY <2>2, <2>3 DEF Put
    <2> QED BY <1>2, <1>3, <1>4, <2>4
  <1>5. CASE cell \notin Placeholders(l)
    <2>1. after = owner
      BY <1>2, <1>5
    <2>2. CASE owner = {}
      BY <1>3, <1>5, <2>1, <2>2 DEF Put
    <2>3. CASE owner # {}
      <3>1. (CHOOSE k \in owner : TRUE) \in owner
        BY <2>3
      <3>2. h[CHOOSE k \in after : TRUE] = g[CHOOSE k \in owner : TRUE]
        BY <1>2, <1>5, <2>1, <3>1
      <3>3. Put(cell, h) = AddressCell(h[CHOOSE k \in after : TRUE])
        <4> HIDE DEF h
        <4> QED BY <2>1, <2>3, Zenon DEF Put
      <3>4. Put(cell, g) = AddressCell(g[CHOOSE k \in owner : TRUE])
        BY <2>3, Zenon DEF Put
      <3> QED BY <1>3, <1>5, <3>2, <3>3, <3>4
    <2> QED BY <2>2, <2>3
  <1> QED BY <1>4, <1>5

-----------------------------------------------------------------------------
(* Objects                                                                 *)

LEMMA CellsTyped ==
    ASSUME NEW cells \in Seq(Cells)
    PROVE  \A i \in DOMAIN cells : cells[i] \in Cells
  OBVIOUS

\* What is left to link is what placeholders are left of.
LEMMA LeftMeans ==
    ASSUME NEW cells \in Seq(Cells), NEW g \in Given, NEW b,
           b.cells = Wanted(cells, g), b # None, NEW l \in Libs
    PROVE  Holds(b, l) <=> l \in Left(cells, g)
  <1>1. ToSet(b.cells) = {Put(cells[i], g) : i \in DOMAIN cells}
    BY DEF ToSet, Wanted
  <1>2. \A i \in DOMAIN cells : Put(cells[i], g) \in Placeholders(l) <=> cells[i] \in Placeholders(l) /\ g[l] = NoAddr
    BY CellsTyped, PutMeans
  <1> QED BY <1>1, <1>2 DEF Holds, Left

LEMMA ObjectIsSome ==
    ASSUME NEW cells, NEW g
    PROVE  /\ ObjectOf(cells, g) # None /\ Bare(ObjectOf(cells, g)) # None
           /\ IsUnlinked(ObjectOf(cells, g)) <=> Left(cells, g) # {}
           /\ ObjectOf(cells, g).cells = Wanted(cells, g) /\ ObjectOf(cells, g).refs = Left(cells, g)
  <1>1. ObjectOf(cells, g).kind # "None"
    BY DEF ObjectOf
  <1>2. ObjectOf(cells, g) # None
    BY <1>1 DEF None
  <1>3. Bare(ObjectOf(cells, g)).kind = ObjectOf(cells, g).kind
    BY <1>2 DEF Bare, ObjectOf
  <1>4. Bare(ObjectOf(cells, g)) # None
    BY <1>1, <1>3 DEF None
  <1> QED BY <1>2, <1>4 DEF ObjectOf, IsUnlinked

\* What the compiler returns is the object of its cells with no address given.
LEMMA CompiledIsObject ==
    ASSUME NEW b, CompiledObject(b), b # None
    PROVE  b = ObjectOf(b.cells, [l \in Libs |-> NoAddr]) /\ b.cells \in Seq(Cells)
  <1> DEFINE g == [l \in Libs |-> NoAddr]
  <1>1. b.cells \in Seq(Cells)
    BY DEF CompiledObject
  <1>2. \A i \in DOMAIN b.cells : Put(b.cells[i], g) = b.cells[i]
    <2> SUFFICES ASSUME NEW i \in DOMAIN b.cells
                 PROVE  {l \in Libs : b.cells[i] \in Placeholders(l) /\ g[l] # NoAddr} = {}
      BY DEF Put
    <2> QED OBVIOUS
  <1>3. Wanted(b.cells, g) = b.cells
    BY <1>1, <1>2 DEF Wanted
  <1>4. Left(b.cells, g) = {l \in Libs : Holds(b, l)}
    <2>1. g \in Given
      BY DEF Given
    <2> HIDE DEF g
    <2>2. \A l \in Libs : Holds(b, l) <=> l \in Left(b.cells, g)
      BY <1>1, <1>3, <2>1, LeftMeans
    <2> QED BY <2>2 DEF Left
  <1>5. b = [cells |-> b.cells, refs |-> {l \in Libs : Holds(b, l)},
             kind |-> IF {l \in Libs : Holds(b, l)} = {} THEN "Bytecode" ELSE "Unlinked"]
    BY Zenon DEF CompiledObject
  <1> HIDE DEF g
  <1>6. ObjectOf(b.cells, g) = [cells |-> b.cells, refs |-> {l \in Libs : Holds(b, l)},
             kind |-> IF {l \in Libs : Holds(b, l)} = {} THEN "Bytecode" ELSE "Unlinked"]
    BY <1>3, <1>4, Zenon DEF ObjectOf
  <1>7. b = ObjectOf(b.cells, g)
    BY <1>5, <1>6, Zenon
  <1> QED BY <1>1, <1>7 DEF g

\* The address takes effect only if the library was still to be linked.
GivenAfter(cells, g, l, a) == IF l \in Left(cells, g) THEN [g EXCEPT ![l] = a] ELSE g

LEMMA LeftAfter ==
    ASSUME NEW cells \in Seq(Cells), NEW g \in Given, NEW l \in Left(cells, g), NEW a \in Addrs
    PROVE  Left(cells, [g EXCEPT ![l] = a]) = Left(cells, g) \ {l}
  <1>1. a # NoAddr
    BY LinkAssumption
  <1>2. l \in Libs /\ [g EXCEPT ![l] = a][l] = a /\ \A k \in Libs : k # l => [g EXCEPT ![l] = a][k] = g[k]
    BY DEF Given, Left
  <1> QED BY <1>1, <1>2 DEF Left

LEMMA LinkedCells ==
    ASSUME NEW cells \in Seq(Cells), NEW g \in Given, NEW l \in Left(cells, g), NEW a \in Addrs
    PROVE  LinkCells(Wanted(cells, g), l, a) = Wanted(cells, [g EXCEPT ![l] = a])
  <1>1. l \in Libs /\ g[l] = NoAddr
    BY DEF Left
  <1>2. \A i \in DOMAIN cells : Put(cells[i], [g EXCEPT ![l] = a]) =
            IF Put(cells[i], g) \in Placeholders(l) THEN AddressCell(a) ELSE Put(cells[i], g)
    BY <1>1, CellsTyped, PutStep
  <1> QED BY <1>2 DEF LinkCells, Wanted

LEMMA TakenOut ==
    ASSUME NEW cells, NEW refs, NEW kind, NEW linked, NEW left,
           NEW b, b = [cells |-> cells, refs |-> refs, kind |-> kind],
           NEW d, d = [b EXCEPT !.cells = linked, !.refs = left]
    PROVE  d = [cells |-> linked, refs |-> left, kind |-> kind]
  OBVIOUS

\* Bytecode::link: every placeholder of the library becomes the address, all other
\* cells stay, and the object is resolved with its last reference.
LEMMA BytecodeLinked ==
    ASSUME NEW cells \in Seq(Cells), NEW g \in Given, NEW l \in Libs, NEW a \in Addrs
    PROVE  LET h == GivenAfter(cells, g, l, a)
           IN /\ BytecodeLink(ObjectOf(cells, g), l, a) = [b |-> ObjectOf(cells, h), full |-> Left(cells, h) = {}]
              /\ h \in Given
  <1> DEFINE b == ObjectOf(cells, g)
             h == GivenAfter(cells, g, l, a)
             r == BytecodeLink(b, l, a)
  <1>1. h \in Given
    BY DEF GivenAfter, Given
  <1>2. CASE l \notin Left(cells, g)
    <2>1. h = g
      BY <1>2 DEF GivenAfter
    <2>2. b.refs = Left(cells, g) /\ (IsUnlinked(b) <=> Left(cells, g) # {})
      BY ObjectIsSome
    <2>3. CASE Left(cells, g) = {}
      BY <2>1, <2>2, <2>3 DEF BytecodeLink
    <2>4. CASE Left(cells, g) # {}
      <3> HIDE DEF b
      <3>1. r = [b |-> b, full |-> FALSE]
        BY <1>2, <2>2, <2>4 DEF BytecodeLink
      <3> QED BY <2>1, <2>4, <3>1, <1>1 DEF b
    <2> QED BY <1>1, <2>3, <2>4
  <1>3. CASE l \in Left(cells, g)
    <2> DEFINE left == Left(cells, g) \ {l}
               put == [cells |-> Wanted(cells, h), refs |-> left, kind |-> "Unlinked"]
    <2>1. h = [g EXCEPT ![l] = a]
      BY <1>3 DEF GivenAfter
    <2>2. Left(cells, h) = left
      <3>1. Left(cells, [g EXCEPT ![l] = a]) = left
        BY <1>3, LeftAfter
      <3> HIDE DEF h
      <3> QED BY <2>1, <3>1
    <2>3. b = [cells |-> Wanted(cells, g), refs |-> Left(cells, g), kind |-> "Unlinked"]
      BY <1>3 DEF ObjectOf
    <2>4. LinkCells(Wanted(cells, g), l, a) = Wanted(cells, h)
      <3>1. LinkCells(Wanted(cells, g), l, a) = Wanted(cells, [g EXCEPT ![l] = a])
        BY <1>3, LinkedCells
      <3> HIDE DEF h
      <3> QED BY <2>1, <3>1
    <2>5. [b EXCEPT !.cells = LinkCells(@, l, a), !.refs = @ \ {l}] = put
      <3> HIDE DEF h, b, put
      <3>1. b.cells = Wanted(cells, g) /\ b.refs = Left(cells, g)
        BY <2>3
      <3> DEFINE linked == LinkCells(b.cells, l, a)
                 rest == b.refs \ {l}
                 d == [b EXCEPT !.cells = linked, !.refs = rest]
      <3>2. linked = Wanted(cells, h) /\ rest = left
        BY <2>4, <3>1
      <3> HIDE DEF linked, rest
      <3>3. d = [cells |-> linked, refs |-> rest, kind |-> "Unlinked"]
        <4>1. d = [b EXCEPT !.cells = linked, !.refs = rest]
          OBVIOUS
        <4> HIDE DEF d
        <4> QED BY <2>3, <4>1, TakenOut
      <3>4. d = put
        BY <3>2, <3>3 DEF put
      <3> QED BY <3>4 DEF linked, rest
    <2>6. r = LET done == IF left = {} THEN Resolve(put) ELSE put
              IN [b |-> done, full |-> left = {} /\ ~IsUnlinked(done)]
      <3>1. IsUnlinked(b) /\ l \in b.refs
        BY <1>3, <2>3 DEF IsUnlinked
      <3>2. r = LET p == [b EXCEPT !.cells = LinkCells(@, l, a), !.refs = @ \ {l}]
                    done == IF p.refs = {} THEN Resolve(p) ELSE p
                IN [b |-> done, full |-> p.refs = {} /\ ~IsUnlinked(done)]
        <4> HIDE DEF b
        <4> QED BY <3>1 DEF BytecodeLink
      <3>3. put.refs = left
        OBVIOUS
      <3> HIDE DEF put, b, left
      <3> QED BY <2>5, <3>2, <3>3
    <2>7. CASE left = {}
      <3>1. \A i \in DOMAIN put.cells : ~IsPlaceholder(put.cells[i])
        <4>1. \A i \in DOMAIN cells : cells[i] \in Cells /\ ~\E k \in Libs : cells[i] \in Placeholders(k) /\ h[k] = NoAddr
          BY <2>2, <2>7, CellsTyped DEF Left
        <4> HIDE DEF h
        <4>2. \A i \in DOMAIN cells : ~IsPlaceholder(Put(cells[i], h))
          BY <1>1, <4>1, PutIsPlaceholder
        <4> QED BY <4>2 DEF Wanted
      <3>2. Resolve(put) = [put EXCEPT !.kind = "Bytecode"]
        <4> HIDE DEF put
        <4> QED BY <3>1 DEF Resolve
      <3>3. Resolve(put) = ObjectOf(cells, h)
        BY <2>2, <2>7, <3>2 DEF ObjectOf
      <3>4. ~IsUnlinked(ObjectOf(cells, h))
        BY <2>2, <2>7, ObjectIsSome
      <3> QED BY <1>1, <2>2, <2>6, <2>7, <3>3, <3>4
    <2>8. CASE left # {}
      <3>1. put = ObjectOf(cells, h)
        BY <2>2, <2>8 DEF ObjectOf
      <3> QED BY <1>1, <2>2, <2>6, <2>8, <3>1
    <2> QED BY <2>7, <2>8
  <1> QED BY <1>2, <1>3

-----------------------------------------------------------------------------
(* Libraries of the settings                                               *)

LibAddresses == [lib : Libs, addr : Addrs]

LEMMA LibAddress ==
    ASSUME NEW x \in LibAddresses
    PROVE  x.lib \in Libs /\ x.addr \in Addrs
  BY DEF LibAddresses

LinkStep(b, libs, w, i) ==
    IF i = 0 THEN [b |-> b, full |-> FALSE]
    ELSE IF w[i - 1].full THEN w[i - 1]
    ELSE BytecodeLink(w[i - 1].b, libs[i].lib, libs[i].addr)

\* What has been linked is defined after each library.
LEMMA LinkedDefined ==
    ASSUME NEW b, NEW libs, Len(libs) \in Nat
    PROVE  LinkedUpTo(b, libs) = [i \in 0..Len(libs) |-> LinkStep(b, libs, LinkedUpTo(b, libs), i)]
  <1> DEFINE A == {n \in 0..Len(libs) : \E w : w = [i \in 0..n |-> LinkStep(b, libs, w, i)]}
  <1>1. 0 \in A
    <2> DEFINE w == [i \in 0..0 |-> [b |-> b, full |-> FALSE]]
    <2>1. w = [i \in 0..0 |-> LinkStep(b, libs, w, i)]
      BY DEF LinkStep
    <2> HIDE DEF w
    <2> QED BY <2>1
  <1>2. ASSUME NEW n \in 0..(Len(libs) - 1), n \in A PROVE n + 1 \in A
    <2>1. PICK w : w = [i \in 0..n |-> LinkStep(b, libs, w, i)]
      BY <1>2
    <2> DEFINE v == [i \in 0..(n + 1) |-> IF i <= n THEN w[i] ELSE LinkStep(b, libs, w, n + 1)]
               u == [i \in 0..(n + 1) |-> LinkStep(b, libs, v, i)]
    <2>2. ASSUME NEW i \in 0..(n + 1) PROVE v[i] = u[i]
      <3>1. CASE i = 0
        BY <2>1, <3>1 DEF LinkStep
      <3>2. CASE i # 0
        <4>1. v[i - 1] = w[i - 1]
          BY <3>2
        <4>2. LinkStep(b, libs, v, i) = LinkStep(b, libs, w, i)
          <5> HIDE DEF v
          <5> QED BY <3>2, <4>1 DEF LinkStep
        <4>3. v[i] = LinkStep(b, libs, w, i)
          <5>1. CASE i <= n
            BY <2>1, <5>1
          <5>2. CASE i = n + 1
            BY <5>2
          <5> QED BY <5>1, <5>2
        <4> QED BY <4>2, <4>3
      <3> QED BY <3>1, <3>2
    <2>3. DOMAIN v = 0..(n + 1) /\ DOMAIN u = 0..(n + 1)
      OBVIOUS
    <2>4. v = [i \in DOMAIN v |-> v[i]] /\ u = [i \in DOMAIN u |-> u[i]]
      OBVIOUS
    <2>5. v = u
      <3> HIDE DEF u, v
      <3> QED BY <2>2, <2>3, <2>4
    <2>6. v = [i \in 0..(n + 1) |-> LinkStep(b, libs, v, i)]
      <3> HIDE DEF v
      <3> QED BY <2>5
    <2> HIDE DEF v
    <2> QED BY <2>6, n + 1 \in 0..Len(libs)
  <1>3. A = 0..Len(libs)
    <2>1. A \in SUBSET (0..Len(libs))
      OBVIOUS
    <2> HIDE DEF A
    <2> QED BY <1>1, <1>2, <2>1, UpTo
  <1>4. PICK w : w = [i \in 0..Len(libs) |-> LinkStep(b, libs, w, i)]
    BY <1>3
  <1>5. LinkedUpTo(b, libs) = CHOOSE h : h = [i \in 0..Len(libs) |-> LinkStep(b, libs, h, i)]
    BY Zenon DEF LinkedUpTo, LinkStep
  <1> QED BY <1>4, <1>5

\* The addresses after the first n libraries of a list.
GivenUpTo(cells, g, libs, addr, n) ==
    [l \in Libs |-> IF l \in Left(cells, g) /\ \E k \in 1..n : libs[k].lib = l THEN addr[l] ELSE g[l]]

LEMMA GivenNext ==
    ASSUME NEW cells \in Seq(Cells), NEW g \in Given, NEW libs \in Seq(LibAddresses),
           NEW addr, \A k \in DOMAIN libs : libs[k].addr = addr[libs[k].lib],
           NEW n \in Nat, n + 1 <= Len(libs),
           NEW h, h = GivenUpTo(cells, g, libs, addr, n),
           NEW next, next = GivenUpTo(cells, g, libs, addr, n + 1)
    PROVE  /\ h \in Given
           /\ next = GivenAfter(cells, h, libs[n + 1].lib, libs[n + 1].addr)
           /\ Left(cells, h) = {} => next = h
  <1> DEFINE l == libs[n + 1].lib
  <1>0. /\ Len(libs) \in Nat /\ DOMAIN libs = 1..Len(libs) /\ n + 1 \in 1..Len(libs)
        /\ \A k \in 1..Len(libs) : libs[k].lib \in Libs /\ libs[k].addr \in Addrs /\ libs[k].addr = addr[libs[k].lib]
    <2>1. Len(libs) \in Nat /\ DOMAIN libs = 1..Len(libs) /\ \A k \in 1..Len(libs) : libs[k] \in LibAddresses
      OBVIOUS
    <2> QED BY <2>1, LibAddress
  <1>1. \A k \in 1..n : k \in 1..Len(libs)
    BY <1>0
  <1>2. ASSUME NEW m \in Libs
        PROVE  /\ h[m] = IF m \in Left(cells, g) /\ \E k \in 1..n : libs[k].lib = m THEN addr[m] ELSE g[m]
               /\ next[m] = IF m \in Left(cells, g) /\ \E k \in 1..(n + 1) : libs[k].lib = m THEN addr[m] ELSE g[m]
               /\ (\E k \in 1..(n + 1) : libs[k].lib = m) <=> (\E k \in 1..n : libs[k].lib = m) \/ l = m
               /\ (\E k \in 1..n : libs[k].lib = m) => addr[m] \in Addrs
    <2>1. 1..(n + 1) = (1..n) \cup {n + 1}
      OBVIOUS
    <2>2. (\E k \in 1..(n + 1) : libs[k].lib = m) <=> (\E k \in 1..n : libs[k].lib = m) \/ l = m
      BY <2>1
    <2>3. (\E k \in 1..n : libs[k].lib = m) => addr[m] \in Addrs
      BY <1>0, <1>1
    <2> QED BY <2>2, <2>3 DEF GivenUpTo
  <1>3. h \in Given /\ next = [m \in Libs |-> next[m]] /\ h = [m \in Libs |-> h[m]]
    BY <1>2 DEF GivenUpTo, Given
  <1>4. \A m \in Libs : m \in Left(cells, h) <=> m \in Left(cells, g) /\ ~\E k \in 1..n : libs[k].lib = m
    BY <1>2, LinkAssumption DEF Left
  <1>5. next = GivenAfter(cells, h, l, libs[n + 1].addr)
    <2>1. CASE l \in Left(cells, h)
      <3> DEFINE p == [h EXCEPT ![l] = libs[n + 1].addr]
      <3>1. \A m \in Libs : p[m] = next[m]
        BY <1>0, <1>2, <1>3, <1>4, <2>1
      <3>2. p = [m \in Libs |-> p[m]]
        BY <1>3
      <3> HIDE DEF p
      <3>3. p = next
        BY <1>3, <3>1, <3>2
      <3> QED BY <2>1, <3>3 DEF GivenAfter, p
    <2>2. CASE l \notin Left(cells, h)
      <3>1. \A m \in Libs : h[m] = next[m]
        BY <1>0, <1>2, <1>4, <2>2
      <3>2. h = next
        BY <1>3, <3>1
      <3> QED BY <2>2, <3>2 DEF GivenAfter
    <2> QED BY <2>1, <2>2
  <1>6. ASSUME Left(cells, h) = {} PROVE next = h
    BY <1>0, <1>5, <1>6 DEF GivenAfter
  <1> QED BY <1>3, <1>5, <1>6

\* Bytecode::link_all: each library still to be linked gets its address, also where
\* the loop stops before the end of the list.
LEMMA AllLinked ==
    ASSUME NEW cells \in Seq(Cells), NEW g \in Given, NEW libs \in Seq(LibAddresses),
           NEW addr, \A k \in DOMAIN libs : libs[k].addr = addr[libs[k].lib], libs # <<>>
    PROVE  LET h == GivenUpTo(cells, g, libs, addr, Len(libs))
           IN /\ LinkAll(ObjectOf(cells, g), libs) = [b |-> ObjectOf(cells, h), full |-> Left(cells, h) = {}]
              /\ h \in Given
  <1> DEFINE w == LinkedUpTo(ObjectOf(cells, g), libs)
             h(n) == GivenUpTo(cells, g, libs, addr, n)
             Is(n) == /\ h(n) \in Given
                      /\ w[n] = [b |-> ObjectOf(cells, h(n)), full |-> n # 0 /\ Left(cells, h(n)) = {}]
             A == {n \in 0..Len(libs) : Is(n)}
  <1>0. Len(libs) \in Nat \ {0}
    OBVIOUS
  <1>1. \A n \in 0..Len(libs) : w[n] = LinkStep(ObjectOf(cells, g), libs, w, n)
    BY <1>0, LinkedDefined
  <1> HIDE DEF w
  <1>2. 0 \in A
    <2>1. h(0) = g
      BY DEF GivenUpTo, Given
    <2>2. w[0] = [b |-> ObjectOf(cells, g), full |-> FALSE]
      <3>1. w[0] = LinkStep(ObjectOf(cells, g), libs, w, 0)
        BY <1>0, <1>1
      <3> QED BY <3>1, Zenon DEF LinkStep
    <2>3. (0 # 0 /\ Left(cells, h(0)) = {}) = FALSE
      OBVIOUS
    <2>4. Is(0)
      BY <2>1, <2>2, <2>3, Zenon
    <2> HIDE DEF Is
    <2> QED BY <1>0, <2>4
  <1>3. ASSUME NEW n \in 0..(Len(libs) - 1), n \in A PROVE n + 1 \in A
    <2> DEFINE l == libs[n + 1].lib
               a == libs[n + 1].addr
               p == h(n)
               q == h(n + 1)
    <2>1. n \in Nat /\ n + 1 <= Len(libs) /\ n + 1 # 0 /\ (n + 1) - 1 = n /\ n + 1 \in 0..Len(libs)
          /\ n + 1 \in 1..Len(libs)
      BY <1>0
    <2>2. l \in Libs /\ a \in Addrs
      <3>1. libs[n + 1] \in LibAddresses
        BY <2>1
      <3> QED BY <3>1, LibAddress
    <2>3. p \in Given /\ q = GivenAfter(cells, p, l, a) /\ (Left(cells, p) = {} => q = p)
      <3>1. p = GivenUpTo(cells, g, libs, addr, n) /\ q = GivenUpTo(cells, g, libs, addr, n + 1)
        OBVIOUS
      <3> HIDE DEF p, q
      <3> QED BY <2>1, <3>1, GivenNext
    <2>4. w[n] = [b |-> ObjectOf(cells, p), full |-> n # 0 /\ Left(cells, p) = {}]
      BY <1>3
    <2>5. w[n + 1] = IF w[n].full THEN w[n] ELSE BytecodeLink(w[n].b, l, a)
      <3>1. w[n + 1] = LinkStep(ObjectOf(cells, g), libs, w, n + 1)
        BY <1>1, <2>1
      <3> QED BY <2>1, <3>1, Zenon DEF LinkStep
    <2> HIDE DEF p, q, l, a
    <2>6. w[n].full = (n # 0 /\ Left(cells, p) = {}) /\ w[n].b = ObjectOf(cells, p)
      <3> DEFINE full == n # 0 /\ Left(cells, p) = {}
      <3>1. full \in BOOLEAN
        OBVIOUS
      <3> HIDE DEF full
      <3> QED BY <2>4, <3>1 DEF full
    <2>7. q \in Given /\ BytecodeLink(ObjectOf(cells, p), l, a) = [b |-> ObjectOf(cells, q), full |-> Left(cells, q) = {}]
      BY <2>2, <2>3, BytecodeLinked
    <2>8. w[n + 1] = [b |-> ObjectOf(cells, q), full |-> Left(cells, q) = {}]
      <3>1. CASE w[n].full
        <4>1. n # 0 /\ Left(cells, p) = {}
          BY <2>6, <3>1, Zenon
        <4>2. q = p
          BY <2>3, <4>1
        <4>3. w[n] = [b |-> ObjectOf(cells, p), full |-> TRUE]
          BY <2>4, <4>1
        <4> QED BY <2>5, <3>1, <4>1, <4>2, <4>3
      <3>2. CASE ~w[n].full
        <4>1. w[n].b = ObjectOf(cells, p)
          BY <2>4
        <4> QED BY <2>5, <2>7, <3>2, <4>1
      <3> QED BY <3>1, <3>2
    <2>9. Is(n + 1)
      BY <2>1, <2>7, <2>8 DEF q
    <2> HIDE DEF Is
    <2> QED BY <2>1, <2>9
  <1>4. A = 0..Len(libs)
    <2>1. A \in SUBSET (0..Len(libs))
      OBVIOUS
    <2> HIDE DEF A
    <2> QED BY <1>0, <1>2, <1>3, <2>1, UpTo
  <1>5. Is(Len(libs))
    <2>1. Len(libs) \in A
      <3>1. Len(libs) \in 0..Len(libs)
        BY <1>0
      <3> HIDE DEF A
      <3> QED BY <1>4, <3>1
    <2> HIDE DEF Is
    <2> QED BY <2>1
  <1>6. (Len(libs) # 0 /\ Left(cells, h(Len(libs))) = {}) = (Left(cells, h(Len(libs))) = {})
    BY <1>0
  <1> QED BY <1>5, <1>6, Zenon DEF LinkAll, w

\* Libraries::parse: a list of libraries, each with one address.
LEMMA ParsedLibraries ==
    ASSUME NEW args \in LibArgs, ParseLibraries(args).ok
    PROVE  LET libs == ParseLibraries(args).libs
           IN /\ libs \in Seq(LibAddresses)
              /\ \A k, m \in DOMAIN libs : libs[k].lib = libs[m].lib => libs[k].addr = libs[m].addr
  <1> DEFINE last == {i \in DOMAIN args : \A j \in (i + 1)..Len(args) : args[j].lib # args[i].lib}
             f == [i \in last |-> [lib |-> args[i].lib, addr |-> args[i].addr]]
             S == {[lib |-> args[i].lib, addr |-> args[i].addr] : i \in last}
  <1>0. args \in Seq([parts : Nat, lib : Libs, addr : Addrs])
    BY LinkAssumption, Zenon
  <1>1. /\ DOMAIN args = 1..Len(args) /\ Len(args) \in Nat
        /\ \A i \in DOMAIN args : [lib |-> args[i].lib, addr |-> args[i].addr] \in LibAddresses
    <2> DEFINE R == [parts : Nat, lib : Libs, addr : Addrs]
    <2>1. DOMAIN args = 1..Len(args) /\ Len(args) \in Nat /\ \A i \in DOMAIN args : args[i] \in R
      <3>1. args \in Seq(R)
        BY <1>0
      <3> HIDE DEF R
      <3> QED BY <3>1
    <2>2. \A r \in R : [lib |-> r.lib, addr |-> r.addr] \in LibAddresses
      BY DEF LibAddresses
    <2> HIDE DEF R
    <2> QED BY <2>1, <2>2
  <1>2. IsFiniteSet(S) /\ S \subseteq LibAddresses
    <2>1. IsFiniteSet(last)
      <3>1. last \in SUBSET (1..Len(args))
        BY <1>1
      <3>2. IsFiniteSet(1..Len(args))
        BY <1>1, FS_Interval
      <3> HIDE DEF last
      <3> QED BY <3>1, <3>2, FS_Subset
    <2>2. f \in Surjection(last, S)
      BY DEF Surjection
    <2>3. S \subseteq LibAddresses
      BY <1>1
    <2> HIDE DEF f, S, last
    <2> QED BY <2>1, <2>2, <2>3, FS_Surjection
  <1>3. \A x, y \in S : x.lib = y.lib => x = y
    <2> SUFFICES ASSUME NEW i \in last, NEW j \in last, args[i].lib = args[j].lib PROVE i = j
      OBVIOUS
    <2>1. i \in 1..Len(args) /\ j \in 1..Len(args)
      BY <1>1
    <2>2. ~(i < j) /\ ~(j < i)
      BY <1>1, <2>1
    <2> QED BY <2>1, <2>2
  <1>4. ParseLibraries(args).libs = SetToSeq(S)
    BY DEF ParseLibraries
  <1> HIDE DEF S
  <1>5. SetToSeq(S) \in [1..Cardinality(S) -> S] /\ Cardinality(S) \in Nat
    <2>1. Cardinality(S) \in Nat /\ ExistsBijection(1..Cardinality(S), S)
      BY <1>2, FS_CardinalityType
    <2>2. \E s \in [1..Cardinality(S) -> S] : IsInjective(s)
      BY <2>1 DEF ExistsBijection, Bijection, Injection
    <2> QED BY <2>1, <2>2 DEF SetToSeq
  <1>6. SetToSeq(S) \in Seq(S)
    BY <1>5
  <1>7. SetToSeq(S) \in Seq(LibAddresses) /\ \A k \in DOMAIN SetToSeq(S) : SetToSeq(S)[k] \in S
    BY <1>2, <1>5, <1>6
  <1> QED BY <1>3, <1>4, <1>7

-----------------------------------------------------------------------------
(* The contract                                                            *)

Forms == {"Contract"} \cup {c[2] : c \in Conversions}

\* A contract's code is the object of what the compiler returned, without its
\* references in the forms that have none.
CodeNow(w) ==
    IF origin[w] = None THEN None
    ELSE IF contract.form \in CarryRefs THEN ObjectOf(origin[w].cells, given[w])
    ELSE Bare(ObjectOf(origin[w].cells, given[w]))

OriginTyped ==
    /\ origin = [form |-> "Contract", abi |-> origin.abi, hasDeployed |-> origin.hasDeployed,
                 bytecode |-> origin.bytecode, deployed |-> origin.deployed]
    /\ origin.abi \in BOOLEAN /\ origin.hasDeployed \in BOOLEAN
    /\ \A w \in Where : origin[w] # None => origin[w].cells \in Seq(Cells)

LinkInv ==
    /\ OriginTyped
    /\ given \in [Where -> Given]
    /\ contract = [form |-> contract.form, abi |-> origin.abi, hasDeployed |-> origin.hasDeployed,
                   bytecode |-> CodeNow("bytecode"), deployed |-> CodeNow("deployed")]
    /\ answer.where \in Where
    /\ answer.asked => /\ contract[answer.where] # None
                       /\ answer.full <=> ~IsUnlinked(contract[answer.where])

LEMMA CodeOf ==
    ASSUME LinkInv, NEW w \in Where
    PROVE  contract[w] = CodeNow(w)
  <1>1. CASE w = "bytecode"
    BY <1>1 DEF LinkInv
  <1>2. CASE w = "deployed"
    BY <1>2 DEF LinkInv
  <1> QED BY <1>1, <1>2 DEF Where

\* In either form the code has the cells and the kind of its object.
LEMMA CodeMeans ==
    ASSUME LinkInv, NEW w \in Where, origin[w] # None
    PROVE  /\ contract[w] # None
           /\ contract[w].cells = Wanted(origin[w].cells, given[w])
           /\ IsUnlinked(contract[w]) <=> Left(origin[w].cells, given[w]) # {}
           /\ contract.form \in CarryRefs => contract[w].refs = Left(origin[w].cells, given[w])
  <1> DEFINE o == ObjectOf(origin[w].cells, given[w])
  <1>1. /\ o # None /\ Bare(o) # None /\ (IsUnlinked(o) <=> Left(origin[w].cells, given[w]) # {})
        /\ o.cells = Wanted(origin[w].cells, given[w]) /\ o.refs = Left(origin[w].cells, given[w])
    BY ObjectIsSome
  <1>2. Bare(o).cells = o.cells /\ Bare(o).kind = o.kind
    BY <1>1 DEF Bare, ObjectOf
  <1>3. contract[w] = IF contract.form \in CarryRefs THEN o ELSE Bare(o)
    BY CodeOf DEF CodeNow
  <1> HIDE DEF o
  <1> QED BY <1>1, <1>2, <1>3 DEF IsUnlinked

LEMMA LinkInvInit == LinkInit => LinkInv
  <1> SUFFICES ASSUME LinkInit PROVE LinkInv
    OBVIOUS
  <1> DEFINE c == contract
  <1>1. /\ c = [form |-> "Contract", abi |-> c.abi, hasDeployed |-> c.hasDeployed,
                bytecode |-> c.bytecode, deployed |-> c.deployed]
        /\ c.abi \in BOOLEAN /\ c.hasDeployed \in BOOLEAN
        /\ c.bytecode = None \/ CompiledObject(c.bytecode)
        /\ c.deployed = None \/ CompiledObject(c.deployed)
    BY LinkAssumption DEF LinkInit
  <1>2. origin = c /\ given = [w \in Where |-> [l \in Libs |-> NoAddr]]
        /\ answer = [where |-> "bytecode", asked |-> FALSE, full |-> FALSE]
    BY DEF LinkInit
  <1>3. c.form = "Contract" /\ c.form \in CarryRefs
    BY <1>1 DEF CarryRefs
  <1>4. c.bytecode = c["bytecode"] /\ c.deployed = c["deployed"]
    BY <1>1
  <1>5. ASSUME NEW w \in Where, c[w] # None
        PROVE  c[w] = ObjectOf(c[w].cells, [l \in Libs |-> NoAddr]) /\ c[w].cells \in Seq(Cells)
    <2>1. CompiledObject(c[w])
      BY <1>1, <1>4, <1>5 DEF Where
    <2> QED BY <1>5, <2>1, CompiledIsObject
  <1>6. \A w \in Where : given[w] = [l \in Libs |-> NoAddr]
    BY <1>2
  <1>7. OriginTyped
    BY <1>1, <1>2, <1>5 DEF OriginTyped
  <1>8. given \in [Where -> Given]
    BY <1>2 DEF Given
  <1>9. \A w \in Where : c[w] = CodeNow(w)
    BY <1>2, <1>3, <1>5, <1>6 DEF CodeNow
  <1>10. "bytecode" \in Where /\ "deployed" \in Where
    BY DEF Where
  <1>11. c = [form |-> c.form, abi |-> origin.abi, hasDeployed |-> origin.hasDeployed,
              bytecode |-> CodeNow("bytecode"), deployed |-> CodeNow("deployed")]
    BY <1>1, <1>2, <1>4, <1>9, <1>10
  <1> QED BY <1>2, <1>7, <1>8, <1>10, <1>11 DEF LinkInv

\* The code w becomes the object of the addresses h, and link tells whether it is full.
LEMMA LinkedInv ==
    ASSUME LinkInv, NEW w \in Where, Linkable(w), NEW h \in Given,
           origin' = origin,
           contract' = [contract EXCEPT ![w] = ObjectOf(origin[w].cells, h)],
           given' = [given EXCEPT ![w] = h],
           answer' = [where |-> w, asked |-> TRUE, full |-> Left(origin[w].cells, h) = {}]
    PROVE  LinkInv'
  <1> DEFINE o == ObjectOf(origin[w].cells, h)
             rest == IF w = "bytecode" THEN "deployed" ELSE "bytecode"
  <1>1. contract = [form |-> contract.form, abi |-> origin.abi, hasDeployed |-> origin.hasDeployed,
                    bytecode |-> CodeNow("bytecode"), deployed |-> CodeNow("deployed")]
    BY DEF LinkInv
  <1>2. origin[w] # None /\ contract.form \in CarryRefs
    BY CodeOf DEF Linkable, CodeNow
  <1>3. given'[w] = h /\ (\A v \in Where : v # w => given'[v] = given[v]) /\ given' \in [Where -> Given]
    BY DEF LinkInv
  <1> HIDE DEF o
  <1>4. /\ contract'.form = contract.form /\ contract'.abi = contract.abi /\ contract'.hasDeployed = contract.hasDeployed
        /\ contract'[w] = o /\ \A v \in Where : v # w => contract'[v] = contract[v]
        /\ contract' = [form |-> contract'.form, abi |-> contract'.abi, hasDeployed |-> contract'.hasDeployed,
                        bytecode |-> contract'["bytecode"], deployed |-> contract'["deployed"]]
    BY <1>1 DEF Where, o
  <1>5. ASSUME NEW v \in Where PROVE contract'[v] = CodeNow(v)'
    <2>1. CASE v = w
      BY <1>2, <1>3, <1>4, <2>1 DEF CodeNow, o
    <2>2. CASE v # w
      BY <1>3, <1>4, <2>2, CodeOf DEF CodeNow
    <2> QED BY <2>1, <2>2
  <1>6. "bytecode" \in Where /\ "deployed" \in Where
    BY DEF Where
  <1>7. contract' = [form |-> contract'.form, abi |-> origin'.abi, hasDeployed |-> origin'.hasDeployed,
                     bytecode |-> CodeNow("bytecode")', deployed |-> CodeNow("deployed")']
    BY <1>1, <1>4, <1>5, <1>6
  <1>8. o # None /\ (IsUnlinked(o) <=> Left(origin[w].cells, h) # {})
    BY ObjectIsSome DEF o
  <1>9. answer'.where = w /\ (answer'.full <=> Left(origin[w].cells, h) = {})
    OBVIOUS
  <1>10. OriginTyped'
    BY DEF LinkInv, OriginTyped
  <1> QED BY <1>3, <1>4, <1>7, <1>8, <1>9, <1>10 DEF LinkInv

LEMMA LinkOneInv ==
    ASSUME LinkInv, NEW w \in Where, NEW l \in Libs, NEW a \in Addrs, LinkOne(w, l, a)
    PROVE  LinkInv'
  <1> DEFINE cells == origin[w].cells
             g == given[w]
             h == GivenAfter(cells, g, l, a)
  <1>1. Linkable(w) /\ origin' = origin
    BY DEF LinkOne
  <1>2. origin[w] # None /\ contract.form \in CarryRefs /\ contract[w] = ObjectOf(cells, g)
    BY <1>1, CodeOf DEF Linkable, CodeNow
  <1>3. cells \in Seq(Cells) /\ g \in Given
    BY <1>2 DEF LinkInv, OriginTyped
  <1>4. contract[w].refs = Left(cells, g)
    BY <1>2, ObjectIsSome
  <1>5. /\ contract' = [contract EXCEPT ![w] = BytecodeLink(contract[w], l, a).b]
        /\ answer' = [where |-> w, asked |-> TRUE, full |-> BytecodeLink(contract[w], l, a).full]
        /\ given' = IF l \in contract[w].refs THEN [given EXCEPT ![w][l] = a] ELSE given
    BY DEF LinkOne
  <1> HIDE DEF cells, g
  <1>6. BytecodeLink(contract[w], l, a) = [b |-> ObjectOf(cells, h), full |-> Left(cells, h) = {}] /\ h \in Given
    BY <1>2, <1>3, BytecodeLinked
  <1>7. given' = [given EXCEPT ![w] = h]
    <2>1. given = [v \in Where |-> given[v]] /\ g = given[w]
      BY DEF LinkInv, g
    <2>2. CASE l \in Left(cells, g)
      BY <1>4, <1>5, <2>1, <2>2 DEF GivenAfter
    <2>3. CASE l \notin Left(cells, g)
      BY <1>4, <1>5, <2>1, <2>3 DEF GivenAfter
    <2> QED BY <2>2, <2>3
  <1>8. /\ BytecodeLink(contract[w], l, a).b = ObjectOf(cells, h)
        /\ BytecodeLink(contract[w], l, a).full = (Left(cells, h) = {})
    BY <1>6
  <1> HIDE DEF h
  <1>9. /\ contract' = [contract EXCEPT ![w] = ObjectOf(origin[w].cells, h)]
        /\ answer' = [where |-> w, asked |-> TRUE, full |-> Left(origin[w].cells, h) = {}]
    BY <1>5, <1>8, Zenon DEF cells
  <1> QED BY <1>1, <1>6, <1>7, <1>9, LinkedInv

LEMMA LinkSettingsInv ==
    ASSUME LinkInv, NEW w \in Where, NEW args \in LibArgs, LinkSettings(w, args)
    PROVE  LinkInv'
  <1> DEFINE cells == origin[w].cells
             g == given[w]
             libs == ParseLibraries(args).libs
             address(l) == (CHOOSE x \in ToSet(libs) : x.lib = l).addr
             addr == [l \in Libs |-> address(l)]
             h == GivenUpTo(cells, g, libs, addr, Len(libs))
  <1>1. Linkable(w) /\ origin' = origin /\ ParseLibraries(args).ok /\ libs # <<>>
    BY DEF LinkSettings
  <1>2. origin[w] # None /\ contract.form \in CarryRefs /\ contract[w] = ObjectOf(cells, g)
    BY <1>1, CodeOf DEF Linkable, CodeNow
  <1>3. cells \in Seq(Cells) /\ g \in Given
    BY <1>2 DEF LinkInv, OriginTyped
  <1>4. contract[w].refs = Left(cells, g)
    BY <1>2, ObjectIsSome
  <1>5. /\ libs \in Seq(LibAddresses)
        /\ \A k, m \in DOMAIN libs : libs[k].lib = libs[m].lib => libs[k].addr = libs[m].addr
    BY <1>1, ParsedLibraries
  <1>6. /\ contract' = [contract EXCEPT ![w] = LinkAll(contract[w], libs).b]
        /\ answer' = [where |-> w, asked |-> TRUE, full |-> LinkAll(contract[w], libs).full]
        /\ given' = [given EXCEPT ![w] = [l \in Libs |->
                IF l \in contract[w].refs /\ \E k \in DOMAIN libs : libs[k].lib = l THEN address(l) ELSE @[l]]]
    BY DEF LinkSettings
  <1> HIDE DEF cells, g, libs
  <1>7. \A k \in DOMAIN libs : libs[k].addr = addr[libs[k].lib]
    <2> SUFFICES ASSUME NEW k \in DOMAIN libs PROVE libs[k].addr = addr[libs[k].lib]
      OBVIOUS
    <2> DEFINE x == CHOOSE y \in ToSet(libs) : y.lib = libs[k].lib
    <2>1. libs[k] \in ToSet(libs) /\ libs[k].lib \in Libs
      <3>1. libs[k] \in LibAddresses
        BY <1>5
      <3> QED BY <3>1, LibAddress DEF ToSet
    <2>2. x \in ToSet(libs) /\ x.lib = libs[k].lib
      BY <2>1
    <2> HIDE DEF x
    <2>3. x.addr = libs[k].addr
      BY <1>5, <2>2 DEF ToSet
    <2> QED BY <2>1, <2>3 DEF x
  <1>8. DOMAIN libs = 1..Len(libs) /\ Len(libs) \in Nat
    BY <1>5
  <1>9. given' = [given EXCEPT ![w] = h]
    <2>1. h = [l \in Libs |-> IF l \in contract[w].refs /\ \E k \in DOMAIN libs : libs[k].lib = l
                              THEN address(l) ELSE given[w][l]]
      BY <1>4, <1>8 DEF GivenUpTo, g
    <2> HIDE DEF h
    <2> QED BY <1>6, <2>1
  <1> HIDE DEF addr
  <1>10. LinkAll(contract[w], libs) = [b |-> ObjectOf(cells, h), full |-> Left(cells, h) = {}] /\ h \in Given
    BY <1>1, <1>2, <1>3, <1>5, <1>7, AllLinked
  <1>11. /\ LinkAll(contract[w], libs).b = ObjectOf(cells, h)
         /\ LinkAll(contract[w], libs).full = (Left(cells, h) = {})
    BY <1>10
  <1> HIDE DEF h
  <1>12. /\ contract' = [contract EXCEPT ![w] = ObjectOf(origin[w].cells, h)]
         /\ answer' = [where |-> w, asked |-> TRUE, full |-> Left(origin[w].cells, h) = {}]
    BY <1>6, <1>11, Zenon DEF cells
  <1> QED BY <1>1, <1>9, <1>10, <1>12, LinkedInv

LEMMA ConversionsDropRefs ==
    ASSUME NEW from, NEW to, <<from, to>> \in Conversions, to \in CarryRefs
    PROVE  from \in CarryRefs
  BY DEF Conversions, CarryRefs

LEMMA FormChanged ==
    ASSUME NEW from, NEW to, NEW abi, NEW has, NEW b, NEW d, NEW x, NEW y,
           NEW c, c = [form |-> from, abi |-> abi, hasDeployed |-> has, bytecode |-> b, deployed |-> d],
           NEW e, e = [c EXCEPT !.form = to, !.bytecode = x, !.deployed = y]
    PROVE  e = [form |-> to, abi |-> abi, hasDeployed |-> has, bytecode |-> x, deployed |-> y]
  OBVIOUS

LEMMA ConvertInv ==
    ASSUME LinkInv, NEW to, Convert(to)
    PROVE  LinkInv'
  <1>1. /\ <<contract.form, to>> \in Conversions /\ contract' = ConvertTo(contract, to)
        /\ origin' = origin /\ given' = given /\ answer' = answer
    BY DEF Convert
  <1>2. contract = [form |-> contract.form, abi |-> origin.abi, hasDeployed |-> origin.hasDeployed,
                    bytecode |-> CodeNow("bytecode"), deployed |-> CodeNow("deployed")]
    BY DEF LinkInv
  <1>3. ASSUME NEW w \in Where
        PROVE  /\ contract[w] = CodeNow(w)
               /\ Bare(contract[w]) = IF origin[w] = None THEN None ELSE Bare(ObjectOf(origin[w].cells, given[w]))
               /\ Bare(contract[w]) = None <=> contract[w] = None
               /\ IsUnlinked(Bare(contract[w])) <=> IsUnlinked(contract[w])
    <2> DEFINE o == ObjectOf(origin[w].cells, given[w])
    <2>1. Bare(Bare(o)) = Bare(o) /\ o # None /\ Bare(o) # None /\ Bare(o).kind = o.kind
      <3>1. o # None /\ Bare(o) # None
        BY ObjectIsSome
      <3>2. Bare(o) = [o EXCEPT !.refs = {}] /\ Bare(Bare(o)) = [Bare(o) EXCEPT !.refs = {}]
        BY <3>1, Zenon DEF Bare
      <3> QED BY <3>1, <3>2 DEF ObjectOf
    <2>2. Bare(None) = None
      BY DEF Bare
    <2>3. contract[w] = CodeNow(w)
      BY CodeOf
    <2> HIDE DEF o
    <2>4. CodeNow(w) = IF origin[w] = None THEN None ELSE IF contract.form \in CarryRefs THEN o ELSE Bare(o)
      BY DEF CodeNow, o
    <2> QED BY <2>1, <2>2, <2>3, <2>4 DEF o, IsUnlinked
  <1>4. /\ contract'.form = to
        /\ contract' = [form |-> to, abi |-> origin.abi, hasDeployed |-> origin.hasDeployed,
                        bytecode |-> contract'["bytecode"], deployed |-> contract'["deployed"]]
        /\ \A w \in Where : contract'[w] = IF to \in CarryRefs THEN contract[w] ELSE Bare(contract[w])
    <2>1. CASE to \in CarryRefs
      BY <1>1, <1>2, <2>1 DEF ConvertTo, Where
    <2>2. CASE to \notin CarryRefs
      <3> DEFINE x == Bare(contract.bytecode)
                 y == Bare(contract.deployed)
      <3>1. contract' = [contract EXCEPT !.form = to, !.bytecode = x, !.deployed = y]
        BY <1>1, <2>2, Zenon DEF ConvertTo
      <3> HIDE DEF x, y
      <3>2. contract' = [form |-> to, abi |-> origin.abi, hasDeployed |-> origin.hasDeployed, bytecode |-> x, deployed |-> y]
        <4> DEFINE u == CodeNow("bytecode")
                   v == CodeNow("deployed")
                   f == contract.form
        <4>1. contract = [form |-> f, abi |-> origin.abi, hasDeployed |-> origin.hasDeployed,
                          bytecode |-> u, deployed |-> v]
          BY <1>2
        <4> HIDE DEF u, v, f
        <4> QED BY <3>1, <4>1, FormChanged
      <3>3. x = Bare(contract["bytecode"]) /\ y = Bare(contract["deployed"])
        BY <1>2 DEF x, y
      <3> QED BY <2>2, <3>2, <3>3 DEF Where
    <2> QED BY <2>1, <2>2
  <1>5. ASSUME NEW w \in Where PROVE contract'[w] = CodeNow(w)'
    <2>1. CASE to \in CarryRefs
      BY <1>1, <1>3, <1>4, <2>1, ConversionsDropRefs DEF CodeNow
    <2>2. CASE to \notin CarryRefs
      BY <1>1, <1>3, <1>4, <2>2 DEF CodeNow
    <2> QED BY <2>1, <2>2
  <1>6. "bytecode" \in Where /\ "deployed" \in Where
    BY DEF Where
  <1>7. contract' = [form |-> contract'.form, abi |-> origin'.abi, hasDeployed |-> origin'.hasDeployed,
                     bytecode |-> CodeNow("bytecode")', deployed |-> CodeNow("deployed")']
    BY <1>1, <1>4, <1>5, <1>6
  <1>8. answer'.where \in Where /\ (answer'.asked => /\ contract'[answer'.where] # None
                                                     /\ answer'.full <=> ~IsUnlinked(contract'[answer'.where]))
    BY <1>1, <1>3, <1>4 DEF LinkInv
  <1>9. OriginTyped' /\ given' \in [Where -> Given]
    BY <1>1 DEF LinkInv, OriginTyped
  <1> QED BY <1>7, <1>8, <1>9 DEF LinkInv

LEMMA LinkInvStep == LinkInv /\ [LinkNext]_linkVars => LinkInv'
  <1> SUFFICES ASSUME LinkInv, [LinkNext]_linkVars PROVE LinkInv'
    OBVIOUS
  <1>1. CASE UNCHANGED linkVars
    BY <1>1 DEF linkVars, LinkInv, OriginTyped, CodeNow
  <1>2. ASSUME NEW w \in Where, NEW lib \in Libs, NEW a \in Addrs, LinkOne(w, lib, a) PROVE LinkInv'
    BY <1>2, LinkOneInv
  <1>3. ASSUME NEW w \in Where, NEW args \in LibArgs, LinkSettings(w, args) PROVE LinkInv'
    BY <1>3, LinkSettingsInv
  <1>4. ASSUME NEW to, Convert(to) PROVE LinkInv'
    BY <1>4, ConvertInv
  <1> QED BY <1>1, <1>2, <1>3, <1>4 DEF LinkNext

LEMMA ReferencesAlwaysFound ==
    ASSUME NEW c
    PROVE  ReferencesFound(c)
  BY DEF ReferencesFound, AllLinkReferences

LEMMA LinkInvSound == LinkInv => LinkSound
  <1> SUFFICES ASSUME LinkInv PROVE LinkSound
    OBVIOUS
  <1>1. contract.abi = origin.abi
    BY DEF LinkInv
  <1>2. ASSUME NEW w \in Where, origin[w] = None PROVE contract[w] = None
    BY <1>2, CodeOf DEF CodeNow
  <1>3. ASSUME NEW w \in Where, origin[w] # None
        PROVE  /\ contract[w] # None /\ contract[w].cells = WantedCells(w)
               /\ IsUnlinked(contract[w]) <=> \E l \in Libs : Holds(contract[w], l)
               /\ IntoParts(contract)[w] <=> \A l \in Libs : ~Holds(contract[w], l)
               /\ contract.form \in CarryRefs => contract[w].refs = {l \in Libs : Holds(contract[w], l)}
    <2> DEFINE b == contract[w]
               left == Left(origin[w].cells, given[w])
    <2>1. /\ b # None /\ b.cells = Wanted(origin[w].cells, given[w]) /\ (IsUnlinked(b) <=> left # {})
          /\ contract.form \in CarryRefs => b.refs = left
      BY <1>3, CodeMeans
    <2>2. origin[w].cells \in Seq(Cells) /\ given[w] \in Given
      BY <1>3 DEF LinkInv, OriginTyped
    <2>3. WantedCells(w) = Wanted(origin[w].cells, given[w])
      BY Zenon DEF WantedCells, Wanted, Put
    <2> HIDE DEF b
    <2>4. left = {l \in Libs : Holds(b, l)}
      <3>1. \A l \in Libs : Holds(b, l) <=> l \in left
        BY <2>1, <2>2, LeftMeans
      <3> QED BY <3>1 DEF Left
    <2> HIDE DEF left
    <2>5. IntoParts(contract)[w] <=> b # None /\ ~IsUnlinked(b)
      <3>1. contract.bytecode = contract["bytecode"] /\ contract.deployed = contract["deployed"]
        BY DEF LinkInv
      <3>2. CASE w = "bytecode"
        BY <3>1, <3>2 DEF IntoParts, b
      <3>3. CASE w = "deployed"
        BY <3>1, <3>3 DEF IntoParts, b
      <3> QED BY <3>2, <3>3 DEF Where
    <2> QED BY <2>1, <2>3, <2>4, <2>5 DEF b
  <1>4. answer.asked => (answer.full <=> ~IsUnlinked(contract[answer.where]))
    BY DEF LinkInv
  <1> QED BY <1>1, <1>2, <1>3, <1>4, ReferencesAlwaysFound, Zenon DEF LinkSound

\* However a contract is linked and converted (Bytecode::link, link_all, resolve and
\* the conversions of contract.rs), for any libraries, addresses and code: its code is
\* the compiled code with the address first given to a library in each of that library's
\* places and nothing else changed, it counts as linked exactly when no placeholder
\* is left, and its references are the libraries left to link.
THEOREM LinkedCodeSound == LinkSpec => []LinkSound
  <1>1. LinkSpec => []LinkInv
    BY LinkInvInit, LinkInvStep, PTL DEF LinkSpec
  <1> QED BY <1>1, LinkInvSound, PTL

-----------------------------------------------------------------------------
(* OutputQueries: sequences without repetition                             *)

LEMMA DistinctMeans ==
    ASSUME NEW s, DistinctSeq(s)
    PROVE  /\ Len(s) \in Nat /\ DOMAIN s = 1..Len(s) /\ s \in Seq(ToSet(s))
           /\ ToSet(s) = {s[i] : i \in 1..Len(s)}
           /\ \A i, j \in 1..Len(s) : s[i] = s[j] => i = j
  <1>1. s \in Seq(ToSet(s)) /\ IsInjective(s)
    BY DEF DistinctSeq
  <1>2. Len(s) \in Nat /\ DOMAIN s = 1..Len(s)
    BY <1>1
  <1> QED BY <1>1, <1>2 DEF IsInjective, ToSet

\* The sequence t that is left when element i is taken out of s.
LEMMA OneTaken ==
    ASSUME NEW s, DistinctSeq(s), NEW i \in 1..Len(s), NEW t, t \in Seq(ToSet(s)), Len(t) = Len(s) - 1,
           \A k \in 1..Len(t) : t[k] = s[IF k < i THEN k ELSE k + 1]
    PROVE  DistinctSeq(t) /\ ToSet(t) = ToSet(s) \ {s[i]}
  <1>1. /\ Len(s) \in Nat /\ DOMAIN s = 1..Len(s)
        /\ ToSet(s) = {s[k] : k \in 1..Len(s)}
        /\ \A k, j \in 1..Len(s) : s[k] = s[j] => k = j
    BY DistinctMeans
  <1>2. Len(t) \in Nat /\ DOMAIN t = 1..Len(t) /\ ToSet(t) = {t[k] : k \in 1..Len(t)}
    BY DEF ToSet
  <1> DEFINE p == [k \in 1..Len(t) |-> IF k < i THEN k ELSE k + 1]
  <1>3. \A k \in 1..Len(t) : p[k] \in 1..Len(s) /\ p[k] # i /\ \A j \in 1..Len(t) : p[k] = p[j] => k = j
    BY <1>1, <1>2
  <1>4. \A j \in 1..Len(s) : j # i => \E k \in 1..Len(t) : p[k] = j
    <2> SUFFICES ASSUME NEW j \in 1..Len(s), j # i PROVE \E k \in 1..Len(t) : p[k] = j
      OBVIOUS
    <2>1. CASE j < i
      BY <1>1, <1>2, <2>1
    <2>2. CASE j > i
      <3>1. j - 1 \in 1..Len(t) /\ p[j - 1] = j
        BY <1>1, <1>2, <2>2
      <3> QED BY <3>1
    <2> QED BY <1>1, <2>1, <2>2
  <1>5. \A k \in 1..Len(t) : t[k] = s[p[k]]
    OBVIOUS
  <1> HIDE DEF p
  <1>6. ToSet(t) = ToSet(s) \ {s[i]}
    <2>1. ASSUME NEW x \in ToSet(t) PROVE x \in ToSet(s) \ {s[i]}
      <3>1. PICK k \in 1..Len(t) : x = s[p[k]]
        BY <1>2, <1>5
      <3>2. p[k] \in 1..Len(s) /\ p[k] # i
        BY <1>3
      <3> QED BY <1>1, <3>1, <3>2
    <2>2. ASSUME NEW x \in ToSet(s) \ {s[i]} PROVE x \in ToSet(t)
      <3>1. PICK j \in 1..Len(s) : x = s[j] /\ j # i
        BY <1>1
      <3>2. PICK k \in 1..Len(t) : p[k] = j
        BY <1>4, <3>1
      <3> QED BY <1>2, <1>5, <3>1, <3>2
    <2> QED BY <2>1, <2>2
  <1>7. IsInjective(t)
    <2> SUFFICES ASSUME NEW k \in 1..Len(t), NEW j \in 1..Len(t), t[k] = t[j] PROVE k = j
      BY <1>2 DEF IsInjective
    <2>1. s[p[k]] = s[p[j]] /\ p[k] \in 1..Len(s) /\ p[j] \in 1..Len(s)
      BY <1>3, <1>5
    <2>2. p[k] = p[j]
      BY <1>1, <2>1
    <2> QED BY <1>3, <2>2
  <1>8. t \in Seq(ToSet(t))
    <2> DEFINE T == ToSet(t)
    <2>1. \A k \in 1..Len(t) : t[k] \in T
      BY <1>2
    <2> HIDE DEF T
    <2> QED BY <1>2, <2>1
  <1> QED BY <1>6, <1>7, <1>8 DEF DistinctSeq

LEMMA HeadTaken ==
    ASSUME NEW s, DistinctSeq(s), s # <<>>
    PROVE  /\ 1 \in 1..Len(s) /\ s[1] \in ToSet(s)
           /\ DistinctSeq(Tail(s)) /\ ToSet(Tail(s)) = ToSet(s) \ {s[1]}
           /\ Tail(s) = <<>> <=> Len(s) <= 1
  <1>1. s \in Seq(ToSet(s)) /\ Len(s) \in Nat \ {0} /\ ToSet(s) = {s[k] : k \in 1..Len(s)}
    BY DistinctMeans
  <1> DEFINE T == ToSet(s)
             t == Tail(s)
  <1> HIDE DEF T
  <1>2. s \in Seq(T)
    BY <1>1 DEF T
  <1>3. t \in Seq(T) /\ Len(t) = Len(s) - 1 /\ (\A k \in 1..Len(t) : t[k] = s[k + 1]) /\ (t = <<>> <=> Len(s) <= 1)
    <2>1. t \in Seq(T) /\ Len(t) = Len(s) - 1 /\ \A k \in 1..Len(t) : t[k] = s[k + 1]
      BY <1>1, <1>2, HeadTailProperties
    <2>2. t = <<>> <=> Len(t) = 0
      BY <2>1, EmptySeq
    <2> QED BY <1>1, <2>1, <2>2
  <1> HIDE DEF t
  <1>4. \A k \in 1..Len(t) : t[k] = s[IF k < 1 THEN k ELSE k + 1]
    BY <1>3
  <1>5. DistinctSeq(t) /\ ToSet(t) = ToSet(s) \ {s[1]}
    <2>1. t \in Seq(ToSet(s)) /\ Len(t) = Len(s) - 1 /\ 1 \in 1..Len(s)
      BY <1>1, <1>3 DEF T
    <2> QED BY <1>4, <2>1, OneTaken
  <1> QED BY <1>1, <1>3, <1>5 DEF t

LEMMA AnyTaken ==
    ASSUME NEW s, DistinctSeq(s), NEW i \in 1..Len(s)
    PROVE  DistinctSeq(RemoveAt(s, i)) /\ ToSet(RemoveAt(s, i)) = ToSet(s) \ {s[i]}
  <1>1. s \in Seq(ToSet(s)) /\ Len(s) \in Nat
    BY DistinctMeans
  <1> DEFINE T == ToSet(s)
             a == SubSeq(s, 1, i - 1)
             b == SubSeq(s, i + 1, Len(s))
             t == a \o b
  <1> HIDE DEF T
  <1>2. s \in Seq(T)
    BY <1>1 DEF T
  <1>3. a \in Seq(T) /\ Len(a) = i - 1 /\ \A k \in 1..(i - 1) : a[k] = s[k]
    BY <1>1, <1>2
  <1>4. b \in Seq(T) /\ Len(b) = Len(s) - i /\ \A k \in 1..(Len(s) - i) : b[k] = s[k + i]
    BY <1>1, <1>2
  <1> HIDE DEF a, b
  <1>5. t \in Seq(T) /\ Len(t) = Len(s) - 1
    <2>1. t \in Seq(T) /\ Len(t) = Len(a) + Len(b)
      BY <1>3, <1>4, ConcatProperties, Zenon
    <2> QED BY <1>1, <1>3, <1>4, <2>1
  <1>6. \A k \in 1..Len(t) : t[k] = IF k <= i - 1 THEN a[k] ELSE b[k - (i - 1)]
    BY <1>1, <1>3, <1>4, <1>5, ConcatProperties
  <1>7. \A k \in 1..Len(t) : t[k] = s[IF k < i THEN k ELSE k + 1]
    <2> SUFFICES ASSUME NEW k \in 1..Len(t) PROVE t[k] = s[IF k < i THEN k ELSE k + 1]
      OBVIOUS
    <2>1. CASE k < i
      BY <1>1, <1>3, <1>5, <1>6, <2>1
    <2>2. CASE ~(k < i)
      <3>1. k - (i - 1) \in 1..(Len(s) - i) /\ (k - (i - 1)) + i = k + 1
        BY <1>1, <1>5, <2>2
      <3> QED BY <1>1, <1>4, <1>5, <1>6, <2>2, <3>1
    <2> QED BY <2>1, <2>2
  <1> HIDE DEF t
  <1>8. DistinctSeq(t) /\ ToSet(t) = ToSet(s) \ {s[i]}
    BY <1>5, <1>7, OneTaken DEF T
  <1> QED BY <1>8 DEF RemoveAt, t, a, b

-----------------------------------------------------------------------------
(* OutputQueries: what lookups find and removals leave                     *)

LEMMA ContractsMeans ==
    ASSUME NEW m, NEW c
    PROVE  c \in ContractsOf(m) <=>
             \E f \in DOMAIN m : \E n \in DOMAIN m[f] : \E v \in ToSet(m[f][n]) : c = [file |-> f, name |-> n, made |-> v]
  BY DEF ContractsOf

LEMMA SourcesMeans ==
    ASSUME NEW m, NEW c
    PROVE  c \in SourcesOf(m) <=> \E f \in DOMAIN m : \E v \in ToSet(m[f]) : c = [file |-> f, made |-> v]
  BY DEF SourcesOf

LEMMA ContractsAreNoSources ==
    ASSUME NEW m, NEW k
    PROVE  ContractsOf(m) \cap SourcesOf(k) = {}
  <1>1. \A f, n, v, g, w : [file |-> f, name |-> n, made |-> v] # [file |-> g, made |-> w]
    <2> SUFFICES ASSUME NEW f, NEW n, NEW v, NEW g, NEW u, NEW x, NEW y, x = y,
                        x = [file |-> f, name |-> n, made |-> v], y = [file |-> g, made |-> u]
                 PROVE  FALSE
      OBVIOUS
    <2>1. "name" \in DOMAIN x
      OBVIOUS
    <2>2. "name" \notin DOMAIN y
      OBVIOUS
    <2> QED BY <2>1, <2>2
  <1> QED BY <1>1, ContractsMeans, SourcesMeans

\* remove: the first entry of the contract is gone, all others are left.
LEMMA ContractRemoved ==
    ASSUME NEW m, ContractMap(m), NEW f \in DOMAIN m, NEW n \in DOMAIN m[f], m[f][n] # <<>>
    PROVE  /\ ContractMap(RemovedAt(m, f, n))
           /\ ContractsOf(RemovedAt(m, f, n)) = ContractsOf(m) \ {[file |-> f, name |-> n, made |-> m[f][n][1]]}
           /\ [file |-> f, name |-> n, made |-> m[f][n][1]] \in ContractsOf(m)
  <1> DEFINE s == m[f][n]
             r == RemovedAt(m, f, n)
             gone == [file |-> f, name |-> n, made |-> s[1]]
             left == [x \in DOMAIN m[f] \ (IF Len(s) > 1 THEN {} ELSE {n}) |-> IF x = n THEN Tail(m[f][x]) ELSE m[f][x]]
  <1>1. DistinctSeq(s)
    BY DEF ContractMap
  <1>2. /\ s[1] \in ToSet(s) /\ DistinctSeq(Tail(s)) /\ ToSet(Tail(s)) = ToSet(s) \ {s[1]}
        /\ (Tail(s) = <<>> <=> Len(s) <= 1) /\ Len(s) \in Nat
    BY <1>1, HeadTaken, DistinctMeans
  <1>3. m = [g \in DOMAIN m |-> m[g]] /\ r = [m EXCEPT ![f] = left]
    BY DEF ContractMap, RemovedAt
  <1>4. r[f] = left /\ DOMAIN r = DOMAIN m /\ r = [g \in DOMAIN r |-> r[g]] /\ \A g \in DOMAIN m : g # f => r[g] = m[g]
    <2> HIDE DEF left, r
    <2> QED BY <1>3
  <1> HIDE DEF r
  <1>5. \A x \in DOMAIN left : x \in DOMAIN m[f] /\ left[x] = IF x = n THEN Tail(s) ELSE m[f][x]
    OBVIOUS
  <1>6. left = [x \in DOMAIN left |-> left[x]]
    OBVIOUS
  <1>7. \A x \in DOMAIN m[f] : x # n => x \in DOMAIN left /\ left[x] = m[f][x]
    OBVIOUS
  <1>8. n \in DOMAIN left \/ ToSet(s) \ {s[1]} = {}
    <2>1. CASE Len(s) > 1
      BY <2>1
    <2>2. CASE ~(Len(s) > 1)
      <3>1. Tail(s) = <<>>
        BY <1>2, <2>2
      <3>2. ToSet(<<>>) = {}
        BY DEF ToSet
      <3> QED BY <1>2, <3>1, <3>2
    <2> QED BY <2>1, <2>2
  <1> HIDE DEF left, s
  <1>9. ContractMap(r)
    <2>1. DOMAIN r \subseteq Files
      BY <1>4 DEF ContractMap
    <2>2. ASSUME NEW g \in DOMAIN r
          PROVE  /\ r[g] = [x \in DOMAIN r[g] |-> r[g][x]]
                 /\ \A x \in DOMAIN r[g] : x = <<x[1]>> /\ x[1] \notin FileLike /\ DistinctSeq(r[g][x])
      <3>1. CASE g = f
        BY <1>2, <1>4, <1>5, <1>6, <3>1 DEF ContractMap
      <3>2. CASE g # f
        BY <1>4, <3>2 DEF ContractMap
      <3> QED BY <3>1, <3>2
    <2> QED BY <1>4, <2>1, <2>2 DEF ContractMap
  <1>10. gone \in ContractsOf(m)
    BY <1>2, ContractsMeans DEF s
  <1>11. ASSUME NEW c PROVE c \in ContractsOf(r) <=> c \in ContractsOf(m) /\ c # gone
    <2>1. ASSUME c \in ContractsOf(r) PROVE c \in ContractsOf(m) /\ c # gone
      <3>1. PICK g, x, v : g \in DOMAIN r /\ x \in DOMAIN r[g] /\ v \in ToSet(r[g][x]) /\ c = [file |-> g, name |-> x, made |-> v]
        BY <2>1, ContractsMeans
      <3>2. CASE g = f /\ x = n
        <4>1. v \in ToSet(s) /\ v # s[1]
          BY <1>2, <1>4, <1>5, <3>1, <3>2
        <4>2. c \in ContractsOf(m)
          BY <3>1, <3>2, <4>1, ContractsMeans DEF s
        <4> QED BY <3>1, <4>1, <4>2
      <3>3. CASE g = f /\ x # n
        <4>1. x \in DOMAIN m[f] /\ v \in ToSet(m[f][x])
          BY <1>4, <1>5, <3>1, <3>3
        <4>2. c \in ContractsOf(m)
          BY <3>1, <3>3, <4>1, ContractsMeans
        <4> QED BY <3>1, <3>3, <4>2
      <3>4. CASE g # f
        <4>1. g \in DOMAIN m /\ x \in DOMAIN m[g] /\ v \in ToSet(m[g][x])
          BY <1>4, <3>1, <3>4
        <4>2. c \in ContractsOf(m)
          BY <3>1, <4>1, ContractsMeans
        <4> QED BY <3>1, <3>4, <4>2
      <3> QED BY <3>2, <3>3, <3>4
    <2>2. ASSUME c \in ContractsOf(m), c # gone PROVE c \in ContractsOf(r)
      <3>1. PICK g, x, v : g \in DOMAIN m /\ x \in DOMAIN m[g] /\ v \in ToSet(m[g][x]) /\ c = [file |-> g, name |-> x, made |-> v]
        BY <2>2, ContractsMeans
      <3>2. g \in DOMAIN r /\ x \in DOMAIN r[g] /\ v \in ToSet(r[g][x])
        <4>1. CASE g = f /\ x = n
          <5>1. v \in ToSet(s) \ {s[1]}
            BY <2>2, <3>1, <4>1 DEF s
          <5>2. n \in DOMAIN left /\ left[n] = Tail(s)
            BY <1>5, <1>8, <5>1
          <5> QED BY <1>2, <1>4, <3>1, <4>1, <5>1, <5>2
        <4>2. CASE g = f /\ x # n
          BY <1>4, <1>7, <3>1, <4>2
        <4>3. CASE g # f
          BY <1>4, <3>1, <4>3
        <4> QED BY <4>1, <4>2, <4>3
      <3> QED BY <3>1, <3>2, ContractsMeans
    <2> QED BY <2>1, <2>2
  <1>12. ContractsOf(r) = ContractsOf(m) \ {gone}
    <2> HIDE DEF gone
    <2> QED BY <1>11
  <1> QED BY <1>9, <1>10, <1>12 DEF r, s

\* remove_by_path and remove_by_id: one entry of a file is gone.
LEMMA SourceRemoved ==
    ASSUME NEW m, SourceFileMap(m), NEW f \in DOMAIN m, NEW v \in ToSet(m[f]), NEW t,
           DistinctSeq(t), ToSet(t) = ToSet(m[f]) \ {v}
    PROVE  /\ SourceFileMap([m EXCEPT ![f] = t])
           /\ SourcesOf([m EXCEPT ![f] = t]) = SourcesOf(m) \ {[file |-> f, made |-> v]}
           /\ [file |-> f, made |-> v] \in SourcesOf(m)
  <1> DEFINE r == [m EXCEPT ![f] = t]
             gone == [file |-> f, made |-> v]
  <1>1. m = [g \in DOMAIN m |-> m[g]]
    BY DEF SourceFileMap
  <1>2. r[f] = t /\ DOMAIN r = DOMAIN m /\ r = [g \in DOMAIN r |-> r[g]] /\ \A g \in DOMAIN m : g # f => r[g] = m[g]
    BY <1>1
  <1> HIDE DEF r
  <1>3. SourceFileMap(r)
    BY <1>2 DEF SourceFileMap
  <1>4. gone \in SourcesOf(m)
    BY SourcesMeans
  <1>5. ASSUME NEW c PROVE c \in SourcesOf(r) <=> c \in SourcesOf(m) /\ c # gone
    <2>1. ASSUME c \in SourcesOf(r) PROVE c \in SourcesOf(m) /\ c # gone
      <3>1. PICK g, w : g \in DOMAIN r /\ w \in ToSet(r[g]) /\ c = [file |-> g, made |-> w]
        BY <2>1, SourcesMeans
      <3>2. g \in DOMAIN m /\ w \in ToSet(m[g]) /\ (g = f => w # v)
        BY <1>2, <3>1
      <3> QED BY <3>1, <3>2, SourcesMeans
    <2>2. ASSUME c \in SourcesOf(m), c # gone PROVE c \in SourcesOf(r)
      <3>1. PICK g, w : g \in DOMAIN m /\ w \in ToSet(m[g]) /\ c = [file |-> g, made |-> w]
        BY <2>2, SourcesMeans
      <3>2. g \in DOMAIN r /\ w \in ToSet(r[g])
        BY <1>2, <2>2, <3>1
      <3> QED BY <3>1, <3>2, SourcesMeans
    <2> QED BY <2>1, <2>2
  <1>6. SourcesOf(r) = SourcesOf(m) \ {gone}
    <2> HIDE DEF gone
    <2> QED BY <1>5
  <1> QED BY <1>3, <1>4, <1>6 DEF r

-----------------------------------------------------------------------------
(* OutputQueries: what lookups answer                                      *)

LEMMA HolderFound ==
    ASSUME NEW m, ContractMap(m), NEW p, NEW n, NEW f \in Holders(m, p, n)
    PROVE  \E g \in Holders(m, p, n) :
             FindContract(m, [path |-> p, name |-> n]) = [file |-> g, name |-> n, made |-> m[g][n][1]]
  <1> DEFINE at == Holders(m, p, n)
  <1>1. at \in SUBSET Nat /\ at # {}
    BY OutputsAssumption DEF ContractMap, Holders
  <1> HIDE DEF at
  <1>2. Min(at) \in at
    BY <1>1, LeastOf
  <1>3. FindContract(m, [path |-> p, name |-> n]) =
          IF at = {} THEN Nothing ELSE [file |-> Min(at), name |-> n, made |-> m[Min(at)][n][1]]
    BY DEF FindContract, at
  <1>4. FindContract(m, [path |-> p, name |-> n]) = [file |-> Min(at), name |-> n, made |-> m[Min(at)][n][1]]
    BY <1>1, <1>3
  <1> QED BY <1>2, <1>4 DEF at

LEMMA FoundIsThere ==
    ASSUME NEW m, ContractMap(m), NEW text, FindContract(m, ContractInfo(text)) # Nothing
    PROVE  \E f \in DOMAIN m : \E n \in DOMAIN m[f] :
             /\ m[f][n] # <<>>
             /\ FindContract(m, ContractInfo(text)) = [file |-> f, name |-> n, made |-> m[f][n][1]]
  <1>1. PICK p, n : ContractInfo(text) = [path |-> p, name |-> n]
    BY DEF ContractInfo
  <1>2. Holders(m, p, n) # {}
    BY <1>1 DEF FindContract
  <1>3. PICK g \in Holders(m, p, n) :
          FindContract(m, [path |-> p, name |-> n]) = [file |-> g, name |-> n, made |-> m[g][n][1]]
    BY <1>2, HolderFound
  <1>4. g \in DOMAIN m /\ n \in DOMAIN m[g] /\ m[g][n] # <<>>
    BY <1>3 DEF Holders, Has
  <1> QED BY <1>1, <1>3, <1>4

LEMMA FirstOfFile ==
    ASSUME NEW m, NEW f, FindFile(m, f) # Nothing
    PROVE  f \in DOMAIN m /\ m[f] # <<>> /\ FindFile(m, f) = [file |-> f, made |-> m[f][1]]
  BY DEF FindFile

LEMMA IdIsThere ==
    ASSUME NEW m, SourceFileMap(m), NEW id, FindId(m, id) # Nothing
    PROVE  \E f \in DOMAIN m : \E i \in 1..Len(m[f]) :
             i = IndexOfId(m[f], id) /\ FindId(m, id) = [file |-> f, made |-> m[f][i]]
  <1> DEFINE with == WithId(m, id)
             f == Min(with)
             ks == {k \in DOMAIN m[f] : m[f][k].id = id}
  <1>1. with \in SUBSET Nat
    BY OutputsAssumption DEF SourceFileMap, WithId
  <1>2. with # {} /\ FindId(m, id) = [file |-> f, made |-> m[f][IndexOfId(m[f], id)]]
    BY DEF FindId
  <1> HIDE DEF with
  <1>3. f \in with
    BY <1>1, <1>2, LeastOf
  <1> HIDE DEF f
  <1>4. f \in DOMAIN m /\ ks # {}
    BY <1>3 DEF with, WithId
  <1>5. Len(m[f]) \in Nat /\ DOMAIN m[f] = 1..Len(m[f])
    BY <1>4, DistinctMeans DEF SourceFileMap
  <1>6. ks \in SUBSET Nat /\ IndexOfId(m[f], id) = Min(ks)
    BY <1>5 DEF IndexOfId
  <1> HIDE DEF ks
  <1>7. IndexOfId(m[f], id) \in ks
    BY <1>4, <1>6, LeastOf
  <1>8. IndexOfId(m[f], id) \in 1..Len(m[f])
    BY <1>5, <1>7 DEF ks
  <1> QED BY <1>2, <1>4, <1>8

LEMMA PairOf ==
    ASSUME NEW a, NEW b
    PROVE  <<a>> \o <<b>> = <<a, b>>
  <1>1. <<a>> \in Seq({a, b}) /\ <<b>> \in Seq({a, b}) /\ <<a, b>> \in Seq({a, b})
    OBVIOUS
  <1>2. /\ <<a>> \o <<b>> \in Seq({a, b}) /\ Len(<<a>> \o <<b>>) = Len(<<a>>) + Len(<<b>>)
        /\ \A i \in 1..(Len(<<a>>) + Len(<<b>>)) : (<<a>> \o <<b>>)[i] = IF i <= Len(<<a>>) THEN <<a>>[i] ELSE <<b>>[i - Len(<<a>>)]
    BY <1>1, ConcatProperties
  <1>3. Len(<<a>>) = 1 /\ Len(<<b>>) = 1 /\ Len(<<a, b>>) = 2 /\ <<a>>[1] = a /\ <<b>>[1] = b /\ <<a, b>>[1] = a /\ <<a, b>>[2] = b
    OBVIOUS
  <1>4. \A i \in 1..2 : (<<a>> \o <<b>>)[i] = <<a, b>>[i]
    <2>1. (<<a>> \o <<b>>)[1] = a /\ (<<a>> \o <<b>>)[2] = b
      BY <1>2, <1>3
    <2>2. \A i \in 1..2 : i = 1 \/ i = 2
      OBVIOUS
    <2> QED BY <1>3, <2>1, <2>2
  <1> DEFINE S == {a, b}
             h == <<a>> \o <<b>>
             k == <<a, b>>
  <1>5. h \in Seq(S) /\ k \in Seq(S) /\ Len(h) = 2 /\ Len(k) = 2 /\ \A i \in 1..2 : h[i] = k[i]
    BY <1>1, <1>2, <1>3, <1>4
  <1> HIDE DEF S, h, k
  <1>6. h = k
    BY <1>5, SeqEqual
  <1> QED BY <1>6 DEF h, k

\* A contract that is in the map is found by its name alone, and by its path and
\* name if its path has no colon.
LEMMA LookedUp ==
    ASSUME NEW m, ContractMap(m), Nothing \notin ContractsOf(m), NEW c \in ContractsOf(m)
    PROVE  /\ FindContract(m, ContractInfo(c.name)) # Nothing
           /\ Len(PathOf[c.file]) = 1 =>
                /\ FindContract(m, ContractInfo(PathOf[c.file] \o c.name)).file = c.file
                /\ FullContractInfo(PathOf[c.file] \o c.name) = ContractInfo(PathOf[c.file] \o c.name)
  <1>1. PICK f, n, v : f \in DOMAIN m /\ n \in DOMAIN m[f] /\ v \in ToSet(m[f][n]) /\ c = [file |-> f, name |-> n, made |-> v]
    BY ContractsMeans
  <1>2. f \in Files /\ n = <<n[1]>> /\ n[1] \notin FileLike /\ DistinctSeq(m[f][n])
    BY <1>1 DEF ContractMap
  <1>3. Has(m, f, n)
    BY <1>1 DEF Has, ToSet
  <1> DEFINE w == n[1]
  <1> HIDE DEF w
  <1>4. n = <<w>> /\ w \notin FileLike
    BY <1>2 DEF w
  <1>5. FindContract(m, ContractInfo(n)) # Nothing
    <2>1. ContractInfo(n) = [path |-> Nothing, name |-> n]
      BY <1>4 DEF ContractInfo, Last
    <2>2. f \in Holders(m, Nothing, n)
      BY <1>1, <1>3 DEF Holders
    <2>3. PICK g \in Holders(m, Nothing, n) :
            FindContract(m, [path |-> Nothing, name |-> n]) = [file |-> g, name |-> n, made |-> m[g][n][1]]
      BY <2>2, HolderFound
    <2>4. g \in DOMAIN m /\ n \in DOMAIN m[g] /\ m[g][n] # <<>>
      BY <2>3 DEF Holders, Has
    <2>5. [file |-> g, name |-> n, made |-> m[g][n][1]] \in ContractsOf(m)
      BY <2>4, ContractRemoved
    <2> QED BY <2>1, <2>3, <2>5
  <1>6. ASSUME Len(PathOf[f]) = 1
        PROVE  LET text == PathOf[f] \o n
               IN FindContract(m, ContractInfo(text)).file = f /\ FullContractInfo(text) = ContractInfo(text)
    <2> DEFINE p == PathOf[f][1]
               text == PathOf[f] \o n
               path == PathOf[f]
    <2>1. path = <<p>>
      <3>1. path \in Seq(ToSet(path))
        BY <1>2, OutputsAssumption
      <3> QED BY <1>6, <3>1
    <2> HIDE DEF p
    <2>2. text = <<p, w>>
      BY <1>4, <2>1, PairOf
    <2> HIDE DEF text
    <2>3. ContractInfo(text) = [path |-> <<p>>, name |-> <<w>>]
      <3>1. Last(text) = w /\ Len(text) = 2 /\ text[1] = p
        BY <2>2 DEF Last
      <3> QED BY <1>4, <3>1 DEF ContractInfo
    <2>4. FullContractInfo(text) = [path |-> <<p>>, name |-> <<w>>]
      BY <2>2 DEF FullContractInfo
    <2>5. Holders(m, path, n) = {f}
      <3>1. f \in Holders(m, path, n)
        BY <1>1, <1>3 DEF Holders
      <3>2. ASSUME NEW g \in Holders(m, path, n) PROVE g = f
        <4>1. g \in Files /\ path # Nothing /\ PathOf[g] = path
          BY <1>2, OutputsAssumption DEF Holders, ContractMap
        <4> QED BY <1>2, <4>1, OutputsAssumption
      <3> QED BY <3>1, <3>2
    <2>6. FindContract(m, [path |-> path, name |-> n]) = [file |-> f, name |-> n, made |-> m[f][n][1]]
      BY <2>5, HolderFound
    <2>7. FindContract(m, ContractInfo(text)).file = f
      BY <1>4, <2>1, <2>3, <2>6
    <2> QED BY <2>3, <2>4, <2>7 DEF text
  <1> QED BY <1>1, <1>5, <1>6

-----------------------------------------------------------------------------
(* OutputQueries: everything is handed out once, nothing is lost           *)

Accounts(q) ==
    /\ ContractMap(q.contracts) /\ SourceFileMap(q.sources)
    /\ q.all.contracts \in Outputs
    /\ q.taken \cap Items(q) = {}
    /\ q.taken \cup Items(q) = Items(q.all)
QueryInv ==
    /\ query = [contracts |-> query.contracts, sources |-> query.sources, all |-> query.all, taken |-> query.taken]
    /\ Accounts(query)

LEMMA ItemsOf ==
    ASSUME NEW c, NEW s, NEW a, NEW t
    PROVE  Items([contracts |-> c, sources |-> s, all |-> a, taken |-> t]) = ContractsOf(c) \cup SourcesOf(s)
  BY DEF Items

LEMMA ContractAccounts ==
    ASSUME NEW c, NEW s, NEW a, NEW t, NEW d, NEW gone,
           Accounts([contracts |-> c, sources |-> s, all |-> a, taken |-> t]),
           ContractMap(d), gone \in ContractsOf(c), ContractsOf(d) = ContractsOf(c) \ {gone}
    PROVE  Accounts([contracts |-> d, sources |-> s, all |-> a, taken |-> (t \cup {gone})])
  <1> DEFINE q == [contracts |-> c, sources |-> s, all |-> a, taken |-> t]
             r == [contracts |-> d, sources |-> s, all |-> a, taken |-> (t \cup {gone})]
  <1>1. Items(q) = ContractsOf(c) \cup SourcesOf(s) /\ Items(r) = ContractsOf(d) \cup SourcesOf(s)
    BY DEF Items
  <1>2. gone \notin SourcesOf(s)
    BY ContractsAreNoSources
  <1>3. t \cap Items(q) = {} /\ t \cup Items(q) = Items(a) /\ SourceFileMap(s) /\ a.contracts \in Outputs
    BY DEF Accounts
  <1>4. (t \cup {gone}) \cap Items(r) = {} /\ (t \cup {gone}) \cup Items(r) = Items(a)
    <2> HIDE DEF q, r
    <2> QED BY <1>1, <1>2, <1>3
  <1> QED BY <1>3, <1>4 DEF Accounts

LEMMA SourceAccounts ==
    ASSUME NEW c, NEW s, NEW a, NEW t, NEW d, NEW gone,
           Accounts([contracts |-> c, sources |-> s, all |-> a, taken |-> t]),
           SourceFileMap(d), gone \in SourcesOf(s), SourcesOf(d) = SourcesOf(s) \ {gone}
    PROVE  Accounts([contracts |-> c, sources |-> d, all |-> a, taken |-> (t \cup {gone})])
  <1> DEFINE q == [contracts |-> c, sources |-> s, all |-> a, taken |-> t]
             r == [contracts |-> c, sources |-> d, all |-> a, taken |-> (t \cup {gone})]
  <1>1. Items(q) = ContractsOf(c) \cup SourcesOf(s) /\ Items(r) = ContractsOf(c) \cup SourcesOf(d)
    BY DEF Items
  <1>2. gone \notin ContractsOf(c)
    BY ContractsAreNoSources
  <1>3. t \cap Items(q) = {} /\ t \cup Items(q) = Items(a) /\ ContractMap(c) /\ a.contracts \in Outputs
    BY DEF Accounts
  <1>4. (t \cup {gone}) \cap Items(r) = {} /\ (t \cup {gone}) \cup Items(r) = Items(a)
    <2> HIDE DEF q, r
    <2> QED BY <1>1, <1>2, <1>3
  <1> QED BY <1>3, <1>4 DEF Accounts

LEMMA ContractWritten ==
    ASSUME NEW c, NEW s, NEW a, NEW t, NEW x, NEW y,
           NEW q, q = [contracts |-> c, sources |-> s, all |-> a, taken |-> t],
           NEW r, r = [q EXCEPT !.contracts = x, !.taken = y]
    PROVE  r = [contracts |-> x, sources |-> s, all |-> a, taken |-> y]
  OBVIOUS

LEMMA SourceWritten ==
    ASSUME NEW c, NEW s, NEW a, NEW t, NEW x, NEW y,
           NEW q, q = [contracts |-> c, sources |-> s, all |-> a, taken |-> t],
           NEW r, r = [q EXCEPT !.sources = x, !.taken = y]
    PROVE  r = [contracts |-> c, sources |-> x, all |-> a, taken |-> y]
  OBVIOUS

LEMMA RemoveNamedAccounts ==
    ASSUME QueryInv, NEW text, RemoveNamed(text)
    PROVE  QueryInv'
  <1> DEFINE c == query.contracts
             s == query.sources
             a == query.all
             t == query.taken
  <1>1. query = [contracts |-> c, sources |-> s, all |-> a, taken |-> t] /\ Accounts(query) /\ ContractMap(c)
    BY DEF QueryInv, Accounts
  <1>2. FindContract(c, ContractInfo(text)) # Nothing
    BY DEF RemoveNamed
  <1>3. PICK f \in DOMAIN c : \E n \in DOMAIN c[f] :
          /\ c[f][n] # <<>>
          /\ FindContract(c, ContractInfo(text)) = [file |-> f, name |-> n, made |-> c[f][n][1]]
    BY <1>1, <1>2, FoundIsThere
  <1>4. PICK n \in DOMAIN c[f] :
          /\ c[f][n] # <<>>
          /\ FindContract(c, ContractInfo(text)) = [file |-> f, name |-> n, made |-> c[f][n][1]]
    BY <1>3
  <1> DEFINE gone == [file |-> f, name |-> n, made |-> c[f][n][1]]
             d == RemovedAt(c, f, n)
  <1>5. ContractMap(d) /\ gone \in ContractsOf(c) /\ ContractsOf(d) = ContractsOf(c) \ {gone}
    BY <1>1, <1>4, ContractRemoved
  <1>6. query' = [query EXCEPT !.contracts = d, !.taken = t \cup {gone}]
    BY <1>4 DEF RemoveNamed
  <1> HIDE DEF c, s, a, t, gone, d
  <1>7. query' = [contracts |-> d, sources |-> s, all |-> a, taken |-> (t \cup {gone})]
    BY <1>1, <1>6, ContractWritten
  <1>8. Accounts(query')
    BY <1>1, <1>5, <1>7, ContractAccounts
  <1> QED BY <1>7, <1>8 DEF QueryInv

LEMMA SourceTaken ==
    ASSUME QueryInv, NEW f \in DOMAIN query.sources, NEW v \in ToSet(query.sources[f]), NEW u,
           DistinctSeq(u), ToSet(u) = ToSet(query.sources[f]) \ {v},
           query' = [query EXCEPT !.sources = [query.sources EXCEPT ![f] = u],
                                  !.taken = query.taken \cup {[file |-> f, made |-> v]}]
    PROVE  QueryInv'
  <1> DEFINE c == query.contracts
             s == query.sources
             a == query.all
             t == query.taken
             gone == [file |-> f, made |-> v]
             d == [s EXCEPT ![f] = u]
  <1>1. query = [contracts |-> c, sources |-> s, all |-> a, taken |-> t] /\ Accounts(query) /\ SourceFileMap(s)
    BY DEF QueryInv, Accounts
  <1>2. SourceFileMap(d) /\ gone \in SourcesOf(s) /\ SourcesOf(d) = SourcesOf(s) \ {gone}
    BY <1>1, SourceRemoved
  <1>3. query' = [query EXCEPT !.sources = d, !.taken = t \cup {gone}]
    OBVIOUS
  <1> HIDE DEF c, s, a, t, gone, d
  <1>4. query' = [contracts |-> c, sources |-> d, all |-> a, taken |-> (t \cup {gone})]
    BY <1>1, <1>3, SourceWritten
  <1>5. Accounts(query')
    <2>1. Accounts([contracts |-> c, sources |-> s, all |-> a, taken |-> t])
      BY <1>1
    <2>2. Accounts([contracts |-> c, sources |-> d, all |-> a, taken |-> (t \cup {gone})])
      BY <1>2, <2>1, SourceAccounts
    <2> QED BY <1>4, <2>2
  <1> QED BY <1>4, <1>5 DEF QueryInv

LEMMA RemoveByPathAccounts ==
    ASSUME QueryInv, NEW f \in Files, RemoveByPath(f)
    PROVE  QueryInv'
  <1> DEFINE s == query.sources
  <1>1. SourceFileMap(s)
    BY DEF QueryInv, Accounts
  <1>2. f \in DOMAIN s /\ s[f] # <<>> /\ FindFile(s, f) = [file |-> f, made |-> s[f][1]]
    BY FirstOfFile DEF RemoveByPath
  <1>3. s[f][1] \in ToSet(s[f]) /\ DistinctSeq(Tail(s[f])) /\ ToSet(Tail(s[f])) = ToSet(s[f]) \ {s[f][1]}
    BY <1>1, <1>2, HeadTaken DEF SourceFileMap
  <1>4. query' = [query EXCEPT !.sources = [query.sources EXCEPT ![f] = Tail(s[f])],
                               !.taken = query.taken \cup {[file |-> f, made |-> s[f][1]]}]
    BY <1>2 DEF RemoveByPath
  <1> QED BY <1>2, <1>3, <1>4, SourceTaken

LEMMA RemoveByIdAccounts ==
    ASSUME QueryInv, NEW id, RemoveById(id)
    PROVE  QueryInv'
  <1> DEFINE s == query.sources
  <1>1. SourceFileMap(s)
    BY DEF QueryInv, Accounts
  <1>2. FindId(s, id) # Nothing
    BY DEF RemoveById
  <1>3. PICK f, i : /\ f \in DOMAIN s /\ i \in 1..Len(s[f])
                    /\ i = IndexOfId(s[f], id) /\ FindId(s, id) = [file |-> f, made |-> s[f][i]]
    BY <1>1, <1>2, IdIsThere
  <1>4. DistinctSeq(RemoveAt(s[f], i)) /\ ToSet(RemoveAt(s[f], i)) = ToSet(s[f]) \ {s[f][i]} /\ s[f][i] \in ToSet(s[f])
    <2>1. DistinctSeq(s[f])
      BY <1>1, <1>3 DEF SourceFileMap
    <2> DEFINE u == s[f]
    <2>2. DistinctSeq(u) /\ i \in 1..Len(u)
      BY <1>3, <2>1
    <2> HIDE DEF u
    <2>3. DistinctSeq(RemoveAt(u, i)) /\ ToSet(RemoveAt(u, i)) = ToSet(u) \ {u[i]} /\ u[i] \in ToSet(u)
      <3>1. DistinctSeq(RemoveAt(u, i)) /\ ToSet(RemoveAt(u, i)) = ToSet(u) \ {u[i]}
        BY <2>2, AnyTaken
      <3>2. u[i] \in ToSet(u)
        BY <2>2, DistinctMeans
      <3> QED BY <3>1, <3>2
    <2> QED BY <2>3 DEF u
  <1>5. query' = [query EXCEPT !.sources = [query.sources EXCEPT ![f] = RemoveAt(s[f], i)],
                               !.taken = query.taken \cup {[file |-> f, made |-> s[f][i]]}]
    BY <1>3 DEF RemoveById
  <1> QED BY <1>3, <1>4, <1>5, SourceTaken

LEMMA QueryInvSound == QueryInv => QueriesSound
  <1> SUFFICES ASSUME QueryInv PROVE QueriesSound
    OBVIOUS
  <1> DEFINE m == query.contracts
  <1>1. ContractMap(m) /\ query.all.contracts \in Outputs /\ query.taken \cap Items(query) = {} /\ query.taken \cup Items(query) = Items(query.all)
    BY DEF QueryInv, Accounts
  <1>2. Nothing \notin ContractsOf(m)
    <2>1. ContractsOf(m) \subseteq ContractsOf(query.all.contracts) \cup SourcesOf(query.all.sources)
      BY <1>1 DEF Items
    <2>2. Nothing \notin ContractsOf(query.all.contracts)
      BY <1>1, OutputsAssumption
    <2> QED BY <2>1, <2>2, ContractsAreNoSources
  <1> QED BY <1>1, <1>2, LookedUp DEF QueriesSound

\* However an output is taken apart, every contract and every source file is handed
\* out once and none is lost; a contract that is left is found by its name, and by
\* its path and name (VersionedContracts::find and remove, VersionedSourceFiles::
\* remove_by_path and remove_by_id).
THEOREM TakenApartSound == QuerySpec => []QueriesSound
  <1>1. QueryInit => QueryInv
    <2> SUFFICES ASSUME NEW c \in Outputs, NEW s \in SourceLists,
                        query = [contracts |-> c, sources |-> s, all |-> [contracts |-> c, sources |-> s], taken |-> {}]
                 PROVE  QueryInv
      BY DEF QueryInit
    <2>1. ContractMap(c) /\ SourceFileMap(s)
      BY OutputsAssumption
    <2> QED BY <2>1 DEF QueryInv, Accounts, Items
  <1>2. QueryInv /\ [QueryNext]_query => QueryInv'
    <2> SUFFICES ASSUME QueryInv, [QueryNext]_query PROVE QueryInv'
      OBVIOUS
    <2>1. CASE \E t \in Texts : RemoveNamed(t)
      BY <2>1, RemoveNamedAccounts
    <2>2. CASE \E f \in Files : RemoveByPath(f)
      BY <2>2, RemoveByPathAccounts
    <2>3. CASE \E id \in 0..1 : RemoveById(id)
      BY <2>3, RemoveByIdAccounts
    <2>4. CASE UNCHANGED query
      BY <2>4 DEF QueryInv
    <2> QED BY <2>1, <2>2, <2>3, <2>4 DEF QueryNext
  <1> QED BY <1>1, <1>2, QueryInvSound, PTL DEF QuerySpec
=============================================================================
