---------------------------- MODULE ResolverProofs ----------------------------
(***************************************************************************)
(* Theorems about the dependency graph, for projects of any files, that    *)
(* import each other in any way.                                           *)
(***************************************************************************)
EXTENDS Resolver, FiniteSetTheorems, SequenceTheorems, NaturalsInduction,
        WellFoundedInduction, TLAPS

-----------------------------------------------------------------------------
(* Selections, and one import after the other                              *)

LEMMA LeastNumber ==
    ASSUME NEW I \in SUBSET Nat, I # {}
    PROVE  \E m \in I : \A k \in I : m <= k
  <1> DEFINE R == OpToRel(<, Nat)
  <1>1. IsWellFoundedOn(R, Nat)
    BY NatLessThanWellFounded, Zenon
  <1>2. \A k, m \in Nat : k < m => <<k, m>> \in R
    BY DEF OpToRel
  <1> HIDE DEF R
  <1>3. PICK m \in I : \A k \in I : <<k, m>> \notin R
    BY <1>1, WFMin
  <1>4. ASSUME NEW k \in I PROVE m <= k
    <2>1. k \in Nat /\ m \in Nat
      OBVIOUS
    <2>2. ~(k < m)
      BY <1>2, <1>3, <2>1
    <2> QED BY <2>1, <2>2
  <1> QED BY <1>4

LEMMA UpTo ==
    ASSUME NEW n \in Nat, NEW A \in SUBSET (0..n), 0 \in A,
           \A k \in 0..(n - 1) : k \in A => k + 1 \in A
    PROVE  A = 0..n
  <1> SUFFICES ASSUME A # 0..n PROVE FALSE
    OBVIOUS
  <1> DEFINE B == (0..n) \ A
  <1>1. PICK m \in B : \A k \in B : m <= k
    <2>1. B # {} /\ B \in SUBSET (0..n)
      OBVIOUS
    <2> HIDE DEF B
    <2>2. B \in SUBSET Nat
      BY <2>1
    <2> QED BY <2>1, <2>2, LeastNumber
  <1>2. m # 0 /\ m - 1 \in 0..(n - 1) /\ m - 1 \notin B
    BY <1>1
  <1> QED BY <1>2

-----------------------------------------------------------------------------
(* What of a sequence is selected                                          *)

SelectStep(s, S, w, i) ==
    IF i = 0 THEN <<>> ELSE IF s[i] \in S THEN Append(w[i - 1], s[i]) ELSE w[i - 1]

LEMMA SelectDefined ==
    ASSUME NEW s, NEW S, Len(s) \in Nat
    PROVE  SelectedUpTo(s, S) = [i \in 0..Len(s) |-> SelectStep(s, S, SelectedUpTo(s, S), i)]
  <1> DEFINE A == {n \in 0..Len(s) : \E w : w = [i \in 0..n |-> SelectStep(s, S, w, i)]}
  <1>1. 0 \in A
    <2> DEFINE w == [i \in 0..0 |-> <<>>]
    <2>1. w = [i \in 0..0 |-> SelectStep(s, S, w, i)]
      BY DEF SelectStep
    <2> HIDE DEF w
    <2> QED BY <2>1
  <1>2. ASSUME NEW n \in 0..(Len(s) - 1), n \in A PROVE n + 1 \in A
    <2>1. PICK w : w = [i \in 0..n |-> SelectStep(s, S, w, i)]
      BY <1>2
    <2> DEFINE v == [i \in 0..(n + 1) |-> IF i <= n THEN w[i] ELSE SelectStep(s, S, w, n + 1)]
               u == [i \in 0..(n + 1) |-> SelectStep(s, S, v, i)]
    <2>2. ASSUME NEW i \in 0..(n + 1) PROVE v[i] = u[i]
      <3>1. CASE i = 0
        BY <2>1, <3>1 DEF SelectStep
      <3>2. CASE i # 0
        <4>1. v[i - 1] = w[i - 1]
          BY <3>2
        <4>2. SelectStep(s, S, v, i) = SelectStep(s, S, w, i)
          <5> HIDE DEF v
          <5> QED BY <3>2, <4>1 DEF SelectStep
        <4>3. v[i] = SelectStep(s, S, w, i)
          <5>1. CASE i <= n
            BY <2>1, <5>1
          <5>2. CASE i = n + 1
            BY <5>2
          <5> QED BY <5>1, <5>2
        <4> QED BY <4>2, <4>3
      <3> QED BY <3>1, <3>2
    <2>3. DOMAIN v = 0..(n + 1) /\ DOMAIN u = 0..(n + 1)
      OBVIOUS
    <2>4. v = [i \in DOMAIN v |-> v[i]] /\ u = [i \in DOMAIN u |-> u[i]]
      OBVIOUS
    <2>5. v = u
      <3> HIDE DEF u, v
      <3> QED BY <2>2, <2>3, <2>4
    <2>6. v = [i \in 0..(n + 1) |-> SelectStep(s, S, v, i)]
      <3> HIDE DEF v
      <3> QED BY <2>5
    <2> HIDE DEF v
    <2> QED BY <2>6, n + 1 \in 0..Len(s)
  <1>3. A = 0..Len(s)
    <2>1. A \in SUBSET (0..Len(s))
      OBVIOUS
    <2> HIDE DEF A
    <2> QED BY <1>1, <1>2, <2>1, UpTo
  <1>4. PICK w : w = [i \in 0..Len(s) |-> SelectStep(s, S, w, i)]
    BY <1>3
  <1>5. SelectedUpTo(s, S) = CHOOSE h : h = [i \in 0..Len(s) |-> SelectStep(s, S, h, i)]
    BY Zenon DEF SelectedUpTo, SelectStep
  <1> QED BY <1>4, <1>5

LEMMA FirstSelected == ASSUME NEW s, NEW S, NEW w PROVE SelectStep(s, S, w, 0) = <<>>
  BY Zenon DEF SelectStep

LEMMA NextSelected ==
    ASSUME NEW s, NEW S, NEW w, NEW m \in Nat, s[m + 1] \in S
    PROVE  SelectStep(s, S, w, m + 1) = Append(w[m], s[m + 1])
  <1>1. m + 1 # 0 /\ (m + 1) - 1 = m
    OBVIOUS
  <1> QED BY <1>1, Zenon DEF SelectStep

LEMMA NextSkipped ==
    ASSUME NEW s, NEW S, NEW w, NEW m \in Nat, s[m + 1] \notin S
    PROVE  SelectStep(s, S, w, m + 1) = w[m]
  <1>1. m + 1 # 0 /\ (m + 1) - 1 = m
    OBVIOUS
  <1> QED BY <1>1, Zenon DEF SelectStep

\* What a holds when the first n elements of s have been asked for S.
IsSelection(T, s, S, n, a) ==
    /\ a \in Seq(T)
    /\ \A j \in 1..Len(a) : \E i \in 1..n : a[j] = s[i] /\ s[i] \in S
    /\ \A i \in 1..n : s[i] \in S => \E j \in 1..Len(a) : a[j] = s[i]
    /\ IsInjective(s) => IsInjective(a)

LEMMA SelectedOf ==
    ASSUME NEW T, NEW s \in Seq(T), NEW S, NEW n \in 0..Len(s), NEW a, a = SelectedUpTo(s, S)[n]
    PROVE  IsSelection(T, s, S, n, a)
  <1> DEFINE w == SelectedUpTo(s, S)
             Good(m, b) ==
               /\ b \in Seq(T)
               /\ \A j \in 1..Len(b) : \E i \in 1..m : b[j] = s[i] /\ s[i] \in S
               /\ \A i \in 1..m : s[i] \in S => \E j \in 1..Len(b) : b[j] = s[i]
               /\ IsInjective(s) => \A j, k \in 1..Len(b) : b[j] = b[k] => j = k
             A == {m \in 0..Len(s) : Good(m, w[m])}
  <1>0. Len(s) \in Nat
    OBVIOUS
  <1>1. \A m \in 0..Len(s) : w[m] = SelectStep(s, S, w, m)
    <2>1. w = [i \in 0..Len(s) |-> SelectStep(s, S, w, i)]
      BY <1>0, SelectDefined
    <2> HIDE DEF w
    <2> QED BY <2>1
  <1> HIDE DEF w
  <1>2. 0 \in A
    <2>1. w[0] = <<>>
      <3>1. w[0] = SelectStep(s, S, w, 0)
        <4>1. 0 \in 0..Len(s)
          OBVIOUS
        <4> QED BY <1>1, <4>1
      <3> QED BY <3>1, FirstSelected, Zenon
    <2>2. <<>> \in Seq(T) /\ Len(<<>>) = 0
      OBVIOUS
    <2>3. Good(0, w[0])
      BY <2>1, <2>2
    <2> QED BY <1>0, <2>3
  <1>3. ASSUME NEW m \in 0..(Len(s) - 1), m \in A PROVE m + 1 \in A
    <2>1. Good(m, w[m]) /\ m + 1 \in 1..Len(s) /\ m \in Nat /\ m + 1 \in 0..Len(s)
      BY <1>0, <1>3
    <2>0. w[m + 1] = SelectStep(s, S, w, m + 1) /\ m \in Nat
      BY <1>1, <2>1
    <2>2. CASE s[m + 1] \notin S
      <3>1. w[m + 1] = w[m]
        BY <2>0, <2>2, NextSkipped, Zenon
      <3>2. \A i \in 1..(m + 1) : i \in 1..m \/ i = m + 1
        BY <2>1
      <3>3. \A i \in 1..m : i \in 1..(m + 1)
        BY <2>1
      <3>4. Good(m + 1, w[m])
        BY <2>1, <2>2, <3>2, <3>3
      <3>5. Good(m + 1, w[m + 1])
        BY <3>1, <3>4
      <3> QED BY <2>1, <3>5
    <2>3. CASE s[m + 1] \in S
      <3> DEFINE b == w[m]
                 c == Append(b, s[m + 1])
      <3>1. w[m + 1] = c
        BY <2>0, <2>3, NextSelected, Zenon
      <3>2. b \in Seq(T) /\ s[m + 1] \in T
        BY <2>1
      <3> HIDE DEF b
      <3>3. /\ c \in Seq(T) /\ Len(c) = Len(b) + 1 /\ c[Len(b) + 1] = s[m + 1]
            /\ \A j \in 1..Len(b) : c[j] = b[j]
        BY <3>2
      <3>4. Good(m, b)
        BY <2>1 DEF b
      <3> HIDE DEF c
      <3>5. ASSUME NEW j \in 1..Len(c) PROVE \E i \in 1..(m + 1) : c[j] = s[i] /\ s[i] \in S
        <4>1. CASE j = Len(b) + 1
          BY <2>1, <2>3, <3>3, <4>1
        <4>2. CASE j \in 1..Len(b)
          <5>1. PICK i \in 1..m : b[j] = s[i] /\ s[i] \in S
            BY <3>4, <4>2
          <5> QED BY <2>1, <3>3, <4>2, <5>1
        <4> QED BY <3>2, <3>3, <4>1, <4>2
      <3>6. \A i \in 1..(m + 1) : s[i] \in S => \E j \in 1..Len(c) : c[j] = s[i]
        <4> SUFFICES ASSUME NEW i \in 1..(m + 1), s[i] \in S PROVE \E j \in 1..Len(c) : c[j] = s[i]
          OBVIOUS
        <4>1. CASE i = m + 1
          BY <3>2, <3>3, <4>1
        <4>2. CASE i \in 1..m
          <5>1. PICK j \in 1..Len(b) : b[j] = s[i]
            BY <3>4, <4>2
          <5> QED BY <3>2, <3>3, <5>1
        <4> QED BY <2>1, <4>1, <4>2
      <3>7. ASSUME IsInjective(s), NEW j \in 1..Len(c), NEW k \in 1..Len(c), c[j] = c[k] PROVE j = k
        <4>1. \A h \in 1..Len(b) : b[h] # s[m + 1]
          <5> SUFFICES ASSUME NEW h \in 1..Len(b), b[h] = s[m + 1] PROVE FALSE
            OBVIOUS
          <5>1. PICK i \in 1..m : b[h] = s[i]
            BY <3>4
          <5>2. s[i] = s[m + 1] /\ i \in DOMAIN s /\ m + 1 \in DOMAIN s /\ i # m + 1
            BY <1>0, <2>1, <5>1
          <5> QED BY <3>7, <5>2 DEF IsInjective
        <4>2. CASE j \in 1..Len(b) /\ k \in 1..Len(b)
          BY <3>3, <3>4, <3>7, <4>2
        <4> QED BY <3>2, <3>3, <3>7, <4>1, <4>2
      <3>8. Good(m + 1, c)
        BY <3>3, <3>5, <3>6, <3>7
      <3> QED BY <2>1, <3>1, <3>8
    <2> QED BY <2>2, <2>3
  <1>4. A = 0..Len(s)
    <2>1. A \in SUBSET (0..Len(s))
      OBVIOUS
    <2> HIDE DEF A
    <2> QED BY <1>0, <1>2, <1>3, <2>1, UpTo
  <1>5. Good(n, a)
    BY <1>4 DEF w
  <1>6. DOMAIN a = 1..Len(a)
    BY <1>5
  <1> QED BY <1>5, <1>6, Zenon DEF IsInjective, IsSelection

LEMMA SelectedMeans ==
    ASSUME NEW T, NEW s \in Seq(T), NEW S
    PROVE  IsSelection(T, s, S, Len(s), Selected(s, S))
  <1>1. Len(s) \in 0..Len(s)
    OBVIOUS
  <1> QED BY <1>1, SelectedOf, Zenon DEF Selected

LEMMA SelectedLengths ==
    ASSUME NEW T, NEW s \in Seq(T), NEW S, NEW R, S \cap R = {}, ToSet(s) \subseteq S \cup R
    PROVE  Len(Selected(s, S)) + Len(Selected(s, R)) = Len(s)
  <1> DEFINE w == SelectedUpTo(s, S)
             v == SelectedUpTo(s, R)
             A == {m \in 0..Len(s) : Len(w[m]) + Len(v[m]) = m}
  <1>0. Len(s) \in Nat /\ \A m \in 1..Len(s) : (s[m] \in S /\ s[m] \notin R) \/ (s[m] \in R /\ s[m] \notin S)
    BY DEF ToSet
  <1>1. \A m \in 0..Len(s) : w[m] = SelectStep(s, S, w, m) /\ v[m] = SelectStep(s, R, v, m)
    <2>1. w = [i \in 0..Len(s) |-> SelectStep(s, S, w, i)]
      BY <1>0, SelectDefined
    <2>2. v = [i \in 0..Len(s) |-> SelectStep(s, R, v, i)]
      BY <1>0, SelectDefined
    <2> HIDE DEF w, v
    <2> QED BY <2>1, <2>2
  <1>2. \A m \in 0..Len(s) : w[m] \in Seq(T) /\ v[m] \in Seq(T)
    BY SelectedOf DEF IsSelection
  <1> HIDE DEF w, v
  <1>3. 0 \in A
    <2>1. w[0] = <<>> /\ v[0] = <<>>
      <3>1. w[0] = SelectStep(s, S, w, 0) /\ v[0] = SelectStep(s, R, v, 0)
        <4>1. 0 \in 0..Len(s)
          OBVIOUS
        <4> QED BY <1>1, <4>1
      <3> QED BY <3>1, FirstSelected, Zenon
    <2>2. Len(w[0]) + Len(v[0]) = 0
      BY <2>1
    <2>3. 0 \in 0..Len(s)
      OBVIOUS
    <2> QED BY <2>2, <2>3
  <1>4. ASSUME NEW m \in 0..(Len(s) - 1), m \in A PROVE m + 1 \in A
    <2>0. m \in Nat /\ m \in 0..Len(s) /\ m + 1 \in 0..Len(s) /\ m + 1 \in 1..Len(s)
      <3>1. Len(s) \in Nat
        OBVIOUS
      <3> HIDE DEF A
      <3> QED BY <3>1
    <2>1. Len(w[m]) + Len(v[m]) = m
      BY <1>4
    <2>2. /\ w[m + 1] = SelectStep(s, S, w, m + 1) /\ v[m + 1] = SelectStep(s, R, v, m + 1)
          /\ m \in Nat
      BY <1>1, <2>0
    <2>3. w[m] \in Seq(T) /\ v[m] \in Seq(T)
      BY <1>2, <2>0
    <2>4. /\ Len(Append(w[m], s[m + 1])) = Len(w[m]) + 1 /\ Len(w[m]) \in Nat
          /\ Len(Append(v[m], s[m + 1])) = Len(v[m]) + 1 /\ Len(v[m]) \in Nat
      BY <2>0, <2>1, <2>3
    <2>6. (s[m + 1] \in S /\ s[m + 1] \notin R) \/ (s[m + 1] \in R /\ s[m + 1] \notin S)
      <3> HIDE DEF A
      <3> QED BY <1>0, <2>0
    <2>5. Len(w[m + 1]) + Len(v[m + 1]) = m + 1
      <3>1. CASE s[m + 1] \in S /\ s[m + 1] \notin R
        <4>0. w[m + 1] = Append(w[m], s[m + 1])
          BY <2>2, <3>1, NextSelected, Zenon
        <4>1. v[m + 1] = v[m]
          <5>1. m \in Nat /\ s[m + 1] \notin R
            BY <2>2, <3>1, Zenon
          <5>2. SelectStep(s, R, v, m + 1) = v[m]
            BY <5>1, NextSkipped
          <5> QED BY <2>2, <5>2, Zenon
        <4>2. Len(w[m + 1]) = Len(w[m]) + 1 /\ Len(v[m + 1]) = Len(v[m])
          BY <2>4, <4>0, <4>1, Zenon
        <4>3. Len(w[m]) \in Nat /\ Len(v[m]) \in Nat
          BY <2>4
        <4> HIDE DEF A
        <4>4. m \in Nat
          BY <2>0
        <4>5. /\ (Len(w[m]) + 1) + Len(v[m]) = m + 1
              /\ Len(w[m]) + (Len(v[m]) + 1) = m + 1
          <5> DEFINE x == Len(w[m])
                     y == Len(v[m])
          <5>1. x \in Nat /\ y \in Nat /\ x + y = m
            BY <2>1, <4>3, Zenon
          <5> HIDE DEF x, y
          <5>2. (x + 1) + y = m + 1 /\ x + (y + 1) = m + 1
            BY <4>4, <5>1
          <5> QED BY <5>2, Zenon DEF x, y
        <4> QED BY <4>2, <4>5, Zenon
      <3>2. CASE s[m + 1] \in R /\ s[m + 1] \notin S
        <4>0. v[m + 1] = Append(v[m], s[m + 1])
          BY <2>2, <3>2, NextSelected, Zenon
        <4>1. w[m + 1] = w[m]
          <5>1. m \in Nat /\ s[m + 1] \notin S
            BY <2>2, <3>2, Zenon
          <5>2. SelectStep(s, S, w, m + 1) = w[m]
            BY <5>1, NextSkipped
          <5> QED BY <2>2, <5>2, Zenon
        <4>2. Len(v[m + 1]) = Len(v[m]) + 1 /\ Len(w[m + 1]) = Len(w[m])
          BY <2>4, <4>0, <4>1, Zenon
        <4>3. Len(w[m]) \in Nat /\ Len(v[m]) \in Nat
          BY <2>4
        <4> HIDE DEF A
        <4>4. m \in Nat
          BY <2>0
        <4>5. /\ (Len(w[m]) + 1) + Len(v[m]) = m + 1
              /\ Len(w[m]) + (Len(v[m]) + 1) = m + 1
          <5> DEFINE x == Len(w[m])
                     y == Len(v[m])
          <5>1. x \in Nat /\ y \in Nat /\ x + y = m
            BY <2>1, <4>3, Zenon
          <5> HIDE DEF x, y
          <5>2. (x + 1) + y = m + 1 /\ x + (y + 1) = m + 1
            BY <4>4, <5>1
          <5> QED BY <5>2, Zenon DEF x, y
        <4> QED BY <4>2, <4>5, Zenon
      <3> QED BY <2>6, <3>1, <3>2
    <2> QED BY <2>0, <2>5
  <1>5. A = 0..Len(s)
    <2>1. A \in SUBSET (0..Len(s))
      OBVIOUS
    <2> HIDE DEF A
    <2> QED BY <1>0, <1>3, <1>4, <2>1, UpTo
  <1>6. Len(w[Len(s)]) + Len(v[Len(s)]) = Len(s)
    <2>1. Len(s) \in 0..Len(s)
      OBVIOUS
    <2>2. Len(s) \in A
      <3> HIDE DEF A
      <3> QED BY <1>5, <2>1
    <2> QED BY <2>2
  <1> QED BY <1>6 DEF w, v, Selected

\* The parsers take every input file once, in an order of their own.
LEMMA ParsedOnce ==
    ASSUME NEW T, NEW s \in Seq(T), IsInjective(s), NEW p, p = ParseOrder(s)
    PROVE  p \in Seq(T) /\ Len(p) = Len(s) /\ IsInjective(p) /\ ToSet(p) = ToSet(s)
  <1> DEFINE R == {f \in ToSet(s) : GuessLang(f) = "Vyper"}
             S == ToSet(s) \ R
             a == Selected(s, S)
             b == Selected(s, R)
  <1>1. p = a \o b
    BY DEF ParseOrder
  <1>2. S \cap R = {} /\ S \cup R = ToSet(s)
    OBVIOUS
  <1> HIDE DEF R, S
  <1>4. /\ a \in Seq(T) /\ IsInjective(a)
        /\ \A j \in 1..Len(a) : \E i \in 1..Len(s) : a[j] = s[i] /\ s[i] \in S
        /\ \A i \in 1..Len(s) : s[i] \in S => \E j \in 1..Len(a) : a[j] = s[i]
    <2>1. IsSelection(T, s, S, Len(s), a)
      BY SelectedMeans, Zenon
    <2> HIDE DEF a
    <2> QED BY <2>1, Zenon DEF IsSelection
  <1>5. /\ b \in Seq(T) /\ IsInjective(b)
        /\ \A j \in 1..Len(b) : \E i \in 1..Len(s) : b[j] = s[i] /\ s[i] \in R
        /\ \A i \in 1..Len(s) : s[i] \in R => \E j \in 1..Len(b) : b[j] = s[i]
    <2>1. IsSelection(T, s, R, Len(s), b)
      BY SelectedMeans, Zenon
    <2> HIDE DEF b
    <2> QED BY <2>1, Zenon DEF IsSelection
  <1>6. Len(a) + Len(b) = Len(s)
    BY <1>2, SelectedLengths
  <1> HIDE DEF a, b
  <1>7. /\ p \in Seq(T) /\ Len(p) = Len(a) + Len(b) /\ Len(a) \in Nat /\ Len(b) \in Nat
        /\ \A i \in 1..Len(a) : p[i] = a[i]
        /\ \A i \in 1..Len(b) : p[Len(a) + i] = b[i]
    BY <1>1, <1>4, <1>5, ConcatProperties
  <1>8. \A i \in 1..Len(p) : i \in 1..Len(a) \/ (i - Len(a) \in 1..Len(b) /\ i = Len(a) + (i - Len(a)))
    BY <1>7
  <1>9. IsInjective(p)
    <2> SUFFICES ASSUME NEW i \in 1..Len(p), NEW j \in 1..Len(p), p[i] = p[j] PROVE i = j
      BY <1>7 DEF IsInjective
    <2>1. \A x \in 1..Len(a) : \A y \in 1..Len(b) : a[x] # b[y]
      BY <1>2, <1>4, <1>5
    <2>2. CASE i \in 1..Len(a) /\ j \in 1..Len(a)
      <3>1. a[i] = a[j] /\ DOMAIN a = 1..Len(a)
        BY <1>4, <1>7, <2>2
      <3> QED BY <1>4, <2>2, <3>1, Zenon DEF IsInjective
    <2>3. CASE i - Len(a) \in 1..Len(b) /\ j - Len(a) \in 1..Len(b)
      <3>1. i - Len(a) = j - Len(a)
        <4>1. b[i - Len(a)] = b[j - Len(a)]
          BY <1>7, <1>8, <2>3
        <4> QED BY <1>5, <2>3, <4>1 DEF IsInjective
      <3> QED BY <1>7, <3>1
    <2>4. ASSUME NEW x \in 1..Len(a), NEW y \in 1..Len(p), y - Len(a) \in 1..Len(b) PROVE p[x] # p[y]
      <3>1. p[x] = a[x] /\ p[y] = b[y - Len(a)]
        BY <1>7, <1>8, <2>4
      <3> QED BY <2>1, <2>4, <3>1
    <2> QED BY <1>8, <2>2, <2>3, <2>4
  <1>10. ToSet(p) = ToSet(s)
    <2>1. ASSUME NEW x \in ToSet(p) PROVE x \in ToSet(s)
      <3>1. PICK i \in 1..Len(p) : x = p[i]
        BY <1>7 DEF ToSet
      <3>2. CASE i \in 1..Len(a)
        <4>1. PICK k \in 1..Len(s) : a[i] = s[k]
          BY <1>4, <3>2
        <4> QED BY <1>7, <3>1, <3>2, <4>1 DEF ToSet
      <3>3. CASE i - Len(a) \in 1..Len(b)
        <4>1. PICK k \in 1..Len(s) : b[i - Len(a)] = s[k]
          BY <1>5, <3>3
        <4>2. p[i] = s[k]
          BY <1>7, <1>8, <3>3, <4>1
        <4> QED BY <3>1, <4>2 DEF ToSet
      <3> QED BY <1>8, <3>2, <3>3
    <2>2. ASSUME NEW x \in ToSet(s) PROVE x \in ToSet(p)
      <3>1. PICK i \in 1..Len(s) : x = s[i]
        BY DEF ToSet
      <3>2. s[i] \in S \/ s[i] \in R
        BY <1>2, <2>2, <3>1
      <3>3. CASE s[i] \in S
        <4>1. PICK j \in 1..Len(a) : a[j] = s[i]
          BY <1>4, <3>3
        <4>2. j \in DOMAIN p /\ p[j] = x
          BY <1>7, <3>1, <4>1
        <4> QED BY <4>2 DEF ToSet
      <3>4. CASE s[i] \in R
        <4>1. PICK j \in 1..Len(b) : b[j] = s[i]
          BY <1>5, <3>4
        <4>2. Len(a) + j \in DOMAIN p /\ p[Len(a) + j] = x
          BY <1>7, <3>1, <4>1
        <4> QED BY <4>2 DEF ToSet
      <3> QED BY <3>2, <3>3, <3>4
    <2> QED BY <2>1, <2>2
  <1> QED BY <1>6, <1>7, <1>9, <1>10

FollowStep(start, w, i) ==
    IF i = 0 THEN start ELSE w[i - 1] \cup UNION {ToSet(res.edges[j]) : j \in w[i - 1]}

LEMMA FollowDefined ==
    ASSUME NEW start, Len(res.nodes) \in Nat
    PROVE  FollowedIn(start) = [i \in 0..Len(res.nodes) |-> FollowStep(start, FollowedIn(start), i)]
  <1> DEFINE A == {n \in 0..Len(res.nodes) : \E w : w = [i \in 0..n |-> FollowStep(start, w, i)]}
  <1>1. 0 \in A
    <2> DEFINE w == [i \in 0..0 |-> start]
    <2>1. w = [i \in 0..0 |-> FollowStep(start, w, i)]
      BY DEF FollowStep
    <2> HIDE DEF w
    <2> QED BY <2>1
  <1>2. ASSUME NEW n \in 0..(Len(res.nodes) - 1), n \in A PROVE n + 1 \in A
    <2>1. PICK w : w = [i \in 0..n |-> FollowStep(start, w, i)]
      BY <1>2
    <2> DEFINE v == [i \in 0..(n + 1) |-> IF i <= n THEN w[i] ELSE FollowStep(start, w, n + 1)]
               u == [i \in 0..(n + 1) |-> FollowStep(start, v, i)]
    <2>2. ASSUME NEW i \in 0..(n + 1) PROVE v[i] = u[i]
      <3>1. CASE i = 0
        BY <2>1, <3>1 DEF FollowStep
      <3>2. CASE i # 0
        <4>1. v[i - 1] = w[i - 1]
          BY <3>2
        <4>2. FollowStep(start, v, i) = FollowStep(start, w, i)
          <5> HIDE DEF v
          <5> QED BY <3>2, <4>1 DEF FollowStep
        <4>3. v[i] = FollowStep(start, w, i)
          <5>1. CASE i <= n
            BY <2>1, <5>1
          <5>2. CASE i = n + 1
            BY <5>2
          <5> QED BY <5>1, <5>2
        <4> QED BY <4>2, <4>3
      <3> QED BY <3>1, <3>2
    <2>3. DOMAIN v = 0..(n + 1) /\ DOMAIN u = 0..(n + 1)
      OBVIOUS
    <2>4. v = [i \in DOMAIN v |-> v[i]] /\ u = [i \in DOMAIN u |-> u[i]]
      OBVIOUS
    <2>5. v = u
      <3> HIDE DEF u, v
      <3> QED BY <2>2, <2>3, <2>4
    <2>6. v = [i \in 0..(n + 1) |-> FollowStep(start, v, i)]
      <3> HIDE DEF v
      <3> QED BY <2>5
    <2> HIDE DEF v
    <2> QED BY <2>6, n + 1 \in 0..Len(res.nodes)
  <1>3. A = 0..Len(res.nodes)
    <2>1. A \in SUBSET (0..Len(res.nodes))
      OBVIOUS
    <2> HIDE DEF A
    <2> QED BY <1>1, <1>2, <2>1, UpTo
  <1>4. PICK w : w = [i \in 0..Len(res.nodes) |-> FollowStep(start, w, i)]
    BY <1>3
  <1>5. FollowedIn(start) = CHOOSE h : h = [i \in 0..Len(res.nodes) |-> FollowStep(start, h, i)]
    BY Zenon DEF FollowedIn, FollowStep
  <1> QED BY <1>4, <1>5

AddStep(acc, f, imports, w, i) == IF i = 0 THEN acc ELSE AddImport(w[i - 1], f, imports[i])

LEMMA AddDefined ==
    ASSUME NEW acc, NEW f, NEW imports, Len(imports) \in Nat
    PROVE  AddedUpTo(acc, f, imports) = [i \in 0..Len(imports) |-> AddStep(acc, f, imports, AddedUpTo(acc, f, imports), i)]
  <1> DEFINE A == {n \in 0..Len(imports) : \E w : w = [i \in 0..n |-> AddStep(acc, f, imports, w, i)]}
  <1>1. 0 \in A
    <2> DEFINE w == [i \in 0..0 |-> acc]
    <2>1. w = [i \in 0..0 |-> AddStep(acc, f, imports, w, i)]
      BY DEF AddStep
    <2> HIDE DEF w
    <2> QED BY <2>1
  <1>2. ASSUME NEW n \in 0..(Len(imports) - 1), n \in A PROVE n + 1 \in A
    <2>1. PICK w : w = [i \in 0..n |-> AddStep(acc, f, imports, w, i)]
      BY <1>2
    <2> DEFINE v == [i \in 0..(n + 1) |-> IF i <= n THEN w[i] ELSE AddStep(acc, f, imports, w, n + 1)]
               u == [i \in 0..(n + 1) |-> AddStep(acc, f, imports, v, i)]
    <2>2. ASSUME NEW i \in 0..(n + 1) PROVE v[i] = u[i]
      <3>1. CASE i = 0
        BY <2>1, <3>1 DEF AddStep
      <3>2. CASE i # 0
        <4>1. v[i - 1] = w[i - 1]
          BY <3>2
        <4>2. AddStep(acc, f, imports, v, i) = AddStep(acc, f, imports, w, i)
          <5> HIDE DEF v
          <5> QED BY <3>2, <4>1 DEF AddStep
        <4>3. v[i] = AddStep(acc, f, imports, w, i)
          <5>1. CASE i <= n
            BY <2>1, <5>1
          <5>2. CASE i = n + 1
            BY <5>2
          <5> QED BY <5>1, <5>2
        <4> QED BY <4>2, <4>3
      <3> QED BY <3>1, <3>2
    <2>3. DOMAIN v = 0..(n + 1) /\ DOMAIN u = 0..(n + 1)
      OBVIOUS
    <2>4. v = [i \in DOMAIN v |-> v[i]] /\ u = [i \in DOMAIN u |-> u[i]]
      OBVIOUS
    <2>5. v = u
      <3> HIDE DEF u, v
      <3> QED BY <2>2, <2>3, <2>4
    <2>6. v = [i \in 0..(n + 1) |-> AddStep(acc, f, imports, v, i)]
      <3> HIDE DEF v
      <3> QED BY <2>5
    <2> HIDE DEF v
    <2> QED BY <2>6, n + 1 \in 0..Len(imports)
  <1>3. A = 0..Len(imports)
    <2>1. A \in SUBSET (0..Len(imports))
      OBVIOUS
    <2> HIDE DEF A
    <2> QED BY <1>1, <1>2, <2>1, UpTo
  <1>4. PICK w : w = [i \in 0..Len(imports) |-> AddStep(acc, f, imports, w, i)]
    BY <1>3
  <1>5. AddedUpTo(acc, f, imports) = CHOOSE h : h = [i \in 0..Len(imports) |-> AddStep(acc, f, imports, h, i)]
    BY Zenon DEF AddedUpTo, AddStep
  <1> QED BY <1>4, <1>5

-----------------------------------------------------------------------------
(* The graph                                                               *)

\* What the parsers say of file f in project w, and what becomes of an import of it.
ImportsIn(w, f) ==
    IF w.lang[f] = "Vyper" THEN ResolveImports(w.fs, w.paths, f, w.imports[f])
    ELSE [ok |-> TRUE, files |-> w.imports[f], include |-> {}]
TargetIn(w, f, import) == ResolveImport(w.fs, w.paths, Parent(f), import).file
IsLost(w, f, import) ==
    LET t == TargetIn(w, f, import)
    IN t = NoPath \/ t \notin DOMAIN w.imports \/ GuessLang(t) = Unspecified

Found(w, f, imports, n) == {i \in 1..n : ~IsLost(w, f, imports[i])}

\* After n imports of f, from an index i0 whose last elements, those after the
\* first v, are the queue.
Grown(w, f, imports, i0, m0, v, n, queue, index, out, missing) ==
    /\ index \in Seq(DOMAIN w.imports) /\ IsInjective(index)
    /\ Len(i0) <= Len(index) /\ \A k \in 1..Len(i0) : index[k] = i0[k]
    /\ queue \in Seq(DOMAIN w.imports) /\ Len(index) = v + Len(queue)
    /\ \A j \in 1..Len(queue) : queue[j] = index[v + j]
    /\ out \in Seq(1..Len(index)) /\ Len(out) = Cardinality(Found(w, f, imports, n))
    /\ \A j \in 1..Len(out) : \E i \in 1..n : index[out[j]] = TargetIn(w, f, imports[i])
    /\ m0 \subseteq missing
    /\ \A p \in missing : p \in m0 \/ \E i \in 1..n : p = <<imports[i], f>> /\ IsLost(w, f, imports[i])
    /\ \A i \in 1..n : IsLost(w, f, imports[i]) => <<imports[i], f>> \in missing
    /\ \A k \in 1..Len(index) : k > Len(i0) => \E j \in 1..Len(out) : out[j] = k

LEMMA FoundStep ==
    ASSUME NEW w, NEW f, NEW imports, NEW n \in Nat
    PROVE  /\ Cardinality(Found(w, f, imports, 0)) = 0
           /\ Cardinality(Found(w, f, imports, n)) \in Nat
           /\ IsLost(w, f, imports[n + 1]) => Found(w, f, imports, n + 1) = Found(w, f, imports, n)
           /\ ~IsLost(w, f, imports[n + 1]) =>
                Cardinality(Found(w, f, imports, n + 1)) = Cardinality(Found(w, f, imports, n)) + 1
  <1> DEFINE a == Found(w, f, imports, n)
             b == Found(w, f, imports, n + 1)
  <1>1. Found(w, f, imports, 0) = {}
    BY DEF Found
  <1>2. IsFiniteSet(1..n) /\ a \subseteq 1..n /\ n + 1 \notin 1..n
    BY FS_Interval DEF Found
  <1>3. IsFiniteSet(a) /\ n + 1 \notin a
    BY <1>2, FS_Subset
  <1>4. IsLost(w, f, imports[n + 1]) => b = a
    BY DEF Found
  <1>5. ~IsLost(w, f, imports[n + 1]) => b = a \cup {n + 1}
    BY DEF Found
  <1> HIDE DEF a, b
  <1>6. Cardinality(a) \in Nat /\ Cardinality(a \cup {n + 1}) = Cardinality(a) + 1
    BY <1>3, FS_CardinalityType, FS_AddElement
  <1>7. Cardinality({}) = 0
    BY FS_EmptySet
  <1>8. ~IsLost(w, f, imports[n + 1]) => Cardinality(b) = Cardinality(a) + 1
    BY <1>5, <1>6
  <1> QED BY <1>1, <1>4, <1>6, <1>7, <1>8 DEF a, b

LEMMA GrownLost ==
    ASSUME NEW w, NEW f, NEW imports, NEW i0 \in Seq(DOMAIN w.imports), NEW m0, NEW v \in Nat, NEW n \in Nat,
           NEW queue, NEW index, NEW out, NEW missing,
           Grown(w, f, imports, i0, m0, v, n, queue, index, out, missing),
           IsLost(w, f, imports[n + 1])
    PROVE  Grown(w, f, imports, i0, m0, v, n + 1, queue, index, out, missing \cup {<<imports[n + 1], f>>})
  <1> DEFINE more == missing \cup {<<imports[n + 1], f>>}
  <1>1. \A i \in 1..(n + 1) : i \in 1..n \/ i = n + 1
    OBVIOUS
  <1>2. \A i \in 1..n : i \in 1..(n + 1)
    OBVIOUS
  <1>3. n + 1 \in 1..(n + 1)
    OBVIOUS
  <1>4. Found(w, f, imports, n + 1) = Found(w, f, imports, n)
    BY FoundStep
  <1>5. /\ m0 \subseteq missing
        /\ \A p \in missing : p \in m0 \/ \E i \in 1..n : p = <<imports[i], f>> /\ IsLost(w, f, imports[i])
        /\ \A i \in 1..n : IsLost(w, f, imports[i]) => <<imports[i], f>> \in missing
        /\ \A j \in 1..Len(out) : \E i \in 1..n : index[out[j]] = TargetIn(w, f, imports[i])
    BY Zenon DEF Grown
  <1>6. m0 \subseteq more
    BY <1>5
  <1>7. \A p \in more : p \in m0 \/ \E i \in 1..(n + 1) : p = <<imports[i], f>> /\ IsLost(w, f, imports[i])
    BY <1>2, <1>3, <1>5, Zenon
  <1>8. \A i \in 1..(n + 1) : IsLost(w, f, imports[i]) => <<imports[i], f>> \in more
    BY <1>1, <1>5, Zenon
  <1>9. \A j \in 1..Len(out) : \E i \in 1..(n + 1) : index[out[j]] = TargetIn(w, f, imports[i])
    BY <1>2, <1>5, Zenon
  <1> HIDE DEF more
  <1>10. Grown(w, f, imports, i0, m0, v, n + 1, queue, index, out, more)
    BY <1>4, <1>6, <1>7, <1>8, <1>9, Zenon DEF Grown
  <1> QED BY <1>10 DEF more

LEMMA GrownKnown ==
    ASSUME NEW w, NEW f, NEW imports, NEW i0 \in Seq(DOMAIN w.imports), NEW m0, NEW v \in Nat, NEW n \in Nat,
           NEW queue, NEW index, NEW out, NEW missing,
           Grown(w, f, imports, i0, m0, v, n, queue, index, out, missing),
           ~IsLost(w, f, imports[n + 1]),
           NEW h \in 1..Len(index), index[h] = TargetIn(w, f, imports[n + 1])
    PROVE  Grown(w, f, imports, i0, m0, v, n + 1, queue, index, Append(out, h), missing)
  <1> DEFINE more == Append(out, h)
  <1>1. \A i \in 1..(n + 1) : i \in 1..n \/ i = n + 1
    OBVIOUS
  <1>2. \A i \in 1..n : i \in 1..(n + 1)
    OBVIOUS
  <1>3. n + 1 \in 1..(n + 1)
    OBVIOUS
  <1>4. /\ \A p \in missing : p \in m0 \/ \E i \in 1..n : p = <<imports[i], f>> /\ IsLost(w, f, imports[i])
        /\ \A i \in 1..n : IsLost(w, f, imports[i]) => <<imports[i], f>> \in missing
        /\ \A j \in 1..Len(out) : \E i \in 1..n : index[out[j]] = TargetIn(w, f, imports[i])
        /\ \A k \in 1..Len(index) : k > Len(i0) => \E j \in 1..Len(out) : out[j] = k
    BY Zenon DEF Grown
  <1>5. out \in Seq(1..Len(index)) /\ Len(out) = Cardinality(Found(w, f, imports, n))
    BY Zenon DEF Grown
  <1>6. /\ more \in Seq(1..Len(index)) /\ Len(more) = Len(out) + 1 /\ Len(out) \in Nat
        /\ \A j \in 1..Len(out) : more[j] = out[j]
        /\ more[Len(out) + 1] = h
    BY <1>5
  <1> HIDE DEF more
  <1>7. \A j \in 1..Len(more) : j \in 1..Len(out) \/ j = Len(out) + 1
    BY <1>6
  <1>8. \A j \in 1..Len(out) : j \in 1..Len(more)
    BY <1>6
  <1>9. Len(more) = Cardinality(Found(w, f, imports, n + 1))
    <2>1. Cardinality(Found(w, f, imports, n + 1)) = Cardinality(Found(w, f, imports, n)) + 1
      BY FoundStep
    <2> QED BY <1>5, <1>6, <2>1, Zenon
  <1>10. \A p \in missing : p \in m0 \/ \E i \in 1..(n + 1) : p = <<imports[i], f>> /\ IsLost(w, f, imports[i])
    BY <1>2, <1>4, Zenon
  <1>11. \A i \in 1..(n + 1) : IsLost(w, f, imports[i]) => <<imports[i], f>> \in missing
    BY <1>1, <1>4, Zenon
  <1>12. ASSUME NEW j \in 1..Len(more) PROVE \E i \in 1..(n + 1) : index[more[j]] = TargetIn(w, f, imports[i])
    <2>1. CASE j \in 1..Len(out)
      <3>1. PICK i \in 1..n : index[out[j]] = TargetIn(w, f, imports[i])
        BY <1>4, <2>1
      <3>2. more[j] = out[j] /\ i \in 1..(n + 1)
        BY <1>2, <1>6, <2>1, <3>1
      <3> QED BY <3>1, <3>2, Zenon
    <2>2. CASE j = Len(out) + 1
      <3>1. more[j] = h
        BY <1>6, <2>2
      <3> QED BY <1>3, <3>1, Zenon
    <2> QED BY <1>7, <2>1, <2>2
  <1>13. \A k \in 1..Len(index) : k > Len(i0) => \E j \in 1..Len(more) : more[j] = k
    BY <1>4, <1>6, <1>8, Zenon
  <1> QED BY <1>6, <1>9, <1>10, <1>11, <1>12, <1>13, Zenon DEF Grown, more

LEMMA GrownNew ==
    ASSUME NEW w, NEW f, NEW imports, NEW i0 \in Seq(DOMAIN w.imports), NEW m0, NEW v \in Nat, NEW n \in Nat,
           NEW queue, NEW index, NEW out, NEW missing,
           Grown(w, f, imports, i0, m0, v, n, queue, index, out, missing),
           ~IsLost(w, f, imports[n + 1]),
           NEW t, t = TargetIn(w, f, imports[n + 1]), t \notin ToSet(index)
    PROVE  Grown(w, f, imports, i0, m0, v, n + 1, Append(queue, t), Append(index, t), Append(out, Len(index) + 1), missing)
  <1> DEFINE h == Len(index) + 1
             x == Append(index, t)
             q == Append(queue, t)
             more == Append(out, h)
             S == DOMAIN w.imports
  <1>0. t \in S
    BY Zenon DEF IsLost
  <1>1. \A i \in 1..(n + 1) : i \in 1..n \/ i = n + 1
    OBVIOUS
  <1>2. \A i \in 1..n : i \in 1..(n + 1)
    OBVIOUS
  <1>3. n + 1 \in 1..(n + 1)
    OBVIOUS
  <1>4. /\ \A p \in missing : p \in m0 \/ \E i \in 1..n : p = <<imports[i], f>> /\ IsLost(w, f, imports[i])
        /\ \A i \in 1..n : IsLost(w, f, imports[i]) => <<imports[i], f>> \in missing
        /\ \A j \in 1..Len(out) : \E i \in 1..n : index[out[j]] = TargetIn(w, f, imports[i])
        /\ \A k \in 1..Len(index) : k > Len(i0) => \E j \in 1..Len(out) : out[j] = k
        /\ m0 \subseteq missing
    BY Zenon DEF Grown
  <1>5. /\ out \in Seq(1..Len(index)) /\ Len(out) = Cardinality(Found(w, f, imports, n))
        /\ index \in Seq(S) /\ IsInjective(index)
        /\ Len(i0) <= Len(index)
        /\ \A k \in 1..Len(i0) : index[k] = i0[k]
        /\ queue \in Seq(S) /\ Len(index) = v + Len(queue)
        /\ \A j \in 1..Len(queue) : queue[j] = index[v + j]
    BY Zenon DEF Grown
  <1> HIDE DEF S
  <1>6. /\ Len(index) \in Nat /\ Len(out) \in Nat /\ Len(queue) \in Nat /\ h \in Nat
        /\ \A j \in 1..Len(out) : out[j] \in 1..Len(index)
    BY <1>5
  <1>7. /\ x \in Seq(S) /\ Len(x) = h /\ x[h] = t
        /\ \A k \in 1..Len(index) : x[k] = index[k]
    BY <1>0, <1>5
  <1>8. /\ q \in Seq(S) /\ Len(q) = Len(queue) + 1 /\ q[Len(queue) + 1] = t
        /\ \A k \in 1..Len(queue) : q[k] = queue[k]
    BY <1>0, <1>5
  <1>9. /\ more \in Seq(1..h) /\ Len(more) = Len(out) + 1 /\ more[Len(out) + 1] = h
        /\ \A j \in 1..Len(out) : more[j] = out[j]
    <2>1. out \in Seq(1..h) /\ h \in 1..h
      BY <1>5, <1>6
    <2> QED BY <2>1
  <1>10. \A k \in 1..Len(index) : index[k] # t /\ k \in DOMAIN index
    <2>1. DOMAIN index = 1..Len(index)
      BY <1>5
    <2>2. \A k \in DOMAIN index : index[k] \in ToSet(index)
      BY Zenon DEF ToSet
    <2> QED BY <2>1, <2>2
  <1>11. \A k \in 1..h : k \in 1..Len(index) \/ k = h
    BY <1>6
  <1> HIDE DEF x, q, more
  <1>12. IsInjective(x)
    <2> SUFFICES ASSUME NEW a \in 1..h, NEW b \in 1..h, x[a] = x[b] PROVE a = b
      <3>1. DOMAIN x = 1..h
        BY <1>7
      <3> QED BY <3>1, Zenon DEF IsInjective
    <2>1. CASE a \in 1..Len(index) /\ b \in 1..Len(index)
      <3>1. index[a] = index[b] /\ a \in DOMAIN index /\ b \in DOMAIN index
        BY <1>7, <1>10, <2>1
      <3> QED BY <1>5, <3>1, Zenon DEF IsInjective
    <2>2. CASE a \in 1..Len(index) /\ b = h
      BY <1>7, <1>10, <2>2
    <2>3. CASE b \in 1..Len(index) /\ a = h
      BY <1>7, <1>10, <2>3
    <2> QED BY <1>11, <2>1, <2>2, <2>3
  <1>13. Len(i0) <= Len(x) /\ \A k \in 1..Len(i0) : x[k] = i0[k]
    <2>1. Len(i0) \in Nat
      OBVIOUS
    <2>2. \A k \in 1..Len(i0) : k \in 1..Len(index)
      BY <1>5, <1>6, <2>1
    <2>3. Len(i0) <= h
      BY <1>5, <1>6, <2>1
    <2> QED BY <1>5, <1>7, <2>2, <2>3
  <1>14. Len(x) = v + Len(q) /\ \A j \in 1..Len(q) : q[j] = x[v + j]
    <2>1. Len(x) = v + Len(q)
      BY <1>5, <1>6, <1>7, <1>8
    <2>2. ASSUME NEW j \in 1..Len(q) PROVE q[j] = x[v + j]
      <3>1. CASE j \in 1..Len(queue)
        <4>1. v + j \in 1..Len(index)
          BY <1>5, <1>6, <3>1
        <4> QED BY <1>5, <1>7, <1>8, <3>1, <4>1
      <3>2. CASE j = Len(queue) + 1
        <4>1. v + j = h
          BY <1>5, <1>6, <3>2
        <4> QED BY <1>7, <1>8, <3>2, <4>1
      <3> QED BY <1>6, <1>8, <3>1, <3>2
    <2> QED BY <2>1, <2>2
  <1>15. more \in Seq(1..Len(x)) /\ Len(more) = Cardinality(Found(w, f, imports, n + 1))
    <2>1. Cardinality(Found(w, f, imports, n + 1)) = Cardinality(Found(w, f, imports, n)) + 1
      BY FoundStep
    <2> QED BY <1>5, <1>7, <1>9, <2>1, Zenon
  <1>16. \A p \in missing : p \in m0 \/ \E i \in 1..(n + 1) : p = <<imports[i], f>> /\ IsLost(w, f, imports[i])
    BY <1>2, <1>4, Zenon
  <1>17. \A i \in 1..(n + 1) : IsLost(w, f, imports[i]) => <<imports[i], f>> \in missing
    BY <1>1, <1>4, Zenon
  <1>18. ASSUME NEW j \in 1..Len(more) PROVE \E i \in 1..(n + 1) : x[more[j]] = TargetIn(w, f, imports[i])
    <2>1. CASE j \in 1..Len(out)
      <3>1. PICK i \in 1..n : index[out[j]] = TargetIn(w, f, imports[i])
        BY <1>4, <2>1
      <3>2. more[j] = out[j] /\ x[out[j]] = index[out[j]] /\ i \in 1..(n + 1)
        BY <1>2, <1>6, <1>7, <1>9, <2>1, <3>1
      <3> QED BY <3>1, <3>2, Zenon
    <2>2. CASE j = Len(out) + 1
      <3>1. x[more[j]] = t
        BY <1>7, <1>9, <2>2
      <3> QED BY <1>3, <3>1, Zenon
    <2> QED BY <1>6, <1>9, <2>1, <2>2
  <1>19. ASSUME NEW k \in 1..Len(x), k > Len(i0) PROVE \E j \in 1..Len(more) : more[j] = k
    <2>1. CASE k \in 1..Len(index)
      <3>1. PICK j \in 1..Len(out) : out[j] = k
        BY <1>4, <1>19, <2>1
      <3> QED BY <1>6, <1>9, <3>1
    <2>2. CASE k = h
      BY <1>6, <1>9, <2>2
    <2> QED BY <1>7, <1>11, <2>1, <2>2
  <1>20. x \in Seq(DOMAIN w.imports) /\ q \in Seq(DOMAIN w.imports)
    BY <1>7, <1>8 DEF S
  <1>21. m0 \subseteq missing
    BY <1>4
  <1>22. Grown(w, f, imports, i0, m0, v, n + 1, q, x, more, missing)
    BY <1>12, <1>13, <1>14, <1>15, <1>16, <1>17, <1>18, <1>19, <1>20, <1>21, Zenon DEF Grown
  <1> QED BY <1>22 DEF x, q, more, h

AccFields == {"queue", "index", "out", "missing", "include"}
IsAcc(a) == a = [x \in AccFields |-> a[x]]

LEMMA SetAcc ==
    ASSUME NEW q, IsAcc(q), NEW a \in AccFields, NEW x, NEW r, r = [q EXCEPT ![a] = x]
    PROVE  IsAcc(r) /\ r[a] = x /\ \A b \in AccFields : b # a => r[b] = q[b]
  BY DEF IsAcc

\* One import: noted as lost, or an edge to a known file, or to a new one.
LEMMA AddedEdge ==
    ASSUME NEW a, IsAcc(a), NEW t, NEW b, b = AddNode(a, t)
    PROVE  /\ IsAcc(b) /\ b.missing = a.missing
           /\ t \in ToSet(a.index) =>
                /\ b.queue = a.queue /\ b.index = a.index
                /\ b.out = Append(a.out, IndexOf(a.index, t))
           /\ t \notin ToSet(a.index) =>
                /\ b.queue = Append(a.queue, t) /\ b.index = Append(a.index, t)
                /\ b.out = Append(a.out, Len(a.index) + 1)
  <1>1. CASE t \in ToSet(a.index)
    <2> DEFINE y == Append(a.out, IndexOf(a.index, t))
    <2>1. b = [a EXCEPT !.out = y]
      BY <1>1, Zenon DEF AddNode
    <2> HIDE DEF y
    <2>2. IsAcc(b) /\ b.out = y /\ \A x \in AccFields : x # "out" => b[x] = a[x]
      BY <2>1, SetAcc DEF AccFields
    <2> QED BY <1>1, <2>2 DEF AccFields, y
  <1>2. CASE t \notin ToSet(a.index)
    <2> DEFINE y == Append(a.out, Len(a.index) + 1)
               z == Append(a.index, t)
               c == [a EXCEPT !.out = y]
               d == [c EXCEPT !.index = z]
               e == [d EXCEPT !.queue = Append(d.queue, t)]
    <2>1. b = e
      BY <1>2, Zenon DEF AddNode
    <2> HIDE DEF c, d, e, y, z
    <2>2. IsAcc(c) /\ c.out = y /\ \A x \in AccFields : x # "out" => c[x] = a[x]
      BY SetAcc DEF AccFields, c
    <2>3. IsAcc(d) /\ d.index = z /\ \A x \in AccFields : x # "index" => d[x] = c[x]
      BY <2>2, SetAcc DEF AccFields, d
    <2>4. IsAcc(e) /\ e.queue = Append(d.queue, t) /\ \A x \in AccFields : x # "queue" => e[x] = d[x]
      <3> DEFINE g == Append(d.queue, t)
      <3>1. e = [d EXCEPT !.queue = g]
        BY DEF e
      <3> HIDE DEF g
      <3>2. IsAcc(e) /\ e.queue = g /\ \A x \in AccFields : x # "queue" => e[x] = d[x]
        BY <2>3, <3>1, SetAcc DEF AccFields
      <3> QED BY <3>2 DEF g
    <2>5. d.queue = a.queue
      BY <2>2, <2>3 DEF AccFields
    <2>6. e.index = z /\ e.out = y /\ e.missing = a.missing
      BY <2>2, <2>3, <2>4 DEF AccFields
    <2>7. b.queue = Append(a.queue, t)
      BY <2>1, <2>4, <2>5
    <2> QED BY <1>2, <2>1, <2>4, <2>6, <2>7 DEF y, z
  <1> QED BY <1>1, <1>2

LEMMA ImportAdded ==
    ASSUME NEW f, NEW imports, NEW i0 \in Seq(DOMAIN proj.imports), NEW m0, NEW v \in Nat, NEW n \in Nat,
           NEW a, IsAcc(a), Grown(proj, f, imports, i0, m0, v, n, a.queue, a.index, a.out, a.missing),
           NEW b, b = AddImport(a, f, imports[n + 1])
    PROVE  IsAcc(b) /\ Grown(proj, f, imports, i0, m0, v, n + 1, b.queue, b.index, b.out, b.missing)
  <1> DEFINE i == imports[n + 1]
             r == ResolveImport(proj.fs, proj.paths, Parent(f), i)
             more == a.include \cup ({r.include} \ {NoPath})
  <1>1. b = AddResolved(a, f, i, r)
    BY Zenon DEF AddImport
  <1>2. TargetIn(proj, f, i) = r.file
    BY Zenon DEF TargetIn
  <1>3. IsLost(proj, f, i) <=>
          (r.file = NoPath \/ r.file \notin DOMAIN proj.imports \/ GuessLang(r.file) = Unspecified)
    BY <1>2, Zenon DEF IsLost
  <1> HIDE DEF r
  <1>4. CASE IsLost(proj, f, i)
    <2> DEFINE m == a.missing \cup {<<i, f>>}
               c == [a EXCEPT !.missing = m]
               d == [c EXCEPT !.include = c.include \cup ({r.include} \ {NoPath})]
    <2>1. b = d
      BY <1>1, <1>3, <1>4, Zenon DEF AddResolved
    <2> HIDE DEF c, d, m, i, more
    <2>2. IsAcc(c) /\ c.missing = m /\ \A x \in AccFields : x # "missing" => c[x] = a[x]
      BY SetAcc DEF AccFields, c
    <2>3. IsAcc(d) /\ \A x \in AccFields : x # "include" => d[x] = c[x]
      <3> DEFINE g == c.include \cup ({r.include} \ {NoPath})
      <3>1. d = [c EXCEPT !.include = g]
        BY DEF d
      <3>2. IsAcc(c) /\ "include" \in AccFields
        BY <2>2 DEF AccFields
      <3> HIDE DEF g
      <3>3. IsAcc(d) /\ d["include"] = g /\ \A x \in AccFields : x # "include" => d[x] = c[x]
        BY <3>1, <3>2 DEF IsAcc
      <3> QED BY <3>3
    <2>4. IsAcc(b) /\ b.missing = m /\ b.queue = a.queue /\ b.index = a.index /\ b.out = a.out
      BY <2>1, <2>2, <2>3 DEF AccFields
    <2>5. Grown(proj, f, imports, i0, m0, v, n + 1, a.queue, a.index, a.out, m)
      BY <1>4, GrownLost, Zenon DEF m, i
    <2> QED BY <2>4, <2>5, Zenon
  <1>5. CASE ~IsLost(proj, f, i)
    <2> DEFINE c == [a EXCEPT !.include = more]
    <2>1. b = AddNode(c, r.file)
      BY <1>1, <1>3, <1>5, Zenon DEF AddResolved
    <2> HIDE DEF c, i, more
    <2>2. IsAcc(c) /\ \A x \in AccFields : x # "include" => c[x] = a[x]
      <3>1. c = [a EXCEPT !.include = more]
        BY DEF c
      <3>2. \A x \in AccFields : x # "include" => c[x] = a[x]
        BY <3>1 DEF AccFields, IsAcc
      <3>3. IsAcc(c)
        BY <3>1 DEF AccFields, IsAcc
      <3> QED BY <3>2, <3>3
    <2>3. c.queue = a.queue /\ c.index = a.index /\ c.out = a.out /\ c.missing = a.missing
      BY <2>2 DEF AccFields
    <2>4. CASE r.file \in ToSet(a.index)
      <3> DEFINE h == IndexOf(a.index, r.file)
      <3>1. IsAcc(b) /\ b.missing = a.missing /\ b.queue = a.queue /\ b.index = a.index /\ b.out = Append(a.out, h)
        <4>1. /\ IsAcc(b) /\ b.missing = c.missing
              /\ r.file \in ToSet(c.index) =>
                   b.queue = c.queue /\ b.index = c.index /\ b.out = Append(c.out, IndexOf(c.index, r.file))
          BY <2>1, <2>2, AddedEdge
        <4> QED BY <2>3, <2>4, <4>1, Zenon
      <3>2. h \in 1..Len(a.index) /\ a.index[h] = r.file
        <4>1. a.index \in Seq(DOMAIN proj.imports)
          BY Zenon DEF Grown
        <4>2. \E k \in 1..Len(a.index) : a.index[k] = r.file
          BY <2>4, <4>1 DEF ToSet
        <4> QED BY <4>2, Zenon DEF IndexOf
      <3> HIDE DEF h
      <3>3. Grown(proj, f, imports, i0, m0, v, n + 1, a.queue, a.index, Append(a.out, h), a.missing)
        BY <1>2, <1>5, <3>2, GrownKnown, Zenon DEF i
      <3> QED BY <3>1, <3>3, Zenon
    <2>5. CASE r.file \notin ToSet(a.index)
      <3>1. /\ IsAcc(b) /\ b.missing = a.missing /\ b.queue = Append(a.queue, r.file)
            /\ b.index = Append(a.index, r.file) /\ b.out = Append(a.out, Len(a.index) + 1)
        <4>1. /\ IsAcc(b) /\ b.missing = c.missing
              /\ r.file \notin ToSet(c.index) =>
                   /\ b.queue = Append(c.queue, r.file) /\ b.index = Append(c.index, r.file)
                   /\ b.out = Append(c.out, Len(c.index) + 1)
          BY <2>1, <2>2, AddedEdge
        <4> QED BY <2>3, <2>5, <4>1, Zenon
      <3>2. Grown(proj, f, imports, i0, m0, v, n + 1, Append(a.queue, r.file), Append(a.index, r.file),
                  Append(a.out, Len(a.index) + 1), a.missing)
        BY <1>2, <1>5, <2>5, GrownNew, Zenon DEF i
      <3> QED BY <3>1, <3>2, Zenon
    <2> QED BY <2>4, <2>5
  <1> QED BY <1>4, <1>5

LEMMA FirstAdded == ASSUME NEW a, NEW f, NEW imports, NEW w PROVE AddStep(a, f, imports, w, 0) = a
  BY Zenon DEF AddStep

LEMMA NextAdded ==
    ASSUME NEW a, NEW f, NEW imports, NEW w, NEW n \in Nat
    PROVE  AddStep(a, f, imports, w, n + 1) = AddImport(w[n], f, imports[n + 1])
  <1>1. n + 1 # 0 /\ (n + 1) - 1 = n
    OBVIOUS
  <1> QED BY <1>1, Zenon DEF AddStep

\* All imports of f, one after the other.
LEMMA ImportsAdded ==
    ASSUME NEW f, NEW imports, Len(imports) \in Nat,
           NEW i0 \in Seq(DOMAIN proj.imports), NEW m0, NEW v \in Nat,
           NEW a, IsAcc(a), Grown(proj, f, imports, i0, m0, v, 0, a.queue, a.index, a.out, a.missing),
           NEW b, b = AddedUpTo(a, f, imports)[Len(imports)]
    PROVE  IsAcc(b) /\ Grown(proj, f, imports, i0, m0, v, Len(imports), b.queue, b.index, b.out, b.missing)
  <1> DEFINE w == AddedUpTo(a, f, imports)
             Good(n, c) == IsAcc(c) /\ Grown(proj, f, imports, i0, m0, v, n, c.queue, c.index, c.out, c.missing)
             A == {n \in 0..Len(imports) : Good(n, w[n])}
  <1>1. \A n \in 0..Len(imports) : w[n] = AddStep(a, f, imports, w, n)
    <2>1. w = [n \in 0..Len(imports) |-> AddStep(a, f, imports, w, n)]
      BY AddDefined
    <2> HIDE DEF w
    <2> QED BY <2>1
  <1>2. b = w[Len(imports)]
    OBVIOUS
  <1> HIDE DEF w
  <1>3. 0 \in A
    <2>1. 0 \in 0..Len(imports)
      OBVIOUS
    <2>2. w[0] = a
      BY <1>1, <2>1, FirstAdded, Zenon
    <2>3. Good(0, w[0])
      BY <2>2, Zenon
    <2> QED BY <2>1, <2>3, Zenon
  <1>4. ASSUME NEW n \in 0..(Len(imports) - 1), n \in A PROVE n + 1 \in A
    <2>1. n \in Nat /\ n + 1 \in 0..Len(imports)
      <3> HIDE DEF A
      <3> QED OBVIOUS
    <2>2. Good(n, w[n])
      BY <1>4, Zenon
    <2>3. w[n + 1] = AddImport(w[n], f, imports[n + 1])
      <3>1. w[n + 1] = AddStep(a, f, imports, w, n + 1)
        BY <1>1, <2>1
      <3>2. n \in Nat
        BY <2>1
      <3> QED BY <3>1, <3>2, NextAdded
    <2>4. Good(n + 1, w[n + 1])
      BY <2>1, <2>2, <2>3, ImportAdded, Zenon
    <2> QED BY <2>1, <2>4, Zenon
  <1>5. A = 0..Len(imports)
    <2>1. A \in SUBSET (0..Len(imports))
      OBVIOUS
    <2> HIDE DEF A
    <2> QED BY <1>3, <1>4, <2>1, UpTo
  <1>6. Len(imports) \in A
    <2>1. Len(imports) \in 0..Len(imports)
      OBVIOUS
    <2> HIDE DEF A
    <2> QED BY <1>5, <2>1
  <1>7. Good(Len(imports), b)
    BY <1>2, <1>6, Zenon
  <1> QED BY <1>7

-----------------------------------------------------------------------------
(* What has been built                                                     *)

IsWorld(w) ==
    /\ w.inputs \in Seq(DOMAIN w.imports) /\ IsInjective(w.inputs) /\ w.repeat \in BOOLEAN
    /\ \A f \in DOMAIN w.imports : w.imports[f] \in Seq(ToSet(w.imports[f]))

\* Every import of f is an edge to its file, or noted as missing.
EdgesOf(w, f, index, out, missing, imports) ==
    /\ Len(imports) \in Nat
    /\ out \in Seq(1..Len(index)) /\ Len(out) = Cardinality(Found(w, f, imports, Len(imports)))
    /\ \A j \in 1..Len(out) : \E i \in 1..Len(imports) : index[out[j]] = TargetIn(w, f, imports[i])
    /\ \A i \in 1..Len(imports) : IsLost(w, f, imports[i]) => <<imports[i], f>> \in missing

\* A file known since an import was followed is named by a node before it.
HasParent(edges, k) == \E j \in 1..Len(edges) : j < k /\ k \in ToSet(edges[j])

\* The inputs come first, the files visited are the first of the index and the
\* queue is the rest of it.
IsBuilt(w, queue, index, nodes, edges, missing) ==
    /\ index \in Seq(DOMAIN w.imports) /\ IsInjective(index)
    /\ Len(w.inputs) <= Len(index) /\ {index[k] : k \in 1..Len(w.inputs)} = ToSet(w.inputs)
    /\ queue \in Seq(DOMAIN w.imports) /\ nodes \in Seq(DOMAIN w.imports)
    /\ edges \in Seq(Seq(Nat)) /\ Len(edges) = Len(nodes)
    /\ Len(index) = Len(nodes) + Len(queue)
    /\ \A j \in 1..Len(queue) : queue[j] = index[Len(nodes) + j]
    /\ \A k \in 1..Len(nodes) : nodes[k] = index[k]
    /\ \A k \in 1..Len(nodes) : EdgesOf(w, nodes[k], index, edges[k], missing, ImportsIn(w, nodes[k]).files)
    /\ \A p \in missing : IsLost(w, p[2], p[1])
    /\ \A k \in 1..Len(index) : k > Len(w.inputs) => HasParent(edges, k)

LEMMA FunctionLength ==
    ASSUME NEW n \in Nat, NEW s, DOMAIN s = 1..n, s = [k \in 1..n |-> s[k]]
    PROVE  s \in Seq({s[k] : k \in 1..n}) /\ Len(s) = n
  OBVIOUS

LEMMA SelectedLength ==
    ASSUME NEW n \in Nat, NEW s, s = [k \in 1..n |-> s[k]], NEW S
    PROVE  Len(Selected(s, S)) \in Nat
  <1> DEFINE T == {s[k] : k \in 1..n}
  <1>1. s \in Seq(T)
    OBVIOUS
  <1> HIDE DEF T
  <1>2. IsSelection(T, s, S, Len(s), Selected(s, S))
    BY <1>1, SelectedMeans, Zenon
  <1>3. Selected(s, S) \in Seq(T)
    BY <1>2, Zenon DEF IsSelection
  <1> QED BY <1>3

LEMMA ImportsCounted ==
    ASSUME NEW w, IsWorld(w), NEW f \in DOMAIN w.imports
    PROVE  Len(ImportsIn(w, f).files) \in Nat
  <1> DEFINE lines == w.imports[f]
             read == ParseImports(lines)
             own == Selected(lines, {l \in ToSet(lines) : l.word \in {"from", "import"}})
             wanted == Selected(read, {i \in ToSet(read) : ~IsBuiltin(i)})
             found == [k \in 1..Len(wanted) |-> FindImport(w.fs, w.paths, f, wanted[k])]
  <1>1. lines \in Seq(ToSet(lines))
    BY Zenon DEF IsWorld
  <1>2. CASE w.lang[f] # "Vyper"
    <2>1. ImportsIn(w, f) = [ok |-> TRUE, files |-> lines, include |-> {}]
      BY <1>2, Zenon DEF ImportsIn
    <2> HIDE DEF lines
    <2> QED BY <1>1, <2>1
  <1>3. CASE w.lang[f] = "Vyper"
    <2>1. ImportsIn(w, f) = ResolveFound(found)
      BY <1>3, Zenon DEF ImportsIn, ResolveImports, ResolveWanted
    <2>2. Len(own) \in Nat
      <3> HIDE DEF lines
      <3>1. Len(lines) \in Nat /\ lines = [k \in 1..Len(lines) |-> lines[k]]
        BY <1>1
      <3> QED BY <3>1, SelectedLength
    <2>3. read = [k \in 1..Len(own) |-> read[k]]
      <3> DEFINE e(l) == [level |-> l.dots, path |-> l.parts \o IF l.next = "import" THEN <<l.last>> ELSE <<>>,
                          module |-> l.parts]
      <3>1. read = [k \in 1..Len(own) |-> e(own[k])]
        BY Zenon DEF ParseImports
      <3> HIDE DEF e, own, read
      <3> QED BY <3>1
    <2>4. Len(wanted) \in Nat
      <3> HIDE DEF own, read
      <3> QED BY <2>2, <2>3, SelectedLength
    <2> HIDE DEF wanted
    <2>5. Len(found) = Len(wanted)
      BY <2>4
    <2> HIDE DEF found
    <2>6. ResolveFound(found).files = <<>>
          \/ ResolveFound(found).files = [k \in 1..Len(found) |-> found[k][1].file]
      BY DEF ResolveFound
    <2> QED BY <2>1, <2>4, <2>5, <2>6
  <1> QED BY <1>2, <1>3

\* The graph starts with the inputs alone.
LEMMA SourcesParsed ==
    ASSUME NEW w, IsWorld(w), NEW p, p = ParseOrder(w.inputs)
    PROVE  IsBuilt(w, p, p, <<>>, <<>>, {})
  <1>1. w.inputs \in Seq(DOMAIN w.imports) /\ IsInjective(w.inputs)
    BY Zenon DEF IsWorld
  <1>2. p \in Seq(DOMAIN w.imports) /\ Len(p) = Len(w.inputs) /\ IsInjective(p) /\ ToSet(p) = ToSet(w.inputs)
    BY <1>1, ParsedOnce, Zenon
  <1>3. DOMAIN p = 1..Len(p) /\ Len(p) \in Nat
    BY <1>2
  <1>4. {p[k] : k \in 1..Len(w.inputs)} = ToSet(w.inputs)
    <2>1. ToSet(p) = {p[k] : k \in 1..Len(p)}
      BY <1>3, Zenon DEF ToSet
    <2> QED BY <1>2, <2>1, Zenon
  <1>5. /\ <<>> \in Seq(DOMAIN w.imports) /\ <<>> \in Seq(Seq(Nat)) /\ Len(<<>>) = 0
        /\ \A k \in 1..Len(<<>>) : FALSE
    OBVIOUS
  <1>6. Len(p) = Len(<<>>) + Len(p) /\ \A j \in 1..Len(p) : p[j] = p[Len(<<>>) + j]
    BY <1>3
  <1>7. Len(w.inputs) <= Len(p) /\ \A k \in 1..Len(p) : ~(k > Len(w.inputs))
    BY <1>2, <1>3
  <1> QED BY <1>2, <1>4, <1>5, <1>6, <1>7, Zenon DEF IsBuilt

\* The file at the head of the queue, before its imports are looked at.
LEMMA VisitStarts ==
    ASSUME NEW w, NEW queue, NEW index, NEW nodes, NEW edges, NEW missing,
           IsBuilt(w, queue, index, nodes, edges, missing), queue # <<>>, NEW imports
    PROVE  /\ Len(nodes) + 1 \in Nat /\ index \in Seq(DOMAIN w.imports)
           /\ Head(queue) \in DOMAIN w.imports
           /\ Head(queue) = index[Len(nodes) + 1] /\ Len(nodes) + 1 \in 1..Len(index)
           /\ Grown(w, Head(queue), imports, index, missing, Len(nodes) + 1, 0, Tail(queue), index, <<>>, missing)
  <1> DEFINE S == DOMAIN w.imports
             v == Len(nodes) + 1
             rest == Tail(queue)
  <1>1. /\ index \in Seq(S) /\ IsInjective(index) /\ queue \in Seq(S) /\ nodes \in Seq(S)
        /\ Len(index) = Len(nodes) + Len(queue)
        /\ \A j \in 1..Len(queue) : queue[j] = index[Len(nodes) + j]
    BY Zenon DEF IsBuilt
  <1> HIDE DEF S
  <1>2. /\ Len(nodes) \in Nat /\ Len(index) \in Nat /\ v \in Nat
        /\ Head(queue) = queue[1] /\ 1 \in 1..Len(queue) /\ queue[1] \in S
        /\ rest \in Seq(S) /\ Len(queue) = Len(rest) + 1 /\ Len(rest) \in Nat
        /\ \A j \in 1..Len(rest) : rest[j] = queue[j + 1]
    BY <1>1
  <1> HIDE DEF rest
  <1>3. Len(index) = v + Len(rest)
    BY <1>1, <1>2
  <1>4. ASSUME NEW j \in 1..Len(rest) PROVE rest[j] = index[v + j]
    <2>1. j + 1 \in 1..Len(queue) /\ Len(nodes) + (j + 1) = v + j /\ rest[j] = queue[j + 1]
      BY <1>2
    <2> QED BY <1>1, <2>1
  <1>5. Head(queue) = index[v] /\ v \in 1..Len(index)
    BY <1>1, <1>2, <1>3
  <1>6. /\ <<>> \in Seq(1..Len(index)) /\ Len(<<>>) = 0 /\ \A j \in 1..Len(<<>>) : FALSE
        /\ \A k \in 1..Len(index) : ~(k > Len(index)) /\ Len(index) <= Len(index)
        /\ \A i \in 1..0 : FALSE
    BY <1>2
  <1>6a. Len(index) <= Len(index)
    BY <1>2
  <1>7. Len(<<>>) = Cardinality(Found(w, Head(queue), imports, 0))
    <2>1. 0 \in Nat
      OBVIOUS
    <2> QED BY <1>6, <2>1, FoundStep, Zenon
  <1>8. v \in Nat /\ Head(queue) \in S
    BY <1>2
  <1>9. index \in Seq(S) /\ IsInjective(index) /\ rest \in Seq(S)
    BY <1>1, <1>2
  <1>10. Grown(w, Head(queue), imports, index, missing, v, 0, rest, index, <<>>, missing)
    BY <1>3, <1>4, <1>6, <1>6a, <1>7, <1>9, Zenon DEF Grown, S
  <1> QED BY <1>5, <1>8, <1>9, <1>10, Zenon DEF S, v, rest

LEMMA VisitBuilt ==
    ASSUME NEW w, NEW queue, NEW index, NEW nodes, NEW edges, NEW missing,
           IsBuilt(w, queue, index, nodes, edges, missing), queue # <<>>, Len(w.inputs) \in Nat,
           NEW f, f = Head(queue), NEW imports, imports = ImportsIn(w, f).files, Len(imports) \in Nat,
           NEW q, NEW x, NEW out, NEW m,
           Grown(w, f, imports, index, missing, Len(nodes) + 1, Len(imports), q, x, out, m)
    PROVE  IsBuilt(w, q, x, Append(nodes, f), Append(edges, out), m)
  <1> DEFINE S == DOMAIN w.imports
             more == Append(nodes, f)
             es == Append(edges, out)
             v == Len(nodes) + 1
  <1>1. /\ index \in Seq(S) /\ nodes \in Seq(S) /\ edges \in Seq(Seq(Nat)) /\ Len(edges) = Len(nodes)
        /\ Len(w.inputs) <= Len(index) /\ {index[k] : k \in 1..Len(w.inputs)} = ToSet(w.inputs)
        /\ Len(index) = Len(nodes) + Len(queue) /\ queue \in Seq(S)
        /\ \A k \in 1..Len(nodes) : nodes[k] = index[k]
    BY Zenon DEF IsBuilt
  <1>2. /\ \A k \in 1..Len(nodes) : EdgesOf(w, nodes[k], index, edges[k], missing, ImportsIn(w, nodes[k]).files)
        /\ \A p \in missing : IsLost(w, p[2], p[1])
        /\ \A k \in 1..Len(index) : k > Len(w.inputs) => HasParent(edges, k)
    BY Zenon DEF IsBuilt
  <1>3. f = index[v] /\ v \in 1..Len(index) /\ f \in S
    BY VisitStarts
  <1>4. /\ x \in Seq(S) /\ IsInjective(x) /\ Len(index) <= Len(x)
        /\ \A k \in 1..Len(index) : x[k] = index[k]
        /\ q \in Seq(S) /\ Len(x) = v + Len(q)
        /\ \A j \in 1..Len(q) : q[j] = x[v + j]
    BY Zenon DEF Grown
  <1>5. /\ out \in Seq(1..Len(x)) /\ Len(out) = Cardinality(Found(w, f, imports, Len(imports)))
        /\ \A j \in 1..Len(out) : \E i \in 1..Len(imports) : x[out[j]] = TargetIn(w, f, imports[i])
        /\ missing \subseteq m
        /\ \A p \in m : p \in missing \/ \E i \in 1..Len(imports) : p = <<imports[i], f>> /\ IsLost(w, f, imports[i])
        /\ \A i \in 1..Len(imports) : IsLost(w, f, imports[i]) => <<imports[i], f>> \in m
        /\ \A k \in 1..Len(x) : k > Len(index) => \E j \in 1..Len(out) : out[j] = k
    BY Zenon DEF Grown
  <1> HIDE DEF S
  <1>6. /\ Len(nodes) \in Nat /\ Len(edges) \in Nat /\ Len(index) \in Nat /\ Len(x) \in Nat /\ v \in Nat
        /\ v = Len(nodes) + 1
    BY <1>1, <1>4
  <1>7. /\ more \in Seq(S) /\ Len(more) = v /\ more[v] = f
        /\ \A k \in 1..Len(nodes) : more[k] = nodes[k]
    BY <1>1, <1>3
  <1>8. /\ es \in Seq(Seq(Nat)) /\ Len(es) = v /\ es[v] = out
        /\ \A k \in 1..Len(nodes) : es[k] = edges[k]
    <2>1. out \in Seq(Nat)
      BY <1>5
    <2> QED BY <1>1, <2>1
  <1>9. \A k \in 1..v : k \in 1..Len(nodes) \/ k = v
    BY <1>6
  <1>10. \A k \in 1..Len(nodes) : k \in 1..Len(index) /\ k \in 1..v
    BY <1>1, <1>3, <1>6
  <1> HIDE DEF more, es, v
  <1>11. ASSUME NEW k \in 1..Len(more) PROVE more[k] = x[k]
    <2>1. CASE k \in 1..Len(nodes)
      <3>1. more[k] = nodes[k] /\ nodes[k] = index[k] /\ x[k] = index[k]
        BY <1>1, <1>4, <1>7, <1>10, <2>1
      <3> QED BY <3>1
    <2>2. CASE k = v
      BY <1>3, <1>4, <1>7, <2>2
    <2> QED BY <1>7, <1>9, <2>1, <2>2
  <1>12. ASSUME NEW k \in 1..Len(more)
         PROVE  EdgesOf(w, more[k], x, es[k], m, ImportsIn(w, more[k]).files)
    <2>1. CASE k \in 1..Len(nodes)
      <3> DEFINE g == nodes[k]
                 o == edges[k]
                 is == ImportsIn(w, g).files
      <3>1. more[k] = g /\ es[k] = o
        BY <1>7, <1>8, <2>1
      <3>2. EdgesOf(w, g, index, o, missing, is)
        BY <1>2, <2>1
      <3> HIDE DEF g, o, is
      <3>3. /\ Len(is) \in Nat
            /\ o \in Seq(1..Len(index)) /\ Len(o) = Cardinality(Found(w, g, is, Len(is)))
            /\ \A j \in 1..Len(o) : \E i \in 1..Len(is) : index[o[j]] = TargetIn(w, g, is[i])
            /\ \A i \in 1..Len(is) : IsLost(w, g, is[i]) => <<is[i], g>> \in missing
        BY <3>2, Zenon DEF EdgesOf
      <3>4. o \in Seq(1..Len(x)) /\ \A j \in 1..Len(o) : o[j] \in 1..Len(index)
        <4>1. \A j \in 1..Len(index) : j \in 1..Len(x)
          BY <1>4, <1>6
        <4>2. \A j \in 1..Len(o) : o[j] \in 1..Len(index)
          BY <3>3
        <4>3. \A j \in 1..Len(o) : o[j] \in 1..Len(x)
          BY <4>1, <4>2
        <4>4. o \in Seq(1..Len(x))
          <5>1. Len(o) \in Nat /\ DOMAIN o = 1..Len(o) /\ o = [j \in 1..Len(o) |-> o[j]]
            BY <3>3
          <5> HIDE DEF S
          <5> QED BY <4>3, <5>1
        <4> QED BY <4>2, <4>4
      <3>5. \A j \in 1..Len(o) : \E i \in 1..Len(is) : x[o[j]] = TargetIn(w, g, is[i])
        <4>1. \A j \in 1..Len(o) : x[o[j]] = index[o[j]]
          BY <1>4, <3>4
        <4> QED BY <3>3, <4>1, Zenon
      <3>6. \A i \in 1..Len(is) : IsLost(w, g, is[i]) => <<is[i], g>> \in m
        BY <1>5, <3>3, Zenon
      <3>7. EdgesOf(w, g, x, o, m, is)
        BY <3>3, <3>4, <3>5, <3>6, Zenon DEF EdgesOf
      <3> QED BY <3>1, <3>7, Zenon DEF is
    <2>2. CASE k = v
      <3>1. more[k] = f /\ es[k] = out
        BY <1>7, <1>8, <2>2
      <3>2. EdgesOf(w, f, x, out, m, imports)
        BY <1>5, Zenon DEF EdgesOf
      <3> QED BY <3>1, <3>2, Zenon
    <2> QED BY <1>7, <1>9, <2>1, <2>2
  <1>13. ASSUME NEW p \in m PROVE IsLost(w, p[2], p[1])
    <2>1. CASE p \in missing
      BY <1>2, <2>1
    <2>2. CASE p \notin missing
      <3>1. PICK i \in 1..Len(imports) : p = <<imports[i], f>> /\ IsLost(w, f, imports[i])
        BY <1>5, <2>2
      <3>2. p[1] = imports[i] /\ p[2] = f
        BY <3>1
      <3> QED BY <3>1, <3>2, Zenon
    <2> QED BY <2>1, <2>2
  <1>14. ASSUME NEW k \in 1..Len(x), k > Len(w.inputs) PROVE HasParent(es, k)
    <2>1. CASE k \in 1..Len(index)
      <3>1. PICK j \in 1..Len(edges) : j < k /\ k \in ToSet(edges[j])
        BY <1>2, <1>14, <2>1 DEF HasParent
      <3>2. j \in 1..Len(es) /\ es[j] = edges[j]
        BY <1>1, <1>8, <1>10, <3>1
      <3> QED BY <3>1, <3>2 DEF HasParent
    <2>2. CASE k \notin 1..Len(index)
      <3>1. k > Len(index) /\ v < k /\ v \in 1..Len(es)
        BY <1>3, <1>6, <1>8, <2>2
      <3>2. PICK j \in 1..Len(out) : out[j] = k
        BY <1>5, <3>1
      <3>3. DOMAIN out = 1..Len(out)
        BY <1>5
      <3>4. k \in ToSet(es[v])
        BY <1>8, <3>2, <3>3 DEF ToSet
      <3> QED BY <3>1, <3>4 DEF HasParent
    <2> QED BY <2>1, <2>2
  <1>15. Len(w.inputs) <= Len(x) /\ {x[k] : k \in 1..Len(w.inputs)} = ToSet(w.inputs)
    <2> DEFINE n == Len(w.inputs)
    <2> HIDE DEF n
    <2>1. n \in Nat /\ n <= Len(index) /\ {index[k] : k \in 1..n} = ToSet(w.inputs)
      BY <1>1 DEF n
    <2>2. \A k \in 1..n : k \in 1..Len(index)
      BY <1>6, <2>1
    <2>3. \A k \in 1..n : x[k] = index[k]
      BY <1>4, <2>2
    <2>4. {x[k] : k \in 1..n} = {index[k] : k \in 1..n}
      BY <2>3
    <2>5. n <= Len(x)
      BY <1>4, <1>6, <2>1
    <2> QED BY <2>1, <2>4, <2>5 DEF n
  <1>16. Len(x) = Len(more) + Len(q) /\ \A j \in 1..Len(q) : q[j] = x[Len(more) + j]
    BY <1>4, <1>7
  <1>17. x \in Seq(DOMAIN w.imports) /\ q \in Seq(DOMAIN w.imports) /\ more \in Seq(DOMAIN w.imports)
    BY <1>4, <1>7 DEF S
  <1>18. es \in Seq(Seq(Nat)) /\ Len(es) = Len(more) /\ IsInjective(x)
    BY <1>4, <1>7, <1>8
  <1>19. IsBuilt(w, q, x, more, es, m)
    BY <1>11, <1>12, <1>13, <1>14, <1>15, <1>16, <1>17, <1>18, Zenon DEF IsBuilt
  <1> QED BY <1>19 DEF more, es

-----------------------------------------------------------------------------
(* Every file is reached from an input                                     *)

LEMMA FollowZero == ASSUME NEW start, NEW g PROVE FollowStep(start, g, 0) = start
  BY Zenon DEF FollowStep

LEMMA FollowNext ==
    ASSUME NEW start, NEW g, NEW n \in Nat
    PROVE  FollowStep(start, g, n + 1) = g[n] \cup UNION {ToSet(res.edges[j]) : j \in g[n]}
  <1>1. n + 1 # 0 /\ (n + 1) - 1 = n
    OBVIOUS
  <1> QED BY <1>1, Zenon DEF FollowStep

LEMMA FollowNexts ==
    ASSUME NEW start, NEW N \in Nat, N = Len(res.nodes), NEW n \in 0..(N - 1)
    PROVE  FollowedIn(start)[n + 1]
              = FollowedIn(start)[n] \cup UNION {ToSet(res.edges[j]) : j \in FollowedIn(start)[n]}
  <1> DEFINE g == FollowedIn(start)
  <1>1. g = [i \in 0..Len(res.nodes) |-> FollowStep(start, g, i)]
    BY FollowDefined
  <1> HIDE DEF g
  <1>2. n \in Nat /\ n + 1 \in 0..N
    OBVIOUS
  <1>3. g[n + 1] = FollowStep(start, g, n + 1)
    BY <1>1, <1>2
  <1> QED BY <1>2, <1>3, FollowNext DEF g

LEMMA FollowGrows ==
    ASSUME NEW start, NEW N \in Nat, N = Len(res.nodes)
    PROVE  /\ FollowedIn(start)[0] = start
           /\ \A n \in 0..(N - 1) :
                /\ FollowedIn(start)[n] \subseteq FollowedIn(start)[n + 1]
                /\ \A j \in FollowedIn(start)[n] : ToSet(res.edges[j]) \subseteq FollowedIn(start)[n + 1]
           /\ \A n \in 0..N : FollowedIn(start)[n] \subseteq FollowedIn(start)[N]
  <1> DEFINE g == FollowedIn(start)
  <1>1. \A n \in 0..N : g[n] = FollowStep(start, g, n)
    <2>1. g = [n \in 0..Len(res.nodes) |-> FollowStep(start, g, n)]
      BY FollowDefined
    <2> HIDE DEF g
    <2> QED BY <2>1
  <1> HIDE DEF g
  <1>3. g[0] = start
    <2>1. 0 \in 0..N
      OBVIOUS
    <2>2. g[0] = FollowStep(start, g, 0)
      BY <1>1, <2>1
    <2> QED BY <2>2, FollowZero
  <1>4. ASSUME NEW n \in 0..(N - 1)
        PROVE  g[n] \subseteq g[n + 1] /\ \A j \in g[n] : ToSet(res.edges[j]) \subseteq g[n + 1]
    <2>1. n \in Nat /\ n + 1 \in 0..N
      OBVIOUS
    <2>2. g[n + 1] = FollowStep(start, g, n + 1)
      BY <1>1, <2>1
    <2>3. g[n + 1] = g[n] \cup UNION {ToSet(res.edges[j]) : j \in g[n]}
      BY <2>1, <2>2, FollowNext
    <2> QED BY <2>3
  <1>5. ASSUME NEW n \in 0..N PROVE g[n] \subseteq g[N]
    <2> DEFINE A == {m \in 0..(N - n) : g[n] \subseteq g[n + m]}
    <2>1. 0 \in A /\ N - n \in Nat
      OBVIOUS
    <2>2. ASSUME NEW m \in 0..((N - n) - 1), m \in A PROVE m + 1 \in A
      <3>1. n + m \in 0..(N - 1) /\ (n + m) + 1 = n + (m + 1) /\ m + 1 \in 0..(N - n)
        BY <2>1
      <3>2. g[n] \subseteq g[n + m]
        BY <2>2
      <3>3. g[n + m] \subseteq g[n + (m + 1)]
        BY <1>4, <3>1
      <3> QED BY <3>1, <3>2, <3>3
    <2>3. A = 0..(N - n)
      <3>1. A \in SUBSET (0..(N - n))
        OBVIOUS
      <3> HIDE DEF A
      <3> QED BY <2>1, <2>2, <3>1, UpTo
    <2>4. N - n \in 0..(N - n) /\ n + (N - n) = N
      BY <2>1
    <2>5. N - n \in A
      <3> HIDE DEF A
      <3> QED BY <2>3, <2>4
    <2> QED BY <2>4, <2>5
  <1> QED BY <1>3, <1>4, <1>5 DEF g

LEMMA ReachGrows ==
    ASSUME NEW k, NEW N \in Nat, N = Len(res.nodes)
    PROVE  /\ k \in ReachIn(k)[0]
           /\ \A n \in 0..(N - 1) :
                /\ ReachIn(k)[n] \subseteq ReachIn(k)[n + 1]
                /\ \A j \in ReachIn(k)[n] : ToSet(res.edges[j]) \subseteq ReachIn(k)[n + 1]
           /\ \A n \in 0..N : ReachIn(k)[n] \subseteq Reach(k)
  <1>1. ReachIn(k) = FollowedIn({k}) /\ Reach(k) = FollowedIn({k})[N]
    BY Zenon DEF ReachIn, Reach
  <1>2. FollowedIn({k})[0] = {k}
    BY FollowGrows
  <1>3. \A n \in 0..(N - 1) :
           /\ FollowedIn({k})[n] \subseteq FollowedIn({k})[n + 1]
           /\ \A j \in FollowedIn({k})[n] : ToSet(res.edges[j]) \subseteq FollowedIn({k})[n + 1]
    BY FollowGrows
  <1>4. \A n \in 0..N : FollowedIn({k})[n] \subseteq FollowedIn({k})[N]
    BY FollowGrows
  <1> QED BY <1>1, <1>2, <1>3, <1>4

LEMMA SegmentSize == ASSUME NEW N \in Nat PROVE IsFiniteSet(1..N) /\ Cardinality(1..N) = N
  <1>1. IsFiniteSet(1..N) /\ Cardinality(1..N) = IF 1 > N THEN 0 ELSE N - 1 + 1
    BY FS_Interval
  <1> QED BY <1>1

IsFollowed(edges, S) == \A j \in S : ToSet(edges[j]) \subseteq S

\* As many steps as there are nodes are enough: a step that does not end adds a node.
LEMMA FollowEnds ==
    ASSUME NEW N \in Nat, N = Len(res.nodes), \A k \in 1..N : res.edges[k] \in Seq(1..N),
           NEW start \in SUBSET (1..N)
    PROVE  start \subseteq JobSources(start) /\ IsFollowed(res.edges, JobSources(start))
  <1> DEFINE g == FollowedIn(start)
             A == {n \in 0..N : g[n] \subseteq 1..N /\ (IsFollowed(res.edges, g[n]) \/ Cardinality(g[n]) > n)}
  <1>1. \A n \in 0..(N - 1) : g[n + 1] = g[n] \cup UNION {ToSet(res.edges[j]) : j \in g[n]}
    BY FollowNexts
  <1>2. g[0] = start /\ g[0] \subseteq g[N]
    BY FollowGrows
  <1>3. JobSources(start) = g[N]
    BY Zenon DEF JobSources
  <1> HIDE DEF g, A
  <1>4. IsFiniteSet(1..N) /\ Cardinality(1..N) = N
    BY SegmentSize
  <1> USE DEF A
  <1>5. \A S \in SUBSET (1..N) : IsFiniteSet(S) /\ Cardinality(S) \in Nat /\ Cardinality(S) <= N
    <2> TAKE S \in SUBSET (1..N)
    <2>1. IsFiniteSet(S) /\ Cardinality(S) <= Cardinality(1..N)
      BY <1>4, FS_Subset
    <2> QED BY <1>4, <2>1, FS_CardinalityType
  <1>6. 0 \in A
    <2>1. g[0] \subseteq 1..N
      BY <1>2
    <2>2. CASE g[0] = {}
      BY <2>1, <2>2 DEF IsFollowed
    <2>3. CASE g[0] # {}
      <3>1. Cardinality(g[0]) # 0 /\ Cardinality(g[0]) \in Nat
        BY <1>5, <2>1, <2>3, FS_EmptySet
      <3> QED BY <2>1, <3>1
    <2> QED BY <2>2, <2>3
  <1>7. ASSUME NEW n \in 0..(N - 1), n \in A PROVE n + 1 \in A
    <2> DEFINE S == g[n]
               T == g[n + 1]
    <2>1. S \in SUBSET (1..N) /\ (IsFollowed(res.edges, S) \/ Cardinality(S) > n) /\ n + 1 \in 0..N
      BY <1>7
    <2>2. T = S \cup UNION {ToSet(res.edges[j]) : j \in S}
      BY <1>1
    <2> HIDE DEF S, T
    <2>3. T \in SUBSET (1..N)
      <3>1. ASSUME NEW j \in S PROVE ToSet(res.edges[j]) \subseteq 1..N
        <4>1. res.edges[j] \in Seq(1..N)
          BY <2>1
        <4> QED BY <4>1 DEF ToSet
      <3>2. ASSUME NEW x \in T PROVE x \in 1..N
        <4>1. CASE x \in S
          BY <2>1, <4>1
        <4>2. CASE x \notin S
          <5>1. PICK j \in S : x \in ToSet(res.edges[j])
            BY <2>2, <4>2
          <5> QED BY <3>1, <5>1
        <4> QED BY <4>1, <4>2
      <3> QED BY <3>2
    <2>4. CASE IsFollowed(res.edges, S)
      <3>1. T = S
        BY <2>2, <2>4 DEF IsFollowed
      <3>2. IsFollowed(res.edges, T)
        BY <2>4, <3>1
      <3> QED BY <2>1, <2>3, <3>2 DEF T
    <2>5. CASE ~IsFollowed(res.edges, S) /\ Cardinality(S) > n
      <3>1. S # T /\ S \subseteq T
        BY <2>2, <2>5 DEF IsFollowed
      <3>2. Cardinality(S) <= Cardinality(T) /\ Cardinality(S) # Cardinality(T)
        <4>1. IsFiniteSet(T) /\ S \in SUBSET T
          BY <1>5, <2>3, <3>1
        <4> QED BY <3>1, <4>1, FS_Subset
      <3>3. Cardinality(S) \in Nat /\ Cardinality(T) \in Nat
        BY <1>5, <2>1, <2>3
      <3>4. Cardinality(T) > n + 1
        BY <2>5, <3>2, <3>3
      <3> QED BY <2>1, <2>3, <3>4 DEF T
    <2> QED BY <2>1, <2>4, <2>5
  <1>8. N \in A
    <2>1. A \in SUBSET (0..N)
      OBVIOUS
    <2> HIDE DEF A
    <2>2. A = 0..N
      BY <1>6, <1>7, <2>1, UpTo
    <2> QED BY <2>2
  <1>9. IsFollowed(res.edges, g[N])
    <2>1. g[N] \in SUBSET (1..N) /\ (IsFollowed(res.edges, g[N]) \/ Cardinality(g[N]) > N)
      BY <1>8
    <2>2. Cardinality(g[N]) \in Nat /\ Cardinality(g[N]) <= N
      BY <1>5, <2>1
    <2> QED BY <2>1, <2>2
  <1> QED BY <1>2, <1>3, <1>9

\* Every node is at most as many edges away from an input as there are nodes before it.
LEMMA AllReached ==
    ASSUME NEW I \in Nat, NEW N \in Nat, N = Len(res.nodes), Len(res.edges) = N,
           \A k \in 1..N : k > I => HasParent(res.edges, k)
    PROVE  \A k \in 1..N : k \in Reach(k) /\ \E i \in 1..I : k \in Reach(i)
  <1> DEFINE Near(k) == \E i \in 1..I : \E n \in 0..N : n < k /\ k \in ReachIn(i)[n]
             B == {k \in 1..N : ~Near(k)}
  <1>1. ASSUME NEW k \in 1..N, \A j \in 1..(k - 1) : Near(j) PROVE Near(k)
    <2>1. CASE k <= I
      <3>1. k \in 1..I /\ 0 \in 0..N /\ 0 < k
        BY <2>1
      <3>2. k \in ReachIn(k)[0]
        BY ReachGrows
      <3> QED BY <3>1, <3>2
    <2>2. CASE k > I
      <3>1. PICK j \in 1..N : j < k /\ k \in ToSet(res.edges[j])
        BY <2>2 DEF HasParent
      <3>2. j \in 1..(k - 1)
        BY <3>1
      <3>3. PICK i \in 1..I : \E n \in 0..N : n < j /\ j \in ReachIn(i)[n]
        BY <1>1, <3>2
      <3>4. PICK n \in 0..N : n < j /\ j \in ReachIn(i)[n]
        BY <3>3
      <3>5. n \in 0..(N - 1) /\ n + 1 \in 0..N /\ n + 1 < k
        BY <3>1, <3>4
      <3>6. k \in ReachIn(i)[n + 1]
        <4>1. ToSet(res.edges[j]) \subseteq ReachIn(i)[n + 1]
          BY <3>4, <3>5, ReachGrows
        <4> QED BY <3>1, <4>1
      <3> QED BY <3>5, <3>6
    <2> QED BY <2>1, <2>2
  <1> HIDE DEF Near
  <1>2. B = {}
    <2> SUFFICES ASSUME B # {} PROVE FALSE
      OBVIOUS
    <2>1. B \in SUBSET Nat /\ B \subseteq 1..N
      OBVIOUS
    <2>2. PICK k \in B : \A j \in B : k <= j
      <3> HIDE DEF B
      <3> QED BY <2>1, LeastNumber
    <2>3. k \in 1..N /\ ~Near(k)
      BY <2>2
    <2>4. ASSUME NEW j \in 1..(k - 1) PROVE Near(j)
      <3>1. j \in 1..N /\ ~(k <= j)
        BY <2>3
      <3>2. j \notin B
        BY <2>2, <3>1
      <3> QED BY <3>1, <3>2
    <2> QED BY <1>1, <2>3, <2>4
  <1>3. ASSUME NEW k \in 1..N PROVE k \in Reach(k) /\ \E i \in 1..I : k \in Reach(i)
    <2>1. k \in Reach(k)
      <3>1. k \in ReachIn(k)[0] /\ 0 \in 0..N
        BY ReachGrows
      <3>2. ReachIn(k)[0] \subseteq Reach(k)
        BY <3>1, ReachGrows
      <3> QED BY <3>1, <3>2
    <2>2. Near(k)
      BY <1>2
    <2>3. PICK i \in 1..I : \E n \in 0..N : n < k /\ k \in ReachIn(i)[n]
      BY <2>2 DEF Near
    <2>4. PICK n \in 0..N : n < k /\ k \in ReachIn(i)[n]
      BY <2>3
    <2>5. ReachIn(i)[n] \subseteq Reach(i)
      BY ReachGrows
    <2> QED BY <2>1, <2>4, <2>5
  <1> QED BY <1>3

-----------------------------------------------------------------------------
(* The steps                                                               *)

GraphFields == {"st", "w", "queue", "index", "nodes", "edges", "rev", "missing"}
ResFields == GraphFields \cup
    {"include", "chosen", "jobs", "primary", "blame", "stack", "shown", "json"}

ResolverInv ==
    /\ res = [x \in ResFields |-> res[x]]
    /\ res.st \notin {"idle", "unresolved"} =>
         IsWorld(proj) /\ IsBuilt(proj, res.queue, res.index, res.nodes, res.edges, res.missing)
    /\ res.st \notin {"idle", "graph", "unresolved"} => res.queue = <<>> /\ res.rev = RevEdges(res.edges)
    /\ res.st # "print" => res.shown = <<>>

IsGraph(q) == q = [x \in ResFields |-> q[x]]

LEMMA SetField ==
    ASSUME NEW q, IsGraph(q), NEW a \in ResFields, NEW x, NEW r, r = [q EXCEPT ![a] = x]
    PROVE  IsGraph(r) /\ r[a] = x /\ \A b \in ResFields : b # a => r[b] = q[b]
  BY DEF IsGraph

LEMMA AllWorlds == ASSUME NEW family \in Worlds, NEW w \in family PROVE IsWorld(w)
  BY WorldsAssumption DEF IsWorld

LEMMA ResolverStart == ASSUME ResolverInit PROVE ResolverInv
  <1>1. res = NoGraph
    BY DEF ResolverInit
  <1>2. res.st = "idle" /\ res.shown = <<>>
    BY <1>1 DEF NoGraph
  <1>3. res = [x \in ResFields |-> res[x]]
    BY <1>1 DEF NoGraph, ResFields, GraphFields
  <1> QED BY <1>2, <1>3 DEF ResolverInv

LEMMA SourcesRead == ASSUME ParseSources PROVE ResolverInv' /\ res'.st = "graph"
  <1>1. PICK family \in Worlds : \E w \in family :
           res' = [NoGraph EXCEPT !.st = "graph", !.w = w, !.queue = ParseOrder(w.inputs),
                                  !.index = ParseOrder(w.inputs), !.include = {w.paths.root}]
    BY Zenon DEF ParseSources
  <1>2. PICK w \in family :
           res' = [NoGraph EXCEPT !.st = "graph", !.w = w, !.queue = ParseOrder(w.inputs),
                                  !.index = ParseOrder(w.inputs), !.include = {w.paths.root}]
    BY <1>1
  <1> DEFINE p == ParseOrder(w.inputs)
             i == {w.paths.root}
             r0 == NoGraph
             r1 == [r0 EXCEPT !.st = "graph"]
             r2 == [r1 EXCEPT !.w = w]
             r3 == [r2 EXCEPT !.queue = p]
             r4 == [r3 EXCEPT !.index = p]
             r5 == [r4 EXCEPT !.include = i]
  <1>3. res' = r5
    BY <1>2, Zenon
  <1>4. /\ IsGraph(r0) /\ r0.nodes = <<>> /\ r0.edges = <<>> /\ r0.missing = {} /\ r0.shown = <<>>
    BY DEF NoGraph, IsGraph, ResFields, GraphFields
  <1>21. IsGraph(r0)
    BY <1>4
  <1>5. IsWorld(w)
    BY <1>2, AllWorlds, Zenon
  <1>6. IsBuilt(w, p, p, <<>>, <<>>, {})
    BY <1>5, SourcesParsed, Zenon
  <1> HIDE DEF p, i, r0, r1, r2, r3, r4, r5
  <1>7. IsGraph(r1) /\ r1.st = "graph" /\ \A b \in ResFields : b # "st" => r1[b] = r0[b]
    BY <1>21, SetField DEF r1, ResFields, GraphFields
  <1>8. IsGraph(r2) /\ r2.w = w /\ \A b \in ResFields : b # "w" => r2[b] = r1[b]
    BY <1>7, SetField DEF r2, ResFields, GraphFields
  <1>9. IsGraph(r3) /\ r3.queue = p /\ \A b \in ResFields : b # "queue" => r3[b] = r2[b]
    BY <1>8, SetField DEF r3, ResFields, GraphFields
  <1>10. IsGraph(r4) /\ r4.index = p /\ \A b \in ResFields : b # "index" => r4[b] = r3[b]
    BY <1>9, SetField DEF r4, ResFields, GraphFields
  <1>11. IsGraph(r5) /\ \A b \in ResFields : b # "include" => r5[b] = r4[b]
    BY <1>10, SetField DEF r5, ResFields, GraphFields
  <1>12. r5.st = "graph" /\ r5.w = w
    BY <1>7, <1>8, <1>9, <1>10, <1>11 DEF ResFields, GraphFields
  <1>13. r5.queue = p /\ r5.index = p
    BY <1>9, <1>10, <1>11 DEF ResFields, GraphFields
  <1>14. r5.nodes = <<>> /\ r5.edges = <<>> /\ r5.missing = {}
    BY <1>4, <1>7, <1>8, <1>9, <1>10, <1>11 DEF ResFields, GraphFields
  <1>19. r5.shown = <<>>
    BY <1>4, <1>7, <1>8, <1>9, <1>10, <1>11 DEF ResFields, GraphFields
  <1>15. res'.st = "graph" /\ proj' = w /\ IsGraph(r5)
    BY <1>3, <1>11, <1>12 DEF proj
  <1>16. res'.queue = p /\ res'.index = p /\ res'.nodes = <<>> /\ res'.edges = <<>> /\ res'.missing = {}
    BY <1>3, <1>13, <1>14
  <1>20. res'.shown = <<>>
    BY <1>3, <1>19
  <1>17. IsWorld(proj)' /\ IsBuilt(proj, res.queue, res.index, res.nodes, res.edges, res.missing)'
    BY <1>5, <1>6, <1>15, <1>16
  <1>18. res' = [x \in ResFields |-> res'[x]]
    BY <1>3, <1>15 DEF IsGraph
  <1> QED BY <1>15, <1>17, <1>18, <1>20 DEF ResolverInv

LEMMA VisitedFields ==
    ASSUME IsGraph(res), NEW f, NEW acc, res' = Visited(f, acc)
    PROVE  /\ IsGraph(res') /\ res'.st = res.st /\ res'.w = res.w
           /\ res'.queue = acc.queue /\ res'.index = acc.index /\ res'.missing = acc.missing
           /\ res'.nodes = Append(res.nodes, f) /\ res'.edges = Append(res.edges, acc.out)
           /\ res'.shown = res.shown
  <1> DEFINE ns == Append(res.nodes, f)
             es == Append(res.edges, acc.out)
             r1 == [res EXCEPT !.queue = acc.queue]
             r2 == [r1 EXCEPT !.index = acc.index]
             r3 == [r2 EXCEPT !.missing = acc.missing]
             r4 == [r3 EXCEPT !.include = acc.include]
             r5 == [r4 EXCEPT !.nodes = ns]
             r6 == [r5 EXCEPT !.edges = es]
  <1>1. res' = [res EXCEPT !.queue = acc.queue, !.index = acc.index, !.missing = acc.missing,
                           !.include = acc.include, !.nodes = ns, !.edges = es]
    BY Zenon DEF Visited
  <1>2. res' = r6
    BY <1>1, Zenon
  <1> HIDE DEF ns, es, r1, r2, r3, r4, r5, r6
  <1>3. IsGraph(r1) /\ r1.queue = acc.queue /\ \A b \in ResFields : b # "queue" => r1[b] = res[b]
    BY SetField DEF r1, ResFields, GraphFields
  <1>4. IsGraph(r2) /\ r2.index = acc.index /\ \A b \in ResFields : b # "index" => r2[b] = r1[b]
    BY <1>3, SetField DEF r2, ResFields, GraphFields
  <1>5. IsGraph(r3) /\ r3.missing = acc.missing /\ \A b \in ResFields : b # "missing" => r3[b] = r2[b]
    BY <1>4, SetField DEF r3, ResFields, GraphFields
  <1>6. IsGraph(r4) /\ \A b \in ResFields : b # "include" => r4[b] = r3[b]
    BY <1>5, SetField DEF r4, ResFields, GraphFields
  <1>7. IsGraph(r5) /\ r5.nodes = ns /\ \A b \in ResFields : b # "nodes" => r5[b] = r4[b]
    BY <1>6, SetField DEF r5, ResFields, GraphFields
  <1>8. IsGraph(r6) /\ r6.edges = es /\ \A b \in ResFields : b # "edges" => r6[b] = r5[b]
    BY <1>7, SetField DEF r6, ResFields, GraphFields
  <1>9. r6.st = res.st /\ r6.w = res.w
    BY <1>3, <1>4, <1>5, <1>6, <1>7, <1>8 DEF ResFields, GraphFields
  <1>10. r6.queue = acc.queue /\ r6.index = acc.index
    BY <1>3, <1>4, <1>5, <1>6, <1>7, <1>8 DEF ResFields, GraphFields
  <1>11. r6.missing = acc.missing /\ r6.nodes = ns
    BY <1>5, <1>6, <1>7, <1>8 DEF ResFields, GraphFields
  <1>12. r6.shown = res.shown
    BY <1>3, <1>4, <1>5, <1>6, <1>7, <1>8 DEF ResFields, GraphFields
  <1> QED BY <1>2, <1>8, <1>9, <1>10, <1>11, <1>12 DEF ns, es

LEMMA NodeVisited == ASSUME ResolverInv, VisitNode PROVE ResolverInv' /\ res'.st \in {"graph", "unresolved"}
  <1> DEFINE f == Head(res.queue)
             found == ImportsOf(f)
             imports == found.files
             acc == [queue |-> Tail(res.queue), index |-> res.index, out |-> <<>>, missing |-> res.missing,
                     include |-> res.include \cup found.include]
             b == AddedUpTo(acc, f, imports)[Len(imports)]
  <1>1. res.st = "graph" /\ res.queue # <<>> /\ res' = Visit(f, Tail(res.queue), found)
    BY Zenon DEF VisitNode
  <1>2. IsGraph(res) /\ IsWorld(proj) /\ res.shown = <<>>
        /\ IsBuilt(proj, res.queue, res.index, res.nodes, res.edges, res.missing)
    BY <1>1 DEF ResolverInv, IsGraph
  <1>3. CASE ~found.ok
    <2>1. res' = [res EXCEPT !.st = "unresolved"]
      BY <1>1, <1>3, Zenon DEF Visit
    <2>2. IsGraph(res') /\ res'.st = "unresolved" /\ res'.shown = <<>>
      BY <1>2, <2>1, SetField DEF ResFields, GraphFields
    <2> QED BY <2>2 DEF ResolverInv, IsGraph
  <1>4. CASE found.ok
    <2>1. res' = Visited(f, b)
      BY <1>1, <1>4, Zenon DEF Visit
    <2>2. found = ImportsIn(proj, f)
      BY Zenon DEF ImportsOf, ImportsIn
    <2>3. IsAcc(acc) /\ acc.queue = Tail(res.queue) /\ acc.index = res.index /\ acc.out = <<>>
          /\ acc.missing = res.missing
      BY DEF IsAcc, AccFields
    <2> HIDE DEF acc, found
    <2>4. /\ Len(res.nodes) + 1 \in Nat /\ res.index \in Seq(DOMAIN proj.imports) /\ f \in DOMAIN proj.imports
          /\ Grown(proj, f, imports, res.index, res.missing, Len(res.nodes) + 1, 0,
                   Tail(res.queue), res.index, <<>>, res.missing)
      BY <1>1, <1>2, VisitStarts, Zenon
    <2> HIDE DEF f
    <2>5. Len(imports) \in Nat
      BY <1>2, <2>2, <2>4, ImportsCounted
    <2>6. Grown(proj, f, imports, res.index, res.missing, Len(res.nodes) + 1, 0,
                acc.queue, acc.index, acc.out, acc.missing)
      BY <2>3, <2>4, Zenon
    <2>7. imports = ImportsIn(proj, f).files
      BY <2>2
    <2> HIDE DEF imports
    <2>8. IsAcc(b) /\ Grown(proj, f, imports, res.index, res.missing, Len(res.nodes) + 1, Len(imports),
                            b.queue, b.index, b.out, b.missing)
      BY <2>3, <2>4, <2>5, <2>6, ImportsAdded, Zenon
    <2> HIDE DEF b
    <2>9. /\ IsGraph(res') /\ res'.st = res.st /\ res'.w = res.w /\ res'.shown = res.shown
          /\ res'.queue = b.queue /\ res'.index = b.index /\ res'.missing = b.missing
          /\ res'.nodes = Append(res.nodes, f) /\ res'.edges = Append(res.edges, b.out)
      BY <1>2, <2>1, VisitedFields, Zenon
    <2>10. Len(proj.inputs) \in Nat
      BY <1>2 DEF IsWorld
    <2>11. IsBuilt(proj, b.queue, b.index, Append(res.nodes, f), Append(res.edges, b.out), b.missing)
      BY <1>1, <1>2, <2>5, <2>7, <2>8, <2>10, VisitBuilt, Zenon DEF f
    <2>12. proj' = proj /\ res'.st = "graph"
      BY <1>1, <2>9 DEF proj
    <2>13. IsWorld(proj)' /\ IsBuilt(proj, res.queue, res.index, res.nodes, res.edges, res.missing)'
      BY <1>2, <2>9, <2>11, <2>12
    <2>14. res' = [x \in ResFields |-> res'[x]]
      BY <2>9 DEF IsGraph
    <2>15. res'.shown = <<>>
      BY <1>2, <2>9
    <2> QED BY <2>12, <2>13, <2>14, <2>15 DEF ResolverInv
  <1> QED BY <1>3, <1>4

\* Once the graph is finished, it is only read.
LEMMA GraphKept ==
    ASSUME ResolverInv, res.st \notin {"idle", "graph", "unresolved"},
           res'.st \notin {"idle", "graph", "unresolved"}, IsGraph(res'),
           \A x \in GraphFields : x # "st" => res'[x] = res[x],
           res'.st # "print" => res'.shown = <<>>
    PROVE  ResolverInv'
  <1>1. /\ res'.w = res.w /\ res'.queue = res.queue /\ res'.index = res.index /\ res'.nodes = res.nodes
        /\ res'.edges = res.edges /\ res'.rev = res.rev /\ res'.missing = res.missing
    BY DEF GraphFields
  <1>2. /\ IsWorld(proj) /\ IsBuilt(proj, res.queue, res.index, res.nodes, res.edges, res.missing)
        /\ res.queue = <<>> /\ res.rev = RevEdges(res.edges)
    BY DEF ResolverInv
  <1>3. proj' = proj
    BY <1>1 DEF proj
  <1>4. IsWorld(proj)' /\ IsBuilt(proj, res.queue, res.index, res.nodes, res.edges, res.missing)'
    BY <1>1, <1>2, <1>3
  <1>5. RevEdges(res.edges)' = RevEdges(res.edges)
    BY <1>1
  <1> QED BY <1>1, <1>2, <1>4, <1>5 DEF ResolverInv, IsGraph

LEMMA TwoFields ==
    ASSUME ResolverInv, res.st \notin {"idle", "graph", "unresolved"},
           NEW a \in ResFields \ (GraphFields \ {"st"}), NEW c \in ResFields \ GraphFields, NEW x, NEW y,
           res' = [res EXCEPT ![a] = x, ![c] = y], a # c,
           \/ /\ a = "st" /\ x \in {"versions", "settings", "done", "failed", "print", "json"}
              /\ res.st # "print" /\ c # "shown"
           \/ a = "stack" /\ res.st = "print"
    PROVE  ResolverInv'
  <1> DEFINE r == [res EXCEPT ![a] = x]
  <1>1. res' = [r EXCEPT ![c] = y]
    BY Zenon
  <1>2. IsGraph(res)
    BY DEF ResolverInv, IsGraph
  <1> HIDE DEF r
  <1>3. a \in ResFields /\ c \in ResFields
    OBVIOUS
  <1>4. IsGraph(r) /\ r[a] = x /\ \A b \in ResFields : b # a => r[b] = res[b]
    BY <1>2, <1>3 DEF IsGraph, r
  <1>5. IsGraph(res') /\ res'[c] = y /\ \A b \in ResFields : b # c => res'[b] = r[b]
    BY <1>1, <1>3, <1>4 DEF IsGraph
  <1>6. "st" \in ResFields /\ GraphFields \subseteq ResFields /\ res'.st = r.st
    BY <1>5 DEF ResFields, GraphFields
  <1>7. res'.st \notin {"idle", "graph", "unresolved"}
    BY <1>4, <1>6
  <1>8. \A b \in GraphFields : b # "st" => res'[b] = res[b]
    BY <1>4, <1>5, <1>6
  <1>9. res'.st # "print" => res'.shown = <<>>
    <2>1. CASE a = "st" /\ res.st # "print" /\ c # "shown"
      <3>1. "shown" \in ResFields /\ "shown" # a
        BY <2>1 DEF ResFields
      <3>2. res'.shown = res.shown
        BY <1>4, <1>5, <2>1, <3>1
      <3> QED BY <2>1, <3>2 DEF ResolverInv
    <2>2. CASE a = "stack" /\ res.st = "print"
      BY <1>4, <1>6, <2>2
    <2> QED BY <2>1, <2>2
  <1> QED BY <1>5, <1>7, <1>8, <1>9, GraphKept

Changed(q, r, a, x, c, y) == r[a] = x /\ r[c] = y /\ \A b \in ResFields \ {a, c} : r[b] = q[b]

LEMMA FieldsChanged ==
    ASSUME NEW q, IsGraph(q), NEW a \in ResFields, NEW c \in ResFields, NEW x, NEW y, a # c,
           NEW r, r = [q EXCEPT ![a] = x, ![c] = y]
    PROVE  Changed(q, r, a, x, c, y)
  <1> DEFINE p == [q EXCEPT ![a] = x]
  <1>1. r = [p EXCEPT ![c] = y]
    BY Zenon
  <1> HIDE DEF p
  <1>2. IsGraph(p) /\ p[a] = x /\ \A b \in ResFields : b # a => p[b] = q[b]
    BY DEF IsGraph, p
  <1>3. r[c] = y /\ \A b \in ResFields : b # c => r[b] = p[b]
    BY <1>1, <1>2 DEF IsGraph
  <1> QED BY <1>2, <1>3 DEF Changed

LEMMA GraphFinished == ASSUME ResolverInv, FinishGraph PROVE ResolverInv' /\ res'.st = "resolved"
  <1> DEFINE v == RevEdges(res.edges)
             r == [res EXCEPT !.st = "resolved"]
  <1>1. res.st = "graph" /\ res.queue = <<>> /\ res' = [res EXCEPT !.st = "resolved", !.rev = v]
    BY Zenon DEF FinishGraph
  <1>2. res' = [r EXCEPT !.rev = v]
    BY <1>1, Zenon
  <1>3. IsGraph(res) /\ IsWorld(proj)
        /\ IsBuilt(proj, res.queue, res.index, res.nodes, res.edges, res.missing)
    BY <1>1 DEF ResolverInv, IsGraph
  <1> HIDE DEF r, v
  <1>4. IsGraph(r) /\ r.st = "resolved" /\ \A b \in ResFields : b # "st" => r[b] = res[b]
    BY <1>3, SetField DEF r, ResFields, GraphFields
  <1>5. IsGraph(res') /\ res'.rev = v /\ \A b \in ResFields : b # "rev" => res'[b] = r[b]
    BY <1>2, <1>4, SetField DEF ResFields, GraphFields
  <1>6. /\ res'.st = "resolved" /\ res'.w = res.w /\ res'.queue = res.queue /\ res'.index = res.index
        /\ res'.nodes = res.nodes
    BY <1>4, <1>5 DEF ResFields, GraphFields
  <1>7. res'.edges = res.edges /\ res'.missing = res.missing
    BY <1>4, <1>5 DEF ResFields, GraphFields
  <1>8. proj' = proj
    BY <1>6 DEF proj
  <1>11. res'.shown = <<>>
    <2>1. res.shown = <<>>
      BY <1>1 DEF ResolverInv
    <2> QED BY <1>4, <1>5, <2>1 DEF ResFields, GraphFields
  <1>9. IsWorld(proj)' /\ IsBuilt(proj, res.queue, res.index, res.nodes, res.edges, res.missing)'
    BY <1>3, <1>6, <1>7, <1>8
  <1>10. RevEdges(res.edges)' = res'.rev
    BY <1>5, <1>7 DEF v
  <1> QED BY <1>1, <1>5, <1>6, <1>9, <1>10, <1>11 DEF ResolverInv, IsGraph

LEMMA OtherFields ==
    /\ {"chosen", "blame", "primary", "jobs", "stack", "shown", "json"} \subseteq ResFields \ GraphFields
    /\ {"st", "stack"} \subseteq ResFields \ (GraphFields \ {"st"})
    /\ {"st", "chosen", "blame", "primary", "jobs", "stack", "shown", "json"} \subseteq ResFields
  BY DEF ResFields, GraphFields

Chosen == {"versions", "settings", "failed"}

LEMMA VersionsChosen == ASSUME ResolverInv, ChooseVersions PROVE ResolverInv' /\ res'.st \in Chosen
  <1>1. res.st = "resolved"
    BY Zenon DEF ChooseVersions
  <1>2. (\E x : res' = [res EXCEPT !.st = "versions", !.chosen = x])
        \/ (\E x : res' = [res EXCEPT !.st = "failed", !.blame = x])
    BY Zenon DEF ChooseVersions
  <1>3. ASSUME NEW x, res' = [res EXCEPT !.st = "versions", !.chosen = x]
         PROVE  ResolverInv' /\ res'.st \in Chosen
    <2>1. ResolverInv'
      BY <1>1, <1>3, TwoFields, OtherFields
    <2>2. Changed(res, res', "st", "versions", "chosen", x)
      BY <1>1, <1>3, FieldsChanged, OtherFields DEF ResolverInv, IsGraph
    <2> QED BY <2>1, <2>2 DEF Changed, Chosen
  <1>4. ASSUME NEW x, res' = [res EXCEPT !.st = "failed", !.blame = x]
         PROVE  ResolverInv' /\ res'.st \in Chosen
    <2>1. ResolverInv'
      BY <1>1, <1>4, TwoFields, OtherFields
    <2>2. Changed(res, res', "st", "failed", "blame", x)
      BY <1>1, <1>4, FieldsChanged, OtherFields DEF ResolverInv, IsGraph
    <2> QED BY <2>1, <2>2 DEF Changed, Chosen
  <1> QED BY <1>2, <1>3, <1>4

LEMMA SettingsChosen == ASSUME ResolverInv, ChooseSettings PROVE ResolverInv' /\ res'.st \in Chosen
  <1>1. res.st = "versions"
    BY Zenon DEF ChooseSettings
  <1>2. (\E x : res' = [res EXCEPT !.st = "settings", !.primary = x])
        \/ (\E x : res' = [res EXCEPT !.st = "failed", !.blame = x])
    BY Zenon DEF ChooseSettings
  <1>3. ASSUME NEW x, res' = [res EXCEPT !.st = "settings", !.primary = x]
         PROVE  ResolverInv' /\ res'.st \in Chosen
    <2>1. ResolverInv'
      BY <1>1, <1>3, TwoFields, OtherFields
    <2>2. Changed(res, res', "st", "settings", "primary", x)
      BY <1>1, <1>3, FieldsChanged, OtherFields DEF ResolverInv, IsGraph
    <2> QED BY <2>1, <2>2 DEF Changed, Chosen
  <1>4. ASSUME NEW x, res' = [res EXCEPT !.st = "failed", !.blame = x]
         PROVE  ResolverInv' /\ res'.st \in Chosen
    <2>1. ResolverInv'
      BY <1>1, <1>4, TwoFields, OtherFields
    <2>2. Changed(res, res', "st", "failed", "blame", x)
      BY <1>1, <1>4, FieldsChanged, OtherFields DEF ResolverInv, IsGraph
    <2> QED BY <2>1, <2>2 DEF Changed, Chosen
  <1> QED BY <1>2, <1>3, <1>4

LEMMA JobsMade == ASSUME ResolverInv, MakeJobs PROVE ResolverInv' /\ res'.st = "done"
  <1>1. res.st = "settings" /\ \E x : res' = [res EXCEPT !.st = "done", !.jobs = x]
    BY Zenon DEF MakeJobs
  <1>2. ASSUME NEW x, res' = [res EXCEPT !.st = "done", !.jobs = x]
         PROVE  ResolverInv' /\ res'.st = "done"
    <2>1. ResolverInv'
      BY <1>1, <1>2, TwoFields, OtherFields
    <2>2. Changed(res, res', "st", "done", "jobs", x)
      BY <1>1, <1>2, FieldsChanged, OtherFields DEF ResolverInv, IsGraph
    <2> QED BY <2>1, <2>2 DEF Changed
  <1> QED BY <1>1, <1>2

LEMMA TreePrinted == ASSUME ResolverInv, PrintTree \/ PrintNode PROVE ResolverInv' /\ res'.st = "print"
  <1>1. \/ res.st = "resolved" /\ \E x : res' = [res EXCEPT !.st = "print", !.stack = x]
        \/ res.st = "print" /\ \E x, y : res' = [res EXCEPT !.stack = x, !.shown = y]
    BY Zenon DEF PrintTree, PrintNode
  <1>2. ASSUME res.st = "resolved", NEW x, res' = [res EXCEPT !.st = "print", !.stack = x]
         PROVE  ResolverInv' /\ res'.st = "print"
    <2>1. ResolverInv'
      BY <1>2, TwoFields, OtherFields
    <2>2. Changed(res, res', "st", "print", "stack", x)
      BY <1>2, FieldsChanged, OtherFields DEF ResolverInv, IsGraph
    <2> QED BY <2>1, <2>2 DEF Changed
  <1>3. ASSUME res.st = "print", NEW x, NEW y, res' = [res EXCEPT !.stack = x, !.shown = y]
         PROVE  ResolverInv' /\ res'.st = "print"
    <2>1. ResolverInv'
      BY <1>3, TwoFields, OtherFields
    <2>2. Changed(res, res', "stack", x, "shown", y)
      BY <1>3, FieldsChanged, OtherFields DEF ResolverInv, IsGraph
    <2> QED BY <1>3, <2>1, <2>2, OtherFields DEF Changed
  <1> QED BY <1>1, <1>2, <1>3

LEMMA JsonMade == ASSUME ResolverInv, NEW k, StandardJson(k) PROVE ResolverInv' /\ res'.st = "json"
  <1>1. res.st = "resolved" /\ \E x : res' = [res EXCEPT !.st = "json", !.json = x]
    BY Zenon DEF StandardJson
  <1>2. ASSUME NEW x, res' = [res EXCEPT !.st = "json", !.json = x]
         PROVE  ResolverInv' /\ res'.st = "json"
    <2>1. ResolverInv'
      BY <1>1, <1>2, TwoFields, OtherFields
    <2>2. Changed(res, res', "st", "json", "json", x)
      BY <1>1, <1>2, FieldsChanged, OtherFields DEF ResolverInv, IsGraph
    <2> QED BY <2>1, <2>2 DEF Changed
  <1> QED BY <1>1, <1>2

LEMMA ResolverStep == ASSUME ResolverInv, [ResolverNext]_res PROVE ResolverInv'
  <1>1. CASE ParseSources
    BY <1>1, SourcesRead
  <1>2. CASE VisitNode
    BY <1>2, NodeVisited
  <1>3. CASE FinishGraph
    BY <1>3, GraphFinished
  <1>4. CASE ChooseVersions
    BY <1>4, VersionsChosen
  <1>5. CASE ChooseSettings
    BY <1>5, SettingsChosen
  <1>6. CASE MakeJobs
    BY <1>6, JobsMade
  <1>7. CASE PrintTree \/ PrintNode
    BY <1>7, TreePrinted
  <1>8. ASSUME NEW k \in 1..Len(res.nodes), StandardJson(k) PROVE ResolverInv'
    BY <1>8, JsonMade
  <1>9. CASE UNCHANGED res
    BY <1>9 DEF ResolverInv, proj, RevEdges
  <1> QED BY <1>1, <1>2, <1>3, <1>4, <1>5, <1>6, <1>7, <1>8, <1>9, Zenon DEF ResolverNext

LEMMA InvAligned == ASSUME ResolverInv PROVE GraphAligned
  <1> SUFFICES ASSUME res.st \notin {"idle", "graph", "unresolved"}
      PROVE  /\ res.nodes = res.index /\ Len(res.edges) = Len(res.nodes)
             /\ ToSet(SubSeq(res.nodes, 1, Len(proj.inputs))) = ToSet(proj.inputs)
             /\ \A k \in 1..Len(res.nodes) :
                  /\ Len(res.edges[k])
                        = Cardinality({i \in 1..Len(ImportsOf(res.nodes[k]).files) :
                                         <<ImportsOf(res.nodes[k]).files[i], res.nodes[k]>> \notin res.missing})
                  /\ \A j \in ToSet(res.edges[k]) :
                       /\ res.nodes[k] \in ImportersOf(res.nodes[j])
                       /\ \E i \in ToSet(ImportsOf(res.nodes[k]).files) :
                             ResolveImport(proj.fs, proj.paths, Parent(res.nodes[k]), i).file = res.nodes[j]
                  /\ k \in Reach(k) /\ (k \in UNION {Reach(i) : i \in Inputs})
    BY Zenon DEF GraphAligned
  <1> DEFINE index == res.index
             nodes == res.nodes
             edges == res.edges
             missing == res.missing
             S == DOMAIN proj.imports
             N == Len(nodes)
             m == Len(proj.inputs)
  <1>1. /\ IsWorld(proj) /\ IsBuilt(proj, res.queue, index, nodes, edges, missing)
        /\ res.queue = <<>> /\ res.rev = RevEdges(edges)
    BY Zenon DEF ResolverInv
  <1>2. /\ index \in Seq(S) /\ IsInjective(index)
        /\ m <= Len(index) /\ {index[k] : k \in 1..m} = ToSet(proj.inputs)
        /\ nodes \in Seq(S) /\ edges \in Seq(Seq(Nat)) /\ Len(edges) = N
        /\ Len(index) = N + Len(res.queue)
        /\ \A k \in 1..N : nodes[k] = index[k]
    BY <1>1, Zenon DEF IsBuilt
  <1>3. /\ \A k \in 1..N : EdgesOf(proj, nodes[k], index, edges[k], missing, ImportsIn(proj, nodes[k]).files)
        /\ \A p \in missing : IsLost(proj, p[2], p[1])
        /\ \A k \in 1..Len(index) : k > m => HasParent(edges, k)
    BY <1>1, Zenon DEF IsBuilt
  <1>4. m \in Nat
    BY <1>1 DEF IsWorld
  <1> HIDE DEF index, nodes, edges, missing, S
  <1>5. N \in Nat /\ Len(index) = N
    BY <1>1, <1>2
  <1>6. nodes = index
    <2>1. /\ nodes = [k \in 1..N |-> nodes[k]] /\ index = [k \in 1..Len(index) |-> index[k]]
      BY <1>2
    <2> HIDE DEF N
    <2> QED BY <1>2, <1>5, <2>1
  <1>7. ToSet(SubSeq(nodes, 1, m)) = ToSet(proj.inputs)
    <2> HIDE DEF m
    <2>1. DOMAIN SubSeq(index, 1, m) = 1..m /\ \A k \in 1..m : SubSeq(index, 1, m)[k] = index[k]
      BY <1>2, <1>4, <1>5
    <2>2. ToSet(SubSeq(index, 1, m)) = {index[k] : k \in 1..m}
      BY <2>1 DEF ToSet
    <2> QED BY <1>2, <1>6, <2>2
  <1>8. \A f : ImportsOf(f) = ImportsIn(proj, f)
    BY Zenon DEF ImportsOf, ImportsIn
  <1>9. Inputs = 1..m
    BY DEF Inputs
  <1>10. \A k \in 1..N : k \in Reach(k) /\ \E i \in 1..m : k \in Reach(i)
    <2> HIDE DEF m
    <2>1. \A k \in 1..N : k > m => HasParent(res.edges, k)
      BY <1>3, <1>5 DEF edges
    <2>2. N = Len(res.nodes) /\ Len(res.edges) = N
      BY <1>2 DEF nodes, edges
    <2> HIDE DEF N
    <2> QED BY <1>4, <1>5, <2>1, <2>2, AllReached
  <1>11. ASSUME NEW k \in 1..N
         PROVE  /\ Len(edges[k]) = Cardinality({i \in 1..Len(ImportsOf(nodes[k]).files) :
                                                  <<ImportsOf(nodes[k]).files[i], nodes[k]>> \notin missing})
                /\ \A j \in ToSet(edges[k]) :
                     /\ nodes[k] \in ImportersOf(nodes[j])
                     /\ \E i \in ToSet(ImportsOf(nodes[k]).files) :
                           ResolveImport(proj.fs, proj.paths, Parent(nodes[k]), i).file = nodes[j]
    <2> DEFINE f == nodes[k]
               out == edges[k]
               imports == ImportsIn(proj, f).files
    <2>1. EdgesOf(proj, f, index, out, missing, imports)
      BY <1>3
    <2>2. ImportsOf(f).files = imports
      BY <1>8, Zenon
    <2> HIDE DEF f, out, imports
    <2>3. /\ Len(imports) \in Nat
          /\ out \in Seq(1..Len(index)) /\ Len(out) = Cardinality(Found(proj, f, imports, Len(imports)))
          /\ \A j \in 1..Len(out) : \E i \in 1..Len(imports) : index[out[j]] = TargetIn(proj, f, imports[i])
          /\ \A i \in 1..Len(imports) : IsLost(proj, f, imports[i]) => <<imports[i], f>> \in missing
      BY <2>1, Zenon DEF EdgesOf
    <2>4. Found(proj, f, imports, Len(imports)) = {i \in 1..Len(imports) : <<imports[i], f>> \notin missing}
      <3>1. ASSUME NEW i \in 1..Len(imports), <<imports[i], f>> \in missing PROVE IsLost(proj, f, imports[i])
        <4> DEFINE p == <<imports[i], f>>
        <4>1. p[1] = imports[i] /\ p[2] = f
          OBVIOUS
        <4>2. IsLost(proj, p[2], p[1])
          BY <1>3, <3>1, Zenon
        <4> QED BY <4>1, <4>2, Zenon
      <3> QED BY <2>3, <3>1 DEF Found
    <2>5. ASSUME NEW j \in ToSet(out)
          PROVE  /\ f \in ImportersOf(nodes[j])
                 /\ \E i \in ToSet(imports) :
                       ResolveImport(proj.fs, proj.paths, Parent(f), i).file = nodes[j]
      <3>1. PICK h \in 1..Len(out) : j = out[h]
        BY <2>3 DEF ToSet
      <3>2. j \in 1..N
        BY <1>5, <2>3, <3>1
      <3>3. IndexOf(index, nodes[j]) = j
        <4>1. \A i \in 1..Len(index) : index[i] = index[j] <=> i = j
          <5>1. DOMAIN index = 1..Len(index) /\ j \in 1..Len(index)
            BY <1>2, <1>5, <3>2
          <5> QED BY <1>2, <5>1, Zenon DEF IsInjective
        <4>2. j \in 1..Len(index)
          BY <1>5, <3>2
        <4> QED BY <1>6, <4>1, <4>2, Zenon DEF IndexOf
      <3>4. RevEdges(edges)[j] = {i \in 1..Len(edges) : j \in ToSet(edges[i])}
        BY <1>2, <3>2 DEF RevEdges
      <3>5. k \in RevEdges(edges)[j]
        BY <1>2, <3>4 DEF out
      <3>6. f \in ImportersOf(nodes[j])
        <4>1. ImportersOf(nodes[j]) = {nodes[i] : i \in RevEdges(edges)[j]}
          BY <1>1, <3>3, Zenon DEF ImportersOf, index, nodes
        <4> QED BY <3>5, <4>1 DEF f
      <3>7. PICK i \in 1..Len(imports) : index[out[h]] = TargetIn(proj, f, imports[i])
        BY <2>3
      <3>8. imports[i] \in ToSet(imports)
        <4>1. DOMAIN imports = 1..Len(imports)
          BY <2>3
        <4> QED BY <4>1 DEF ToSet
      <3>9. ResolveImport(proj.fs, proj.paths, Parent(f), imports[i]).file = nodes[j]
        BY <1>6, <3>1, <3>7, Zenon DEF TargetIn
      <3> QED BY <3>6, <3>8, <3>9
    <2>6. Len(out) = Cardinality({i \in 1..Len(imports) : <<imports[i], f>> \notin missing})
      BY <2>3, <2>4
    <2>7. /\ Len(out) = Cardinality({i \in 1..Len(ImportsOf(f).files) : <<ImportsOf(f).files[i], f>> \notin missing})
          /\ \A j \in ToSet(out) :
               /\ f \in ImportersOf(nodes[j])
               /\ \E i \in ToSet(ImportsOf(f).files) :
                     ResolveImport(proj.fs, proj.paths, Parent(f), i).file = nodes[j]
      BY <2>2, <2>5, <2>6
    <2> QED BY <2>7 DEF f, out
  <1>12. \A k \in 1..N : k \in Reach(k) /\ k \in UNION {Reach(i) : i \in Inputs}
    BY <1>9, <1>10
  <1> QED BY <1>2, <1>6, <1>7, <1>11, <1>12, Zenon DEF index, nodes, edges, missing

-----------------------------------------------------------------------------
(* The printed tree                                                        *)

Lines(N) == [node : 1..N, under : Seq(1..N)]
Marks(N) == [node : 1..N, open : BOOLEAN]

IsShown(shown, k) == \E i \in 1..Len(shown) : shown[i].node = k
IsOpened(shown, k) == \E i \in 1..Len(shown) : shown[i].node = k /\ shown[i].open
IsPending(stack, shown, k) == IsShown(shown, k) \/ \E i \in 1..Len(stack) : stack[i].node = k

\* What is printed was opened the first time; the imports of what was opened are
\* printed or still to come; no line is below itself.
IsTree(N, edges, I, repeat, stack, shown) ==
    /\ stack \in Seq(Lines(N)) /\ shown \in Seq(Marks(N))
    /\ \A i \in 1..Len(stack) :
          IsInjective(stack[i].under) /\ \A x \in ToSet(stack[i].under) : IsShown(shown, x)
    /\ \A k \in 1..I : IsPending(stack, shown, k)
    /\ \A k \in 1..N : IsOpened(shown, k) => \A j \in ToSet(edges[k]) : IsPending(stack, shown, j)
    /\ \A k \in 1..N : IsShown(shown, k) => IsOpened(shown, k)
    /\ ~repeat => \A i, j \in 1..Len(shown) :
                     shown[i].open /\ shown[j].open /\ shown[i].node = shown[j].node => i = j

LEMMA TreeStarts ==
    ASSUME NEW N \in Nat, NEW I \in Nat, I <= N, NEW edges, NEW repeat,
           NEW stack, stack = [k \in 1..I |-> [node |-> k, under |-> <<>>]]
    PROVE  IsTree(N, edges, I, repeat, stack, <<>>)
  <1>1. \A k \in 1..I : [node |-> k, under |-> <<>>] \in Lines(N)
    BY DEF Lines
  <1>2. stack \in Seq(Lines(N)) /\ Len(stack) = I /\ \A k \in 1..I : stack[k] = [node |-> k, under |-> <<>>]
    BY <1>1
  <1>3. \A k \in 1..I : stack[k].node = k /\ stack[k].under = <<>>
    BY <1>2
  <1>4. IsInjective(<<>>) /\ ToSet(<<>>) = {}
    BY DEF IsInjective, ToSet
  <1>5. <<>> \in Seq(Marks(N)) /\ Len(<<>>) = 0 /\ \A i \in 1..Len(<<>>) : FALSE
    OBVIOUS
  <1>6. \A k \in 1..I : IsPending(stack, <<>>, k)
    BY <1>2, <1>3 DEF IsPending
  <1>7. \A k : ~IsShown(<<>>, k) /\ ~IsOpened(<<>>, k)
    BY <1>5, Zenon DEF IsShown, IsOpened
  <1>8. \A i \in 1..Len(stack) :
           IsInjective(stack[i].under) /\ \A x \in ToSet(stack[i].under) : IsShown(<<>>, x)
    BY <1>2, <1>3, <1>4
  <1> QED BY <1>2, <1>5, <1>6, <1>7, <1>8, Zenon DEF IsTree

LEMMA TreeGoesOn ==
    ASSUME NEW N \in Nat, NEW I \in Nat, NEW edges, NEW repeat \in BOOLEAN, NEW stack, NEW shown,
           IsTree(N, edges, I, repeat, stack, shown), stack # <<>>,
           \A k \in 1..N : edges[k] \in Seq(1..N),
           NEW line, line = Head(stack),
           NEW open, open = ((repeat \/ ~IsShown(shown, line.node)) /\ line.node \notin ToSet(line.under)),
           NEW lines, lines = [k \in 1..Len(edges[line.node]) |->
                                  [node |-> edges[line.node][k], under |-> Append(line.under, line.node)]]
    PROVE  IsTree(N, edges, I, repeat, (IF open THEN lines ELSE <<>>) \o Tail(stack),
                  Append(shown, [node |-> line.node, open |-> open]))
  <1> DEFINE n == line.node
             below == Append(line.under, n)
             more == IF open THEN lines ELSE <<>>
             rest == Tail(stack)
             st == more \o rest
             mark == [node |-> n, open |-> open]
             sh == Append(shown, mark)
  <1>1. /\ stack \in Seq(Lines(N)) /\ shown \in Seq(Marks(N))
        /\ \A i \in 1..Len(stack) :
              IsInjective(stack[i].under) /\ \A x \in ToSet(stack[i].under) : IsShown(shown, x)
        /\ \A k \in 1..I : IsPending(stack, shown, k)
        /\ \A k \in 1..N : IsOpened(shown, k) => \A j \in ToSet(edges[k]) : IsPending(stack, shown, j)
        /\ \A k \in 1..N : IsShown(shown, k) => IsOpened(shown, k)
    BY Zenon DEF IsTree
  <1>2. /\ line = stack[1] /\ 1 \in 1..Len(stack) /\ line \in Lines(N)
        /\ rest \in Seq(Lines(N)) /\ Len(stack) = Len(rest) + 1 /\ Len(rest) \in Nat
        /\ \A i \in 1..Len(rest) : rest[i] = stack[i + 1]
    BY <1>1
  <1>3. n \in 1..N /\ line.under \in Seq(1..N) /\ open \in BOOLEAN
    BY <1>2 DEF Lines
  <1>4. IsInjective(line.under) /\ \A x \in ToSet(line.under) : IsShown(shown, x)
    BY <1>1, <1>2
  <1>5. mark \in Marks(N) /\ mark.node = n /\ mark.open = open
    BY <1>3 DEF Marks
  <1> HIDE DEF mark, rest
  <1>6. /\ sh \in Seq(Marks(N)) /\ Len(sh) = Len(shown) + 1 /\ sh[Len(shown) + 1] = mark /\ Len(shown) \in Nat
        /\ \A i \in 1..Len(shown) : sh[i] = shown[i]
    BY <1>1, <1>5
  <1> HIDE DEF sh
  <1>7. \A i \in 1..Len(sh) : i \in 1..Len(shown) \/ i = Len(shown) + 1
    BY <1>6
  <1>8. \A k : IsShown(sh, k) <=> IsShown(shown, k) \/ k = n
    <2> TAKE k
    <2>1. ASSUME IsShown(shown, k) PROVE IsShown(sh, k)
      <3>1. PICK i \in 1..Len(shown) : shown[i].node = k
        BY <2>1 DEF IsShown
      <3>2. i \in 1..Len(sh) /\ sh[i].node = k
        BY <1>6, <3>1
      <3> QED BY <3>2 DEF IsShown
    <2>2. IsShown(sh, n)
      <3>1. Len(shown) + 1 \in 1..Len(sh) /\ sh[Len(shown) + 1].node = n
        BY <1>5, <1>6
      <3> QED BY <3>1 DEF IsShown
    <2>3. ASSUME IsShown(sh, k) PROVE IsShown(shown, k) \/ k = n
      <3>1. PICK i \in 1..Len(sh) : sh[i].node = k
        BY <2>3 DEF IsShown
      <3>2. CASE i \in 1..Len(shown)
        BY <1>6, <3>1, <3>2 DEF IsShown
      <3>3. CASE i = Len(shown) + 1
        BY <1>5, <1>6, <3>1, <3>3
      <3> QED BY <1>7, <3>2, <3>3
    <2> QED BY <2>1, <2>2, <2>3
  <1>9. \A k : IsOpened(sh, k) <=> IsOpened(shown, k) \/ (k = n /\ open)
    <2> TAKE k
    <2>1. ASSUME IsOpened(shown, k) PROVE IsOpened(sh, k)
      <3>1. PICK i \in 1..Len(shown) : shown[i].node = k /\ shown[i].open
        BY <2>1 DEF IsOpened
      <3>2. i \in 1..Len(sh) /\ sh[i].node = k /\ sh[i].open
        BY <1>6, <3>1
      <3> QED BY <3>2 DEF IsOpened
    <2>2. ASSUME open PROVE IsOpened(sh, n)
      <3>1. Len(shown) + 1 \in 1..Len(sh) /\ sh[Len(shown) + 1].node = n /\ sh[Len(shown) + 1].open
        BY <1>5, <1>6, <2>2
      <3> QED BY <3>1 DEF IsOpened
    <2>3. ASSUME IsOpened(sh, k) PROVE IsOpened(shown, k) \/ (k = n /\ open)
      <3>1. PICK i \in 1..Len(sh) : sh[i].node = k /\ sh[i].open
        BY <2>3 DEF IsOpened
      <3>2. CASE i \in 1..Len(shown)
        BY <1>6, <3>1, <3>2 DEF IsOpened
      <3>3. CASE i = Len(shown) + 1
        BY <1>5, <1>6, <3>1, <3>3
      <3> QED BY <1>7, <3>2, <3>3
    <2> QED BY <2>1, <2>2, <2>3
  <1>10. open => below \in Seq(1..N) /\ IsInjective(below) /\ \A x \in ToSet(below) : IsShown(sh, x)
    <2> SUFFICES ASSUME open
        PROVE below \in Seq(1..N) /\ IsInjective(below) /\ \A x \in ToSet(below) : IsShown(sh, x)
      OBVIOUS
    <2>1. n \notin ToSet(line.under)
      OBVIOUS
    <2> DEFINE above == line.under
    <2>2. above \in Seq(1..N) /\ IsInjective(above) /\ n \in 1..N /\ n \notin ToSet(above)
      BY <1>3, <1>4, <2>1
    <2> HIDE DEF above, n
    <2>3. below = Append(above, n)
      BY DEF above
    <2> HIDE DEF below
    <2>20. above \in Seq(1..N) /\ n \in 1..N
      BY <2>2
    <2>21. Len(above) \in Nat /\ DOMAIN above = 1..Len(above)
      BY <2>20
    <2>22. below \in Seq(1..N)
      BY <2>3, <2>20
    <2>23. Len(below) = Len(above) + 1
      BY <2>3, <2>20
    <2>24. below[Len(above) + 1] = n
      BY <2>3, <2>20
    <2>25. \A i \in 1..Len(above) : below[i] = above[i]
      BY <2>3, <2>20
    <2>26. DOMAIN below = 1..(Len(above) + 1)
      BY <2>22, <2>23
    <2>4. /\ below \in Seq(1..N) /\ Len(below) = Len(above) + 1 /\ below[Len(above) + 1] = n /\ Len(above) \in Nat
          /\ \A i \in 1..Len(above) : below[i] = above[i]
          /\ DOMAIN below = 1..(Len(above) + 1) /\ DOMAIN above = 1..Len(above)
      BY <2>21, <2>22, <2>23, <2>24, <2>25, <2>26
    <2>5. \A i \in 1..(Len(above) + 1) : i \in 1..Len(above) \/ i = Len(above) + 1
      BY <2>4
    <2>6. \A i \in 1..Len(above) : above[i] \in ToSet(above)
      BY <2>4 DEF ToSet
    <2>7. \A i \in 1..Len(above) : above[i] # n
      BY <2>2, <2>6
    <2>8. IsInjective(below)
      <3> SUFFICES ASSUME NEW a \in 1..(Len(above) + 1), NEW b \in 1..(Len(above) + 1), below[a] = below[b]
          PROVE a = b
        BY <2>4, Zenon DEF IsInjective
      <3>1. CASE a \in 1..Len(above) /\ b \in 1..Len(above)
        <4>1. above[a] = above[b] /\ a \in DOMAIN above /\ b \in DOMAIN above
          BY <2>4, <3>1
        <4> QED BY <2>2, <4>1, Zenon DEF IsInjective
      <3>2. CASE a \in 1..Len(above) /\ b = Len(above) + 1
        BY <2>4, <2>7, <3>2
      <3>3. CASE b \in 1..Len(above) /\ a = Len(above) + 1
        BY <2>4, <2>7, <3>3
      <3> QED BY <2>5, <3>1, <3>2, <3>3
    <2>9. ASSUME NEW x \in ToSet(below) PROVE IsShown(sh, x)
      <3>1. PICK i \in 1..(Len(above) + 1) : x = below[i]
        BY <2>4 DEF ToSet
      <3>2. CASE i \in 1..Len(above)
        <4>1. x \in ToSet(above)
          BY <2>4, <2>6, <3>1, <3>2
        <4> QED BY <1>4, <1>8, <4>1 DEF above
      <3>3. CASE i = Len(above) + 1
        BY <1>8, <2>4, <3>1, <3>3
      <3> QED BY <2>5, <3>2, <3>3
    <2> QED BY <2>4, <2>8, <2>9
  <1>11. /\ more \in Seq(Lines(N)) /\ Len(more) \in Nat
         /\ \A i \in 1..Len(more) : open /\ more[i].under = below
         /\ open => \A j \in ToSet(edges[n]) : \E i \in 1..Len(more) : more[i].node = j
    <2> DEFINE out == edges[n]
    <2>1. out \in Seq(1..N)
      BY <1>3
    <2>2. lines = [k \in 1..Len(out) |-> [node |-> out[k], under |-> below]]
      OBVIOUS
    <2> HIDE DEF out, below, n
    <2>3. CASE open
      <3>1. more = lines
        BY <2>3
      <3>2. below \in Seq(1..N) /\ Len(out) \in Nat /\ \A k \in 1..Len(out) : out[k] \in 1..N
        BY <1>10, <2>1, <2>3
      <3>3. \A k \in 1..Len(out) : [node |-> out[k], under |-> below] \in Lines(N)
        BY <3>2 DEF Lines
      <3> HIDE DEF more
      <3>4. /\ more \in Seq(Lines(N)) /\ Len(more) = Len(out)
            /\ \A k \in 1..Len(out) : more[k] = [node |-> out[k], under |-> below]
        BY <2>2, <3>1, <3>2, <3>3
      <3>5. ASSUME NEW k \in 1..Len(out) PROVE more[k].node = out[k] /\ more[k].under = below
        <4>1. more[k] = [node |-> out[k], under |-> below]
          BY <3>4
        <4> QED BY <4>1
      <3>6. ASSUME NEW j \in ToSet(out) PROVE \E i \in 1..Len(more) : more[i].node = j
        <4>1. DOMAIN out = 1..Len(out) /\ 1..Len(more) = 1..Len(out)
          BY <2>1, <3>4
        <4>2. PICK i \in DOMAIN out : j = out[i]
          BY <3>6, Zenon DEF ToSet
        <4>3. i \in 1..Len(out)
          BY <4>1, <4>2
        <4> QED BY <3>5, <4>1, <4>2, <4>3, Zenon
      <3> QED BY <2>3, <3>2, <3>4, <3>5, <3>6 DEF out
    <2>4. CASE ~open
      <3>1. more = <<>>
        BY <2>4
      <3> HIDE DEF more
      <3>2. more \in Seq(Lines(N)) /\ Len(more) = 0 /\ \A i \in 1..Len(more) : FALSE
        BY <3>1
      <3> QED BY <2>4, <3>2
    <2> QED BY <2>3, <2>4
  <1> HIDE DEF more
  <1>12. /\ st \in Seq(Lines(N)) /\ Len(st) = Len(more) + Len(rest)
         /\ \A i \in 1..Len(more) : st[i] = more[i]
         /\ \A i \in 1..Len(rest) : st[Len(more) + i] = rest[i]
    BY <1>2, <1>11, ConcatProperties
  <1> HIDE DEF st, below, n
  <1>13. \A i \in 1..Len(st) : i \in 1..Len(more) \/ (i - Len(more) \in 1..Len(rest) /\ i = Len(more) + (i - Len(more)))
    BY <1>2, <1>11, <1>12
  <1>14. ASSUME NEW i \in 1..Len(st)
         PROVE  IsInjective(st[i].under) /\ \A x \in ToSet(st[i].under) : IsShown(sh, x)
    <2>1. CASE i \in 1..Len(more)
      <3>1. st[i].under = below /\ open
        BY <1>11, <1>12, <2>1
      <3> QED BY <1>10, <3>1
    <2>2. CASE i - Len(more) \in 1..Len(rest) /\ i = Len(more) + (i - Len(more))
      <3> DEFINE h == (i - Len(more)) + 1
      <3> DEFINE d == i - Len(more)
      <3>3. d \in 1..Len(rest) /\ i = Len(more) + d /\ h = d + 1
        BY <2>2
      <3> HIDE DEF d, h
      <3>4. st[i] = rest[d] /\ rest[d] = stack[h]
        BY <1>2, <1>12, <3>3
      <3>5. h \in 1..Len(stack)
        BY <1>2, <3>3
      <3>1. st[i] = stack[h] /\ h \in 1..Len(stack)
        BY <3>4, <3>5
      <3>2. IsInjective(stack[h].under) /\ \A x \in ToSet(stack[h].under) : IsShown(shown, x)
        BY <1>1, <3>1
      <3> QED BY <1>8, <3>1, <3>2, Zenon
    <2> QED BY <1>13, <2>1, <2>2
  <1>15. ASSUME NEW k, IsPending(stack, shown, k) PROVE IsPending(st, sh, k)
    <2>1. CASE IsShown(shown, k)
      BY <1>8, <2>1 DEF IsPending
    <2>2. CASE \E i \in 1..Len(stack) : stack[i].node = k
      <3>1. PICK i \in 1..Len(stack) : stack[i].node = k
        BY <2>2
      <3>2. CASE i = 1
        BY <1>2, <1>8, <3>1, <3>2 DEF IsPending, n
      <3>3. CASE i # 1
        <4> DEFINE d == i - 1
        <4>1. d \in 1..Len(rest) /\ d + 1 = i
          BY <1>2, <3>1, <3>3
        <4> HIDE DEF d
        <4>3. st[Len(more) + d] = rest[d] /\ rest[d] = stack[i]
          BY <1>2, <1>12, <4>1
        <4>4. Len(more) + d \in 1..Len(st)
          BY <1>2, <1>11, <1>12, <4>1
        <4> QED BY <3>1, <4>3, <4>4 DEF IsPending
      <3> QED BY <3>2, <3>3
    <2> QED BY <1>15, <2>1, <2>2 DEF IsPending
  <1>16. \A k \in 1..I : IsPending(st, sh, k)
    BY <1>1, <1>15
  <1>17. ASSUME NEW k \in 1..N, IsOpened(sh, k), NEW j \in ToSet(edges[k]) PROVE IsPending(st, sh, j)
    <2>1. CASE IsOpened(shown, k)
      BY <1>1, <1>15, <1>17, <2>1
    <2>2. CASE k = n /\ open
      <3>1. PICK i \in 1..Len(more) : more[i].node = j
        BY <1>11, <1>17, <2>2
      <3>2. i \in 1..Len(st) /\ st[i].node = j
        BY <1>2, <1>11, <1>12, <3>1
      <3> QED BY <3>2 DEF IsPending
    <2> QED BY <1>9, <1>17, <2>1, <2>2
  <1>18. ASSUME NEW k \in 1..N, IsShown(sh, k) PROVE IsOpened(sh, k)
    <2>1. CASE IsShown(shown, k)
      BY <1>1, <1>9, <2>1
    <2>2. CASE k = n /\ ~IsShown(shown, k)
      <3>1. n \notin ToSet(line.under)
        BY <1>4, <2>2
      <3>2. open
        BY <2>2, <3>1 DEF n
      <3> QED BY <1>9, <2>2, <3>2
    <2> QED BY <1>8, <1>18, <2>1, <2>2
  <1>19. ASSUME ~repeat, NEW i \in 1..Len(sh), NEW j \in 1..Len(sh),
                sh[i].open, sh[j].open, sh[i].node = sh[j].node
         PROVE  i = j
    <2>1. \A h \in 1..Len(shown) : shown[h].open /\ open => shown[h].node # n
      <3>1. open => ~IsShown(shown, n)
        BY <1>19 DEF n
      <3> QED BY <3>1, Zenon DEF IsShown
    <2>2. \A a, b \in 1..Len(shown) :
             shown[a].open /\ shown[b].open /\ shown[a].node = shown[b].node => a = b
      BY <1>19, Zenon DEF IsTree
    <2>3. CASE i \in 1..Len(shown) /\ j \in 1..Len(shown)
      <3>1. sh[i] = shown[i] /\ sh[j] = shown[j]
        BY <1>6, <2>3
      <3> QED BY <1>19, <2>2, <2>3, <3>1
    <2>4. CASE i \in 1..Len(shown) /\ j = Len(shown) + 1
      <3>1. sh[i] = shown[i] /\ sh[j] = mark
        BY <1>6, <2>4
      <3> QED BY <1>5, <1>19, <2>1, <2>4, <3>1
    <2>5. CASE j \in 1..Len(shown) /\ i = Len(shown) + 1
      <3>1. sh[j] = shown[j] /\ sh[i] = mark
        BY <1>6, <2>5
      <3> QED BY <1>5, <1>19, <2>1, <2>5, <3>1
    <2> QED BY <1>7, <2>3, <2>4, <2>5
  <1>20. IsTree(N, edges, I, repeat, st, sh)
    BY <1>6, <1>12, <1>14, <1>16, <1>17, <1>18, <1>19, Zenon DEF IsTree
  <1> QED BY <1>20 DEF st, more, rest, sh, mark, n

\* When nothing is left to print, nothing was left out.
LEMMA TreeEnds ==
    ASSUME NEW N \in Nat, NEW I \in Nat, NEW edges, Len(edges) = N, NEW repeat, NEW shown,
           IsTree(N, edges, I, repeat, <<>>, shown),
           \A k \in 1..N : k > I => HasParent(edges, k)
    PROVE  \A k \in 1..N : IsShown(shown, k)
  <1> DEFINE B == {k \in 1..N : ~IsShown(shown, k)}
  <1>1. /\ \A k \in 1..I : IsPending(<<>>, shown, k)
        /\ \A k \in 1..N : IsOpened(shown, k) => \A j \in ToSet(edges[k]) : IsPending(<<>>, shown, j)
        /\ \A k \in 1..N : IsShown(shown, k) => IsOpened(shown, k)
    BY Zenon DEF IsTree
  <1>2. \A k : IsPending(<<>>, shown, k) => IsShown(shown, k)
    BY DEF IsPending
  <1>3. B = {}
    <2> SUFFICES ASSUME B # {} PROVE FALSE
      OBVIOUS
    <2>1. B \in SUBSET Nat
      OBVIOUS
    <2>2. PICK k \in B : \A j \in B : k <= j
      <3> HIDE DEF B
      <3> QED BY <2>1, LeastNumber
    <2>3. k \in 1..N /\ ~IsShown(shown, k)
      BY <2>2
    <2>4. CASE k <= I
      BY <1>1, <1>2, <2>3, <2>4
    <2>5. CASE k > I
      <3>1. PICK j \in 1..Len(edges) : j < k /\ k \in ToSet(edges[j])
        BY <2>3, <2>5 DEF HasParent
      <3>2. j \in 1..N /\ ~(k <= j)
        BY <2>3, <3>1
      <3>3. IsShown(shown, j)
        BY <2>2, <3>2
      <3> QED BY <1>1, <1>2, <2>3, <3>1, <3>2, <3>3
    <2> QED BY <2>3, <2>4, <2>5
  <1> QED BY <1>3

LEMMA InjectiveShort ==
    ASSUME NEW N \in Nat, NEW s \in Seq(1..N), IsInjective(s)
    PROVE  Len(s) <= N
  <1>1. s \in Injection(1..Len(s), 1..N)
    BY DEF Injection
  <1>2. Len(s) \in Nat
    OBVIOUS
  <1> DEFINE m == Len(s)
  <1> HIDE DEF m
  <1>3. m \in Nat
    BY <1>2 DEF m
  <1>4. IsFiniteSet(1..N) /\ Cardinality(1..N) = N
    BY SegmentSize
  <1>5. Cardinality(1..m) = m
    BY <1>3, SegmentSize
  <1>6. s \in Injection(1..m, 1..N)
    BY <1>1 DEF m
  <1>7. Cardinality(1..m) <= Cardinality(1..N)
    BY <1>4, <1>6, FS_Injection
  <1> QED BY <1>4, <1>5, <1>7 DEF m

LEMMA OpenedOnce ==
    ASSUME NEW N \in Nat, NEW shown \in Seq(Marks(N)),
           \A i, j \in 1..Len(shown) :
              shown[i].open /\ shown[j].open /\ shown[i].node = shown[j].node => i = j
    PROVE  Cardinality({k \in 1..Len(shown) : shown[k].open}) <= N
  <1> DEFINE S == {k \in 1..Len(shown) : shown[k].open}
             f == [k \in S |-> shown[k].node]
  <1>1. ASSUME NEW k \in 1..Len(shown) PROVE shown[k].node \in 1..N
    <2>1. shown[k] \in Marks(N)
      OBVIOUS
    <2> QED BY <2>1, Zenon DEF Marks
  <1>2. f \in [S -> 1..N]
    BY <1>1
  <1>3. \A a, b \in S : f[a] = f[b] => a = b
    OBVIOUS
  <1>4. DOMAIN f = S
    OBVIOUS
  <1> HIDE DEF f, S
  <1>5. f \in Injection(S, 1..N)
    BY <1>2, <1>3, <1>4 DEF Injection, IsInjective
  <1>6. IsFiniteSet(1..N) /\ Cardinality(1..N) = N
    BY SegmentSize
  <1>7. Cardinality(S) <= N
    BY <1>5, <1>6, FS_Injection
  <1> QED BY <1>7 DEF S

LEMMA GraphShape ==
    ASSUME ResolverInv, res.st \notin {"idle", "graph", "unresolved"}
    PROVE  /\ Len(res.nodes) \in Nat /\ Len(res.edges) = Len(res.nodes)
           /\ Len(proj.inputs) \in Nat /\ Len(proj.inputs) <= Len(res.nodes) /\ proj.repeat \in BOOLEAN
           /\ \A k \in 1..Len(res.nodes) : res.edges[k] \in Seq(1..Len(res.nodes))
           /\ \A k \in 1..Len(res.nodes) : k > Len(proj.inputs) => HasParent(res.edges, k)
  <1>1. /\ IsWorld(proj) /\ IsBuilt(proj, res.queue, res.index, res.nodes, res.edges, res.missing)
        /\ res.queue = <<>>
    BY Zenon DEF ResolverInv
  <1>2. Len(proj.inputs) \in Nat /\ proj.repeat \in BOOLEAN
    BY <1>1 DEF IsWorld
  <1>3. /\ Len(proj.inputs) <= Len(res.index) /\ res.nodes \in Seq(DOMAIN proj.imports)
        /\ Len(res.edges) = Len(res.nodes) /\ Len(res.index) = Len(res.nodes) + Len(res.queue)
    BY <1>1, Zenon DEF IsBuilt
  <1>4. /\ \A k \in 1..Len(res.nodes) : EdgesOf(proj, res.nodes[k], res.index, res.edges[k], res.missing,
                                                ImportsIn(proj, res.nodes[k]).files)
        /\ \A k \in 1..Len(res.index) : k > Len(proj.inputs) => HasParent(res.edges, k)
    BY <1>1, Zenon DEF IsBuilt
  <1>5. Len(res.nodes) \in Nat /\ Len(res.index) = Len(res.nodes)
    BY <1>1, <1>3
  <1>6. \A k \in 1..Len(res.nodes) : res.edges[k] \in Seq(1..Len(res.index))
    BY <1>4, Zenon DEF EdgesOf
  <1> QED BY <1>2, <1>3, <1>4, <1>5, <1>6

\* The tree of the graph, as far as it is printed.
TreeInv ==
    res.st = "print" =>
        IsTree(Len(res.nodes), res.edges, Len(proj.inputs), proj.repeat, res.stack, res.shown)

LEMMA TreeStarted == ASSUME ResolverInv, PrintTree PROVE TreeInv'
  <1> DEFINE x == [k \in 1..Len(proj.inputs) |-> [node |-> k, under |-> <<>>]]
  <1>1. res.st = "resolved" /\ res' = [res EXCEPT !.st = "print", !.stack = x]
    BY Zenon DEF PrintTree, Inputs
  <1> HIDE DEF x
  <1>2. Changed(res, res', "st", "print", "stack", x)
    BY <1>1, FieldsChanged, OtherFields DEF ResolverInv, IsGraph
  <1>3. /\ res'.stack = x /\ res'.nodes = res.nodes /\ res'.edges = res.edges /\ res'.w = res.w
        /\ res'.shown = res.shown
    BY <1>2 DEF Changed, ResFields, GraphFields
  <1>4. res.shown = <<>>
    BY <1>1 DEF ResolverInv
  <1>5. /\ Len(res.nodes) \in Nat /\ Len(proj.inputs) \in Nat /\ Len(proj.inputs) <= Len(res.nodes)
    BY <1>1, GraphShape
  <1>6. IsTree(Len(res.nodes), res.edges, Len(proj.inputs), proj.repeat, x, <<>>)
    BY <1>5, TreeStarts, Zenon DEF x
  <1>7. proj' = proj
    BY <1>3 DEF proj
  <1> QED BY <1>3, <1>4, <1>6, <1>7, Zenon DEF TreeInv

LEMMA TreeGrown == ASSUME ResolverInv, TreeInv, PrintNode PROVE TreeInv'
  <1> DEFINE line == Head(res.stack)
             open == (proj.repeat \/ ~Shown(line.node)) /\ line.node \notin ToSet(line.under)
             lines == ImportLines(line)
             x == (IF open THEN lines ELSE <<>>) \o Tail(res.stack)
             y == Append(res.shown, [node |-> line.node, open |-> open])
  <1>1. res.st = "print" /\ res.stack # <<>> /\ res' = [res EXCEPT !.stack = x, !.shown = y]
    BY Zenon DEF PrintNode
  <1>2. /\ Len(res.nodes) \in Nat /\ Len(proj.inputs) \in Nat /\ proj.repeat \in BOOLEAN
        /\ \A k \in 1..Len(res.nodes) : res.edges[k] \in Seq(1..Len(res.nodes))
    BY <1>1, GraphShape
  <1>3. IsTree(Len(res.nodes), res.edges, Len(proj.inputs), proj.repeat, res.stack, res.shown)
    BY <1>1 DEF TreeInv
  <1>4. open = ((proj.repeat \/ ~IsShown(res.shown, line.node)) /\ line.node \notin ToSet(line.under))
    BY DEF Shown, IsShown
  <1>5. lines = [k \in 1..Len(res.edges[line.node]) |->
                    [node |-> res.edges[line.node][k], under |-> Append(line.under, line.node)]]
    BY Zenon DEF ImportLines
  <1>6. line = Head(res.stack)
    OBVIOUS
  <1> HIDE DEF line, open, lines
  <1>7. IsTree(Len(res.nodes), res.edges, Len(proj.inputs), proj.repeat, x, y)
    BY <1>1, <1>2, <1>3, <1>4, <1>5, <1>6, TreeGoesOn, Zenon
  <1> HIDE DEF x, y
  <1>8. Changed(res, res', "stack", x, "shown", y)
    BY <1>1, FieldsChanged, OtherFields DEF ResolverInv, IsGraph
  <1>9. /\ res'.stack = x /\ res'.shown = y /\ res'.nodes = res.nodes /\ res'.edges = res.edges
        /\ res'.w = res.w
    BY <1>8 DEF Changed, ResFields, GraphFields
  <1>10. proj' = proj
    BY <1>9 DEF proj
  <1> QED BY <1>7, <1>9, <1>10, Zenon DEF TreeInv

LEMMA TreeStep == ASSUME ResolverInv, TreeInv, [ResolverNext]_res PROVE TreeInv'
  <1>1. CASE PrintTree
    BY <1>1, TreeStarted
  <1>2. CASE PrintNode
    BY <1>2, TreeGrown
  <1>3. CASE ParseSources
    BY <1>3, SourcesRead DEF TreeInv
  <1>4. CASE VisitNode
    BY <1>4, NodeVisited DEF TreeInv
  <1>5. CASE FinishGraph
    BY <1>5, GraphFinished DEF TreeInv
  <1>6. CASE ChooseVersions
    BY <1>6, VersionsChosen DEF TreeInv, Chosen
  <1>7. CASE ChooseSettings
    BY <1>7, SettingsChosen DEF TreeInv, Chosen
  <1>8. CASE MakeJobs
    BY <1>8, JobsMade DEF TreeInv
  <1>9. ASSUME NEW k \in 1..Len(res.nodes), StandardJson(k) PROVE TreeInv'
    BY <1>9, JsonMade DEF TreeInv
  <1>10. CASE UNCHANGED res
    BY <1>10 DEF TreeInv, proj
  <1> QED BY <1>1, <1>2, <1>3, <1>4, <1>5, <1>6, <1>7, <1>8, <1>9, <1>10, Zenon DEF ResolverNext

LEMMA TreePrintedWhole == ASSUME ResolverInv, TreeInv PROVE TreeComplete
  <1> SUFFICES ASSUME res.st = "print"
      PROVE  /\ res.stack = <<>> => \A k \in 1..Len(res.nodes) : Shown(k)
             /\ \A line \in ToSet(res.stack) : Len(line.under) <= Len(res.nodes)
             /\ ~proj.repeat => Cardinality({k \in 1..Len(res.shown) : res.shown[k].open}) <= Len(res.nodes)
    BY Zenon DEF TreeComplete
  <1> DEFINE N == Len(res.nodes)
             I == Len(proj.inputs)
             stack == res.stack
             shown == res.shown
  <1>1. /\ N \in Nat /\ I \in Nat /\ Len(res.edges) = N
        /\ \A k \in 1..N : k > I => HasParent(res.edges, k)
    BY GraphShape
  <1>2. IsTree(N, res.edges, I, proj.repeat, stack, shown)
    BY DEF TreeInv
  <1> HIDE DEF N, I, stack, shown
  <1>3. /\ stack \in Seq(Lines(N)) /\ shown \in Seq(Marks(N))
        /\ \A i \in 1..Len(stack) : IsInjective(stack[i].under)
        /\ ~proj.repeat => \A i, j \in 1..Len(shown) :
              shown[i].open /\ shown[j].open /\ shown[i].node = shown[j].node => i = j
    BY <1>2, Zenon DEF IsTree
  <1>4. stack = <<>> => \A k \in 1..N : Shown(k)
    <2> SUFFICES ASSUME stack = <<>> PROVE \A k \in 1..N : Shown(k)
      OBVIOUS
    <2>1. \A k \in 1..N : IsShown(shown, k)
      BY <1>1, <1>2, TreeEnds, Zenon
    <2> QED BY <2>1, Zenon DEF Shown, IsShown, shown
  <1>5. ASSUME NEW line \in ToSet(stack) PROVE Len(line.under) <= N
    <2>1. DOMAIN stack = 1..Len(stack) /\ \A i \in 1..Len(stack) : stack[i] \in Lines(N)
      BY <1>3
    <2>2. PICK i \in DOMAIN stack : line = stack[i]
      BY <1>5, Zenon DEF ToSet
    <2>3. line \in Lines(N) /\ IsInjective(line.under)
      BY <1>3, <2>1, <2>2
    <2>4. line.under \in Seq(1..N)
      BY <2>3 DEF Lines
    <2> QED BY <1>1, <2>3, <2>4, InjectiveShort
  <1>6. ~proj.repeat => Cardinality({k \in 1..Len(shown) : shown[k].open}) <= N
    BY <1>1, <1>3, OpenedOnce, Zenon
  <1> QED BY <1>4, <1>5, <1>6 DEF N, stack, shown

-----------------------------------------------------------------------------
(* The jobs                                                                *)

JobKey(k) == <<proj.lang[res.nodes[k]], res.chosen[k], res.primary[k]>>
JobFor(k) ==
    MakeJob(JobKey(k)[1], JobKey(k)[2], JobKey(k)[3], JobSources({j \in Inputs : JobKey(j) = JobKey(k)}))

IsJob(j, l, v, p, s) == j.lang = l /\ j.version = v /\ j.profile = p /\ j.sources = s

LEMMA JobFields ==
    ASSUME NEW l, NEW v, NEW p, NEW s, NEW j, j = MakeJob(l, v, p, s)
    PROVE  IsJob(j, l, v, p, s)
  <1> DEFINE x == BuildSettings(proj.profiles[p], v, l, {res.nodes[k] : k \in s})
  <1>1. j = [lang |-> l, version |-> v, profile |-> p, sources |-> s, settings |-> x]
    BY Zenon DEF MakeJob
  <1> HIDE DEF x
  <1> QED BY <1>1 DEF IsJob

LEMMA JobsHold == ASSUME ResolverInv, MakeJobs PROVE JobsWhole'
  <1> DEFINE J == {JobFor(k) : k \in Inputs}
  <1>1. res.st = "settings" /\ res' = [res EXCEPT !.st = "done", !.jobs = J]
    BY Zenon DEF MakeJobs, JobFor, JobKey
  <1>2. /\ Len(res.nodes) \in Nat /\ Len(proj.inputs) \in Nat /\ Len(proj.inputs) <= Len(res.nodes)
        /\ \A k \in 1..Len(res.nodes) : res.edges[k] \in Seq(1..Len(res.nodes))
    BY <1>1, GraphShape
  <1>3. ASSUME NEW k \in Inputs
        PROVE  /\ JobFor(k).lang = proj.lang[res.nodes[k]] /\ JobFor(k).version = res.chosen[k]
               /\ JobFor(k).profile = res.primary[k] /\ k \in JobFor(k).sources
               /\ IsFollowed(res.edges, JobFor(k).sources)
    <2> DEFINE S == {j \in Inputs : JobKey(j) = JobKey(k)}
               l == proj.lang[res.nodes[k]]
               v == res.chosen[k]
               p == res.primary[k]
    <2>1. k \in S /\ S \subseteq 1..Len(res.nodes)
      BY <1>2 DEF Inputs
    <2>2. JobKey(k)[1] = l /\ JobKey(k)[2] = v /\ JobKey(k)[3] = p
      BY DEF JobKey
    <2>3. JobFor(k) = MakeJob(l, v, p, JobSources(S))
      BY <2>2, Zenon DEF JobFor
    <2> HIDE DEF S, l, v, p
    <2>4. S \subseteq JobSources(S) /\ IsFollowed(res.edges, JobSources(S))
      BY <1>2, <2>1, FollowEnds
    <2>5. IsJob(JobFor(k), l, v, p, JobSources(S))
      BY <2>3, JobFields, Zenon
    <2> QED BY <2>1, <2>4, <2>5 DEF IsJob, l, v, p
  <1> HIDE DEF J
  <1>4. Changed(res, res', "st", "done", "jobs", J)
    BY <1>1, FieldsChanged, OtherFields DEF ResolverInv, IsGraph
  <1>5. /\ res'.jobs = J /\ res'.nodes = res.nodes /\ res'.edges = res.edges /\ res'.w = res.w
        /\ res'.chosen = res.chosen /\ res'.primary = res.primary
    BY <1>4 DEF Changed, ResFields, GraphFields
  <1>6. proj' = proj /\ Inputs' = Inputs
    BY <1>5 DEF proj, Inputs
  <1>7. \A k \in Inputs : \E j \in J :
           /\ j.lang = proj.lang[res.nodes[k]] /\ j.version = res.chosen[k]
           /\ j.profile = res.primary[k] /\ k \in j.sources
    <2> TAKE k \in Inputs
    <2>1. JobFor(k) \in J
      BY DEF J
    <2> QED BY <1>3, <2>1
  <1>8. \A j \in J : \A k \in j.sources : ToSet(res.edges[k]) \subseteq j.sources
    <2> TAKE j \in J
    <2>1. PICK k \in Inputs : j = JobFor(k)
      BY DEF J
    <2>2. IsFollowed(res.edges, j.sources)
      BY <1>3, <2>1
    <2> QED BY <2>2 DEF IsFollowed
  <1> QED BY <1>5, <1>6, <1>7, <1>8, Zenon DEF JobsWhole

LEMMA JobsKept == ASSUME JobsWhole, UNCHANGED res PROVE JobsWhole'
  BY DEF JobsWhole, proj, Inputs

LEMMA JobsStep == ASSUME ResolverInv, JobsWhole, [ResolverNext]_res PROVE JobsWhole'
  <1>1. CASE MakeJobs
    BY <1>1, JobsHold
  <1>2. CASE UNCHANGED res
    BY <1>2, JobsKept
  <1>3. ASSUME res'.st # "done" PROVE JobsWhole'
    BY <1>3 DEF JobsWhole
  <1>4. CASE ParseSources
    BY <1>3, <1>4, SourcesRead
  <1>5. CASE VisitNode
    BY <1>3, <1>5, NodeVisited
  <1>6. CASE FinishGraph
    BY <1>3, <1>6, GraphFinished
  <1>7. CASE ChooseVersions
    BY <1>3, <1>7, VersionsChosen DEF Chosen
  <1>8. CASE ChooseSettings
    BY <1>3, <1>8, SettingsChosen DEF Chosen
  <1>9. CASE PrintTree \/ PrintNode
    BY <1>3, <1>9, TreePrinted
  <1>10. ASSUME NEW k \in 1..Len(res.nodes), StandardJson(k) PROVE JobsWhole'
    BY <1>3, <1>10, JsonMade
  <1> QED BY <1>1, <1>2, <1>4, <1>5, <1>6, <1>7, <1>8, <1>9, <1>10, Zenon DEF ResolverNext

\* Whatever files a project has and however they import each other, nodes, index, edges
\* and reverse edges of the graph agree, every import is an edge or noted as missing and
\* every file is reached from an input (Graph::resolve_sources); the printed tree has
\* every file, ends, and does not open a file twice unless asked to (tree::print); and
\* every input is in a job of its compiler, version and profile that holds all that its
\* files import (into_sources_by_version).
THEOREM GraphBuilt == ResolverSpec => []GraphFaithful
  <1> DEFINE Inv == ResolverInv /\ TreeInv /\ JobsWhole
  <1>1. ResolverInit => Inv
    <2>1. ResolverInit => res.st = "idle"
      BY DEF ResolverInit, NoGraph
    <2> QED BY <2>1, ResolverStart DEF TreeInv, JobsWhole
  <1>2. Inv /\ [ResolverNext]_res => Inv'
    BY ResolverStep, TreeStep, JobsStep
  <1>3. Inv => GraphFaithful
    BY InvAligned, TreePrintedWhole DEF GraphFaithful
  <1> QED BY <1>1, <1>2, <1>3, PTL DEF ResolverSpec
=============================================================================
