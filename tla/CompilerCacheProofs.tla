------------------------ MODULE CompilerCacheProofs ------------------------
(***************************************************************************)
(* Proofs about CompilerCache, for every graph of imports, every set of    *)
(* mocks, versions and profiles, and every history of edits, failed runs   *)
(* and crashes.  Lemmas about the graph and the two walks over dirty files *)
(* first: what they leave sees the same as when it was compiled.  Then the *)
(* inductive invariant CacheInv, which relates the cache file, the         *)
(* artifacts and the run in progress, and one lemma per action.  Last, on  *)
(* top of it, FixedInv: what a complete run leaves for the next one.       *)
(***************************************************************************)
EXTENDS CompilerCache, FiniteSetTheorems, TLAPS

-----------------------------------------------------------------------------
(* Induction up to a number, stated for a set: the prover cannot instantiate  *)
(* the induction theorems of the library.                                     *)

LEMMA LeastNumber ==
    ASSUME NEW n \in Nat, NEW A \in SUBSET (0..n), A # {}
    PROVE  \E m \in A : \A k \in A : m <= k
  <1> DEFINE U == 0..n
             T == {0..k : k \in A}
  <1>1. FiniteSubsetsOf(U) = SUBSET U
    <2>1. IsFiniteSet(U)
      BY FS_Interval
    <2> HIDE DEF U
    <2> QED BY <2>1, FS_FiniteSubsetsOfFinite
  <1>2. IsWellFoundedOn(StrictSubsetOrdering(U), FiniteSubsetsOf(U))
    BY FS_StrictSubsetOrderingWellFounded
  <1>3. T \subseteq SUBSET U /\ T # {}
    <2>1. \A k \in A : 0..k \in SUBSET U
      BY 0..n \in SUBSET Nat
    <2>2. T \subseteq SUBSET U
      BY <2>1
    <2>3. PICK k : k \in A
      OBVIOUS
    <2>4. 0..k \in T
      BY <2>3
    <2> QED BY <2>2, <2>4
  <1>4. PICK x \in T : \A y \in T : <<y, x>> \notin StrictSubsetOrdering(U)
    <2> HIDE DEF T, U
    <2> QED BY <1>1, <1>2, <1>3, WFMin
  <1>5. PICK m \in A : x = 0..m
    OBVIOUS
  <1>6. ASSUME NEW k \in A, k < m PROVE FALSE
    <2>1. 0..k \in T /\ <<0..k, 0..m>> \notin StrictSubsetOrdering(U)
      BY <1>4, <1>5
    <2>2. 0..k \subseteq 0..m /\ 0..k \in SUBSET U /\ 0..m \in SUBSET U
      BY <1>6
    <2>3. m \in 0..m /\ m \notin 0..k
      BY <1>6
    <2>4. 0..k # 0..m
      BY <2>3
    <2> QED BY <2>1, <2>2, <2>4 DEF StrictSubsetOrdering
  <1> QED BY <1>6

LEMMA UpTo ==
    ASSUME NEW n \in Nat, NEW A \in SUBSET (0..n), 0 \in A,
           \A k \in 0..(n - 1) : k \in A => k + 1 \in A
    PROVE  A = 0..n
  <1> SUFFICES ASSUME A # 0..n PROVE FALSE
    OBVIOUS
  <1> DEFINE B == (0..n) \ A
  <1>1. PICK m \in B : \A k \in B : m <= k
    <2>1. B # {} /\ B \in SUBSET (0..n)
      OBVIOUS
    <2> HIDE DEF B
    <2> QED BY <2>1, LeastNumber
  <1>2. m # 0 /\ m - 1 \in 0..(n - 1) /\ m - 1 \notin B
    BY <1>1
  <1> QED BY <1>2

-----------------------------------------------------------------------------
(* The graph of imports                                                       *)

LEMMA GraphTyped == Imports \in [Files -> SUBSET Files] /\ SrcFiles \subseteq Files
  BY CacheAssumption

\* Imports of what a file imports are imports of the file.
LEMMA ImportsClosed ==
    ASSUME NEW f \in Files
    PROVE  /\ AllImports[f] \subseteq Files \ {f}
           /\ \A g \in WithImports(f) : Imports[g] \subseteq WithImports(f)
  <1>1. AllImports[f] \subseteq Files \ {f}
    BY DEF AllImports, Reached
  <1>2. ASSUME NEW g \in WithImports(f), NEW h \in Imports[g], h # f
        PROVE  h \in AllImports[f]
    <2>1. h \in Files
      BY <1>1, <1>2, GraphTyped DEF WithImports
    <2>2. SUFFICES ASSUME NEW S \in SUBSET Files,
                          Imports[f] \cup UNION {Imports[x] : x \in S} \subseteq S
                   PROVE  h \in S
      BY <1>2, <2>1 DEF AllImports, Reached
    <2>3. g = f \/ g \in S
      BY <2>2, <1>2 DEF WithImports, AllImports, Reached
    <2> QED BY <2>2, <2>3, <1>2
  <1> QED BY <1>1, <1>2 DEF WithImports

\* They are the least such set.
LEMMA ImportsLeast ==
    ASSUME NEW f \in Files, NEW S \in SUBSET Files, Imports[f] \subseteq S,
           \A g \in S : Imports[g] \subseteq S
    PROVE  AllImports[f] \subseteq S
  <1>1. Imports[f] \cup UNION {Imports[x] : x \in S} \subseteq S
    OBVIOUS
  <1> QED BY <1>1 DEF AllImports, Reached

LEMMA ImportsTransitive ==
    ASSUME NEW f \in Files, NEW g \in WithImports(f)
    PROVE  WithImports(g) \subseteq WithImports(f)
  <1>1. g \in Files /\ WithImports(f) \in SUBSET Files
    BY ImportsClosed DEF WithImports
  <1>2. AllImports[g] \subseteq WithImports(f)
    BY <1>1, ImportsClosed, ImportsLeast
  <1> QED BY <1>2 DEF WithImports

\* Sources import no tests, neither directly nor through others.
Layered == \A f \in SrcFiles : Imports[f] \subseteq SrcFiles

LEMMA LayersClosed ==
    ASSUME Layered, NEW f \in SrcFiles
    PROVE  WithImports(f) \subseteq SrcFiles
  <1>1. AllImports[f] \subseteq SrcFiles
    BY GraphTyped, ImportsLeast DEF Layered
  <1> QED BY <1>1 DEF WithImports

\* The graph that is walked holds all imports of its files.
LEMMA NodesClosed ==
    ASSUME NEW c, NEW f \in Nodes(c)
    PROVE  Nodes(c) \subseteq Files /\ WithImports(f) \subseteq Nodes(c)
  <1>1. PICK e \in Entries(c) : f \in WithImports(e)
    BY DEF Nodes
  <1>2. Entries(c) \subseteq Files
    BY DEF Entries
  <1>3. WithImports(f) \subseteq WithImports(e)
    BY <1>1, <1>2, ImportsTransitive
  <1>4. Nodes(c) \subseteq Files
    BY <1>2, ImportsClosed DEF Nodes, WithImports
  <1> QED BY <1>1, <1>3, <1>4 DEF Nodes

-----------------------------------------------------------------------------
(* populate_dirty_files                                                       *)

\* It marks nodes only, all importers of f and of what it marks ...
LEMMA PopulateCloses ==
    ASSUME NEW nodes \in SUBSET Files, NEW d \in SUBSET nodes, NEW f
    PROVE  LET P == PopulateDirtyFiles(nodes, d, f) IN
           /\ d \subseteq P /\ P \subseteq nodes
           /\ \A x \in nodes, y \in {f} \cup (P \ d) : y \in Imports[x] => x \in P
  <1> DEFINE near(S) == {x \in nodes \ d : Imports[x] \cap ({f} \cup S) # {}}
             P == PopulateDirtyFiles(nodes, d, f)
  <1>1. P = d \cup {x \in nodes \ d : \A S \in SUBSET (nodes \ d) : near(S) \subseteq S => x \in S}
    BY DEF PopulateDirtyFiles, Reached
  <1>2. ASSUME NEW x \in nodes, NEW y \in {f} \cup (P \ d), y \in Imports[x], x \notin d
        PROVE  x \in P
    <2>1. SUFFICES ASSUME NEW S \in SUBSET (nodes \ d), near(S) \subseteq S
                   PROVE  x \in S
      BY <1>1, <1>2
    <2>2. y = f \/ y \in S
      BY <1>1, <1>2, <2>1
    <2> QED BY <1>2, <2>1, <2>2
  <1> QED BY <1>1, <1>2

\* ... and nothing else.
LEMMA PopulateLeast ==
    ASSUME NEW nodes \in SUBSET Files, NEW d \in SUBSET nodes, NEW f,
           NEW S \in SUBSET (nodes \ d),
           \A x \in nodes \ d : Imports[x] \cap ({f} \cup S) # {} => x \in S
    PROVE  PopulateDirtyFiles(nodes, d, f) \subseteq d \cup S
  BY DEF PopulateDirtyFiles, Reached
-----------------------------------------------------------------------------
(* remove_dirty_sources                                                       *)

\* The file has an entry for what is on disk; or at least with its interface.
SameContent(c, g) == c.files[g] # None /\ c.files[g].content = src[g]
SameIface(c, g) == c.files[g] # None /\ Iface[c.files[g].content] = Iface[src[g]]

LEMMA FirstDirtyTyped ==
    ASSUME NEW c
    PROVE  DirtyAtFirst(c) \subseteq Nodes(c) /\ Nodes(c) \in SUBSET Files
  <1>1. Nodes(c) \subseteq Files
    BY NodesClosed
  <1> QED BY <1>1 DEF DirtyAtFirst

\* Without the preprocessor a file that is not dirty imports nothing that changed.
LEMMA CleanWithoutPreprocessor ==
    ASSUME NEW c, ~c.pre, NEW f \in Entries(c) \ DirtySources(c), NEW g \in WithImports(f)
    PROVE  SameContent(c, g)
  <1> DEFINE nodes == Nodes(c)
             first == DirtyAtFirst(c)
             D == DirtySources(c)
  <1>1. first \subseteq nodes /\ nodes \in SUBSET Files
    BY FirstDirtyTyped
  <1>2. D = first \cup UNION {PopulateDirtyFiles(nodes, first, x) : x \in first}
    BY DEF DirtySources
  <1> HIDE DEF D, nodes, first
  <1>3. ASSUME NEW x \in nodes, NEW y \in D, y \in Imports[x] PROVE x \in D
    <2>1. CASE y \in first
      <3>1. x \in PopulateDirtyFiles(nodes, first, y)
        BY <1>1, <1>3, PopulateCloses
      <3> QED BY <1>2, <2>1, <3>1
    <2>2. CASE y \notin first
      <3>1. PICK z \in first : y \in PopulateDirtyFiles(nodes, first, z)
        BY <1>2, <1>3, <2>2
      <3>2. x \in PopulateDirtyFiles(nodes, first, z)
        BY <1>1, <1>3, <2>2, <3>1, PopulateCloses
      <3> QED BY <1>2, <3>2
    <2> QED BY <2>1, <2>2
  <1>4. f \in nodes /\ WithImports(f) \subseteq nodes
    BY NodesClosed DEF nodes, Nodes, WithImports
  <1>5. WithImports(f) \cap D = {}
    <2> DEFINE S == {y \in nodes : y \notin D /\ Imports[y] \subseteq nodes}
    <2>1. \A y \in nodes : Imports[y] \subseteq nodes
      BY NodesClosed, ImportsClosed DEF nodes, WithImports
    <2>2. \A y \in nodes : y \notin D => Imports[y] \cap D = {}
      BY <1>3
    <2>3. Imports[f] \subseteq S /\ \A y \in S : Imports[y] \subseteq S
      BY <1>4, <2>1, <2>2 DEF D
    <2>4. AllImports[f] \subseteq S
      BY <1>1, <1>4, <2>3, ImportsLeast
    <2> QED BY <2>4 DEF WithImports, D
  <1>6. g \notin first
    BY <1>2, <1>5
  <1> QED BY <1>4, <1>6 DEF first, nodes, DirtyAtFirst, ContentDirty, SameContent

\* What marks f whenever it is visited: an import that was dirty from the start and
\* is a test or has another interface.
Exposed(c, f) ==
    \E g \in AllImports[f] \cap DirtyAtFirst(c) : g \notin SrcFiles \/ IfaceDirty(c, g)

\* A dirty test makes its importers dirty, at once or at their visit.
Spreads(c, d) ==
    \A t \in d \ SrcFiles, f \in Nodes(c) : t \in AllImports[f] => f \in d \/ Exposed(c, f)

\* A file that is not dirty after its visit imports no dirty file that concerns it.
Spared(c, f) ==
    \A g \in AllImports[f] \cap DirtyAtFirst(c) :
        f \notin SrcFiles \cup c.mocks /\ g \in SrcFiles /\ ~IfaceDirty(c, g)

LEMMA ExposedUpwards ==
    ASSUME NEW c, NEW f \in Nodes(c), NEW y \in AllImports[f], Exposed(c, y)
    PROVE  f \in DirtyAtFirst(c) \/ Exposed(c, f)
  <1>1. AllImports[y] \subseteq WithImports(f)
    BY NodesClosed, ImportsTransitive DEF WithImports
  <1>2. PICK g \in AllImports[y] \cap DirtyAtFirst(c) : g \notin SrcFiles \/ IfaceDirty(c, g)
    BY DEF Exposed
  <1>3. g = f \/ g \in AllImports[f]
    BY <1>1, <1>2 DEF WithImports
  <1> QED BY <1>2, <1>3 DEF Exposed

\* Whoever imports a mock is reached by populate_dirty_files from it, unless a file
\* on the way was dirty before; that one is a test, and spreads by itself.
LEMMA MockSpreads ==
    ASSUME Layered, NEW c, NEW d \in SUBSET Nodes(c), DirtyAtFirst(c) \subseteq d, Spreads(c, d),
           NEW t \in Nodes(c) \ SrcFiles,
           NEW f \in Nodes(c), t \in AllImports[f]
    PROVE  f \in PopulateDirtyFiles(Nodes(c), d, t) \/ Exposed(c, f)
  <1> DEFINE nodes == Nodes(c)
             P == PopulateDirtyFiles(nodes, d, t)
             Good(x) == x \in P \/ Exposed(c, x)
             S == {y \in nodes : y # t /\ (t \notin AllImports[y] \/ ~Good(y))}
  <1>1. nodes \in SUBSET Files
    BY FirstDirtyTyped
  <1>2. /\ d \subseteq P
        /\ \A x \in nodes, y \in {t} \cup (P \ d) : y \in Imports[x] => x \in P
    BY <1>1, PopulateCloses
  <1> HIDE DEF P
  <1>3. ASSUME NEW x \in nodes, ~Good(x), NEW y \in Imports[x] PROVE y \in S
    <2>1. x \in Files /\ y \in nodes
      BY <1>1, <1>3, NodesClosed, ImportsClosed DEF WithImports
    <2>2. y # t
      BY <1>2, <1>3
    <2>3. ASSUME t \in AllImports[y], Good(y) PROVE FALSE
      <3>1. y # x
        BY <1>3, <2>3
      <3>2. y \in AllImports[x] /\ y \in WithImports(x)
        BY <1>3, <2>1, <3>1, ImportsClosed DEF WithImports
      <3>3. CASE Exposed(c, y)
        BY <1>2, <1>3, <3>2, <3>3, ExposedUpwards
      <3>4. CASE y \in P \ d
        BY <1>2, <1>3, <3>4
      <3>5. CASE y \in d
        <4>1. y \notin SrcFiles
          BY <2>3, LayersClosed DEF WithImports
        <4> QED BY <1>2, <1>3, <3>2, <3>5, <4>1 DEF Spreads
      <3> QED BY <2>3, <3>3, <3>4, <3>5
    <2> QED BY <2>1, <2>2, <2>3
  <1>4. ASSUME NEW x \in nodes, t \notin AllImports[x], x # t, NEW y \in Imports[x] PROVE y \in S
    <2>1. x \in Files /\ y \in nodes /\ y \in WithImports(x)
      BY <1>1, <1>4, NodesClosed, ImportsClosed DEF WithImports
    <2>2. WithImports(y) \subseteq WithImports(x)
      BY <2>1, ImportsTransitive
    <2> QED BY <1>4, <2>1, <2>2 DEF WithImports
  <1>5. ASSUME ~Good(f) PROVE FALSE
    <2>1. Imports[f] \subseteq S
      BY <1>3, <1>5
    <2>2. \A y \in S : Imports[y] \subseteq S
      BY <1>3, <1>4
    <2>3. S \in SUBSET Files /\ f \in Files
      BY <1>1
    <2>4. AllImports[f] \subseteq S
      <3> HIDE DEF S
      <3> QED BY <2>1, <2>2, <2>3, ImportsLeast
    <2>5. t \in S
      BY <2>4
    <2> QED BY <2>5
  <1> QED BY <1>5 DEF P

\* One file of the walk.
LEMMA MarkSpreads ==
    ASSUME Layered, NEW c, NEW d \in SUBSET Nodes(c), DirtyAtFirst(c) \subseteq d, Spreads(c, d),
           c.mocks \subseteq Mocks, NEW t \in Files
    PROVE  LET e == MarkPreprocessed(c, Nodes(c), d, t) IN
           /\ d \subseteq e /\ e \subseteq Nodes(c)
           /\ Spreads(c, e)
           /\ t \in Nodes(c) \ e => Spared(c, t)
  <1> DEFINE nodes == Nodes(c)
             hit == {g \in AllImports[t] \cap d :
                        t \in SrcFiles \cup c.mocks \/ g \notin SrcFiles \/ IfaceDirty(c, g)}
             P == PopulateDirtyFiles(nodes, d, t)
             e == MarkPreprocessed(c, nodes, d, t)
  <1>1. e = IF t \in d \/ t \notin nodes \/ hit = {} THEN d
            ELSE {t} \cup IF t \in c.mocks THEN P ELSE d
    BY DEF MarkPreprocessed
  <1>2. nodes \in SUBSET Files /\ d \subseteq P /\ P \subseteq nodes
    BY FirstDirtyTyped, PopulateCloses
  <1> HIDE DEF e, P
  <1>3. CASE t \in d \/ t \notin nodes \/ hit = {}
    <2>1. e = d
      BY <1>1, <1>3
    <2>2. t \in nodes \ d => Spared(c, t)
      BY <1>3 DEF Spared
    <2> QED BY <2>1, <2>2 DEF e
  <1>4. CASE ~(t \in d \/ t \notin nodes \/ hit = {})
    <2>1. d \subseteq e /\ e \subseteq nodes /\ t \in e
      BY <1>1, <1>2, <1>4
    <2>2. ASSUME NEW f \in nodes, t \in AllImports[f], t \notin SrcFiles
          PROVE  f \in e \/ Exposed(c, f)
      <3>1. CASE t \in c.mocks
        BY <1>1, <1>4, <2>2, <3>1, MockSpreads DEF P
      <3>2. CASE t \notin c.mocks
        <4>1. PICK g \in AllImports[t] \cap d : g \notin SrcFiles \/ IfaceDirty(c, g)
          BY <1>4, <2>2, <3>2
        <4>2. CASE g \in SrcFiles
          <5>1. g \in nodes /\ g \in DirtyAtFirst(c)
            BY <4>1, <4>2 DEF DirtyAtFirst, ContentDirty, IfaceDirty
          <5>2. Exposed(c, t)
            BY <4>1, <4>2, <5>1 DEF Exposed
          <5> QED BY <2>1, <2>2, <5>2, ExposedUpwards
        <4>3. CASE g \notin SrcFiles
          <5>1. g \in WithImports(f)
            BY <1>2, <2>2, <4>1, ImportsTransitive DEF WithImports
          <5>2. g = f \/ g \in AllImports[f]
            BY <5>1 DEF WithImports
          <5> QED BY <2>1, <2>2, <4>1, <4>3, <5>2 DEF Spreads
        <4> QED BY <4>2, <4>3
      <3> QED BY <3>1, <3>2
    <2>3. ASSUME NEW x \in P \ d, NEW f \in nodes, x \in AllImports[f], t \in c.mocks
          PROVE  f \in e \/ Exposed(c, f)
      <3> DEFINE S == {y \in nodes \ d : t \in WithImports(y)}
      <3>1. \A y \in nodes \ d : Imports[y] \cap ({t} \cup S) # {} => y \in S
        <4> SUFFICES ASSUME NEW y \in nodes \ d, NEW z \in Imports[y], z = t \/ z \in S
                     PROVE  t \in WithImports(y)
          OBVIOUS
        <4>1. z \in WithImports(y) /\ y \in Files
          BY <1>2, ImportsClosed DEF WithImports
        <4>2. t \in WithImports(z)
          BY DEF WithImports
        <4> QED BY <4>1, <4>2, ImportsTransitive
      <3>2. S \in SUBSET (nodes \ d)
        OBVIOUS
      <3>3. P \subseteq d \cup S
        <4> HIDE DEF S
        <4> QED BY <1>2, <3>1, <3>2, PopulateLeast DEF P
      <3>4. t \in WithImports(x) /\ x \in nodes
        BY <2>3, <3>3
      <3>5. t \in WithImports(f)
        BY <1>2, <2>3, <3>4, ImportsTransitive DEF WithImports
      <3>6. t \notin SrcFiles
        BY <2>3, CacheAssumption
      <3> QED BY <2>1, <2>2, <3>5, <3>6 DEF WithImports
    <2>4. Spreads(c, e)
      <3> SUFFICES ASSUME NEW x \in e \ SrcFiles, NEW f \in nodes, x \in AllImports[f]
                   PROVE  f \in e \/ Exposed(c, f)
        BY DEF Spreads
      <3>1. CASE x = t
        BY <2>2, <3>1
      <3>2. CASE x \in d
        BY <2>1, <3>2 DEF Spreads
      <3>3. CASE x # t /\ x \notin d
        BY <1>1, <1>4, <2>3, <3>3
      <3> QED BY <3>1, <3>2, <3>3
    <2> QED BY <2>1, <2>4 DEF e
  <1> QED BY <1>3, <1>4

\* The walk is well defined, and gives one set of dirty files after each file.
LEMMA WalkDefined ==
    ASSUME NEW c
    PROVE  Marked(c) = [i \in 0..Len(Order) |->
                           IF i = 0 THEN DirtyAtFirst(c)
                           ELSE MarkPreprocessed(c, Nodes(c), Marked(c)[i - 1], Order[i])]
  <1> DEFINE Step(w, i) == IF i = 0 THEN DirtyAtFirst(c)
                           ELSE MarkPreprocessed(c, Nodes(c), w[i - 1], Order[i])
             A == {n \in 0..Len(Order) : \E w : w = [i \in 0..n |-> Step(w, i)]}
  <1>0. Len(Order) \in Nat
    BY CacheAssumption
  <1>1. 0 \in A
    <2> DEFINE w == [i \in 0..0 |-> DirtyAtFirst(c)]
    <2>1. w = [i \in 0..0 |-> Step(w, i)]
      OBVIOUS
    <2> HIDE DEF w
    <2> QED BY <1>0, <2>1
  <1>2. ASSUME NEW n \in 0..(Len(Order) - 1), n \in A PROVE n + 1 \in A
    <2>1. PICK w : w = [i \in 0..n |-> Step(w, i)]
      BY <1>2
    <2> DEFINE v == [i \in 0..(n + 1) |->
                       IF i <= n THEN w[i] ELSE MarkPreprocessed(c, Nodes(c), w[n], Order[n + 1])]
               u == [i \in 0..(n + 1) |-> Step(v, i)]
    <2>2. ASSUME NEW i \in 0..(n + 1) PROVE v[i] = u[i]
      <3>1. CASE i = 0
        BY <2>1, <3>1
      <3>2. CASE i # 0 /\ i <= n
        <4>1. v[i - 1] = w[i - 1]
           BY <3>2
        <4>2. w[i] = Step(w, i)
           BY <2>1, <3>2
        <4> QED BY <4>1, <4>2, <3>2
      <3>3. CASE i = n + 1
        <4>1. v[i - 1] = w[n]
          BY <3>3
        <4> QED BY <4>1, <3>3
      <3> QED BY <3>1, <3>2, <3>3
    <2>3. DOMAIN v = 0..(n + 1) /\ DOMAIN u = 0..(n + 1)
      OBVIOUS
    <2>4. v = [i \in DOMAIN v |-> v[i]] /\ u = [i \in DOMAIN u |-> u[i]]
      OBVIOUS
    <2>5. v = u
      <3> HIDE DEF u, v
      <3> QED BY <2>2, <2>3, <2>4
    <2>6. v = [i \in 0..(n + 1) |-> Step(v, i)]
      <3> HIDE DEF v
      <3> QED BY <2>5
    <2> HIDE DEF v
    <2> QED BY <1>0, <2>6, n + 1 \in 0..Len(Order)
  <1>3. A = 0..Len(Order)
    <2>1. A \in SUBSET (0..Len(Order))
      OBVIOUS
    <2> HIDE DEF A
    <2> QED BY <1>0, <1>1, <1>2, <2>1, UpTo
  <1>4. PICK w : w = [i \in 0..Len(Order) |-> Step(w, i)]
    BY <1>0, <1>3
  <1> QED BY <1>4 DEF Marked

\* What the walk leaves behind: whoever imports a dirty test is dirty or exposed, and
\* no file that is not dirty was exposed.
LEMMA WalkSpreads ==
    ASSUME Layered, NEW c, c.mocks \subseteq Mocks, c.pre
    PROVE  LET D == DirtySources(c) IN
           /\ DirtyAtFirst(c) \subseteq D /\ D \subseteq Nodes(c)
           /\ Spreads(c, D)
           /\ \A f \in Nodes(c) \ D : Spared(c, f)
  <1> DEFINE d(i) == Marked(c)[i]
             A == {i \in 0..Len(Order) :
                      /\ DirtyAtFirst(c) \subseteq d(i) /\ d(i) \subseteq Nodes(c)
                      /\ Spreads(c, d(i))
                      /\ \A j \in 1..i : Order[j] \in Nodes(c) \ d(i) => Spared(c, Order[j])}
  <1>0. Len(Order) \in Nat /\ \A i \in 1..Len(Order) : Order[i] \in Files
    BY CacheAssumption
  <1>1. 0 \in A
    <2>1. d(0) = DirtyAtFirst(c)
      BY <1>0, WalkDefined
    <2>2. Spreads(c, DirtyAtFirst(c))
      BY DEF Spreads, Exposed
    <2> QED BY <1>0, <2>1, <2>2, FirstDirtyTyped
  <1>2. ASSUME NEW i \in 0..(Len(Order) - 1), i \in A PROVE i + 1 \in A
    <2>1. i + 1 \in 0..Len(Order) /\ i + 1 \in 1..Len(Order)
      BY <1>0
    <2>2. d(i + 1) = MarkPreprocessed(c, Nodes(c), d(i), Order[i + 1])
      BY <2>1, WalkDefined
    <2>3. /\ d(i) \subseteq d(i + 1) /\ d(i + 1) \subseteq Nodes(c)
          /\ Spreads(c, d(i + 1))
          /\ Order[i + 1] \in Nodes(c) \ d(i + 1) => Spared(c, Order[i + 1])
      <3>1. Order[i + 1] \in Files
        BY <1>0, <2>1
      <3> HIDE DEF d
      <3> QED BY <1>2, <2>2, <3>1, MarkSpreads
    <2>4. ASSUME NEW j \in 1..(i + 1), Order[j] \in Nodes(c) \ d(i + 1)
          PROVE  Spared(c, Order[j])
      <3>1. CASE j = i + 1
        BY <2>3, <2>4, <3>1
      <3>2. CASE j # i + 1
        <4>1. j \in 1..i
          BY <3>2
        <4> HIDE DEF d
        <4> QED BY <1>2, <2>3, <2>4, <4>1
      <3> QED BY <3>1, <3>2
    <2> HIDE DEF d
    <2> QED BY <1>2, <2>1, <2>3, <2>4
  <1>3. A = 0..Len(Order)
    <2>1. A \in SUBSET (0..Len(Order))
      OBVIOUS
    <2> HIDE DEF A
    <2> QED BY <1>0, <1>1, <1>2, <2>1, UpTo
  <1>4. Len(Order) \in A
    BY <1>0, <1>3
  <1>5. DirtySources(c) = d(Len(Order))
    BY DEF DirtySources
  <1>6. ASSUME NEW f \in Nodes(c) \ d(Len(Order)) PROVE Spared(c, f)
    <2>1. PICK j \in 1..Len(Order) : Order[j] = f
      BY <1>0, FirstDirtyTyped, CacheAssumption
    <2> QED BY <1>4, <2>1
  <1> HIDE DEF d
  <1> QED BY <1>4, <1>5, <1>6

\* With the preprocessor a file that is not dirty sees nothing that changed: of what
\* its artifact contains the content is the same, of the rest the interface.
LEMMA CleanWithPreprocessor ==
    ASSUME Layered, NEW c, c.mocks \subseteq Mocks, c.pre,
           NEW f \in Entries(c) \ DirtySources(c), Mocks \cap WithImports(f) \subseteq c.mocks,
           NEW g \in WithImports(f)
    PROVE  IF Sees(f, g, TRUE) THEN SameContent(c, g) ELSE SameIface(c, g)
  <1> DEFINE D == DirtySources(c)
  <1>1. /\ DirtyAtFirst(c) \subseteq D /\ D \subseteq Nodes(c)
        /\ Spreads(c, D)
        /\ \A x \in Nodes(c) \ D : Spared(c, x)
    BY WalkSpreads
  <1> HIDE DEF D
  <1>2. f \in Nodes(c) \ D /\ WithImports(f) \subseteq Nodes(c) /\ Nodes(c) \subseteq Files
    <2>1. f \in Nodes(c)
      BY DEF Nodes, WithImports
    <2> QED BY <2>1, NodesClosed DEF D
  <1>3. CASE g \notin DirtyAtFirst(c)
    <2>1. SameContent(c, g)
      BY <1>2, <1>3 DEF DirtyAtFirst, ContentDirty, SameContent
    <2> QED BY <2>1 DEF SameContent, SameIface
  <1>4. CASE g \in DirtyAtFirst(c)
    <2>1. g \in AllImports[f]
      BY <1>1, <1>2, <1>4 DEF WithImports
    <2>2. f \notin SrcFiles \cup c.mocks /\ g \in SrcFiles /\ ~IfaceDirty(c, g)
      BY <1>1, <1>2, <1>4, <2>1 DEF Spared
    <2>3. ASSUME NEW m \in Mocks \cap WithImports(f), g \in AllImports[m] PROVE FALSE
      <3>1. m \in c.mocks /\ m \notin SrcFiles /\ m \in Nodes(c)
        BY <1>2, CacheAssumption
      <3>2. m \in D
        BY <1>1, <1>4, <2>3, <3>1 DEF Spared
      <3>3. m \in AllImports[f]
        BY <1>2, <3>2 DEF WithImports
      <3>4. Exposed(c, f)
        BY <1>1, <1>2, <3>1, <3>2, <3>3 DEF Spreads
      <3> QED BY <1>1, <1>2, <3>4 DEF Exposed, Spared
    <2>4. ~Sees(f, g, TRUE)
      BY <2>2, <2>3 DEF Sees
    <2> QED BY <2>2, <2>4 DEF IfaceDirty, SameIface
  <1> QED BY <1>3, <1>4

\* Both together: what remains in the cache after remove_dirty_sources was compiled
\* from what its files would show the compiler now.
LEMMA CleanSeesTheSame ==
    ASSUME NEW c, c.pre \in BOOLEAN, c.pre => Layered, c.mocks \subseteq Mocks,
           NEW f \in Entries(c) \ DirtySources(c),
           c.pre => Mocks \cap WithImports(f) \subseteq c.mocks,
           NEW g \in WithImports(f)
    PROVE  IF Sees(f, g, c.pre) THEN SameContent(c, g) ELSE SameIface(c, g)
  <1>1. CASE c.pre
    BY <1>1, CleanWithPreprocessor
  <1>2. CASE ~c.pre
    <2>1. SameContent(c, g) /\ Sees(f, g, FALSE)
      BY <1>2, CleanWithoutPreprocessor DEF Sees
    <2> QED BY <1>2, <2>1
  <1> QED BY <1>1, <1>2
-----------------------------------------------------------------------------
(* ArtifactsCache::new to filter, step by step                                *)

LEMMA JobsTyped == \A j \in Jobs : j[2] \in Profiles
  BY CacheAssumption DEF Jobs

LEMMA UnitsTyped == \A u \in Units : u[1] \in Files /\ u[2] \in Jobs /\ u = <<u[1], u[2]>>
  BY ImportsClosed DEF Units, UnitsOf, Jobs, WithImports

LEMMA UnitsOfTyped ==
    ASSUME NEW S \in SUBSET Files
    PROVE  /\ UnitsOf(S) \subseteq Units
           /\ \A u \in UnitsOf(S) : \E i \in S : u[1] \in WithImports(i) /\ u[2] = JobOf[i]
  BY DEF Units, UnitsOf

LEMMA NewCacheTyped == ASSUME NEW pre \in BOOLEAN PROVE NewCache(pre) \in CacheType /\ Entries(NewCache(pre)) = {}
  BY DEF NewCache, CacheType, Entries

\* Entries that survive get_cache and the removal of missing files are the file's.
LEMMA KeptMeans ==
    ASSUME cacheFile \in CacheType \cup {None}, NEW pre \in BOOLEAN
    PROVE  LET kept == RemoveMissingFiles(GetCache(pre)) IN
           /\ kept \in CacheType /\ kept.pre = pre
           /\ cacheFile # None /\ cacheFile.pre = pre => kept.mocks = cacheFile.mocks
           /\ ~(cacheFile # None /\ cacheFile.pre = pre) => kept.mocks = {}
           /\ \A f \in Entries(kept) :
                /\ cacheFile # None /\ cacheFile.pre = pre
                /\ cacheFile.files[f] # None /\ kept.files[f] = cacheFile.files[f]
                /\ kept.profiles = cacheFile.profiles
                /\ src[f] # None
  <1> DEFINE c == GetCache(pre)
             kept == RemoveMissingFiles(c)
  <1>1. c \in CacheType /\ c.pre = pre
    BY NewCacheTyped DEF GetCache, NewCache
  <1>2. cacheFile # None /\ cacheFile.pre = pre => c = cacheFile
    BY DEF GetCache
  <1>3. ~(cacheFile # None /\ cacheFile.pre = pre) => c = NewCache(pre) /\ c.mocks = {} /\ Entries(c) = {}
    BY NewCacheTyped DEF GetCache, NewCache
  <1> HIDE DEF c
  <1>4. /\ kept \in CacheType /\ kept.pre = c.pre /\ kept.mocks = c.mocks /\ kept.profiles = c.profiles
        /\ \A f \in Entries(kept) : c.files[f] # None /\ kept.files[f] = c.files[f] /\ src[f] # None
    BY <1>1 DEF RemoveMissingFiles, CacheType, Entries
  <1>5. Entries(kept) \subseteq Entries(c)
    BY <1>4 DEF Entries
  <1> HIDE DEF kept
  <1> QED BY <1>1, <1>2, <1>3, <1>4, <1>5 DEF c, kept

\* update_profiles keeps of an entry the artifacts of unchanged profiles; it keeps an
\* entry without artifacts only if it had none.
LEMMA CurrentMeans ==
    ASSUME opts \in [Profiles -> Options], NEW c \in CacheType
    PROVE  LET current == UpdateProfiles(c) IN
           /\ current \in CacheType
           /\ current.pre = c.pre /\ current.mocks = c.mocks /\ current.profiles = opts
           /\ \A f \in Entries(current) :
                LET e == current.files[f] IN
                /\ c.files[f] # None
                /\ e.content = c.files[f].content /\ e.seen = c.files[f].seen
                /\ e.arts \subseteq c.files[f].arts
                /\ e.arts = {} => c.files[f].arts = {}
                /\ \A j \in e.arts : c.profiles[j[2]] = opts[j[2]]
  <1> DEFINE bad == {p \in Profiles : c.profiles[p] # opts[p]}
             kept(f) == {j \in c.files[f].arts : j[2] \notin bad}
             files == [f \in Files |->
                         IF c.files[f] = None \/ (c.files[f].arts # {} /\ kept(f) = {}) THEN None
                         ELSE [c.files[f] EXCEPT !.arts = kept(f)]]
             current == UpdateProfiles(c)
  <1>1. /\ current.pre = c.pre /\ current.mocks = c.mocks /\ current.profiles = opts
        /\ current.files = files
        /\ current = [pre |-> c.pre, profiles |-> opts, files |-> files, mocks |-> c.mocks]
    <2>1. current = [c EXCEPT !.profiles = opts, !.files = files]
      BY DEF UpdateProfiles
    <2> HIDE DEF files, current
    <2> QED BY <2>1 DEF CacheType
  <1>2. ASSUME NEW f \in Files, files[f] # None
        PROVE  /\ c.files[f] # None /\ c.files[f] \in Entry
               /\ files[f] = [c.files[f] EXCEPT !.arts = kept(f)]
               /\ ~(c.files[f].arts # {} /\ kept(f) = {})
    BY <1>2 DEF CacheType
  <1>3. ASSUME NEW f \in Files, files[f] # None
        PROVE  /\ files[f] \in Entry
               /\ files[f].content = c.files[f].content /\ files[f].seen = c.files[f].seen
               /\ files[f].arts = kept(f)
    <2>1. c.files[f] \in Entry /\ files[f] = [c.files[f] EXCEPT !.arts = kept(f)]
      BY <1>2, <1>3
    <2>2. kept(f) \in SUBSET Jobs
      BY <2>1 DEF Entry
    <2> HIDE DEF kept, files
    <2> QED BY <2>1, <2>2 DEF Entry
  <1>4. files \in [Files -> Entry \cup {None}]
    <2>1. \A f \in Files : files[f] \in Entry \cup {None}
      BY <1>3
    <2>2. files = [f \in Files |-> files[f]]
      OBVIOUS
    <2> HIDE DEF files
    <2> QED BY <2>1, <2>2
  <1>5. current \in CacheType
    <2>1. opts \in [Profiles -> Options \cup {None}]
      OBVIOUS
    <2> HIDE DEF files, current
    <2> QED BY <1>1, <1>4, <2>1 DEF CacheType
  <1>6. ASSUME NEW f \in Files, current.files[f] # None
        PROVE  LET e == current.files[f] IN
                /\ c.files[f] # None
                /\ e.content = c.files[f].content /\ e.seen = c.files[f].seen
                /\ e.arts \subseteq c.files[f].arts
                /\ e.arts = {} => c.files[f].arts = {}
                /\ \A j \in e.arts : c.profiles[j[2]] = opts[j[2]]
    <2>1. files[f] # None
      BY <1>1, <1>6
    <2>2. c.files[f].arts \subseteq Jobs
      BY <1>2, <2>1 DEF Entry
    <2>3. \A j \in kept(f) : c.profiles[j[2]] = opts[j[2]]
      BY <2>2, JobsTyped
    <2>4. current.files[f] = files[f] /\ files[f].arts = kept(f)
      BY <1>1, <1>3, <2>1
    <2> QED
      <3> HIDE DEF files
      <3>1. kept(f) \subseteq c.files[f].arts
        OBVIOUS
      <3> HIDE DEF kept, current
      <3> QED BY <1>2, <1>3, <2>1, <2>3, <2>4, <3>1 
  <1> HIDE DEF current
  <1> QED BY <1>1, <1>5, <1>6 DEF Entries, current

LEMMA CleanMeans ==
    ASSUME NEW c \in CacheType, NEW d
    PROVE  LET clean == RemoveDirty(c, d) IN
           /\ clean \in CacheType
           /\ clean.pre = c.pre /\ clean.mocks = c.mocks /\ clean.profiles = c.profiles
           /\ \A f \in Files : clean.files[f] = IF f \in d THEN None ELSE c.files[f]
  BY DEF RemoveDirty, CacheType

\* Entries made for files in scope name no artifact.
LEMMA WithEntriesMeans ==
    ASSUME NEW c \in CacheType, NEW S \in SUBSET Files,
           \A i \in S : \A f \in WithImports(i) : src[f] \in Contents
    PROVE  LET all == WithEntries(c, S) IN
           /\ all \in CacheType
           /\ all.pre = c.pre /\ all.mocks = c.mocks /\ all.profiles = c.profiles
           /\ \A f \in Files : c.files[f] # None => all.files[f] = c.files[f]
           /\ \A f \in Entries(all) : c.files[f] = None =>
                 all.files[f].content = src[f] /\ all.files[f].arts = {} /\ ~all.files[f].seen
           /\ \A i \in S : \A f \in WithImports(i) : all.files[f] # None
  <1> DEFINE inScope == UNION {WithImports(f) : f \in S}
             new(f) == [content |-> src[f], seen |-> FALSE, arts |-> {}]
             files == [f \in Files |->
                         IF c.files[f] = None /\ f \in inScope THEN new(f) ELSE c.files[f]]
             all == WithEntries(c, S)
  <1>1. /\ all = [pre |-> c.pre, profiles |-> c.profiles, files |-> files, mocks |-> c.mocks]
        /\ c.profiles \in [Profiles -> Options \cup {None}] /\ c.mocks \in SUBSET Files
        /\ c.pre \in BOOLEAN /\ c.files \in [Files -> Entry \cup {None}]
    <2>1. all = [c EXCEPT !.files = files]
      BY DEF WithEntries, CacheType
    <2> HIDE DEF files, all
    <2> QED BY <2>1 DEF CacheType
  <1>2. \A f \in inScope : new(f) \in Entry
    BY DEF Entry
  <1>3. files \in [Files -> Entry \cup {None}]
    BY <1>1, <1>2
  <1>4. \A f \in Files : /\ c.files[f] # None => files[f] = c.files[f]
                         /\ c.files[f] = None /\ files[f] # None => files[f] = new(f)
    OBVIOUS
  <1> HIDE DEF files, all
  <1>5. all \in CacheType
    BY <1>1, <1>3 DEF CacheType
  <1>6. \A f \in Files : c.files[f] # None => all.files[f] = c.files[f]
    BY <1>1, <1>4
  <1>7. ASSUME NEW f \in Entries(all), c.files[f] = None
        PROVE  all.files[f].content = src[f] /\ all.files[f].arts = {} /\ ~all.files[f].seen
    <2>1. f \in Files /\ all.files[f] # None
      BY DEF Entries
    <2>2. all.files[f] = new(f)
      <3> HIDE DEF new
      <3> QED BY <1>1, <1>4, <1>7, <2>1
    <2> QED BY <2>2
  <1>8. ASSUME NEW i \in S, NEW f \in WithImports(i) PROVE all.files[f] # None
    <2>1. f \in Files /\ f \in inScope
      BY ImportsClosed DEF WithImports
    <2>2. new(f) # None
      BY <1>2, <2>1, CacheAssumption
    <2> HIDE DEF inScope, new
    <2> QED BY <1>1, <2>1, <2>2 DEF files
  <1> QED BY <1>1, <1>5, <1>6, <1>7, <1>8 DEF all
-----------------------------------------------------------------------------
(* The invariant                                                              *)

Working == run.st \in {"filtered", "compiled", "written"}
Cached == Working /\ "cached" \in run.mode

\* Files that are imported exist, also in the snapshot of a run.
ImportsPresent ==
    /\ \A f \in Files : \A g \in Imports[f] : src[g] # None
    /\ \A u \in run.todo : \A g \in WithImports(u[1]) : run.snap[g] # None
    /\ Working => run.opt \in [Profiles -> Options]

\* What the cache file says besides CacheDescribesArtifacts: it knows the mocks its
\* artifacts saw, and a file that was compiled to nothing defines nothing.
CacheFileSound ==
    cacheFile # None =>
        /\ cacheFile.mocks \subseteq Mocks
        /\ cacheFile.pre => \A u \in Listed(cacheFile) : Mocks \cap WithImports(u[1]) \subseteq cacheFile.mocks
        /\ \A f \in Entries(cacheFile) :
              cacheFile.files[f].seen /\ cacheFile.files[f].arts = {} => cacheFile.files[f].content \in Barren

\* The entries of a run's cache are for the sources and settings it started with.
EntriesCurrent(r) ==
    /\ r.cache.profiles = r.opt
    /\ \A f \in Entries(r.cache) : r.cache.files[f].content = r.snap[f]

\* What unit u sees of g is what it saw when entry e was made.
SeesSame(r, u, e, g) ==
    /\ e # None
    /\ IF Sees(u[1], g, r.cache.pre) THEN e.content = r.snap[g] ELSE Iface[e.content] = Iface[r.snap[g]]

\* A unit the run keeps is in the cache file, with the run's settings, and sees today
\* what it saw.
KeptCurrent(r, c) ==
    \A u \in Listed(r.cache) :
        /\ c # None /\ c.pre = r.cache.pre /\ u \in Listed(c)
        /\ c.profiles[u[2][2]] = r.opt[u[2][2]]
        /\ \A g \in WithImports(u[1]) : SeesSame(r, u, c.files[g], g)

MocksKnown(r, c) ==
    /\ r.cache.mocks \subseteq Mocks
    /\ c # None /\ c.pre = r.cache.pre => c.mocks \subseteq r.cache.mocks
    /\ r.cache.pre => \A u \in r.made : Mocks \cap WithImports(u[1]) \subseteq r.cache.mocks

EmptyBarren(r) ==
    \A f \in Entries(r.cache) :
        (r.cache.files[f].seen /\ r.cache.files[f].arts = {} /\ \A j \in Jobs : <<f, j>> \notin r.made)
            => r.cache.files[f].content \in Barren

\* What is not compiled need not be: it was read from the cache, or is empty.
TodoJustified(r) ==
    /\ \A u \in UnitsOf(r.scope) \ r.todo :
          /\ r.cache.files[u[1]] # None /\ u[1] \notin r.dirty
          /\ \/ u \in r.loaded
             \/ r.cache.files[u[1]].content \in Barren
    /\ \A u \in (r.loaded \cap UnitsOf(r.scope)) \ r.todo :
          u[1] \in r.dirty \/ u \in Listed(r.cache)

CachedRunSound(r, c) ==
    EntriesCurrent(r) /\ KeptCurrent(r, c) /\ MocksKnown(r, c) /\ EmptyBarren(r) /\ TodoJustified(r)

\* What is compiled, and what of it is on disk.
MadeSound ==
    /\ run.st \in {"idle", "filtered"} => run.made = {}
    /\ run.st \in {"compiled", "written"} =>
          run.made = {u \in ActuallyDirty(run) : run.snap[u[1]] \notin Barren}
    /\ Working /\ ~Cached => run.loaded = {} /\ run.todo = UnitsOf(run.scope)
    /\ run.st = "written" /\ run.outcome = "ok" =>
          /\ run.made \cap ListedOnDisk \subseteq torn
          /\ \A u \in run.made : artFile[u] = Artifact(u, run.snap, run.opt, run.cache.pre)

RunSound == (Cached => CachedRunSound(run, cacheFile)) /\ MadeSound

CacheInv ==
    /\ TypeOK /\ ImportsPresent /\ CacheFileSound /\ CacheDescribesArtifacts /\ RunSound
    /\ ReusedIsFresh /\ ContractsComplete
-----------------------------------------------------------------------------
(* Preprocess                                                                 *)

LEMMA DirtyTyped ==
    ASSUME NEW c, c.pre => Layered, c.pre \in BOOLEAN, c.mocks \subseteq Mocks
    PROVE  DirtyAtFirst(c) \subseteq DirtySources(c) /\ DirtySources(c) \subseteq Files
  <1>1. DirtyAtFirst(c) \subseteq Nodes(c) /\ Nodes(c) \in SUBSET Files
    BY FirstDirtyTyped
  <1>2. CASE c.pre
    BY <1>1, <1>2, WalkSpreads
  <1>3. CASE ~c.pre
    <2>1. \A f \in DirtyAtFirst(c) : PopulateDirtyFiles(Nodes(c), DirtyAtFirst(c), f) \subseteq Nodes(c)
      BY <1>1, PopulateCloses
    <2>2. DirtySources(c) = DirtyAtFirst(c) \cup
            UNION {PopulateDirtyFiles(Nodes(c), DirtyAtFirst(c), f) : f \in DirtyAtFirst(c)}
      BY <1>3 DEF DirtySources
    <2> QED BY <1>1, <2>1, <2>2
  <1> QED BY <1>2, <1>3

Kept(mode) == RemoveMissingFiles(GetCache("preprocessed" \in mode))
Current(mode) == UpdateProfiles(Kept(mode))
Dirty(mode) == DirtySources(Current(mode))
Clean(mode) == RemoveDirty(Current(mode), Dirty(mode))

\* What remains of the cache file for a run.
LEMMA CleanHolds ==
    ASSUME TypeOK, CacheFileSound, NEW mode \in Modes
    PROVE  LET pre == "preprocessed" \in mode  clean == Clean(mode) IN
           /\ clean \in CacheType /\ clean.pre = pre /\ clean.profiles = opts
           /\ clean.mocks \subseteq Mocks
           /\ cacheFile # None /\ cacheFile.pre = pre => clean.mocks = cacheFile.mocks
           /\ Dirty(mode) \subseteq Files
           /\ \A f \in Entries(clean) :
                LET e == clean.files[f]  old == cacheFile.files[f] IN
                /\ f \notin Dirty(mode) /\ e.content = src[f]
                /\ cacheFile # None /\ cacheFile.pre = pre /\ old # None /\ Kept(mode).files[f] = old
                /\ e.seen = old.seen /\ e.content = old.content
                /\ e.arts \subseteq old.arts /\ (e.arts = {} => old.arts = {})
                /\ \A j \in e.arts : cacheFile.profiles[j[2]] = opts[j[2]]
           /\ \A u \in Listed(clean) : \A g \in WithImports(u[1]) :
                /\ cacheFile.files[g] # None
                /\ IF Sees(u[1], g, pre) THEN cacheFile.files[g].content = src[g]
                   ELSE Iface[cacheFile.files[g].content] = Iface[src[g]]
  <1> DEFINE pre == "preprocessed" \in mode
             kept == Kept(mode)
             current == Current(mode)
             dirty == Dirty(mode)
             clean == Clean(mode)
  <1>0. pre \in BOOLEAN /\ (pre => Layered)
    BY LayerAssumption DEF Layered
  <1>1. /\ kept \in CacheType /\ kept.pre = pre
        /\ cacheFile # None /\ cacheFile.pre = pre => kept.mocks = cacheFile.mocks
        /\ ~(cacheFile # None /\ cacheFile.pre = pre) => kept.mocks = {}
        /\ \A f \in Entries(kept) :
             /\ cacheFile # None /\ cacheFile.pre = pre
             /\ cacheFile.files[f] # None /\ kept.files[f] = cacheFile.files[f]
             /\ kept.profiles = cacheFile.profiles
             /\ src[f] # None
    BY <1>0, KeptMeans DEF Kept, TypeOK
  <1> HIDE DEF kept
  <1>2. /\ current \in CacheType
        /\ current.pre = kept.pre /\ current.mocks = kept.mocks /\ current.profiles = opts
        /\ \A f \in Entries(current) :
             LET e == current.files[f] IN
             /\ kept.files[f] # None
             /\ e.content = kept.files[f].content /\ e.seen = kept.files[f].seen
             /\ e.arts \subseteq kept.files[f].arts
             /\ e.arts = {} => kept.files[f].arts = {}
             /\ \A j \in e.arts : kept.profiles[j[2]] = opts[j[2]]
    BY <1>1, CurrentMeans DEF Current, TypeOK, kept
  <1> HIDE DEF current
  <1>3. Entries(current) \subseteq Entries(kept)
    BY <1>2 DEF Entries
  <1>4. current.mocks \subseteq Mocks
    BY <1>1, <1>2 DEF CacheFileSound
  <1>5. DirtyAtFirst(current) \subseteq dirty /\ dirty \subseteq Files /\ dirty = DirtySources(current)
    <2>1. DirtyAtFirst(current) \subseteq DirtySources(current) /\ DirtySources(current) \subseteq Files
      BY <1>0, <1>1, <1>2, <1>4, DirtyTyped
    <2> QED BY <2>1 DEF Dirty, current
  <1> HIDE DEF dirty
  <1>6. /\ clean \in CacheType
        /\ clean.pre = current.pre /\ clean.mocks = current.mocks /\ clean.profiles = current.profiles
        /\ \A f \in Files : clean.files[f] = IF f \in dirty THEN None ELSE current.files[f]
    BY <1>2, CleanMeans DEF Clean, current, dirty
  <1> HIDE DEF clean
  <1>7. ASSUME NEW f \in Entries(clean)
        PROVE  f \in Entries(current) \ dirty /\ clean.files[f] = current.files[f]
    BY <1>6 DEF Entries
  <1>8. ASSUME NEW f \in Entries(clean) PROVE clean.files[f].content = src[f]
    <2>1. f \in Nodes(current)
      BY <1>7 DEF Nodes, WithImports
    <2>2. f \notin DirtyAtFirst(current)
      BY <1>5, <1>7
    <2> QED BY <1>7, <2>1, <2>2 DEF DirtyAtFirst, ContentDirty
  <1>9. ASSUME NEW f \in Entries(clean)
        PROVE  LET e == clean.files[f]  old == cacheFile.files[f] IN
                /\ f \notin dirty /\ e.content = src[f]
                /\ cacheFile # None /\ cacheFile.pre = pre /\ old # None /\ kept.files[f] = old
                /\ e.seen = old.seen /\ e.content = old.content
                /\ e.arts \subseteq old.arts /\ (e.arts = {} => old.arts = {})
                /\ \A j \in e.arts : cacheFile.profiles[j[2]] = opts[j[2]]
    <2>1. f \in Entries(current) /\ f \notin dirty /\ clean.files[f] = current.files[f] /\ f \in Entries(kept)
      BY <1>3, <1>7
    <2> QED BY <1>1, <1>2, <1>8, <2>1
  <1>10. ASSUME NEW u \in Listed(clean), NEW g \in WithImports(u[1])
         PROVE  /\ cacheFile.files[g] # None
                /\ IF Sees(u[1], g, pre) THEN cacheFile.files[g].content = src[g]
                   ELSE Iface[cacheFile.files[g].content] = Iface[src[g]]
    <2>1. u \in Units /\ u[1] \in Entries(clean) /\ u[2] \in clean.files[u[1]].arts
      BY UnitsTyped DEF Listed, Entries
    <2>2. u[1] \in Entries(current) \ DirtySources(current)
      BY <1>5, <1>7, <2>1
    <2>3. pre => Mocks \cap WithImports(u[1]) \subseteq current.mocks
      <3>1. u \in Listed(cacheFile) /\ cacheFile # None /\ cacheFile.pre = pre
        BY <1>9, <2>1 DEF Listed
      <3> QED BY <1>1, <1>2, <3>1 DEF CacheFileSound
    <2>4. IF Sees(u[1], g, pre) THEN SameContent(current, g) ELSE SameIface(current, g)
      <3>1. current.pre = pre /\ current.pre \in BOOLEAN
        BY <1>0, <1>1, <1>2
      <3>2. IF Sees(u[1], g, current.pre) THEN SameContent(current, g) ELSE SameIface(current, g)
        <4>1. (current.pre => Layered) /\ (current.pre => Mocks \cap WithImports(u[1]) \subseteq current.mocks)
          BY <1>0, <2>3, <3>1
        <4>2. current.pre \in BOOLEAN
          BY <3>1
        <4> QED BY <1>4, <2>2, <4>1, <4>2, CleanSeesTheSame
      <3> HIDE DEF pre
      <3> QED BY <3>1, <3>2
    <2>5. g \in Entries(current) /\ g \in Entries(kept)
      <3>1. g \in Files
        BY <2>1, UnitsTyped, ImportsClosed DEF WithImports
      <3> QED BY <1>3, <2>4, <3>1 DEF Entries, SameContent, SameIface
    <2> QED BY <1>1, <1>2, <2>4, <2>5 DEF SameContent, SameIface
  <1> HIDE DEF pre
  <1> QED BY <1>1, <1>2, <1>4, <1>5, <1>6, <1>9, <1>10 DEF pre, kept, current, dirty, clean
LEMMA ImportedPresent ==
    ASSUME \A f \in Files : \A g \in Imports[f] : src[g] # None, NEW i \in Files, src[i] # None
    PROVE  \A g \in WithImports(i) : src[g] # None
  <1> DEFINE S == {g \in Files : src[g] # None}
  <1>1. \A f \in Files : Imports[f] \subseteq S
    BY GraphTyped
  <1>2. AllImports[i] \subseteq S
    <2>1. S \in SUBSET Files /\ \A g \in S : Imports[g] \subseteq S
      BY <1>1
    <2> HIDE DEF S
    <2> QED BY <1>1, <2>1, ImportsLeast
  <1> QED BY <1>2 DEF WithImports

InScope(wanted) == {f \in wanted : src[f] # None}

LEMMA InScopePresent ==
    ASSUME TypeOK, ImportsPresent, NEW wanted \in Scopes
    PROVE  /\ InScope(wanted) \in SUBSET Files
           /\ UnitsOf(InScope(wanted)) \subseteq Units
           /\ \A i \in InScope(wanted) : \A g \in WithImports(i) : src[g] \in Contents
           /\ \A u \in UnitsOf(InScope(wanted)) : \A g \in WithImports(u[1]) : src[g] \in Contents
  <1>1. InScope(wanted) \in SUBSET Files
    BY CacheAssumption DEF InScope
  <1>2. ASSUME NEW i \in InScope(wanted), NEW g \in WithImports(i) PROVE src[g] \in Contents
    <2>1. i \in Files /\ src[i] # None
      BY <1>1 DEF InScope
    <2>2. src[g] # None
      BY <1>2, <2>1, ImportedPresent DEF ImportsPresent
    <2>3. g \in Files
      BY <2>1, ImportsClosed DEF WithImports
    <2> QED BY <2>2, <2>3 DEF TypeOK
  <1>3. ASSUME NEW u \in UnitsOf(InScope(wanted)), NEW g \in WithImports(u[1]) PROVE src[g] \in Contents
    <2>1. PICK i \in InScope(wanted) : u[1] \in WithImports(i)
      BY <1>1, UnitsOfTyped
    <2>2. g \in WithImports(i)
      BY <1>1, <2>1, ImportsTransitive
    <2> QED BY <1>2, <2>2
  <1> QED BY <1>1, <1>2, <1>3, UnitsOfTyped

\* The run that begins, field by field.
LEMMA PreprocessMeans ==
    ASSUME NEW wanted, NEW mode, Preprocess(wanted, mode)
    PROVE  LET S == InScope(wanted) IN
           /\ run'.st = "filtered" /\ run'.scope = S /\ run'.mode = mode
           /\ run'.snap = src /\ run'.opt = opts
           /\ run'.made = {} /\ run'.reused = {} /\ run'.outcome = "none"
           /\ run' = [st |-> "filtered", scope |-> S, mode |-> mode, snap |-> src, opt |-> opts,
                      cache |-> run'.cache, dirty |-> run'.dirty, loaded |-> run'.loaded,
                      todo |-> run'.todo, made |-> {}, reused |-> {}, outcome |-> "none"]
           /\ "cached" \in mode =>
                /\ run'.cache = WithEntries(Clean(mode), S) /\ run'.dirty = Dirty(mode)
                /\ run'.loaded = ReadArtifacts(Kept(mode))
                /\ run'.todo = {u \in UnitsOf(S) : MissingArtifacts(Clean(mode), ReadArtifacts(Kept(mode)), mode, u)}
           /\ "cached" \notin mode =>
                /\ run'.cache = NewCache("preprocessed" \in mode) /\ run'.dirty = {}
                /\ run'.loaded = {} /\ run'.todo = UnitsOf(S)
  <1> DEFINE pre == "preprocessed" \in mode
             S == InScope(wanted)
             start == [Idle EXCEPT !.st = "filtered", !.scope = S, !.mode = mode,
                                   !.snap = src, !.opt = opts, !.cache.pre = pre]
             missing == {u \in UnitsOf(S) : MissingArtifacts(Clean(mode), ReadArtifacts(Kept(mode)), mode, u)}
             all == WithEntries(Clean(mode), S)
  <1>1. run' = IF "cached" \in mode
               THEN [start EXCEPT !.cache = all, !.dirty = Dirty(mode),
                        !.loaded = ReadArtifacts(Kept(mode)), !.todo = missing]
               ELSE [start EXCEPT !.todo = UnitsOf(S)]
    BY DEF Preprocess, InScope, Clean, Dirty, Current, Kept
  <1>2. start = [st |-> "filtered", scope |-> S, mode |-> mode, snap |-> src, opt |-> opts,
                 cache |-> NewCache(pre), dirty |-> {}, loaded |-> {}, todo |-> {}, made |-> {},
                 reused |-> {}, outcome |-> "none"]
    <2>1. [NewCache(FALSE) EXCEPT !.pre = pre] = NewCache(pre)
      BY DEF NewCache
    <2>2. Idle.cache = NewCache(FALSE)
      BY DEF Idle
    <2>3. start = [Idle EXCEPT !.st = "filtered", !.scope = S, !.mode = mode,
                                   !.snap = src, !.opt = opts, !.cache = [Idle.cache EXCEPT !.pre = pre]]
      <3> HIDE DEF S, pre
      <3> QED BY DEF Idle
    <2> HIDE DEF S, pre, start
    <2> QED BY <2>1, <2>2, <2>3 DEF Idle
  <1> HIDE DEF start, missing, all, S, pre
  <1> QED BY <1>1, <1>2 DEF missing, all, S, pre

\* A run that uses the cache begins with what it needs.
LEMMA PreprocessSound ==
    ASSUME TypeOK, ImportsPresent, CacheFileSound, NEW wanted \in Scopes, NEW mode \in Modes,
           Preprocess(wanted, mode), "cached" \in mode
    PROVE  /\ run'.cache \in CacheType
           /\ run'.dirty \subseteq Files /\ run'.loaded \subseteq Units
           /\ CachedRunSound(run', cacheFile)
  <1> DEFINE S == InScope(wanted)
             pre == "preprocessed" \in mode
             clean == Clean(mode)
             all == WithEntries(clean, S)
             loaded == ReadArtifacts(Kept(mode))
  <1>1. /\ run'.scope = S /\ run'.mode = mode /\ run'.snap = src /\ run'.opt = opts
        /\ run'.made = {} /\ run'.cache = all /\ run'.dirty = Dirty(mode) /\ run'.loaded = loaded
        /\ run'.todo = {u \in UnitsOf(S) : MissingArtifacts(clean, loaded, mode, u)}
    BY PreprocessMeans
  <1>2. /\ clean \in CacheType /\ clean.pre = pre /\ clean.profiles = opts
        /\ clean.mocks \subseteq Mocks
        /\ cacheFile # None /\ cacheFile.pre = pre => clean.mocks = cacheFile.mocks
        /\ Dirty(mode) \subseteq Files
        /\ \A f \in Entries(clean) :
             LET e == clean.files[f]  old == cacheFile.files[f] IN
             /\ f \notin Dirty(mode) /\ e.content = src[f]
             /\ cacheFile # None /\ cacheFile.pre = pre /\ old # None /\ Kept(mode).files[f] = old
             /\ e.seen = old.seen /\ e.content = old.content
             /\ e.arts \subseteq old.arts /\ (e.arts = {} => old.arts = {})
             /\ \A j \in e.arts : cacheFile.profiles[j[2]] = opts[j[2]]
        /\ \A u \in Listed(clean) : \A g \in WithImports(u[1]) :
             /\ cacheFile.files[g] # None
             /\ IF Sees(u[1], g, pre) THEN cacheFile.files[g].content = src[g]
                ELSE Iface[cacheFile.files[g].content] = Iface[src[g]]
    BY CleanHolds
  <1> HIDE DEF clean
  <1>3. /\ S \in SUBSET Files /\ UnitsOf(S) \subseteq Units
        /\ \A i \in S : \A g \in WithImports(i) : src[g] \in Contents
    BY InScopePresent
  <1> HIDE DEF S
  <1>4. /\ all \in CacheType
        /\ all.pre = clean.pre /\ all.mocks = clean.mocks /\ all.profiles = clean.profiles
        /\ \A f \in Files : clean.files[f] # None => all.files[f] = clean.files[f]
        /\ \A f \in Entries(all) : clean.files[f] = None =>
              all.files[f].content = src[f] /\ all.files[f].arts = {} /\ ~all.files[f].seen
    BY <1>2, <1>3, WithEntriesMeans
  <1> HIDE DEF all
  <1>5. loaded \subseteq Listed(Kept(mode)) /\ Listed(Kept(mode)) \subseteq Units
    BY DEF ReadArtifacts, Listed
  <1> HIDE DEF loaded
  <1>6. Listed(all) \subseteq Listed(clean)
    <2> SUFFICES ASSUME NEW u \in Listed(all) PROVE u \in Listed(clean)
      OBVIOUS
    <2>1. u \in Units /\ u[1] \in Entries(all) /\ u[2] \in all.files[u[1]].arts /\ u[1] \in Files
      BY UnitsTyped DEF Listed, Entries
    <2>2. clean.files[u[1]] # None
      BY <1>4, <2>1
    <2> QED BY <1>4, <2>1, <2>2 DEF Listed
  <1>7. EntriesCurrent(run')
    <2> SUFFICES ASSUME NEW f \in Entries(all) PROVE all.files[f].content = src[f]
      BY <1>1, <1>2, <1>4 DEF EntriesCurrent
    <2>1. f \in Files
      BY DEF Entries
    <2> QED BY <1>2, <1>4, <2>1 DEF Entries
  <1>8. KeptCurrent(run', cacheFile)
    <2> SUFFICES ASSUME NEW u \in Listed(all)
                 PROVE  /\ cacheFile # None /\ cacheFile.pre = pre /\ u \in Listed(cacheFile)
                        /\ cacheFile.profiles[u[2][2]] = opts[u[2][2]]
                        /\ \A g \in WithImports(u[1]) : SeesSame(run', u, cacheFile.files[g], g)
      BY <1>1, <1>2, <1>4 DEF KeptCurrent
    <2>1. u \in Listed(clean) /\ u \in Units /\ u[1] \in Entries(clean) /\ u[2] \in clean.files[u[1]].arts
      BY <1>6, UnitsTyped DEF Listed, Entries
    <2>2. run'.cache.pre = pre
      BY <1>1, <1>2, <1>4
    <2>3. \A g \in WithImports(u[1]) : SeesSame(run', u, cacheFile.files[g], g)
      <3> HIDE DEF pre
      <3> QED BY <1>1, <1>2, <2>1, <2>2 DEF SeesSame
    <2>4. cacheFile # None /\ cacheFile.pre = pre /\ u \in Listed(cacheFile)
      BY <1>2, <2>1 DEF Listed
    <2> QED BY <1>2, <2>1, <2>3, <2>4
  <1>9. MocksKnown(run', cacheFile)
    BY <1>1, <1>2, <1>4 DEF MocksKnown
  <1>10. EmptyBarren(run')
    <2> SUFFICES ASSUME NEW f \in Entries(all), all.files[f].seen, all.files[f].arts = {}
                 PROVE  all.files[f].content \in Barren
      BY <1>1 DEF EmptyBarren
    <2>1. f \in Files /\ f \in Entries(clean) /\ all.files[f] = clean.files[f]
      BY <1>4 DEF Entries
    <2>2. f \in Entries(cacheFile)
      BY <1>2, <2>1 DEF Entries
    <2> QED BY <1>2, <2>1, <2>2 DEF CacheFileSound
  <1>11. TodoJustified(run')
    <2>1. ASSUME NEW u \in UnitsOf(S), ~MissingArtifacts(clean, loaded, mode, u)
          PROVE  /\ all.files[u[1]] # None /\ u[1] \notin Dirty(mode)
                 /\ u \in loaded \/ all.files[u[1]].content \in Barren
                 /\ u \in loaded => u \in Listed(all)
      <3> DEFINE e == clean.files[u[1]]
      <3>1. u \in Units /\ u[1] \in Files /\ u = <<u[1], u[2]>>
        BY <1>3, UnitsTyped
      <3>2. /\ e # None
            /\ \/ e.seen /\ e.arts = {}
               \/ u[2] \in e.arts /\ \A j \in e.arts : j[1] = u[2][1] => <<u[1], j>> \in loaded
        BY <2>1 DEF MissingArtifacts
      <3>3. u[1] \in Entries(clean) /\ all.files[u[1]] = e /\ u[1] \notin Dirty(mode)
        BY <1>2, <1>4, <3>1, <3>2 DEF Entries
      <3>4. CASE e.seen /\ e.arts = {}
        <4>1. u[1] \in Entries(cacheFile)
          BY <1>2, <3>1, <3>3 DEF Entries
        <4>2. e.content \in Barren
          BY <1>2, <3>3, <3>4, <4>1 DEF CacheFileSound
        <4>3. u \notin Listed(Kept(mode))
          BY <1>2, <3>3, <3>4 DEF Listed
        <4> QED BY <1>5, <3>2, <3>3, <4>2, <4>3
      <3>5. CASE u[2] \in e.arts /\ \A j \in e.arts : j[1] = u[2][1] => <<u[1], j>> \in loaded
        <4>1. u \in loaded
          BY <3>1, <3>5
        <4>2. u \in Listed(all)
          BY <3>1, <3>2, <3>3, <3>5 DEF Listed
        <4> QED BY <3>2, <3>3, <4>1, <4>2
      <3> QED BY <3>2, <3>4, <3>5
    <2> HIDE DEF clean
    <2> QED BY <1>1, <2>1 DEF TodoJustified
  <1> QED BY <1>1, <1>2, <1>3, <1>4, <1>5, <1>7, <1>8, <1>9, <1>10, <1>11 DEF CachedRunSound
-----------------------------------------------------------------------------
(* The invariant is kept                                                      *)

\* Nothing is asked of an idle run.
LEMMA IdleHolds ==
    ASSUME run' = Idle, TypeOK', \A f \in Files : \A g \in Imports[f] : src'[g] # None,
           CacheFileSound', CacheDescribesArtifacts'
    PROVE  CacheInv'
  <1>1. run'.st = "idle" /\ run'.todo = {} /\ run'.made = {}
    BY DEF Idle
  <1>2. ImportsPresent'
    BY <1>1 DEF ImportsPresent, Working
  <1>3. RunSound'
    BY <1>1 DEF RunSound, MadeSound, Cached, Working
  <1>4. ReusedIsFresh' /\ ContractsComplete'
    BY <1>1 DEF ReusedIsFresh, ContractsComplete
  <1> QED BY <1>2, <1>3, <1>4 DEF CacheInv

LEMMA IdleTyped == Idle \in RunType /\ Idle.made \subseteq Idle.todo /\ Idle.reused \subseteq Idle.loaded
  <1>1. Idle.cache = NewCache(FALSE) /\ NewCache(FALSE) \in CacheType
    BY NewCacheTyped DEF Idle
  <1> QED BY <1>1 DEF Idle, RunType

LEMMA InitHolds == Init => CacheInv
  <1> SUFFICES ASSUME Init PROVE CacheInv
    OBVIOUS
  <1>1. (CHOOSE c \in Contents \ Barren : TRUE) \in Contents /\ (CHOOSE o \in Options : TRUE) \in Options
    BY CacheAssumption
  <1>2. TypeOK
    BY <1>1, IdleTyped, CacheAssumption DEF Init, TypeOK, ListedOnDisk
  <1>3. run.st = "idle" /\ run.todo = {} /\ run.made = {}
    BY DEF Init, Idle
  <1>4. ImportsPresent
    <2>1. \A f \in Files : src[f] # None
      BY <1>1, CacheAssumption DEF Init
    <2> QED BY <1>3, <2>1, GraphTyped DEF ImportsPresent, Working
  <1>5. CacheFileSound /\ CacheDescribesArtifacts
    BY DEF Init, CacheFileSound, CacheDescribesArtifacts
  <1>6. RunSound /\ ReusedIsFresh /\ ContractsComplete
    BY <1>3 DEF RunSound, MadeSound, Cached, Working, ReusedIsFresh, ContractsComplete
  <1> QED BY <1>2, <1>4, <1>5, <1>6 DEF CacheInv

LEMMA PreprocessHolds ==
    ASSUME CacheInv, NEW wanted \in Scopes, NEW mode \in Modes, Preprocess(wanted, mode)
    PROVE  CacheInv'
  <1> USE DEF CacheInv
  <1> DEFINE S == InScope(wanted)
  <1>1. UNCHANGED <<user, disk, torn, settled>>
    BY DEF Preprocess
  <1>2. /\ run'.st = "filtered" /\ run'.scope = S /\ run'.mode = mode
        /\ run'.snap = src /\ run'.opt = opts
        /\ run'.made = {} /\ run'.reused = {}
        /\ run' = [st |-> "filtered", scope |-> S, mode |-> mode, snap |-> src, opt |-> opts,
                   cache |-> run'.cache, dirty |-> run'.dirty, loaded |-> run'.loaded,
                   todo |-> run'.todo, made |-> {}, reused |-> {}, outcome |-> "none"]
        /\ "cached" \in mode => run'.todo \subseteq UnitsOf(S)
        /\ "cached" \notin mode =>
             /\ run'.cache = NewCache("preprocessed" \in mode) /\ run'.dirty = {}
             /\ run'.loaded = {} /\ run'.todo = UnitsOf(S)
    BY PreprocessMeans
  <1>3. /\ S \in SUBSET Files /\ UnitsOf(S) \subseteq Units
        /\ \A u \in UnitsOf(S) : \A g \in WithImports(u[1]) : src[g] \in Contents
    BY InScopePresent
  <1> HIDE DEF S
  <1>4. /\ run'.cache \in CacheType /\ run'.dirty \subseteq Files /\ run'.loaded \subseteq Units
        /\ "cached" \in mode => CachedRunSound(run', cacheFile)
    <2>1. CASE "cached" \in mode
      BY <2>1, PreprocessSound
    <2>2. CASE "cached" \notin mode
      <3>1. NewCache("preprocessed" \in mode) \in CacheType
        <4> DEFINE pre == "preprocessed" \in mode
        <4>1. pre \in BOOLEAN
          OBVIOUS
        <4>2. NewCache(pre) \in CacheType
          <5> HIDE DEF pre
          <5> QED BY <4>1, NewCacheTyped
        <4> QED BY <4>2
      <3> QED BY <1>2, <2>2, <3>1
    <2> QED BY <2>1, <2>2
  <1>5. TypeOK'
    <2>1. opts \in [Profiles -> Options \cup {None}] /\ src \in [Files -> Contents \cup {None}]
      BY DEF TypeOK
    <2>2. mode \in SUBSET Flags
      BY CacheAssumption
    <2>3. run'.todo \subseteq Units
      BY <1>2, <1>3
    <2>4. run' \in RunType
      BY <1>2, <1>3, <1>4, <2>1, <2>2, <2>3 DEF RunType
    <2>5. UNCHANGED <<src, opts, edits, cacheFile, artFile, lost, bare, torn>>
      BY <1>1 DEF user, disk
    <2> QED BY <1>2, <2>4, <2>5 DEF TypeOK, ListedOnDisk
  <1>6. ImportsPresent'
    <2>1. \A u \in run'.todo : \A g \in WithImports(u[1]) : run'.snap[g] # None
      BY <1>2, <1>3, CacheAssumption
    <2>2. run'.opt \in [Profiles -> Options]
      BY <1>2 DEF TypeOK
    <2> QED BY <1>1, <2>1, <2>2 DEF ImportsPresent, user
  <1>7. CacheFileSound' /\ CacheDescribesArtifacts'
    BY <1>1 DEF CacheFileSound, CacheDescribesArtifacts, user, disk
  <1>8. RunSound'
    <2>1. Cached' => CachedRunSound(run', cacheFile')
      BY <1>1, <1>2, <1>4 DEF Cached, disk
    <2>2. MadeSound'
      BY <1>2 DEF MadeSound, Cached
    <2> QED BY <2>1, <2>2 DEF RunSound
  <1>9. ReusedIsFresh' /\ ContractsComplete'
    BY <1>2 DEF ReusedIsFresh, ContractsComplete
  <1> QED BY <1>5, <1>6, <1>7, <1>8, <1>9
LEMMA ReturnHolds ==
    ASSUME CacheInv, run' = Idle, UNCHANGED <<user, disk, torn, settled>>
    PROVE  CacheInv'
  <1> USE DEF CacheInv
  <1>1. TypeOK'
    BY IdleTyped DEF TypeOK, user, disk, ListedOnDisk
  <1>2. CacheFileSound' /\ CacheDescribesArtifacts'
    BY DEF CacheFileSound, CacheDescribesArtifacts, disk
  <1>3. \A f \in Files : \A g \in Imports[f] : src'[g] # None
    BY DEF ImportsPresent, user
  <1> QED BY <1>1, <1>2, <1>3, IdleHolds

\* Compilation marks what it saw and adds mocks; contents and artifacts of the entries
\* stay.
LEMMA CompiledCacheMeans ==
    ASSUME NEW r, r.cache \in CacheType, r.todo \subseteq Units
    PROVE  LET full == ActuallyDirty(r)  c == UpdateMocks(r, Seen(r.cache, full)) IN
           /\ full \subseteq r.todo
           /\ c \in CacheType /\ c.pre = r.cache.pre /\ c.profiles = r.cache.profiles
           /\ r.cache.mocks \subseteq c.mocks /\ c.mocks \subseteq r.cache.mocks \cup Mocks
           /\ r.cache.pre => \A u \in full : Mocks \cap WithImports(u[1]) \subseteq c.mocks
           /\ \A f \in Files :
                LET e == r.cache.files[f]  d == c.files[f] IN
                /\ e = None <=> d = None
                /\ e # None => /\ d.content = e.content /\ d.arts = e.arts
                               /\ d.seen <=> e.seen \/ \E u \in full : u[1] = f
  <1> DEFINE full == ActuallyDirty(r)
             seen == Seen(r.cache, full)
             files == [f \in Files |->
                         IF r.cache.files[f] # None /\ (\E u \in full : u[1] = f)
                         THEN [r.cache.files[f] EXCEPT !.seen = TRUE] ELSE r.cache.files[f]]
             given == UNION {WithImports(u[1]) : u \in full}
             c == UpdateMocks(r, seen)
  <1>1. full \subseteq r.todo
    BY DEF ActuallyDirty
  <1> HIDE DEF full
  <1>2. /\ seen = [r.cache EXCEPT !.files = files]
        /\ c = IF seen.pre THEN [seen EXCEPT !.mocks = seen.mocks \cup (Mocks \cap given)] ELSE seen
    BY DEF Seen, UpdateMocks, full, CacheType
  <1>3. ASSUME NEW f \in Files
        PROVE  LET e == r.cache.files[f]  d == files[f] IN
                /\ d \in Entry \cup {None}
                /\ e = None <=> d = None
                /\ e # None => /\ d.content = e.content /\ d.arts = e.arts
                               /\ d.seen <=> e.seen \/ \E u \in full : u[1] = f
    <2>1. r.cache.files[f] \in Entry \cup {None} /\ None \notin Entry
      BY CacheAssumption DEF CacheType
    <2>2. CASE r.cache.files[f] # None /\ (\E u \in full : u[1] = f)
      <3>1. files[f] = [r.cache.files[f] EXCEPT !.seen = TRUE]
        BY <2>2
      <3>2. r.cache.files[f] \in Entry
        BY <2>1, <2>2
      <3>3. files[f] \in Entry /\ files[f].seen /\ files[f].content = r.cache.files[f].content
            /\ files[f].arts = r.cache.files[f].arts
        <4> HIDE DEF files
        <4> QED BY <3>1, <3>2 DEF Entry
      <3> HIDE DEF files
      <3> QED BY <2>1, <2>2, <3>3
    <2>3. CASE ~(r.cache.files[f] # None /\ (\E u \in full : u[1] = f))
      <3>1. files[f] = r.cache.files[f]
        BY <2>3
      <3> DEFINE seenNow == \E u \in full : u[1] = f
      <3>2. r.cache.files[f] # None => ~seenNow
        BY <2>3
      <3> HIDE DEF files, seenNow
      <3>3. r.cache.files[f] # None => (files[f].seen <=> r.cache.files[f].seen \/ seenNow)
        BY <3>1, <3>2
      <3> QED BY <2>1, <3>1, <3>3 DEF seenNow
    <2> QED BY <2>2, <2>3
  <1>4. files \in [Files -> Entry \cup {None}]
    <2>1. \A f \in Files : files[f] \in Entry \cup {None}
      BY <1>3
    <2>2. files = [f \in Files |-> files[f]]
      OBVIOUS
    <2> HIDE DEF files
    <2> QED BY <2>1, <2>2
  <1> HIDE DEF files
  <1>5. /\ seen.pre = r.cache.pre /\ seen.profiles = r.cache.profiles /\ seen.mocks = r.cache.mocks
        /\ seen.files = files /\ seen \in CacheType
    <2> HIDE DEF seen
    <2> QED BY <1>2, <1>4 DEF CacheType
  <1>6. given \subseteq Files /\ Mocks \subseteq Files
    <2>1. \A u \in full : u[1] \in Files
      BY <1>1, UnitsTyped
    <2> QED BY <2>1, ImportsClosed, CacheAssumption DEF WithImports
  <1>7. \A u \in full : WithImports(u[1]) \subseteq given
    OBVIOUS
  <1> HIDE DEF seen, given
  <1>8. /\ c.pre = seen.pre /\ c.profiles = seen.profiles /\ c.files = seen.files /\ c \in CacheType
        /\ c.mocks = IF seen.pre THEN seen.mocks \cup (Mocks \cap given) ELSE seen.mocks
    <2> HIDE DEF c
    <2> QED BY <1>2, <1>5, <1>6 DEF CacheType
  <1> HIDE DEF c
  <1>9. /\ r.cache.mocks \subseteq c.mocks /\ c.mocks \subseteq r.cache.mocks \cup Mocks
        /\ r.cache.pre => \A u \in full : Mocks \cap WithImports(u[1]) \subseteq c.mocks
    BY <1>5, <1>7, <1>8
  <1> QED BY <1>1, <1>3, <1>5, <1>8, <1>9 DEF full, c, seen

LEMMA CompileHolds ==
    ASSUME CacheInv, Compile
    PROVE  CacheInv'
  <1> USE DEF CacheInv
  <1> DEFINE full == ActuallyDirty(run)
             c == UpdateMocks(run, Seen(run.cache, full))
             made == {u \in full : run.snap[u[1]] \notin Barren}
  <1>1. run.st = "filtered" /\ UNCHANGED <<user, disk, torn, settled>>
    BY DEF Compile
  <1>2. PICK outcome \in {"ok", "error", "no_artifacts"} :
          run' = [run EXCEPT !.st = IF outcome = "ok" THEN "compiled" ELSE "written",
                             !.outcome = outcome, !.cache = c, !.made = made]
    BY DEF Compile
  <1>3. /\ full \subseteq run.todo
        /\ c \in CacheType /\ c.pre = run.cache.pre /\ c.profiles = run.cache.profiles
        /\ run.cache.mocks \subseteq c.mocks /\ c.mocks \subseteq run.cache.mocks \cup Mocks
        /\ run.cache.pre => \A u \in full : Mocks \cap WithImports(u[1]) \subseteq c.mocks
        /\ \A f \in Files :
             LET e == run.cache.files[f]  d == c.files[f] IN
             /\ e = None <=> d = None
             /\ e # None => /\ d.content = e.content /\ d.arts = e.arts
                            /\ d.seen => e.seen \/ \E u \in full : u[1] = f
    BY CompiledCacheMeans DEF TypeOK, RunType
  <1> HIDE DEF c, full
  <1>4. /\ run'.st \in {"compiled", "written"} /\ (run'.st = "written" => run'.outcome # "ok")
        /\ run'.cache = c /\ run'.made = made
        /\ run'.scope = run.scope /\ run'.mode = run.mode /\ run'.snap = run.snap /\ run'.opt = run.opt
        /\ run'.dirty = run.dirty /\ run'.loaded = run.loaded /\ run'.todo = run.todo
        /\ run'.reused = run.reused
        /\ made \subseteq full
    <2>1. run \in RunType
      BY DEF TypeOK
    <2>2. made \subseteq full
      OBVIOUS
    <2> HIDE DEF made
    <2> QED BY <1>2, <2>1, <2>2 DEF RunType
  <1>5. TypeOK'
    <2>1. run \in RunType
      BY DEF TypeOK
    <2>2. made \subseteq run.todo /\ made \in SUBSET Units
      BY <1>3, <2>1 DEF RunType
    <2> HIDE DEF made
    <2>3. run' \in RunType
      BY <1>2, <1>3, <2>1, <2>2 DEF RunType
    <2>4. UNCHANGED <<src, opts, edits, cacheFile, artFile, lost, bare, torn>>
      BY <1>1 DEF user, disk
    <2> QED BY <1>4, <2>2, <2>3, <2>4 DEF TypeOK, ListedOnDisk
  <1>6. ImportsPresent'
    BY <1>1, <1>4 DEF ImportsPresent, Working, user
  <1>7. CacheFileSound' /\ CacheDescribesArtifacts'
    BY <1>1 DEF CacheFileSound, CacheDescribesArtifacts, disk
  <1>8. ASSUME "cached" \in run.mode PROVE CachedRunSound(run', cacheFile)
    <2>1. CachedRunSound(run, cacheFile)
      BY <1>1, <1>8 DEF RunSound, Cached, Working
    <2>2. Entries(c) = Entries(run.cache) /\ Listed(c) = Listed(run.cache)
      <3>1. \A u \in Units : u[1] \in Files
        BY UnitsTyped
      <3> QED BY <1>3, <3>1 DEF Entries, Listed
    <2>3. EntriesCurrent(run')
      BY <1>3, <1>4, <2>1, <2>2 DEF CachedRunSound, EntriesCurrent, Entries
    <2>4. KeptCurrent(run', cacheFile)
      BY <1>3, <1>4, <2>1, <2>2 DEF CachedRunSound, KeptCurrent, SeesSame
    <2>5. MocksKnown(run', cacheFile)
      <3> HIDE DEF made
      <3> QED BY <1>3, <1>4, <2>1 DEF CachedRunSound, MocksKnown
    <2>6. EmptyBarren(run')
      <3> SUFFICES ASSUME NEW f \in Entries(c), c.files[f].seen, c.files[f].arts = {},
                          \A j \in Jobs : <<f, j>> \notin made
                   PROVE  c.files[f].content \in Barren
        BY <1>4 DEF EmptyBarren
      <3>1. f \in Files /\ f \in Entries(run.cache) /\ run.cache.files[f] # None
        BY <2>2 DEF Entries
      <3>2. /\ c.files[f].content = run.cache.files[f].content
            /\ c.files[f].arts = run.cache.files[f].arts
            /\ run.cache.files[f].seen \/ \E u \in full : u[1] = f
        BY <1>3, <3>1
      <3>3. CASE run.cache.files[f].seen
        <4>1. run.made = {}
          BY <1>1 DEF RunSound, MadeSound
        <4> QED BY <2>1, <3>1, <3>2, <3>3, <4>1 DEF CachedRunSound, EmptyBarren
      <3>4. CASE \E u \in full : u[1] = f
        <4>1. PICK u \in full : u[1] = f
          BY <3>4
        <4>2. u = <<f, u[2]>> /\ u[2] \in Jobs
          BY <1>3, <4>1, UnitsTyped DEF TypeOK, RunType
        <4>3. run.snap[f] \in Barren
          BY <4>1, <4>2
        <4> QED BY <2>1, <3>1, <3>2, <4>3 DEF CachedRunSound, EntriesCurrent
      <3> QED BY <3>2, <3>3, <3>4
    <2>7. TodoJustified(run')
      <3>1. \A u \in UnitsOf(run.scope) : u[1] \in Files
        BY UnitsOfTyped, UnitsTyped DEF TypeOK, RunType
      <3>2. TodoJustified(run)
        BY <2>1 DEF CachedRunSound
      <3> QED BY <1>3, <1>4, <2>2, <3>1, <3>2 DEF TodoJustified
    <2> QED BY <2>3, <2>4, <2>5, <2>6, <2>7 DEF CachedRunSound
  <1>9. RunSound'
    <2>1. Cached' => CachedRunSound(run', cacheFile')
      BY <1>1, <1>4, <1>8 DEF Cached, disk
    <2>2. ActuallyDirty(run') = full
      BY <1>4 DEF ActuallyDirty, full
    <2>3. MadeSound'
      BY <1>1, <1>4, <2>2 DEF RunSound, MadeSound, Cached, Working
    <2> QED BY <2>1, <2>3 DEF RunSound
  <1>10. ReusedIsFresh' /\ ContractsComplete'
    BY <1>4 DEF ReusedIsFresh, ContractsComplete
  <1> QED BY <1>5, <1>6, <1>7, <1>9, <1>10

LEMMA ArtifactTyped ==
    ASSUME NEW u \in Units, NEW s \in [Files -> Contents \cup {None}], NEW o \in [Profiles -> Options],
           NEW pre \in BOOLEAN, \A g \in WithImports(u[1]) : s[g] # None
    PROVE  Artifact(u, s, o, pre) \in ArtifactType(u)
  <1>1. WithImports(u[1]) \subseteq Files /\ u[2][2] \in Profiles
    BY UnitsTyped, ImportsClosed, JobsTyped DEF WithImports
  <1>2. \A g \in WithImports(u[1]) : s[g] \in Contents /\ Iface[s[g]] \in Contents
    BY <1>1, CacheAssumption
  <1> QED BY <1>1, <1>2 DEF Artifact, ArtifactType

LEMMA WriteArtifactsHolds ==
    ASSUME CacheInv, WriteArtifacts
    PROVE  CacheInv'
  <1> USE DEF CacheInv
  <1> DEFINE art(u) == Artifact(u, run.snap, run.opt, run.cache.pre)
  <1>1. /\ run.st = "compiled" /\ run' = [run EXCEPT !.st = "written"]
        /\ artFile' = [u \in Units |-> IF u \in run.made THEN art(u) ELSE artFile[u]]
        /\ torn' = torn \cup (run.made \cap ListedOnDisk)
        /\ bare' = BareAfter(run.made)
        /\ UNCHANGED <<src, opts, edits, cacheFile, lost>>
    BY DEF WriteArtifacts, Written, user
  <1>2. /\ run'.st = "written"
        /\ run'.cache = run.cache /\ run'.made = run.made /\ run'.outcome = run.outcome
        /\ run'.scope = run.scope /\ run'.mode = run.mode /\ run'.snap = run.snap /\ run'.opt = run.opt
        /\ run'.dirty = run.dirty /\ run'.loaded = run.loaded /\ run'.todo = run.todo
        /\ run'.reused = run.reused /\ run' \in RunType /\ run \in RunType
    BY <1>1 DEF TypeOK, RunType
  <1>3. run.made \subseteq Units
    BY <1>2 DEF RunType
  <1>4. ASSUME NEW u \in run.made PROVE art(u) \in ArtifactType(u)
    <2>1. run.snap \in [Files -> Contents \cup {None}] /\ run.cache.pre \in BOOLEAN /\ u \in Units
      BY <1>2, <1>3 DEF RunType, CacheType
    <2>2. run.opt \in [Profiles -> Options] /\ \A g \in WithImports(u[1]) : run.snap[g] # None
      BY <1>1, <1>4 DEF ImportsPresent, Working, TypeOK
    <2> QED BY <2>1, <2>2, ArtifactTyped
  <1> HIDE DEF art
  <1>5. TypeOK'
    <2>1. DOMAIN artFile' = Units /\ \A u \in Units : artFile'[u] \in ArtifactType(u) \cup {None}
      BY <1>1, <1>4 DEF TypeOK
    <2>2. torn' \subseteq Units /\ bare' \subseteq Units
      BY <1>1, <1>3 DEF TypeOK, BareAfter
    <2> QED BY <1>1, <1>2, <2>1, <2>2 DEF TypeOK, ListedOnDisk
  <1>6. ImportsPresent'
    BY <1>1, <1>2 DEF ImportsPresent, Working
  <1>7. CacheFileSound'
    BY <1>1 DEF CacheFileSound
  <1>8. CacheDescribesArtifacts'
    <2> SUFFICES ASSUME cacheFile # None, NEW u \in Listed(cacheFile) \ torn', artFile'[u] # None
                 PROVE  /\ artFile'[u].pre = cacheFile.pre
                        /\ artFile'[u].opt = cacheFile.profiles[u[2][2]]
                        /\ \A g \in DOMAIN artFile'[u].view :
                              cacheFile.files[g] # None =>
                                  artFile'[u].view[g] =
                                      IF Sees(u[1], g, cacheFile.pre) THEN cacheFile.files[g].content
                                      ELSE Iface[cacheFile.files[g].content]
      <3>1. cacheFile' = cacheFile
        BY <1>1
      <3> QED BY <3>1 DEF CacheDescribesArtifacts, Listed
    <2>1. u \in Units /\ u \notin run.made /\ u \notin torn
      BY <1>1 DEF ListedOnDisk, Listed
    <2>2. artFile'[u] = artFile[u]
      BY <1>1, <2>1
    <2> QED BY <2>1, <2>2 DEF CacheDescribesArtifacts
  <1>9. RunSound'
    <2>1. Cached' => CachedRunSound(run', cacheFile')
      <3>1. Cached' => CachedRunSound(run, cacheFile)
        BY <1>1, <1>2 DEF RunSound, Cached, Working
      <3>2. CachedRunSound(run, cacheFile) => CachedRunSound(run', cacheFile)
        BY <1>2 DEF CachedRunSound, EntriesCurrent, KeptCurrent, SeesSame, MocksKnown, EmptyBarren, TodoJustified
      <3> QED BY <1>1, <3>1, <3>2
    <2>2. \A u \in run.made : artFile'[u] = Artifact(u, run'.snap, run'.opt, run'.cache.pre)
      BY <1>1, <1>2, <1>3 DEF art
    <2>3. ActuallyDirty(run') = ActuallyDirty(run)
      BY <1>2 DEF ActuallyDirty
    <2>4. run.made \cap ListedOnDisk' \subseteq torn'
      BY <1>1 DEF ListedOnDisk
    <2>5. MadeSound'
      BY <1>1, <1>2, <2>2, <2>3, <2>4 DEF RunSound, MadeSound, Cached, Working
    <2> QED BY <2>1, <2>5 DEF RunSound
  <1>10. ReusedIsFresh' /\ ContractsComplete'
    BY <1>2 DEF ReusedIsFresh, ContractsComplete
  <1> QED BY <1>5, <1>6, <1>7, <1>8, <1>9, <1>10
\* write_cache adds the jobs of what was compiled to the entries.
LEMMA MergedMeans ==
    ASSUME NEW r, r.cache \in CacheType
    PROVE  LET m == Merged(r) IN
           /\ m \in CacheType /\ m.pre = r.cache.pre /\ m.profiles = r.cache.profiles
           /\ m.mocks = r.cache.mocks
           /\ \A f \in Files :
                LET e == r.cache.files[f] IN
                /\ e = None <=> m.files[f] = None
                /\ e # None => /\ m.files[f].content = e.content /\ m.files[f].seen = e.seen
                               /\ m.files[f].arts = e.arts \cup {j \in Jobs : <<f, j>> \in r.made}
           /\ Listed(r.cache) \subseteq Listed(m)
           /\ Listed(m) \subseteq Listed(r.cache) \cup r.made
  <1> DEFINE with(f) == [r.cache.files[f] EXCEPT !.arts =
                           r.cache.files[f].arts \cup {j \in Jobs : <<f, j>> \in r.made}]
             files == [f \in Files |-> IF r.cache.files[f] = None THEN None ELSE with(f)]
             m == Merged(r)
  <1>1. m = [r.cache EXCEPT !.files = files]
    BY DEF Merged
  <1>2. ASSUME NEW f \in Files, r.cache.files[f] # None
        PROVE  /\ with(f) \in Entry
               /\ with(f).content = r.cache.files[f].content /\ with(f).seen = r.cache.files[f].seen
               /\ with(f).arts = r.cache.files[f].arts \cup {j \in Jobs : <<f, j>> \in r.made}
    <2>1. r.cache.files[f] \in Entry
      BY <1>2 DEF CacheType
    <2> QED BY <2>1 DEF Entry
  <1> HIDE DEF with
  <1>3. files \in [Files -> Entry \cup {None}]
    BY <1>2
  <1>4. \A f \in Files : files[f] = IF r.cache.files[f] = None THEN None ELSE with(f)
    OBVIOUS
  <1> HIDE DEF files, m
  <1>5. /\ m.pre = r.cache.pre /\ m.profiles = r.cache.profiles /\ m.mocks = r.cache.mocks
        /\ m.files = files /\ m \in CacheType
    BY <1>1, <1>3 DEF CacheType
  <1>6. None \notin Entry
    BY CacheAssumption
  <1>7. \A f \in Files :
          LET e == r.cache.files[f] IN
          /\ e = None <=> m.files[f] = None
          /\ e # None => /\ m.files[f].content = e.content /\ m.files[f].seen = e.seen
                         /\ m.files[f].arts = e.arts \cup {j \in Jobs : <<f, j>> \in r.made}
    BY <1>2, <1>4, <1>5, <1>6
  <1>8. ASSUME NEW u \in Units
        PROVE  /\ u \in Listed(r.cache) => u \in Listed(m)
               /\ u \in Listed(m) => u \in Listed(r.cache) \/ u \in r.made
    <2>1. u[1] \in Files /\ u[2] \in Jobs /\ u = <<u[1], u[2]>>
      BY UnitsTyped
    <2> QED BY <1>7, <2>1 DEF Listed
  <1>9. Listed(r.cache) \subseteq Units /\ Listed(m) \subseteq Units
    BY DEF Listed
  <1> QED BY <1>5, <1>7, <1>8, <1>9 DEF m

\* An artifact the run keeps is the one its own inputs give.
LEMMA KeptArtifact ==
    ASSUME CacheInv, run.st = "written", "cached" \in run.mode,
           NEW u \in Listed(run.cache) \ torn, artFile[u] # None
    PROVE  artFile[u] = Artifact(u, run.snap, run.opt, run.cache.pre)
  <1> USE DEF CacheInv
  <1> DEFINE a == artFile[u]
  <1>1. CachedRunSound(run, cacheFile)
    BY DEF RunSound, Cached, Working
  <1>2. /\ cacheFile # None /\ cacheFile.pre = run.cache.pre /\ u \in Listed(cacheFile)
        /\ cacheFile.profiles[u[2][2]] = run.opt[u[2][2]]
        /\ \A g \in WithImports(u[1]) : SeesSame(run, u, cacheFile.files[g], g)
    BY <1>1 DEF CachedRunSound, KeptCurrent
  <1>3. u \in Units /\ a \in ArtifactType(u)
    BY DEF Listed, TypeOK
  <1>4. /\ a.pre = cacheFile.pre
        /\ a.opt = cacheFile.profiles[u[2][2]]
        /\ \A g \in DOMAIN a.view :
              cacheFile.files[g] # None =>
                  a.view[g] = IF Sees(u[1], g, cacheFile.pre) THEN cacheFile.files[g].content
                              ELSE Iface[cacheFile.files[g].content]
    BY <1>2 DEF CacheDescribesArtifacts
  <1> HIDE DEF a
  <1>5. a = [view |-> a.view, opt |-> a.opt, pre |-> a.pre] /\ a.view \in [WithImports(u[1]) -> Contents]
    BY <1>3 DEF ArtifactType
  <1>6. ASSUME NEW g \in WithImports(u[1])
        PROVE  a.view[g] = IF Sees(u[1], g, run.cache.pre) THEN run.snap[g] ELSE Iface[run.snap[g]]
    <2>1. SeesSame(run, u, cacheFile.files[g], g) /\ g \in DOMAIN a.view
      BY <1>2, <1>5
    <2> QED BY <1>2, <1>4, <2>1 DEF SeesSame
  <1>7. a.view = [g \in WithImports(u[1]) |->
                    IF Sees(u[1], g, run.cache.pre) THEN run.snap[g] ELSE Iface[run.snap[g]]]
    BY <1>5, <1>6
  <1> QED BY <1>2, <1>4, <1>5, <1>7 DEF Artifact, a

\* A unit that was asked for, that is not compiled and not dirty, was read and kept.
LEMMA RequestedMeans ==
    ASSUME CacheInv, run.st = "written", NEW u \in Requested(run), u \notin run.made
    PROVE  /\ "cached" \in run.mode
           /\ u \in run.loaded /\ u[1] \notin run.dirty /\ u \in Listed(run.cache)
           /\ u \in UnitsOf(run.scope)
  <1> USE DEF CacheInv
  <1>1. u \in UnitsOf(run.scope) /\ run.snap[u[1]] \notin Barren
        /\ ("sparse" \in run.mode => u[1] \in run.scope)
    BY DEF Requested
  <1>2. u \notin run.todo
    BY <1>1 DEF RunSound, MadeSound, ActuallyDirty
  <1>3. Cached /\ "cached" \in run.mode
    BY <1>1, <1>2 DEF RunSound, MadeSound, Cached, Working
  <1>4. EntriesCurrent(run) /\ TodoJustified(run)
    BY <1>3 DEF RunSound, CachedRunSound
  <1>5. u[1] \in Files
    BY <1>1, UnitsOfTyped, UnitsTyped DEF TypeOK, RunType
  <1>6. run.cache.files[u[1]].content \notin Barren
    BY <1>1, <1>2, <1>4, <1>5 DEF EntriesCurrent, TodoJustified, Entries
  <1> QED BY <1>1, <1>2, <1>3, <1>4, <1>6 DEF TodoJustified
\* Reuse is right and the output whole when the run ends, whatever is written.
LEMMA ConsumeHolds ==
    ASSUME CacheInv, run.st = "written", run' = [run EXCEPT !.st = "done", !.reused = Reused(run)],
           UNCHANGED user,
           \A u \in Units : artFile'[u] \in {None, artFile[u]},
           \A u \in torn \ torn' : u \notin Listed(run.cache) \/ u \in run.made
    PROVE  /\ run' \in RunType /\ run'.made \subseteq run'.todo /\ run'.reused \subseteq run'.loaded
           /\ ImportsPresent' /\ RunSound' /\ ReusedIsFresh' /\ ContractsComplete'
  <1> USE DEF CacheInv
  <1>1. /\ run'.st = "done" /\ run'.reused = Reused(run)
        /\ run'.cache = run.cache /\ run'.made = run.made /\ run'.outcome = run.outcome
        /\ run'.scope = run.scope /\ run'.mode = run.mode /\ run'.snap = run.snap /\ run'.opt = run.opt
        /\ run'.dirty = run.dirty /\ run'.loaded = run.loaded /\ run'.todo = run.todo
        /\ run' \in RunType /\ run \in RunType
    <2>1. Reused(run) \subseteq run.loaded /\ run \in RunType
      BY DEF Reused, TypeOK
    <2>2. Reused(run) \subseteq Units
      BY <2>1 DEF RunType
    <2> QED BY <2>1, <2>2 DEF RunType
  <1>2. ImportsPresent' /\ RunSound'
    BY <1>1 DEF ImportsPresent, RunSound, MadeSound, Cached, Working, user
  <1>3. Requested(run') = Requested(run)
    BY <1>1 DEF Requested
  <1>4. ReusedIsFresh'
    <2> SUFFICES ASSUME NEW u \in (run.reused' \cap Requested(run)) \ torn', artFile'[u] # None
                 PROVE  artFile'[u] = Artifact(u, run.snap, run.opt, run.cache.pre)
      BY <1>1, <1>3 DEF ReusedIsFresh
    <2>1. u \notin run.made
      BY <1>1 DEF Reused, Requested
    <2>2. "cached" \in run.mode /\ u \in Listed(run.cache)
      BY <2>1, RequestedMeans
    <2>3. u \notin torn /\ u \in Units
      BY <2>1, <2>2 DEF Listed
    <2>4. artFile'[u] = artFile[u]
      BY <2>3
    <2> QED BY <2>2, <2>3, <2>4, KeptArtifact
  <1>5. ContractsComplete'
    <2> SUFFICES ASSUME NEW u \in Requested(run)
                 PROVE  \E w \in run.made \cup Reused(run) : w[1] = u[1] /\ w[2][1] = u[2][1]
      BY <1>1, <1>3 DEF ContractsComplete
    <2>1. CASE \E w \in run.made : w[1] = u[1] /\ w[2][1] = u[2][1]
      BY <2>1
    <2>2. CASE ~ \E w \in run.made : w[1] = u[1] /\ w[2][1] = u[2][1]
      <3>1. u \notin run.made
        BY <2>2
      <3>2. u \in run.loaded /\ u[1] \notin run.dirty /\ u \in UnitsOf(run.scope)
        BY <3>1, RequestedMeans
      <3>3. u \in Reused(run)
        BY <2>2, <3>2 DEF Reused
      <3> QED BY <3>3
    <2> QED BY <2>1, <2>2
  <1>6. run'.made \subseteq run'.todo /\ run'.reused \subseteq run'.loaded
    BY <1>1 DEF TypeOK, Reused
  <1> QED BY <1>1, <1>2, <1>4, <1>5, <1>6

LEMMA NamedMeans ==
    ASSUME TypeOK, NEW U, artFile' = Named(artFile, U)
    PROVE  /\ DOMAIN artFile' = Units
           /\ \A u \in Units : /\ artFile'[u] \in {None, artFile[u]}
                               /\ u \in U => artFile'[u] = artFile[u]
           /\ \A u \in Units : artFile'[u] \in ArtifactType(u) \cup {None}
  BY DEF TypeOK, Named

\* A cache file that stays describes the artifacts that are not torn, if no other
\* artifact appears.
LEMMA StillDescribes ==
    ASSUME CacheDescribesArtifacts, cacheFile' = cacheFile, NEW T, T \subseteq torn',
           torn \subseteq torn',
           \A u \in ListedOnDisk \ T : artFile'[u] \in {None, artFile[u]}
    PROVE  CacheDescribesArtifacts'
  <1> SUFFICES ASSUME cacheFile # None, NEW u \in Listed(cacheFile) \ torn', artFile'[u] # None
               PROVE  /\ artFile'[u].pre = cacheFile.pre
                      /\ artFile'[u].opt = cacheFile.profiles[u[2][2]]
                      /\ \A g \in DOMAIN artFile'[u].view :
                            cacheFile.files[g] # None =>
                                artFile'[u].view[g] =
                                    IF Sees(u[1], g, cacheFile.pre) THEN cacheFile.files[g].content
                                    ELSE Iface[cacheFile.files[g].content]
    BY DEF CacheDescribesArtifacts, Listed
  <1>1. u \in ListedOnDisk \ T /\ u \notin torn
    BY DEF ListedOnDisk
  <1>2. artFile'[u] = artFile[u]
    BY <1>1
  <1> QED BY <1>1, <1>2 DEF CacheDescribesArtifacts

LEMMA WriteCacheHolds ==
    ASSUME CacheInv, WriteCache
    PROVE  CacheInv'
  <1> USE DEF CacheInv
  <1>0. bare' \subseteq bare
    BY DEF WriteCache
  <1>1. /\ run.st = "written" /\ run' = [run EXCEPT !.st = "done", !.reused = Reused(run)]
        /\ UNCHANGED user
    BY DEF WriteCache
  <1>2. run \in RunType /\ run.cache \in CacheType /\ run.made \subseteq Units
    BY DEF TypeOK, RunType
  <1>3. CASE Persists(run) /\ cacheFile' = Merged(run)
    <2> DEFINE m == Merged(run)
    <2>1. /\ artFile' = Named(artFile, Listed(m))
          /\ lost' = StillLost(m, run.made)
          /\ torn' = (torn \cap Listed(m)) \ run.made
          /\ "cached" \in run.mode /\ run.outcome = "ok"
      <3>1. m # None
        <4>1. m \in CacheType
          BY <1>2, MergedMeans
        <4> QED BY <4>1, CacheAssumption
      <3> QED BY <1>3, <3>1 DEF WriteCache, Persists
    <2>2. /\ m \in CacheType /\ m.pre = run.cache.pre /\ m.profiles = run.cache.profiles
          /\ m.mocks = run.cache.mocks
          /\ \A f \in Files :
               LET e == run.cache.files[f] IN
               /\ e = None <=> m.files[f] = None
               /\ e # None => /\ m.files[f].content = e.content /\ m.files[f].seen = e.seen
                              /\ m.files[f].arts = e.arts \cup {j \in Jobs : <<f, j>> \in run.made}
          /\ Listed(run.cache) \subseteq Listed(m)
          /\ Listed(m) \subseteq Listed(run.cache) \cup run.made
      BY <1>2, MergedMeans
    <2> HIDE DEF m
    <2>3. cacheFile' = m /\ m # None
      BY <1>3, <2>2, CacheAssumption DEF m
    <2>4. CachedRunSound(run, cacheFile)
      BY <1>1, <2>1 DEF RunSound, Cached, Working
    <2>5. /\ DOMAIN artFile' = Units
          /\ \A u \in Units : /\ artFile'[u] \in {None, artFile[u]}
                              /\ u \in Listed(m) => artFile'[u] = artFile[u]
          /\ \A u \in Units : artFile'[u] \in ArtifactType(u) \cup {None}
      BY <2>1, NamedMeans
    <2>6. /\ run' \in RunType /\ run'.made \subseteq run'.todo /\ run'.reused \subseteq run'.loaded
          /\ ImportsPresent' /\ RunSound' /\ ReusedIsFresh' /\ ContractsComplete'
      <3>1. \A u \in torn \ torn' : u \notin Listed(run.cache) \/ u \in run.made
        BY <2>1, <2>2
      <3> QED BY <1>1, <2>5, <3>1, ConsumeHolds
    <2>7. TypeOK'
      <3>1. lost' \subseteq ListedOnDisk'
        BY <2>1, <2>3 DEF StillLost, ListedOnDisk
      <3>2. torn' \subseteq Units /\ bare' \subseteq Units
        BY <1>0, <2>1 DEF TypeOK
      <3> QED BY <1>1, <2>2, <2>3, <2>5, <2>6, <3>1, <3>2 DEF TypeOK, user
    <2>8. CacheFileSound'
      <3>1. m.mocks \subseteq Mocks
        BY <2>2, <2>4 DEF CachedRunSound, MocksKnown
      <3>2. ASSUME m.pre, NEW u \in Listed(m) PROVE Mocks \cap WithImports(u[1]) \subseteq m.mocks
        <4>1. CASE u \in run.made
          BY <2>2, <2>4, <3>2, <4>1 DEF CachedRunSound, MocksKnown
        <4>2. CASE u \in Listed(run.cache)
          <5>1. cacheFile # None /\ cacheFile.pre = run.cache.pre /\ u \in Listed(cacheFile)
            BY <2>4, <4>2 DEF CachedRunSound, KeptCurrent
          <5>2. Mocks \cap WithImports(u[1]) \subseteq cacheFile.mocks
            BY <2>2, <3>2, <5>1 DEF CacheFileSound
          <5>3. cacheFile.mocks \subseteq m.mocks
            BY <2>2, <2>4, <5>1 DEF CachedRunSound, MocksKnown
          <5> QED BY <5>2, <5>3
        <4> QED BY <2>2, <4>1, <4>2
      <3>3. ASSUME NEW f \in Entries(m), m.files[f].seen, m.files[f].arts = {}
            PROVE  m.files[f].content \in Barren
        <4> DEFINE e == run.cache.files[f]
        <4>1. f \in Files /\ e # None
          BY <2>2, <3>3 DEF Entries
        <4>2. /\ m.files[f].content = e.content /\ e.seen /\ e.arts = {}
              /\ \A j \in Jobs : <<f, j>> \notin run.made
          BY <2>2, <3>3, <4>1
        <4>3. f \in Entries(run.cache)
          BY <4>1 DEF Entries
        <4> QED BY <2>4, <4>2, <4>3 DEF CachedRunSound, EmptyBarren
      <3> QED BY <2>3, <3>1, <3>2, <3>3 DEF CacheFileSound
    <2>9. CacheDescribesArtifacts'
      <3> SUFFICES ASSUME NEW u \in Listed(m) \ torn', artFile'[u] # None
                   PROVE  /\ artFile'[u].pre = m.pre
                          /\ artFile'[u].opt = m.profiles[u[2][2]]
                          /\ \A g \in DOMAIN artFile'[u].view :
                                m.files[g] # None =>
                                    artFile'[u].view[g] =
                                        IF Sees(u[1], g, m.pre) THEN m.files[g].content
                                        ELSE Iface[m.files[g].content]
        BY <2>3 DEF CacheDescribesArtifacts
      <3>1. u \in Units /\ artFile'[u] = artFile[u]
        BY <2>5 DEF Listed
      <3>2. artFile[u] = Artifact(u, run.snap, run.opt, run.cache.pre)
        <4>1. CASE u \in run.made
          BY <1>1, <2>1, <4>1 DEF RunSound, MadeSound
        <4>2. CASE u \notin run.made
          <5>1. u \in Listed(run.cache) \ torn
            BY <2>1, <2>2, <4>2
          <5> QED BY <1>1, <2>1, <3>1, <5>1, KeptArtifact
        <4> QED BY <4>1, <4>2
      <3>3. WithImports(u[1]) \subseteq Files
        BY <3>1, UnitsTyped, ImportsClosed DEF WithImports
      <3>4. \A g \in Files : m.files[g] # None => m.files[g].content = run.snap[g]
        BY <2>2, <2>4 DEF CachedRunSound, EntriesCurrent, Entries
      <3>5. m.profiles = run.opt
        BY <2>2, <2>4 DEF CachedRunSound, EntriesCurrent
      <3> QED BY <2>2, <3>1, <3>2, <3>3, <3>4, <3>5 DEF Artifact
    <2> QED BY <2>6, <2>7, <2>8, <2>9
  <1>4. CASE /\ ~Persists(run)
             /\ artFile' = Named(artFile, ListedOnDisk)
             /\ UNCHANGED <<cacheFile, lost, torn, settled>>
    <2>1. /\ DOMAIN artFile' = Units
          /\ \A u \in Units : artFile'[u] \in {None, artFile[u]}
          /\ \A u \in Units : artFile'[u] \in ArtifactType(u) \cup {None}
      BY <1>4, NamedMeans
    <2>2. /\ run' \in RunType /\ run'.made \subseteq run'.todo /\ run'.reused \subseteq run'.loaded
          /\ ImportsPresent' /\ RunSound' /\ ReusedIsFresh' /\ ContractsComplete'
      BY <1>1, <1>4, <2>1, ConsumeHolds
    <2>3. TypeOK'
      BY <1>0, <1>1, <1>4, <2>1, <2>2 DEF TypeOK, user, ListedOnDisk
    <2>4. CacheFileSound'
      BY <1>4 DEF CacheFileSound
    <2>5. CacheDescribesArtifacts'
      <3>1. ListedOnDisk \subseteq Units
        BY DEF ListedOnDisk, Listed
      <3>2. {} \subseteq torn' /\ torn \subseteq torn' /\ cacheFile' = cacheFile
        BY <1>4
      <3> QED BY <2>1, <3>1, <3>2, StillDescribes
    <2> QED BY <2>2, <2>3, <2>4, <2>5
  <1> QED BY <1>3, <1>4 DEF WriteCache
\* Killed among the artifacts: new ones the cache file names are torn, one is missing.
LEMMA CrashInArtifactsHolds ==
    ASSUME CacheInv, CrashInArtifacts
    PROVE  CacheInv'
  <1> USE DEF CacheInv
  <1>1. /\ run.st = "compiled" /\ run' = Idle /\ edits < MaxEdits /\ edits' = edits + 1
        /\ UNCHANGED <<src, opts, cacheFile, lost>>
    BY DEF CrashInArtifacts, Disturbs
  <1>2. PICK whole \in SUBSET run.made, cut \in SUBSET Units :
          /\ artFile' = Named([u \in Units |-> IF u \in cut THEN None ELSE Written(whole)[u]],
                              ListedOnDisk)
          /\ torn' = torn \cup (whole \cap ListedOnDisk)
          /\ bare' \subseteq bare \cup whole
    <2>1. PICK k \in DOMAIN Order :
            LET whole == {u \in run.made : \E i \in 1..(k - 1) : Order[i] = u[1]} IN
            \E cut \in {{}} \cup {{u} : u \in {w \in run.made : w[1] = Order[k]}} :
               /\ artFile' = Named([u \in Units |-> IF u \in cut THEN None ELSE Written(whole)[u]],
                                   ListedOnDisk)
               /\ torn' = torn \cup (whole \cap ListedOnDisk)
               /\ bare' = BareAfter(whole) \cap ListedOnDisk
      BY DEF CrashInArtifacts
    <2> DEFINE whole == {u \in run.made : \E i \in 1..(k - 1) : Order[i] = u[1]}
    <2>2. PICK cut \in {{}} \cup {{u} : u \in {w \in run.made : w[1] = Order[k]}} :
            /\ artFile' = Named([u \in Units |-> IF u \in cut THEN None ELSE Written(whole)[u]],
                                ListedOnDisk)
            /\ torn' = torn \cup (whole \cap ListedOnDisk)
            /\ bare' = BareAfter(whole) \cap ListedOnDisk
      BY <2>1
    <2>3. whole \in SUBSET run.made /\ run.made \subseteq Units
      BY DEF TypeOK, RunType
    <2>4. cut \in SUBSET Units
      BY <2>3
    <2> HIDE DEF whole
    <2>5. bare' \subseteq bare \cup whole
      BY <2>2 DEF BareAfter
    <2> QED BY <2>2, <2>3, <2>4, <2>5
  <1>3. \A u \in Units :
          artFile'[u] = IF u \in ListedOnDisk /\ u \notin cut
                        THEN IF u \in whole THEN Artifact(u, run.snap, run.opt, run.cache.pre)
                             ELSE artFile[u]
                        ELSE None
    BY <1>2 DEF Named, Written
  <1>4. ASSUME NEW u \in whole PROVE Artifact(u, run.snap, run.opt, run.cache.pre) \in ArtifactType(u)
    <2>1. /\ run.snap \in [Files -> Contents \cup {None}] /\ run.cache.pre \in BOOLEAN
          /\ u \in Units /\ u \in run.todo
      BY DEF TypeOK, RunType, CacheType
    <2>2. run.opt \in [Profiles -> Options] /\ \A g \in WithImports(u[1]) : run.snap[g] # None
      BY <1>1, <2>1 DEF ImportsPresent, Working
    <2> QED BY <2>1, <2>2, ArtifactTyped
  <1>5. TypeOK'
    <2>1. DOMAIN artFile' = Units
      BY <1>2 DEF Named
    <2>2. \A u \in Units : artFile'[u] \in ArtifactType(u) \cup {None}
      BY <1>3, <1>4 DEF TypeOK
    <2>3. torn' \subseteq Units /\ bare' \subseteq Units
      BY <1>2 DEF TypeOK, RunType
    <2>4. edits' \in 0..MaxEdits
      BY <1>1, CacheAssumption DEF TypeOK
    <2> QED BY <1>1, <2>1, <2>2, <2>3, <2>4, IdleTyped DEF TypeOK, ListedOnDisk
  <1>6. CacheFileSound'
    BY <1>1 DEF CacheFileSound
  <1>7. CacheDescribesArtifacts'
    <2>1. ListedOnDisk \subseteq Units
      BY DEF ListedOnDisk, Listed
    <2>2. \A u \in ListedOnDisk \ (whole \cap ListedOnDisk) : artFile'[u] \in {None, artFile[u]}
      BY <1>3, <2>1
    <2> QED BY <1>1, <1>2, <2>2, StillDescribes
  <1>8. \A f \in Files : \A g \in Imports[f] : src'[g] # None
    BY <1>1 DEF ImportsPresent
  <1> QED BY <1>1, <1>5, <1>6, <1>7, <1>8, IdleHolds

\* Killed in consume: the cache file is the old one or is gone.
LEMMA CrashInCacheHolds ==
    ASSUME CacheInv, CrashInCache
    PROVE  CacheInv'
  <1> USE DEF CacheInv
  <1>1. /\ run' = Idle /\ edits < MaxEdits /\ edits' = edits + 1 /\ UNCHANGED <<src, opts>>
    BY DEF CrashInCache, Disturbs
  <1>2. edits' \in 0..MaxEdits
    BY <1>1, CacheAssumption DEF TypeOK
  <1>3. \A f \in Files : \A g \in Imports[f] : src'[g] # None
    BY <1>1 DEF ImportsPresent
  <1>4. CASE /\ cacheFile' = cacheFile
             /\ artFile' = Named(artFile, ListedOnDisk)
             /\ \E gone \in {{}, ListedOnDisk \ (Listed(Merged(run)) \ run.made)} :
                   lost' = lost \cup gone
             /\ torn' = torn /\ bare' = bare \cap ListedOnDisk
    <2>1. /\ DOMAIN artFile' = Units
          /\ \A u \in Units : artFile'[u] \in {None, artFile[u]}
          /\ \A u \in Units : artFile'[u] \in ArtifactType(u) \cup {None}
      BY <1>4, NamedMeans
    <2>2. lost' \subseteq ListedOnDisk'
      BY <1>4 DEF TypeOK, ListedOnDisk
    <2>3. TypeOK'
      BY <1>1, <1>2, <1>4, <2>1, <2>2, IdleTyped DEF TypeOK
    <2>4. CacheFileSound'
      BY <1>4 DEF CacheFileSound
    <2>5. CacheDescribesArtifacts'
      <3>1. ListedOnDisk \subseteq Units
        BY DEF ListedOnDisk, Listed
      <3>2. {} \subseteq torn' /\ torn \subseteq torn'
        BY <1>4
      <3> QED BY <1>4, <2>1, <3>1, <3>2, StillDescribes
    <2> QED BY <1>1, <1>3, <2>3, <2>4, <2>5, IdleHolds
  <1>5. CASE /\ cacheFile' = None /\ artFile' = Named(artFile, {})
             /\ lost' = {} /\ bare' = {} /\ torn' = {}
    <2>1. /\ DOMAIN artFile' = Units
          /\ \A u \in Units : artFile'[u] \in ArtifactType(u) \cup {None}
      BY <1>5, NamedMeans
    <2>2. TypeOK'
      BY <1>1, <1>2, <1>5, <2>1, IdleTyped DEF TypeOK
    <2>3. CacheFileSound' /\ CacheDescribesArtifacts'
      BY <1>5 DEF CacheFileSound, CacheDescribesArtifacts
    <2> QED BY <1>1, <1>3, <2>2, <2>3, IdleHolds
  <1> QED BY <1>4, <1>5 DEF CrashInCache

\* The user changes sources and settings while no run looks at them.
LEMMA UserHolds ==
    ASSUME CacheInv, run.st \in {"idle", "filtered"}, UNCHANGED <<disk, run, torn>>,
           src' \in [Files -> Contents \cup {None}], opts' \in [Profiles -> Options],
           \A f \in Files : \A g \in Imports[f] : src'[g] # None,
           edits' \in 0..MaxEdits
    PROVE  CacheInv'
  <1> USE DEF CacheInv
  <1>1. TypeOK'
    BY DEF TypeOK, disk, ListedOnDisk
  <1>2. ImportsPresent'
    BY DEF ImportsPresent, Working
  <1>3. CacheFileSound' /\ CacheDescribesArtifacts'
    BY DEF CacheFileSound, CacheDescribesArtifacts, disk
  <1>4. RunSound'
    <2>1. Cached' => CachedRunSound(run', cacheFile')
      BY DEF RunSound, Cached, Working, disk
    <2>2. MadeSound'
      <3>1. ActuallyDirty(run') = ActuallyDirty(run)
        OBVIOUS
      <3> QED BY <3>1 DEF RunSound, MadeSound, Cached, Working
    <2> QED BY <2>1, <2>2 DEF RunSound
  <1>5. ReusedIsFresh' /\ ContractsComplete'
    BY DEF ReusedIsFresh, ContractsComplete
  <1> QED BY <1>1, <1>2, <1>3, <1>4, <1>5

LEMMA EditHolds ==
    ASSUME CacheInv, NEW f \in Editable, Edit(f)
    PROVE  CacheInv'
  <1> USE DEF CacheInv
  <1>1. /\ run.st \in {"idle", "filtered"} /\ edits < MaxEdits /\ edits' = edits + 1
        /\ UNCHANGED <<opts, disk, run, torn>>
    BY DEF Edit, Changes, Disturbs
  <1>2. PICK c \in Contents \cup {None} :
          /\ c = None => \A g \in Files : f \notin Imports[g]
          /\ src' = [src EXCEPT ![f] = c]
    BY DEF Edit
  <1>3. src' \in [Files -> Contents \cup {None}]
    BY <1>2 DEF TypeOK
  <1>4. \A h \in Files : \A g \in Imports[h] : src'[g] # None
    BY <1>2, GraphTyped, CacheAssumption DEF ImportsPresent, TypeOK
  <1>5. opts' \in [Profiles -> Options] /\ edits' \in 0..MaxEdits
    BY <1>1, CacheAssumption DEF TypeOK
  <1> QED BY <1>1, <1>3, <1>4, <1>5, UserHolds

LEMMA SetOptionsHolds ==
    ASSUME CacheInv, NEW p \in Profiles, SetOptions(p)
    PROVE  CacheInv'
  <1> USE DEF CacheInv
  <1>1. /\ run.st \in {"idle", "filtered"} /\ edits < MaxEdits /\ edits' = edits + 1
        /\ UNCHANGED <<src, disk, run, torn>>
    BY DEF SetOptions, Changes, Disturbs
  <1>2. opts' \in [Profiles -> Options]
    BY DEF SetOptions, TypeOK
  <1>3. src' \in [Files -> Contents \cup {None}] /\ edits' \in 0..MaxEdits
    BY <1>1, CacheAssumption DEF TypeOK
  <1>4. \A f \in Files : \A g \in Imports[f] : src'[g] # None
    BY <1>1 DEF ImportsPresent
  <1> QED BY <1>1, <1>2, <1>3, <1>4, UserHolds

LEMMA DeleteArtifactHolds ==
    ASSUME CacheInv, NEW v \in Units, DeleteArtifact(v)
    PROVE  CacheInv'
  <1> USE DEF CacheInv
  <1>1. /\ run.st = "idle" /\ edits < MaxEdits /\ edits' = edits + 1
        /\ artFile' = [artFile EXCEPT ![v] = None]
        /\ UNCHANGED <<src, opts, cacheFile, lost, bare, run, torn>>
    BY DEF DeleteArtifact, Disturbs
  <1>2. /\ DOMAIN artFile' = Units
        /\ \A u \in Units : artFile'[u] \in {None, artFile[u]}
    BY <1>1 DEF TypeOK
  <1>3. TypeOK'
    <2>1. edits' \in 0..MaxEdits
      BY <1>1, CacheAssumption DEF TypeOK
    <2>2. \A u \in Units : artFile'[u] \in ArtifactType(u) \cup {None}
      BY <1>2 DEF TypeOK
    <2> QED BY <1>1, <1>2, <2>1, <2>2 DEF TypeOK, ListedOnDisk
  <1>4. ImportsPresent' /\ CacheFileSound'
    BY <1>1 DEF ImportsPresent, Working, CacheFileSound
  <1>5. CacheDescribesArtifacts'
    <2>1. ListedOnDisk \subseteq Units
      BY DEF ListedOnDisk, Listed
    <2>2. {} \subseteq torn' /\ torn \subseteq torn'
      BY <1>1
    <2> QED BY <1>1, <1>2, <2>1, <2>2, StillDescribes
  <1>6. RunSound' /\ ReusedIsFresh' /\ ContractsComplete'
    BY <1>1 DEF RunSound, MadeSound, Cached, Working, ReusedIsFresh, ContractsComplete
  <1> QED BY <1>3, <1>4, <1>5, <1>6

LEMMA StutterHolds ==
    ASSUME CacheInv, UNCHANGED vars
    PROVE  CacheInv'
  <1>1. /\ src' = src /\ opts' = opts /\ edits' = edits /\ cacheFile' = cacheFile
        /\ artFile' = artFile /\ lost' = lost /\ bare' = bare /\ run' = run /\ torn' = torn
    BY DEF vars, user, disk
  <1>2. TypeOK' /\ ImportsPresent'
    BY <1>1 DEF CacheInv, TypeOK, ListedOnDisk, ImportsPresent, Working
  <1>3. CacheFileSound' /\ CacheDescribesArtifacts'
    BY <1>1 DEF CacheInv, CacheFileSound, CacheDescribesArtifacts
  <1>4. RunSound'
    <2>1. Cached' => CachedRunSound(run', cacheFile')
      BY <1>1 DEF CacheInv, RunSound, Cached, Working
    <2>2. MadeSound'
      BY <1>1 DEF CacheInv, RunSound, MadeSound, Cached, Working, ListedOnDisk
    <2> QED BY <2>1, <2>2 DEF RunSound
  <1>5. ReusedIsFresh' /\ ContractsComplete'
    BY <1>1 DEF CacheInv, ReusedIsFresh, ContractsComplete, Requested
  <1> QED BY <1>2, <1>3, <1>4, <1>5 DEF CacheInv
-----------------------------------------------------------------------------
(* Theorems                                                                   *)

LEMMA StepHolds == CacheInv /\ [Next]_vars => CacheInv'
  <1> SUFFICES ASSUME CacheInv, [Next]_vars PROVE CacheInv'
    OBVIOUS
  <1>1. ASSUME NEW S \in Scopes, NEW m \in Modes, Preprocess(S, m) PROVE CacheInv'
    BY <1>1, PreprocessHolds
  <1>2. CASE Compile
    BY <1>2, CompileHolds
  <1>3. CASE CompileFails
    BY <1>3, ReturnHolds DEF CompileFails
  <1>4. CASE WriteArtifacts
    BY <1>4, WriteArtifactsHolds
  <1>5. CASE WriteCache
    BY <1>5, WriteCacheHolds
  <1>6. CASE Return
    BY <1>6, ReturnHolds DEF Return
  <1>7. CASE CrashInArtifacts
    BY <1>7, CrashInArtifactsHolds
  <1>8. CASE CrashInCache
    BY <1>8, CrashInCacheHolds
  <1>9. ASSUME NEW f \in Editable, Edit(f) PROVE CacheInv'
    BY <1>9, EditHolds
  <1>10. ASSUME NEW p \in Profiles, SetOptions(p) PROVE CacheInv'
    BY <1>10, SetOptionsHolds
  <1>11. ASSUME NEW u \in Units, DeleteArtifact(u) PROVE CacheInv'
    BY <1>11, DeleteArtifactHolds
  <1>12. CASE UNCHANGED vars
    BY <1>12, StutterHolds
  <1> QED BY <1>1, <1>2, <1>3, <1>4, <1>5, <1>6, <1>7, <1>8, <1>9, <1>10, <1>11, <1>12, Zenon DEF Next

LEMMA CacheInvHolds == Spec => []CacheInv
  BY InitHolds, StepHolds, PTL DEF Spec

\* The cache file, the artifacts on disk and the run in progress have their types; the
\* run compiles only what is missing and returns only artifacts it has read.
THEOREM TypeCorrect == Spec => []TypeOK
  <1>1. CacheInv => TypeOK
    BY DEF CacheInv
  <1> QED BY <1>1, CacheInvHolds, PTL

\* CacheDescribesArtifacts for every sequence of edits, kind of run and crash: an artifact
\* named by the cache file was compiled from what the cache file records, unless a run
\* that never replaced the cache file wrote it (torn).  Without the preprocessor this is
\* so for every graph of imports, with it for those where sources import only sources
\* (LayerAssumption): the walk of remove_dirty_sources is not right for others.
THEOREM CacheTruthful == Spec => []CacheDescribesArtifacts
  <1>1. CacheInv => CacheDescribesArtifacts
    BY DEF CacheInv
  <1> QED BY <1>1, CacheInvHolds, PTL

\* ReusedIsFresh: that ArtifactsCache reused an artifact instead of compiling it again
\* cannot be seen in the artifact, for the same graphs of imports and unless it is torn.
THEOREM ReuseInvisible == Spec => []ReusedIsFresh
  <1>1. CacheInv => ReusedIsFresh
    BY DEF CacheInv
  <1> QED BY <1>1, CacheInvHolds, PTL

-----------------------------------------------------------------------------
(* A second build                                                             *)

\* The cache supplies unit u: with an artifact, or it knows there is none.
Supplied(c, u) ==
    LET e == c.files[u[1]] IN
    u[2] \in e.arts \/ (e.seen /\ e.arts = {} /\ e.content \in Barren)

\* Units a run r compiles whenever they are missing, also with a filter.
InFull(r, u) == "sparse" \notin r.mode \/ u[1] \in r.scope

Shaped(c) ==
    \A f \in Entries(c) :
        /\ \A j \in c.files[f].arts : <<f, j>> \in Units
        /\ c.files[f].content \in Barren => c.files[f].arts = {}

\* After a complete run and as long as nothing changes, the cache file is what the
\* sources and settings are and supplies all that the run was asked for.
SettledOnDisk ==
    "cached" \in settled.mode =>
        /\ cacheFile # None /\ settled.scope \subseteq Files
        /\ cacheFile.pre <=> "preprocessed" \in settled.mode
        /\ cacheFile.profiles = opts
        /\ \A f \in Entries(cacheFile) : src[f] # None /\ cacheFile.files[f].content = src[f]
        /\ \A u \in UnitsOf(settled.scope) :
              cacheFile.files[u[1]] # None /\ (InFull(settled, u) => Supplied(cacheFile, u))

\* A run works on a cache that supplies what it does not compile.
PlanSound(r) ==
    /\ r.cache.pre <=> "preprocessed" \in r.mode
    /\ Shaped(r.cache) /\ r.todo \subseteq UnitsOf(r.scope)
    /\ \A u \in UnitsOf(r.scope) :
          r.cache.files[u[1]] # None /\ (u \in r.todo \/ Supplied(r.cache, u))

\* With extra files, what a run leaves uncompiled has their data, and so does what was
\* asked for in full once the run is complete.
WorkExtras ==
    Working /\ "extra" \in run.mode =>
        /\ \A u \in (run.loaded \cap UnitsOf(run.scope)) \ run.todo : u \notin bare
        /\ run.st = "written" /\ run.outcome = "ok" => run.made \cap bare = {}

SettledExtras ==
    "extra" \in settled.mode =>
        \A u \in ListedOnDisk \cap UnitsOf(settled.scope) : InFull(settled, u) => u \notin bare

ExtrasInv == WorkExtras /\ SettledExtras /\ ExtrasComplete

FixedInv ==
    /\ cacheFile # None => Shaped(cacheFile)
    /\ SettledOnDisk
    /\ Cached => PlanSound(run)
    /\ Cached /\ run.st # "filtered" => \A u \in ActuallyDirty(run) : run.cache.files[u[1]].seen
    /\ Converges

-----------------------------------------------------------------------------

\* Dirt does not reach files whose imports are all clean.
LEMMA CleanStaysClean ==
    ASSUME NEW c, c.pre \in BOOLEAN, NEW C \in SUBSET Files,
           \A f \in C : Imports[f] \subseteq C, C \cap DirtyAtFirst(c) = {}
    PROVE  C \cap DirtySources(c) = {}
  <1>1. ASSUME NEW d, NEW f \in Files \ C PROVE C \cap PopulateDirtyFiles(Nodes(c), d, f) \subseteq d
    <2> DEFINE near(S) == {x \in Nodes(c) \ d : Imports[x] \cap ({f} \cup S) # {}}
               T == (Nodes(c) \ d) \ C
    <2>1. near(T) \subseteq T
      <3> SUFFICES ASSUME NEW x \in near(T), x \in C PROVE FALSE
        OBVIOUS
      <3>1. Imports[x] \cap ({f} \cup T) # {} /\ Imports[x] \subseteq C
        OBVIOUS
      <3> QED BY <3>1
    <2>2. T \in SUBSET (Nodes(c) \ d)
      OBVIOUS
    <2>3. \A x \in Reached(near, Nodes(c) \ d) : x \in T
      BY <2>1, <2>2 DEF Reached
    <2>4. PopulateDirtyFiles(Nodes(c), d, f) = d \cup Reached(near, Nodes(c) \ d)
      BY DEF PopulateDirtyFiles
    <2> QED BY <2>3, <2>4
  <1>2. CASE c.pre
    <2> DEFINE A == {i \in 0..Len(Order) : C \cap Marked(c)[i] = {}}
    <2>0. Len(Order) \in Nat /\ \A i \in 1..Len(Order) : Order[i] \in Files
      BY CacheAssumption
    <2>1. 0 \in A
      <3>1. Marked(c)[0] = DirtyAtFirst(c)
        BY <2>0, WalkDefined
      <3> QED BY <2>0, <3>1
    <2>2. ASSUME NEW i \in 0..(Len(Order) - 1), i \in A PROVE i + 1 \in A
      <3>1. i + 1 \in 0..Len(Order) /\ i + 1 \in 1..Len(Order)
        BY <2>0
      <3> DEFINE f == Order[i + 1]
                 d == Marked(c)[i]
                 hit == {g \in AllImports[f] \cap d :
                           f \in SrcFiles \cup c.mocks \/ g \notin SrcFiles \/ IfaceDirty(c, g)}
      <3>2. Marked(c)[i + 1] = MarkPreprocessed(c, Nodes(c), d, f)
        BY <3>1, WalkDefined
      <3>3. f \in Files /\ C \cap d = {}
        BY <2>0, <2>2, <3>1
      <3>4. Marked(c)[i + 1] = IF f \in d \/ f \notin Nodes(c) \/ hit = {} THEN d
                               ELSE {f} \cup IF f \in c.mocks THEN PopulateDirtyFiles(Nodes(c), d, f) ELSE d
        BY <3>2 DEF MarkPreprocessed
      <3> HIDE DEF d, f
      <3>5. CASE hit = {}
        BY <3>1, <3>3, <3>4, <3>5
      <3>6. CASE hit # {}
        <4>1. f \notin C
          <5>1. f \in C => AllImports[f] \subseteq C
            BY <3>3, ImportsLeast
          <5> QED BY <3>3, <3>6, <5>1
        <4>2. C \cap PopulateDirtyFiles(Nodes(c), d, f) \subseteq d
          BY <1>1, <3>3, <4>1
        <4> HIDE DEF hit
        <4> QED BY <3>1, <3>3, <3>4, <4>1, <4>2
      <3> QED BY <3>5, <3>6
    <2>3. A = 0..Len(Order)
      <3>1. A \in SUBSET (0..Len(Order))
        OBVIOUS
      <3> HIDE DEF A
      <3> QED BY <2>0, <2>1, <2>2, <3>1, UpTo
    <2>4. Len(Order) \in A
      BY <2>0, <2>3
    <2> QED BY <1>2, <2>4 DEF DirtySources
  <1>3. CASE ~c.pre
    <2>1. DirtyAtFirst(c) \subseteq Files
      BY FirstDirtyTyped
    <2>2. \A f \in DirtyAtFirst(c) : C \cap PopulateDirtyFiles(Nodes(c), DirtyAtFirst(c), f) = {}
      BY <1>1, <2>1
    <2>3. DirtySources(c) = DirtyAtFirst(c) \cup
            UNION {PopulateDirtyFiles(Nodes(c), DirtyAtFirst(c), f) : f \in DirtyAtFirst(c)}
      BY <1>3 DEF DirtySources
    <2> QED BY <2>2, <2>3
  <1> QED BY <1>2, <1>3

\* A run over what was settled keeps the entries of all its files.
LEMMA SettledKept ==
    ASSUME TypeOK, SettledOnDisk, NEW mode \in Modes, "cached" \in mode, NEW S,
           settled = [scope |-> S, mode |-> mode]
    PROVE  /\ cacheFile # None /\ cacheFile \in CacheType
           /\ \A f \in Files : Kept(mode).files[f] = cacheFile.files[f]
           /\ \A u \in UnitsOf(S) : /\ u[1] \in Files
                                    /\ cacheFile.files[u[1]] # None
                                    /\ InFull(settled, u) => Supplied(cacheFile, u)
                                    /\ Clean(mode).files[u[1]] = cacheFile.files[u[1]]
  <1> DEFINE pre == "preprocessed" \in mode
             kept == Kept(mode)
             current == Current(mode)
             C == UNION {WithImports(i) : i \in S}
  <1>1. /\ cacheFile # None /\ S \in SUBSET Files /\ cacheFile.profiles = opts
        /\ cacheFile.pre <=> pre
        /\ \A f \in Entries(cacheFile) : src[f] # None /\ cacheFile.files[f].content = src[f]
        /\ \A u \in UnitsOf(S) :
              cacheFile.files[u[1]] # None /\ (InFull(settled, u) => Supplied(cacheFile, u))
    BY DEF SettledOnDisk
  <1>2. cacheFile \in CacheType /\ cacheFile.pre = pre
    BY <1>1 DEF TypeOK, CacheType
  <1>3. kept = [cacheFile EXCEPT !.files = [f \in Files |-> IF src[f] = None THEN None ELSE cacheFile.files[f]]]
    BY <1>1, <1>2 DEF Kept, GetCache, RemoveMissingFiles
  <1>4. /\ kept \in CacheType /\ kept.profiles = opts
        /\ \A f \in Files : kept.files[f] = cacheFile.files[f]
    BY <1>1, <1>2, <1>3 DEF Entries, CacheType
  <1> HIDE DEF kept
  <1>5. \A f \in Files : current.files[f] = cacheFile.files[f]
    <2> DEFINE bad == {p \in Profiles : kept.profiles[p] # opts[p]}
               left(f) == {j \in kept.files[f].arts : j[2] \notin bad}
               files == [f \in Files |->
                           IF kept.files[f] = None \/ (kept.files[f].arts # {} /\ left(f) = {}) THEN None
                           ELSE [kept.files[f] EXCEPT !.arts = left(f)]]
    <2>1. current = [kept EXCEPT !.profiles = opts, !.files = files]
      BY DEF Current, UpdateProfiles, kept
    <2>2. bad = {}
      BY <1>4
    <2>3. ASSUME NEW f \in Files PROVE files[f] = kept.files[f]
      <3>1. left(f) = kept.files[f].arts
        BY <2>2
      <3>2. kept.files[f] # None => [kept.files[f] EXCEPT !.arts = kept.files[f].arts] = kept.files[f]
        BY <1>4 DEF CacheType, Entry
      <3> HIDE DEF left
      <3> QED BY <3>1, <3>2
    <2> HIDE DEF files
    <2>4. current.files = files
      BY <1>4, <2>1 DEF CacheType
    <2> QED BY <1>4, <2>3, <2>4
  <1>6. /\ current.pre \in BOOLEAN /\ current \in CacheType
    <2>1. opts \in [Profiles -> Options]
      BY DEF TypeOK
    <2> QED BY <1>4, <2>1, CurrentMeans DEF Current, CacheType, kept
  <1> HIDE DEF current
  <1>7. \A u \in UnitsOf(S) : u[1] \in C /\ u[1] \in Files
    BY <1>1, UnitsOfTyped, UnitsTyped
  <1>8. \A f \in C : f \in Files /\ cacheFile.files[f] # None
    <2> SUFFICES ASSUME NEW i \in S, NEW f \in WithImports(i)
                 PROVE  f \in Files /\ cacheFile.files[f] # None
      OBVIOUS
    <2>1. <<f, JobOf[i]>> \in UnitsOf(S)
      BY DEF UnitsOf
    <2> QED BY <1>1, <1>7, <2>1
  <1>9. C \cap Dirty(mode) = {}
    <2>1. \A f \in C : Imports[f] \subseteq C
      BY <1>1, ImportsClosed
    <2>2. C \cap DirtyAtFirst(current) = {}
      <3>1. \A f \in C : f \in Entries(cacheFile)
        BY <1>8 DEF Entries
      <3> QED BY <1>1, <1>5, <1>8, <3>1 DEF DirtyAtFirst, ContentDirty
    <2>3. C \in SUBSET Files
      BY <1>8
    <2> HIDE DEF C
    <2> QED BY <1>6, <2>1, <2>2, <2>3, CleanStaysClean DEF Dirty, current
  <1>10. \A f \in C : Clean(mode).files[f] = cacheFile.files[f]
    BY <1>5, <1>6, <1>8, <1>9, CleanMeans DEF Clean, current
  <1> HIDE DEF C
  <1> QED BY <1>1, <1>2, <1>4, <1>7, <1>10 DEF kept

LEMMA PreprocessFixed ==
    ASSUME CacheInv, FixedInv, ExtrasInv,
           NEW wanted \in Scopes, NEW mode \in Modes, Preprocess(wanted, mode)
    PROVE  FixedInv'
  <1> USE DEF CacheInv
  <1> DEFINE S == InScope(wanted)
             pre == "preprocessed" \in mode
             clean == Clean(mode)
             all == WithEntries(clean, S)
             loaded == ReadArtifacts(Kept(mode))
  <1>1. UNCHANGED <<user, disk, torn, settled>>
    BY DEF Preprocess
  <1>2. /\ run'.st = "filtered" /\ run'.scope = S /\ run'.mode = mode /\ run'.snap = src /\ run'.opt = opts
        /\ run'.made = {}
        /\ "cached" \in mode =>
             /\ run'.cache = all
             /\ run'.loaded = loaded
             /\ run'.todo = {u \in UnitsOf(S) : MissingArtifacts(clean, loaded, mode, u)}
    BY PreprocessMeans
  <1>3. S \in SUBSET Files /\ \A i \in S : \A g \in WithImports(i) : src[g] \in Contents
    BY InScopePresent
  <1> HIDE DEF S
  <1>4. (cacheFile # None => Shaped(cacheFile))' /\ SettledOnDisk'
    BY <1>1 DEF FixedInv, SettledOnDisk, Shaped, InFull, Supplied, user, disk
  <1>5. ASSUME "cached" \in mode PROVE PlanSound(run')
    <2>1. /\ clean \in CacheType /\ clean.pre = pre
          /\ \A f \in Entries(clean) :
               LET e == clean.files[f]  old == cacheFile.files[f] IN
               /\ cacheFile # None /\ old # None
               /\ e.content = old.content
               /\ e.arts \subseteq old.arts
      BY CleanHolds
    <2> HIDE DEF clean
    <2>2. /\ all \in CacheType /\ all.pre = clean.pre
          /\ \A f \in Files : clean.files[f] # None => all.files[f] = clean.files[f]
          /\ \A f \in Entries(all) : clean.files[f] = None => all.files[f].arts = {}
          /\ \A i \in S : \A f \in WithImports(i) : all.files[f] # None
      BY <1>3, <2>1, WithEntriesMeans
    <2> HIDE DEF all
    <2>3. EmptyBarren(run')
      BY <1>5, PreprocessSound DEF CachedRunSound
    <2>4. Shaped(all)
      <3> SUFFICES ASSUME NEW f \in Entries(all)
                   PROVE  /\ \A j \in all.files[f].arts : <<f, j>> \in Units
                          /\ all.files[f].content \in Barren => all.files[f].arts = {}
        BY DEF Shaped
      <3>1. f \in Files
        BY DEF Entries
      <3>2. CASE clean.files[f] = None
        BY <2>2, <3>2
      <3>3. CASE clean.files[f] # None
        <4>1. f \in Entries(clean) /\ all.files[f] = clean.files[f]
          BY <2>2, <3>1, <3>3 DEF Entries
        <4>2. f \in Entries(cacheFile) /\ Shaped(cacheFile)
          BY <2>1, <3>1, <4>1 DEF Entries, FixedInv
        <4> QED BY <2>1, <4>1, <4>2 DEF Shaped
      <3> QED BY <3>2, <3>3
    <2>5. ASSUME NEW u \in UnitsOf(S)
          PROVE  all.files[u[1]] # None /\ (u \in run'.todo \/ Supplied(all, u))
      <3>1. PICK i \in S : u[1] \in WithImports(i)
        BY <1>3, UnitsOfTyped
      <3>2. all.files[u[1]] # None /\ u[1] \in Files
        BY <1>3, <2>2, <3>1, ImportsClosed DEF WithImports
      <3>3. ASSUME ~MissingArtifacts(clean, loaded, mode, u) PROVE Supplied(all, u)
        <4>1. LET e == clean.files[u[1]] IN e # None /\ ((e.seen /\ e.arts = {}) \/ u[2] \in e.arts)
          BY <3>3 DEF MissingArtifacts
        <4>2. all.files[u[1]] = clean.files[u[1]] /\ u[1] \in Entries(all)
          BY <2>2, <3>2, <4>1 DEF Entries
        <4> QED BY <1>2, <1>5, <2>3, <4>1, <4>2 DEF Supplied, EmptyBarren
      <3> QED BY <1>2, <1>5, <3>2, <3>3
    <2> QED BY <1>2, <1>5, <2>1, <2>2, <2>4, <2>5 DEF PlanSound
  <1>6. Converges'
    <2> SUFFICES ASSUME "cached" \in mode, settled = [scope |-> S, mode |-> mode],
                        \A u \in ListedOnDisk : artFile[u] # None /\ u \notin lost,
                        "generated" \notin mode,
                        "extra" \in mode => ListedOnDisk \cap bare \subseteq Requested(run')
                 PROVE  ActuallyDirty(run') = {}
      BY <1>1, <1>2 DEF Converges, ListedOnDisk, disk
    <2>1. /\ cacheFile # None /\ cacheFile \in CacheType
          /\ \A f \in Files : Kept(mode).files[f] = cacheFile.files[f]
          /\ \A u \in UnitsOf(S) : /\ u[1] \in Files
                                   /\ cacheFile.files[u[1]] # None
                                   /\ InFull(settled, u) => Supplied(cacheFile, u)
                                   /\ clean.files[u[1]] = cacheFile.files[u[1]]
      BY SettledKept DEF FixedInv
    <2>2. Listed(Kept(mode)) = ListedOnDisk
      BY <2>1, UnitsTyped DEF Listed, ListedOnDisk
    <2>3. loaded = Listed(cacheFile)
      BY <2>1, <2>2 DEF ReadArtifacts, ListedOnDisk
    <2>7. ~MissingExtraFiles(loaded, mode)
      <3> SUFFICES ASSUME "extra" \in mode, NEW u \in loaded, u \in bare PROVE FALSE
        BY DEF MissingExtraFiles
      <3>1. u \in ListedOnDisk
        BY <2>1, <2>3 DEF ListedOnDisk
      <3>2. u \in Requested(run')
        BY <3>1
      <3>3. u \in UnitsOf(S) /\ InFull(settled, u)
        BY <1>2, <3>2 DEF Requested, InFull
      <3> QED BY <3>1, <3>3 DEF ExtrasInv, SettledExtras
    <2> HIDE DEF clean, loaded
    <2>4. ASSUME NEW u \in UnitsOf(S), InFull(settled, u) PROVE ~MissingArtifacts(clean, loaded, mode, u)
      <3> DEFINE e == cacheFile.files[u[1]]
      <3>1. e # None /\ clean.files[u[1]] = e /\ (u[2] \in e.arts \/ (e.seen /\ e.arts = {}))
        BY <2>1, <2>4 DEF Supplied
      <3>2. \A j \in e.arts : <<u[1], j>> \in Listed(cacheFile)
        <4>1. u[1] \in Entries(cacheFile) /\ Shaped(cacheFile)
          BY <2>1 DEF FixedInv, Entries
        <4>2. \A j \in e.arts : <<u[1], j>> \in Units
          BY <4>1 DEF Shaped
        <4> QED BY <3>1, <4>2 DEF Listed
      <3> QED BY <2>3, <2>7, <3>1, <3>2 DEF MissingArtifacts
    <2>5. \A u \in run'.todo : u \in UnitsOf(S) /\ "sparse" \in mode /\ u[1] \notin S
      BY <1>2, <2>4 DEF InFull
    <2> SUFFICES ASSUME NEW u \in ActuallyDirty(run') PROVE FALSE
      OBVIOUS
    <2>6. u \in run'.todo /\ \E i \in S : <<i, u[2]>> \in run'.todo
      BY <1>2, <2>5 DEF ActuallyDirty
    <2> QED BY <2>5, <2>6
  <1> QED BY <1>2, <1>4, <1>5, <1>6 DEF FixedInv, Cached

\* A run that compiled supplies all that it was asked for in full.
LEMMA WriteCacheFixed ==
    ASSUME CacheInv, FixedInv, WriteCache
    PROVE  FixedInv'
  <1> USE DEF CacheInv
  <1>1. /\ run.st = "written" /\ run' = [run EXCEPT !.st = "done", !.reused = Reused(run)]
        /\ UNCHANGED user
    BY DEF WriteCache
  <1>2. run \in RunType /\ run.cache \in CacheType /\ run.made \subseteq Units /\ run.todo \subseteq Units
    BY DEF TypeOK, RunType
  <1>3. run'.st = "done"
    BY <1>1, <1>2 DEF RunType
  <1>4. ~Cached' /\ Converges'
    BY <1>3 DEF Cached, Working, Converges
  <1>5. CASE Persists(run) /\ cacheFile' = Merged(run)
    <2> DEFINE m == Merged(run)
    <2>1. /\ m \in CacheType /\ m.pre = run.cache.pre /\ m.profiles = run.cache.profiles
          /\ \A f \in Files :
               LET e == run.cache.files[f] IN
               /\ e = None <=> m.files[f] = None
               /\ e # None => /\ m.files[f].content = e.content /\ m.files[f].seen = e.seen
                              /\ m.files[f].arts = e.arts \cup {j \in Jobs : <<f, j>> \in run.made}
      BY <1>2, MergedMeans
    <2> HIDE DEF m
    <2>2. m # None /\ cacheFile' = m
      BY <1>5, <2>1, CacheAssumption DEF m
    <2>3. /\ "cached" \in run.mode /\ run.outcome = "ok"
          /\ settled' = IF src = run.snap /\ opts = run.opt
                        THEN [scope |-> run.scope, mode |-> run.mode] ELSE NoneGiven
      BY <1>5, <2>2 DEF WriteCache, Persists, m
    <2>4. /\ PlanSound(run) /\ EntriesCurrent(run)
          /\ \A u \in ActuallyDirty(run) : run.cache.files[u[1]].seen
          /\ run.made = {u \in ActuallyDirty(run) : run.snap[u[1]] \notin Barren}
      BY <1>1, <2>3 DEF FixedInv, RunSound, MadeSound, CachedRunSound, Cached, Working
    <2>5. \A f \in Entries(m) :
            /\ f \in Files /\ f \in Entries(run.cache)
            /\ m.files[f].content = run.snap[f] /\ run.cache.files[f].content = run.snap[f]
            /\ m.files[f].content \in Barren => \A j \in Jobs : <<f, j>> \notin run.made
      <3>1. \A u \in run.made : run.snap[u[1]] \notin Barren
        BY <2>4
      <3>2. \A f, j : <<f, j>>[1] = f
        OBVIOUS
      <3> QED BY <2>1, <2>4, <3>1, <3>2 DEF Entries, EntriesCurrent
    <2>6. Shaped(m)
      <3> SUFFICES ASSUME NEW f \in Entries(m)
                   PROVE  /\ \A j \in m.files[f].arts : <<f, j>> \in Units
                          /\ m.files[f].content \in Barren => m.files[f].arts = {}
        BY DEF Shaped
      <3>1. m.files[f].arts = run.cache.files[f].arts \cup {j \in Jobs : <<f, j>> \in run.made}
        BY <2>1, <2>5 DEF Entries
      <3> QED BY <1>2, <2>4, <2>5, <3>1 DEF PlanSound, Shaped
    <2>7. ASSUME NEW u \in UnitsOf(run.scope), InFull(run, u) PROVE Supplied(m, u)
      <3> DEFINE e == run.cache.files[u[1]]
      <3>1. /\ e # None /\ (u \in run.todo \/ Supplied(run.cache, u))
            /\ u \in Units /\ u[1] \in Files /\ u[2] \in Jobs /\ u = <<u[1], u[2]>>
        BY <1>2, <2>4, UnitsOfTyped, UnitsTyped DEF PlanSound, RunType
      <3>2. u[1] \in Entries(m) /\ u[1] \in Entries(run.cache)
        BY <2>1, <3>1 DEF Entries
      <3>3. /\ m.files[u[1]].content = e.content /\ m.files[u[1]].seen = e.seen
            /\ m.files[u[1]].arts = e.arts \cup {j \in Jobs : <<u[1], j>> \in run.made}
        BY <2>1, <3>1
      <3>4. CASE Supplied(run.cache, u)
        BY <2>5, <3>2, <3>3, <3>4 DEF Supplied
      <3>5. CASE u \in run.todo /\ run.snap[u[1]] \notin Barren
        <4>1. u \in run.made
          BY <2>4, <2>7, <3>5 DEF ActuallyDirty, InFull
        <4> QED BY <3>1, <3>3, <4>1 DEF Supplied
      <3>6. CASE u \in run.todo /\ run.snap[u[1]] \in Barren
        <4>1. u \in ActuallyDirty(run)
          BY <2>7, <3>6 DEF ActuallyDirty, InFull
        <4>2. e.seen /\ e.content \in Barren /\ e.arts = {}
          BY <2>4, <2>5, <3>2, <3>6, <4>1 DEF PlanSound, Shaped
        <4> QED BY <2>5, <3>2, <3>3, <4>2 DEF Supplied
      <3> QED BY <3>1, <3>4, <3>5, <3>6
    <2>8. SettledOnDisk'
      <3> SUFFICES ASSUME src = run.snap, opts = run.opt
                   PROVE  SettledOnDisk'
        BY <2>3 DEF SettledOnDisk, NoneGiven
      <3>1. /\ settled'.scope = run.scope /\ settled'.mode = run.mode
            /\ src' = run.snap /\ opts' = run.opt /\ cacheFile' = m
        BY <1>1, <2>2, <2>3 DEF user
      <3>2. run.scope \subseteq Files /\ m.profiles = run.opt /\ (m.pre <=> "preprocessed" \in run.mode)
        BY <1>2, <2>1, <2>4 DEF PlanSound, EntriesCurrent, RunType
      <3>3. \A f \in Entries(m) : run.snap[f] # None /\ m.files[f].content = run.snap[f]
        <4>1. \A f \in Entries(m) : m.files[f].content \in Contents
          BY <2>1 DEF Entries, CacheType, Entry
        <4> QED BY <2>5, <4>1, CacheAssumption
      <3>4. \A u \in UnitsOf(run.scope) : m.files[u[1]] # None /\ (InFull(run, u) => Supplied(m, u))
        <4>1. \A u \in UnitsOf(run.scope) : u[1] \in Files
          BY <1>2, UnitsOfTyped, UnitsTyped DEF RunType
        <4> QED BY <2>1, <2>4, <2>7, <4>1 DEF PlanSound
      <3> QED BY <2>2, <3>1, <3>2, <3>3, <3>4 DEF SettledOnDisk, InFull, Supplied
    <2> QED BY <1>4, <2>2, <2>6, <2>8 DEF FixedInv
  <1>6. CASE UNCHANGED <<cacheFile, lost, torn, settled>>
    <2>1. (cacheFile # None => Shaped(cacheFile))' /\ SettledOnDisk'
      BY <1>1, <1>6 DEF FixedInv, SettledOnDisk, Shaped, InFull, Supplied, user
    <2> QED BY <1>4, <2>1 DEF FixedInv
  <1> QED BY <1>5, <1>6 DEF WriteCache

LEMMA CompileFixed ==
    ASSUME CacheInv, FixedInv, Compile
    PROVE  FixedInv'
  <1> USE DEF CacheInv
  <1> DEFINE full == ActuallyDirty(run)
             c == UpdateMocks(run, Seen(run.cache, full))
  <1>1. run.st = "filtered" /\ UNCHANGED <<user, disk, torn, settled>>
    BY DEF Compile
  <1>2. /\ run'.st \in {"compiled", "written"} /\ run'.cache = c
        /\ run'.scope = run.scope /\ run'.mode = run.mode /\ run'.todo = run.todo
    <2>1. run \in RunType
      BY DEF TypeOK
    <2> HIDE DEF c, full
    <2> QED BY <2>1 DEF Compile, RunType, c, full
  <1>3. /\ full \subseteq run.todo
        /\ c.pre = run.cache.pre
        /\ \A f \in Files :
             LET e == run.cache.files[f]  d == c.files[f] IN
             /\ e = None <=> d = None
             /\ e # None => /\ d.content = e.content /\ d.arts = e.arts
                            /\ d.seen <=> e.seen \/ \E u \in full : u[1] = f
    BY CompiledCacheMeans DEF TypeOK, RunType
  <1> HIDE DEF c
  <1>4. full = ActuallyDirty(run')
    BY <1>2 DEF ActuallyDirty
  <1> HIDE DEF full
  <1>5. (cacheFile # None => Shaped(cacheFile))' /\ SettledOnDisk'
    BY <1>1 DEF FixedInv, SettledOnDisk, Shaped, InFull, Supplied, user, disk
  <1>6. Converges'
    BY <1>2 DEF Converges
  <1>7. ASSUME "cached" \in run.mode
        PROVE  PlanSound(run') /\ \A u \in ActuallyDirty(run') : run'.cache.files[u[1]].seen
    <2>1. PlanSound(run)
      BY <1>1, <1>7 DEF FixedInv, Cached, Working
    <2>2. \A u \in UnitsOf(run.scope) : u[1] \in Files
      BY UnitsOfTyped, UnitsTyped DEF TypeOK, RunType
    <2>3. Shaped(c)
      BY <1>3, <2>1 DEF PlanSound, Shaped, Entries
    <2>4. \A u \in UnitsOf(run.scope) : c.files[u[1]] # None /\ (u \in run.todo \/ Supplied(c, u))
      BY <1>3, <2>1, <2>2 DEF PlanSound, Supplied
    <2>5. \A u \in full : u \in UnitsOf(run.scope)
      BY <1>1, <1>3, <1>7 DEF FixedInv, PlanSound, Cached, Working
    <2>6. \A u \in full : c.files[u[1]].seen
      BY <1>3, <2>1, <2>2, <2>5 DEF PlanSound
    <2> QED BY <1>2, <1>3, <1>4, <2>1, <2>3, <2>4, <2>6 DEF PlanSound
  <1> QED BY <1>2, <1>5, <1>6, <1>7 DEF FixedInv, Cached

\* Steps that leave the cache file and what the user has as they are.
LEMMA DiskFixed ==
    ASSUME FixedInv, UNCHANGED <<src, opts, cacheFile, settled>>
    PROVE  (cacheFile # None => Shaped(cacheFile))' /\ SettledOnDisk'
  BY DEF FixedInv, SettledOnDisk, Shaped, InFull, Supplied

LEMMA WriteArtifactsFixed ==
    ASSUME CacheInv, FixedInv, WriteArtifacts
    PROVE  FixedInv'
  <1>1. /\ run.st = "compiled" /\ run' = [run EXCEPT !.st = "written"]
        /\ UNCHANGED <<src, opts, cacheFile>> /\ settled' \in {settled, NoneGiven}
    BY DEF WriteArtifacts, user
  <1>2. /\ run'.st = "written" /\ run'.cache = run.cache /\ run'.scope = run.scope
        /\ run'.mode = run.mode /\ run'.todo = run.todo
    BY <1>1 DEF CacheInv, TypeOK, RunType
  <1>3. (cacheFile # None => Shaped(cacheFile))' /\ SettledOnDisk'
    <2>1. CASE settled' = settled
      BY <1>1, <2>1, DiskFixed
    <2>2. CASE settled' = NoneGiven
      BY <1>1, <2>2 DEF FixedInv, Shaped, SettledOnDisk, NoneGiven
    <2> QED BY <1>1, <2>1, <2>2
  <1>4. ActuallyDirty(run') = ActuallyDirty(run)
    BY <1>2 DEF ActuallyDirty
  <1>5. PlanSound(run) => PlanSound(run')
    BY <1>2 DEF PlanSound
  <1>6. Converges'
    BY <1>2 DEF Converges
  <1> QED BY <1>1, <1>2, <1>3, <1>4, <1>5, <1>6 DEF FixedInv, Cached, Working

\* A run that ends, one way or the other, leaves an old cache file or none.
LEMMA IdleFixed ==
    ASSUME FixedInv, run' = Idle,
           \/ UNCHANGED <<src, opts, cacheFile, settled>>
           \/ settled' = NoneGiven /\ cacheFile' \in {cacheFile, None}
    PROVE  FixedInv'
  <1>1. run'.st = "idle"
    BY DEF Idle
  <1>2. ~Cached' /\ Converges'
    BY <1>1 DEF Cached, Working, Converges
  <1>3. (cacheFile # None => Shaped(cacheFile))' /\ SettledOnDisk'
    <2>1. CASE UNCHANGED <<src, opts, cacheFile, settled>>
      BY <2>1, DiskFixed
    <2>2. CASE settled' = NoneGiven /\ cacheFile' \in {cacheFile, None}
      BY <2>2 DEF FixedInv, Shaped, SettledOnDisk, NoneGiven
    <2> QED BY <2>1, <2>2
  <1> QED BY <1>2, <1>3 DEF FixedInv

\* Whatever the user does, nothing is settled any more.
LEMMA UserFixed ==
    ASSUME FixedInv, UNCHANGED <<cacheFile, run>>, settled' = NoneGiven
    PROVE  FixedInv'
  <1>1. settled'.mode = {}
    BY DEF NoneGiven
  <1>2. (cacheFile # None => Shaped(cacheFile))' /\ SettledOnDisk'
    BY <1>1 DEF FixedInv, Shaped, SettledOnDisk
  <1>3. Converges'
    <2>1. ASSUME "cached" \in run'.mode, settled' = [scope |-> run'.scope, mode |-> run'.mode] PROVE FALSE
      BY <1>1, <2>1
    <2> QED BY <2>1 DEF Converges
  <1>4. ActuallyDirty(run') = ActuallyDirty(run) /\ run'.st = run.st /\ (Cached' <=> Cached)
    BY DEF Cached, Working
  <1>5. PlanSound(run) => PlanSound(run')
    OBVIOUS
  <1> QED BY <1>2, <1>3, <1>4, <1>5 DEF FixedInv

LEMMA FixedStep == FixedInv /\ ExtrasInv /\ CacheInv /\ [Next]_vars => FixedInv'
  <1> SUFFICES ASSUME FixedInv, ExtrasInv, CacheInv, [Next]_vars PROVE FixedInv'
    OBVIOUS
  <1>1. ASSUME NEW S \in Scopes, NEW m \in Modes, Preprocess(S, m) PROVE FixedInv'
    BY <1>1, PreprocessFixed
  <1>2. CASE Compile
    BY <1>2, CompileFixed
  <1>3. CASE CompileFails \/ Return
    BY <1>3, IdleFixed DEF CompileFails, Return, user, disk
  <1>4. CASE WriteArtifacts
    BY <1>4, WriteArtifactsFixed
  <1>5. CASE WriteCache
    BY <1>5, WriteCacheFixed
  <1>6. CASE CrashInArtifacts
    BY <1>6, IdleFixed DEF CrashInArtifacts, Disturbs
  <1>7. CASE CrashInCache
    BY <1>7, IdleFixed DEF CrashInCache, Disturbs
  <1>8. ASSUME NEW f \in Editable, Edit(f) PROVE FixedInv'
    BY <1>8, UserFixed DEF Edit, Changes, Disturbs, disk
  <1>9. ASSUME NEW p \in Profiles, SetOptions(p) PROVE FixedInv'
    BY <1>9, UserFixed DEF SetOptions, Changes, Disturbs, disk
  <1>10. ASSUME NEW u \in Units, DeleteArtifact(u) PROVE FixedInv'
    BY <1>10, UserFixed DEF DeleteArtifact, Disturbs
  <1>11. CASE UNCHANGED vars
    <2>1. UNCHANGED <<src, opts, cacheFile, artFile, lost, bare, settled, run>>
      BY <1>11 DEF vars, user, disk
    <2>2. (cacheFile # None => Shaped(cacheFile))' /\ SettledOnDisk'
      BY <2>1, DiskFixed
    <2>3. Converges'
      BY <2>1 DEF FixedInv, Converges, ListedOnDisk, Requested
    <2>4. ActuallyDirty(run') = ActuallyDirty(run) /\ run'.st = run.st /\ (Cached' <=> Cached)
      BY <2>1 DEF Cached, Working
    <2>5. PlanSound(run) => PlanSound(run')
      BY <2>1
    <2> QED BY <2>1, <2>2, <2>3, <2>4, <2>5 DEF FixedInv
  <1> QED BY <1>1, <1>2, <1>3, <1>4, <1>5, <1>6, <1>7, <1>8, <1>9, <1>10, <1>11, Zenon DEF Next

-----------------------------------------------------------------------------
(* Extra files                                                                *)

LEMMA PreprocessExtras ==
    ASSUME CacheInv, ExtrasInv, NEW wanted \in Scopes, NEW mode \in Modes, Preprocess(wanted, mode)
    PROVE  ExtrasInv'
  <1> USE DEF CacheInv
  <1> DEFINE S == InScope(wanted)
             clean == Clean(mode)
             loaded == ReadArtifacts(Kept(mode))
  <1>1. UNCHANGED <<user, disk, torn, settled>>
    BY DEF Preprocess
  <1>2. /\ run'.st = "filtered" /\ run'.scope = S /\ run'.mode = mode
        /\ "cached" \in mode =>
             /\ run'.loaded = loaded
             /\ run'.todo = {u \in UnitsOf(S) : MissingArtifacts(clean, loaded, mode, u)}
        /\ "cached" \notin mode => run'.loaded = {}
    BY PreprocessMeans
  <1>3. ASSUME "cached" \in mode, "extra" \in mode, NEW u \in loaded \cap UnitsOf(S),
               ~MissingArtifacts(clean, loaded, mode, u)
        PROVE  u \notin bare
    <2> DEFINE e == clean.files[u[1]]
    <2>1. e # None /\ ((e.seen /\ e.arts = {}) \/ ~MissingExtraFiles(loaded, mode))
      BY <1>3 DEF MissingArtifacts
    <2>2. loaded \subseteq Listed(Kept(mode)) /\ u \in Units /\ u[1] \in Files
      BY UnitsTyped DEF ReadArtifacts, Listed
    <2>3. CASE e.arts = {}
      <3>1. u[1] \in Entries(clean)
        BY <2>1, <2>2 DEF Entries
      <3>2. Kept(mode).files[u[1]].arts = {}
        BY <2>3, <3>1, CleanHolds
      <3> QED BY <2>2, <3>2 DEF Listed
    <2>4. CASE ~MissingExtraFiles(loaded, mode)
      BY <1>3, <2>4 DEF MissingExtraFiles
    <2> QED BY <2>1, <2>3, <2>4
  <1> HIDE DEF clean, loaded, S
  <1>4. WorkExtras'
    BY <1>1, <1>2, <1>3 DEF WorkExtras, disk
  <1>5. SettledExtras' /\ ExtrasComplete'
    BY <1>1, <1>2 DEF ExtrasInv, SettledExtras, ExtrasComplete, ListedOnDisk, InFull, disk
  <1> QED BY <1>4, <1>5 DEF ExtrasInv

LEMMA CompileExtras ==
    ASSUME CacheInv, ExtrasInv, Compile
    PROVE  ExtrasInv'
  <1>1. run.st = "filtered" /\ UNCHANGED <<user, disk, torn, settled>>
    BY DEF Compile
  <1>2. run \in RunType
    BY DEF CacheInv, TypeOK
  <1>3. /\ run'.st \in {"compiled", "written"}
        /\ ~(run'.st = "written" /\ run'.outcome = "ok")
        /\ run'.scope = run.scope /\ run'.mode = run.mode /\ run'.todo = run.todo
        /\ run'.loaded = run.loaded
    BY <1>2 DEF Compile, RunType
  <1>4. WorkExtras'
    BY <1>1, <1>3 DEF ExtrasInv, WorkExtras, Working, disk
  <1>5. SettledExtras' /\ ExtrasComplete'
    BY <1>1, <1>3 DEF ExtrasInv, SettledExtras, ExtrasComplete, ListedOnDisk, InFull, disk
  <1> QED BY <1>4, <1>5 DEF ExtrasInv

LEMMA WriteArtifactsExtras ==
    ASSUME CacheInv, ExtrasInv, WriteArtifacts
    PROVE  ExtrasInv'
  <1>1. /\ run.st = "compiled" /\ run' = [run EXCEPT !.st = "written"]
        /\ bare' = BareAfter(run.made) /\ settled' = NoneGiven
    BY DEF WriteArtifacts
  <1>2. run \in RunType
    BY DEF CacheInv, TypeOK
  <1>3. /\ run'.st = "written" /\ run'.scope = run.scope /\ run'.mode = run.mode
        /\ run'.todo = run.todo /\ run'.loaded = run.loaded /\ run'.made = run.made
    BY <1>1, <1>2 DEF RunType
  <1>4. WorkExtras'
    <2>1. "extra" \in run.mode => bare' = bare \ run.made
      BY <1>1 DEF BareAfter
    <2> QED BY <1>1, <1>3, <2>1 DEF ExtrasInv, WorkExtras, Working
  <1>5. SettledExtras' /\ ExtrasComplete'
    BY <1>1, <1>3 DEF SettledExtras, NoneGiven, ExtrasComplete
  <1> QED BY <1>4, <1>5 DEF ExtrasInv

\* What a run asked for is compiled if it was missing, so nothing of it lacks the data.
LEMMA WriteCacheExtras ==
    ASSUME CacheInv, FixedInv, ExtrasInv, WriteCache
    PROVE  ExtrasInv'
  <1> USE DEF CacheInv
  <1>1. /\ run.st = "written" /\ run' = [run EXCEPT !.st = "done", !.reused = Reused(run)]
        /\ bare' \subseteq bare
    BY DEF WriteCache
  <1>2. run \in RunType /\ run.cache \in CacheType /\ run.scope \in SUBSET Files
    BY DEF TypeOK, RunType
  <1>3. /\ run'.st = "done" /\ run'.mode = run.mode /\ run'.reused = Reused(run)
        /\ Requested(run') = Requested(run)
    BY <1>1, <1>2 DEF RunType, Requested
  <1>4. WorkExtras'
    BY <1>3 DEF WorkExtras, Working
  <1>5. run.made = {u \in ActuallyDirty(run) : run.snap[u[1]] \notin Barren}
    BY <1>1 DEF RunSound, MadeSound
  <1>6. ExtrasComplete'
    <2> SUFFICES ASSUME "extra" \in run.mode, NEW u \in Reused(run) \cap Requested(run), u \in bare
                 PROVE  FALSE
      BY <1>1, <1>3 DEF ExtrasComplete
    <2>1. /\ u \in run.loaded /\ u \notin run.made
      BY DEF Reused
    <2>2. /\ u \in UnitsOf(run.scope) /\ run.snap[u[1]] \notin Barren
          /\ "sparse" \in run.mode => u[1] \in run.scope
      BY DEF Requested
    <2>3. u \notin run.todo
      BY <1>5, <2>1, <2>2 DEF ActuallyDirty
    <2> QED BY <1>1, <2>1, <2>2, <2>3 DEF ExtrasInv, WorkExtras, Working
  <1>7. SettledExtras'
    <2>1. CASE Persists(run) /\ cacheFile' = Merged(run)
      <3> DEFINE m == Merged(run)
      <3>1. /\ m # None /\ m \in CacheType
            /\ Listed(m) \subseteq Listed(run.cache) \cup run.made
        BY <1>2, MergedMeans, CacheAssumption DEF TypeOK, RunType
      <3> HIDE DEF m
      <3>2. /\ "cached" \in run.mode /\ run.outcome = "ok" /\ cacheFile' = m
            /\ settled' \in {NoneGiven, [scope |-> run.scope, mode |-> run.mode]}
        BY <2>1, <3>1 DEF WriteCache, Persists, m
      <3> SUFFICES ASSUME settled' = [scope |-> run.scope, mode |-> run.mode], "extra" \in run.mode,
                          NEW u \in Listed(m) \cap UnitsOf(run.scope), InFull(run, u), u \in bare
                   PROVE  FALSE
        BY <1>1, <3>1, <3>2 DEF SettledExtras, NoneGiven, ListedOnDisk, InFull
      <3>3. /\ run.made \cap bare = {}
            /\ \A w \in (run.loaded \cap UnitsOf(run.scope)) \ run.todo : w \notin bare
        BY <1>1, <3>2 DEF ExtrasInv, WorkExtras, Working
      <3>4. u \in Listed(run.cache) /\ u \notin run.made
        BY <3>1, <3>3
      <3>5. /\ PlanSound(run) /\ EntriesCurrent(run) /\ TodoJustified(run)
        BY <1>1, <3>2 DEF FixedInv, RunSound, CachedRunSound, Cached, Working
      <3>6. u \in Units /\ u[1] \in Files /\ u[1] \in Entries(run.cache)
            /\ run.cache.files[u[1]].arts # {}
        BY <3>4, UnitsTyped DEF Listed, Entries
      <3>7. run.cache.files[u[1]].content \notin Barren
            /\ run.cache.files[u[1]].content = run.snap[u[1]]
        BY <3>5, <3>6 DEF PlanSound, Shaped, EntriesCurrent
      <3>8. CASE u \in run.todo
        <4>1. u \in ActuallyDirty(run)
          BY <3>8 DEF ActuallyDirty, InFull
        <4> QED BY <1>5, <3>4, <3>7, <4>1
      <3>9. CASE u \notin run.todo
        <4>1. u \in run.loaded
          BY <3>5, <3>7, <3>9 DEF TodoJustified
        <4> QED BY <3>3, <3>9, <4>1
      <3> QED BY <3>8, <3>9
    <2>2. CASE UNCHANGED <<cacheFile, lost, torn, settled>>
      BY <1>1, <2>2 DEF ExtrasInv, SettledExtras, ListedOnDisk, InFull
    <2> QED BY <2>1, <2>2 DEF WriteCache
  <1> QED BY <1>4, <1>6, <1>7 DEF ExtrasInv

\* A run that ends, and whatever the user does.
LEMMA IdleExtras ==
    ASSUME ExtrasInv, run' = Idle, UNCHANGED <<cacheFile, bare, settled>> \/ settled' = NoneGiven
    PROVE  ExtrasInv'
  <1>1. run'.st = "idle"
    BY DEF Idle
  <1>2. WorkExtras' /\ ExtrasComplete'
    BY <1>1 DEF WorkExtras, Working, ExtrasComplete
  <1>3. SettledExtras'
    BY DEF ExtrasInv, SettledExtras, NoneGiven, ListedOnDisk, InFull
  <1> QED BY <1>2, <1>3 DEF ExtrasInv

LEMMA UserExtras ==
    ASSUME ExtrasInv, UNCHANGED <<bare, run>>, UNCHANGED <<cacheFile, settled>> \/ settled' = NoneGiven
    PROVE  ExtrasInv'
  <1>1. WorkExtras' /\ ExtrasComplete'
    BY DEF ExtrasInv, WorkExtras, Working, ExtrasComplete, Requested
  <1>2. SettledExtras'
    BY DEF ExtrasInv, SettledExtras, NoneGiven, ListedOnDisk, InFull
  <1> QED BY <1>1, <1>2 DEF ExtrasInv

LEMMA ExtrasStep == ExtrasInv /\ FixedInv /\ CacheInv /\ [Next]_vars => ExtrasInv'
  <1> SUFFICES ASSUME ExtrasInv, FixedInv, CacheInv, [Next]_vars PROVE ExtrasInv'
    OBVIOUS
  <1>1. ASSUME NEW S \in Scopes, NEW m \in Modes, Preprocess(S, m) PROVE ExtrasInv'
    BY <1>1, PreprocessExtras
  <1>2. CASE Compile
    BY <1>2, CompileExtras
  <1>3. CASE CompileFails \/ Return
    BY <1>3, IdleExtras DEF CompileFails, Return, disk
  <1>4. CASE WriteArtifacts
    BY <1>4, WriteArtifactsExtras
  <1>5. CASE WriteCache
    BY <1>5, WriteCacheExtras
  <1>6. CASE CrashInArtifacts \/ CrashInCache
    BY <1>6, IdleExtras DEF CrashInArtifacts, CrashInCache, Disturbs
  <1>7. ASSUME NEW f \in Editable, Edit(f) PROVE ExtrasInv'
    BY <1>7, UserExtras DEF Edit, Changes, Disturbs, disk
  <1>8. ASSUME NEW p \in Profiles, SetOptions(p) PROVE ExtrasInv'
    BY <1>8, UserExtras DEF SetOptions, Changes, Disturbs, disk
  <1>9. ASSUME NEW u \in Units, DeleteArtifact(u) PROVE ExtrasInv'
    BY <1>9, UserExtras DEF DeleteArtifact, Disturbs
  <1>10. CASE UNCHANGED vars
    BY <1>10, UserExtras DEF vars, disk
  <1> QED BY <1>1, <1>2, <1>3, <1>4, <1>5, <1>6, <1>7, <1>8, <1>9, <1>10, Zenon DEF Next

LEMMA FixedHolds == Spec => [](FixedInv /\ ExtrasInv)
  <1>1. Init => FixedInv /\ ExtrasInv
    <2>1. Init => run.st = "idle" /\ settled.mode = {} /\ cacheFile = None
      BY DEF Init, Idle, NoneGiven
    <2> QED BY <2>1 DEF FixedInv, SettledOnDisk, Cached, Working, Converges,
                        ExtrasInv, WorkExtras, SettledExtras, ExtrasComplete
  <1> QED BY <1>1, FixedStep, ExtrasStep, CacheInvHolds, PTL DEF Spec

\* OutputComplete: no contract that was asked for is missing from the output because
\* dirty detection, filter, sparse compilation and consume disagree about it, and none
\* that is reused lacks what the extra files asked for are written from.
THEOREM OutputAlwaysComplete == Spec => []OutputComplete
  <1>1. CacheInv /\ ExtrasInv => OutputComplete
    BY DEF CacheInv, ExtrasInv, OutputComplete
  <1> QED BY <1>1, CacheInvHolds, FixedHolds, PTL

\* Converges: a second build of what has not changed compiles nothing, whatever its mode
\* and filter, provided that the artifacts can be read, that generated sources are not
\* among the extra files (missing_extra_files then always says so), and that no artifact
\* of a file the build is not asked for lacks the data of those that are.
THEOREM SecondBuildCompilesNothing == Spec => []Converges
  <1>1. FixedInv => Converges
    BY DEF FixedInv
  <1> QED BY <1>1, FixedHolds, PTL
=============================================================================
