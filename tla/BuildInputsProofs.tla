------------------------- MODULE BuildInputsProofs -------------------------
(***************************************************************************)
(* Theorems about what goes into a build, for any settings and any         *)
(* restrictions on them (SolcSettings), about the files a project keeps    *)
(* between builds, for any places, sources and configurations              *)
(* (ProjectFiles), and about the compilers that builds install and run,    *)
(* for any number of builds, of pool threads and of jobs (Toolchain).      *)
(***************************************************************************)
EXTENDS SolcSettings, ProjectFiles, Toolchain, SequenceTheorems, FiniteSetTheorems, TLAPS

-----------------------------------------------------------------------------
(* Bounds of restrictions                                                  *)

\* The bounds of Restriction::merge, before they are compared.
Tighter(a, b) ==
    [min |-> IF a.min = Unspecified THEN b.min
             ELSE IF b.min = Unspecified \/ a.min >= b.min THEN a.min ELSE b.min,
     max |-> IF a.max = Unspecified THEN b.max
             ELSE IF b.max = Unspecified \/ a.max <= b.max THEN a.max ELSE b.max]
Empty(r) == r.min # Unspecified /\ r.max # Unspecified /\ r.min > r.max

LEMMA MergedTighter ==
    ASSUME NEW a \in Ranges, NEW b \in Ranges
    PROVE  /\ Tighter(a, b) \in Ranges
           /\ MergeRange(a, b) = IF Empty(Tighter(a, b)) THEN Unspecified ELSE Tighter(a, b)
           /\ MergeRange(a, b) = Unspecified <=> Empty(Tighter(a, b))
  <1>1. Tighter(a, b) \in Ranges
    BY DEF Tighter, Ranges
  <1>2. MergeRange(a, b) = IF Empty(Tighter(a, b)) THEN Unspecified ELSE Tighter(a, b)
    BY DEF MergeRange, Tighter, Empty
  <1> QED BY <1>1, <1>2, SettingsAssumption

\* Both bounds are kept exactly, for any numbers.
LEMMA TighterExact ==
    ASSUME NEW a \in Ranges, NEW b \in Ranges, NEW x \in Optional(Nat)
    PROVE  Within(a, x) /\ Within(b, x) <=> Within(Tighter(a, b), x)
  BY SettingsAssumption DEF Tighter, Within, Ranges, Optional

LEMMA EmptyRange ==
    ASSUME NEW r \in Ranges, NEW x \in Optional(Nat)
    PROVE  IF Empty(r) THEN ~Within(r, x) ELSE Within(r, ApplyRange(r, x))
  <1>1. CASE Empty(r)
    BY <1>1, SettingsAssumption DEF Empty, Within, Ranges, Optional
  <1>2. CASE ~Empty(r)
    BY <1>2, SettingsAssumption DEF Empty, Within, Ranges, Optional, ApplyRange
  <1> QED BY <1>1, <1>2

\* Merged bounds admit exactly what both admit, and are refused only if that is
\* nothing; the nearest admitted value is admitted.
LEMMA MergedRange ==
    ASSUME NEW a \in Ranges, NEW b \in Ranges, NEW x \in Optional(Nat)
    PROVE  LET m == MergeRange(a, b)
               both == Within(a, x) /\ Within(b, x)
           IN IF m = Unspecified THEN ~both
              ELSE m \in Ranges /\ (both <=> Within(m, x)) /\ Within(m, ApplyRange(m, x))
  <1>1. CASE Empty(Tighter(a, b))
    BY <1>1, MergedTighter, TighterExact, EmptyRange
  <1>2. CASE ~Empty(Tighter(a, b))
    BY <1>2, MergedTighter, TighterExact, EmptyRange
  <1> QED BY <1>1, <1>2

LEMMA MergedMinimum ==
    ASSUME NEW a \in Ranges, NEW b \in Ranges, MergeRange(a, b) # Unspecified
    PROVE  MergeRange(a, b).min \notin {Unspecified, 0} <=>
              a.min \notin {Unspecified, 0} \/ b.min \notin {Unspecified, 0}
  BY SettingsAssumption DEF MergeRange, Ranges, Optional

-----------------------------------------------------------------------------
(* Restrictions                                                            *)

\* Settings as SettingsAssumption has them.
SettingsTyped(s) ==
    /\ s.evm \in Optional(Nat) /\ s.runs \in Optional(Nat) /\ s.vyper.evm \in Optional(Nat)
    /\ s.viaIr \in Optional(BOOLEAN) /\ s.enabled \in BOOLEAN

SolcPart(r) == [version |-> r.version, evm |-> r.evm, runs |-> r.runs, viaIr |-> r.viaIr, hash |-> r.hash]

\* What MergeRestrictions makes of two restrictions that do not disagree.
MergedSolc(a, b) ==
    [version |-> IF Unspecified \in {a.version, b.version} THEN Or(a.version, b.version)
                 ELSE a.version \cap b.version,
     evm |-> MergeRange(a.evm, b.evm), runs |-> MergeRange(a.runs, b.runs),
     viaIr |-> Or(a.viaIr, b.viaIr), hash |-> Or(a.hash, b.hash)]
Conflict(a, b) ==
    \/ Disagree(a.viaIr, b.viaIr) \/ Disagree(a.hash, b.hash)
    \/ MergeRange(a.evm, b.evm) = Unspecified \/ MergeRange(a.runs, b.runs) = Unspecified

LEMMA MergedSolcOr ==
    ASSUME NEW a \in Restricted, NEW b \in Restricted
    PROVE  /\ Conflict(a, b) => MergeRestrictions(a, b) = Unspecified
           /\ ~Conflict(a, b) => /\ MergeRestrictions(a, b) = MergedSolc(a, b)
                                 /\ MergedSolc(a, b) \in SolcRestricted /\ MergedSolc(a, b) # Unspecified
  <1>1. MergeRestrictions(a, b) = IF Conflict(a, b) THEN Unspecified ELSE MergedSolc(a, b)
    BY DEF MergeRestrictions, MergedSolc, Conflict
  <1>2. ASSUME ~Conflict(a, b) PROVE MergedSolc(a, b) \in SolcRestricted
    <2>1. MergeRange(a.evm, b.evm) \in Ranges /\ MergeRange(a.runs, b.runs) \in Ranges
      BY <1>2, MergedTighter DEF Conflict, Restricted
    <2>2. MergedSolc(a, b).version \in Optional(SUBSET Nat)
      BY DEF MergedSolc, Restricted, Optional, Or
    <2>3. Or(a.viaIr, b.viaIr) \in Optional(BOOLEAN) /\ Or(a.hash, b.hash) \in Optional(STRING)
      BY DEF Restricted, Or
    <2> QED BY <2>1, <2>2, <2>3 DEF MergedSolc, SolcRestricted
  <1> QED BY <1>1, <1>2, SettingsAssumption

MergedBoth(a, b) ==
    [version |-> MergedSolc(a, b).version,
     evm |-> MergeRange(a.evm, b.evm), runs |-> MergeRange(a.runs, b.runs),
     viaIr |-> Or(a.viaIr, b.viaIr), hash |-> Or(a.hash, b.hash), vyper |-> MergeRange(a.vyper, b.vyper)]
ConflictBoth(a, b) == Conflict(a, b) \/ MergeRange(a.vyper, b.vyper) = Unspecified

LEMMA MergedBothOr ==
    ASSUME NEW a \in Restricted, NEW b \in Restricted
    PROVE  /\ ConflictBoth(a, b) => MergeBoth(a, b) = Unspecified
           /\ ~ConflictBoth(a, b) => /\ MergeBoth(a, b) = MergedBoth(a, b)
                                     /\ MergedBoth(a, b) \in Restricted /\ MergedBoth(a, b) # Unspecified
  <1>1. CASE ConflictBoth(a, b)
    BY <1>1, MergedSolcOr DEF MergeBoth, ConflictBoth
  <1>2. CASE ~ConflictBoth(a, b)
    <2> DEFINE solc == MergedSolc(a, b)
               vyper == MergeRange(a.vyper, b.vyper)
    <2>1. MergeRestrictions(a, b) = solc /\ solc \in SolcRestricted /\ solc # Unspecified /\ vyper # Unspecified
      BY <1>2, MergedSolcOr DEF ConflictBoth
    <2>2. MergeBoth(a, b) = [x \in DOMAIN solc \cup {"vyper"} |-> IF x = "vyper" THEN vyper ELSE solc[x]]
      BY <2>1 DEF MergeBoth
    <2>3. DOMAIN solc = {"version", "evm", "runs", "viaIr", "hash"}
      BY DEF MergedSolc
    <2>4. MergeBoth(a, b) = MergedBoth(a, b)
      BY <2>2, <2>3 DEF MergedBoth, MergedSolc
    <2>5. vyper \in Ranges
      BY <1>2, MergedTighter DEF ConflictBoth, Restricted
    <2>6. MergedBoth(a, b) \in Restricted
      BY <2>1, <2>5 DEF MergedBoth, MergedSolc, Restricted, SolcRestricted
    <2> QED BY <1>2, <2>4, <2>6, SettingsAssumption
  <1> QED BY <1>1, <1>2

\* The merged restrictions admit exactly the settings that both admit.
LEMMA MergedExact ==
    ASSUME NEW a \in Restricted, NEW b \in Restricted, NEW s, SettingsTyped(s)
    PROVE  LET m == MergeBoth(a, b)
               both == SatisfiesBoth(s, a) /\ SatisfiesBoth(s, b)
           IN IF m = Unspecified THEN ~both ELSE both <=> SatisfiesBoth(s, m)
  <1>0. /\ a.evm \in Ranges /\ b.evm \in Ranges /\ a.runs \in Ranges /\ b.runs \in Ranges
        /\ a.vyper \in Ranges /\ b.vyper \in Ranges
        /\ a.viaIr \in Optional(BOOLEAN) /\ b.viaIr \in Optional(BOOLEAN)
    BY DEF Restricted
  <1> DEFINE both == SatisfiesBoth(s, a) /\ SatisfiesBoth(s, b)
  <1>1. CASE ConflictBoth(a, b)
    <2>1. ASSUME Disagree(a.viaIr, b.viaIr) PROVE ~both
      BY <2>1 DEF SatisfiesBoth, SatisfiesRestrictions, Disagree
    <2>2. ASSUME Disagree(a.hash, b.hash) PROVE ~both
      BY <2>2 DEF SatisfiesBoth, SatisfiesRestrictions, Disagree
    <2>3. ASSUME MergeRange(a.evm, b.evm) = Unspecified PROVE ~both
      BY <1>0, <2>3, MergedRange DEF SatisfiesBoth, SatisfiesRestrictions, SettingsTyped
    <2>4. ASSUME MergeRange(a.runs, b.runs) = Unspecified PROVE ~both
      BY <1>0, <2>4, MergedRange DEF SatisfiesBoth, SatisfiesRestrictions, SettingsTyped
    <2>5. ASSUME MergeRange(a.vyper, b.vyper) = Unspecified PROVE ~both
      BY <1>0, <2>5, MergedRange DEF SatisfiesBoth, SettingsTyped
    <2>6. ~both
      <3> HIDE DEF both
      <3> QED BY <1>1, <2>1, <2>2, <2>3, <2>4, <2>5 DEF ConflictBoth, Conflict
    <2> QED BY <1>1, <2>6, MergedBothOr
  <1>2. CASE ~ConflictBoth(a, b)
    <2> DEFINE m == MergedBoth(a, b)
    <2>1. MergeBoth(a, b) = m /\ m # Unspecified
      BY <1>2, MergedBothOr
    <2>2. /\ m.evm = MergeRange(a.evm, b.evm) /\ m.runs = MergeRange(a.runs, b.runs)
          /\ m.vyper = MergeRange(a.vyper, b.vyper)
          /\ m.viaIr = Or(a.viaIr, b.viaIr) /\ m.hash = Or(a.hash, b.hash)
      BY DEF MergedBoth
    <2>3. Within(a.evm, s.evm) /\ Within(b.evm, s.evm) <=> Within(m.evm, s.evm)
      BY <1>0, <1>2, <2>2, MergedRange DEF SettingsTyped, ConflictBoth, Conflict
    <2>4. Within(a.runs, s.runs) /\ Within(b.runs, s.runs) <=> Within(m.runs, s.runs)
      BY <1>0, <1>2, <2>2, MergedRange DEF SettingsTyped, ConflictBoth, Conflict
    <2>5. Within(a.vyper, s.vyper.evm) /\ Within(b.vyper, s.vyper.evm) <=> Within(m.vyper, s.vyper.evm)
      BY <1>0, <1>2, <2>2, MergedRange DEF SettingsTyped, ConflictBoth
    <2> DEFINE via == s.viaIr = TRUE
    <2>6. /\ (a.viaIr # Unspecified => a.viaIr = via) /\ (b.viaIr # Unspecified => b.viaIr = via)
          <=> (m.viaIr # Unspecified => m.viaIr = via)
      <3> HIDE DEF via
      <3> QED BY <1>2, <2>2 DEF ConflictBoth, Conflict, Disagree, Or
    <2>7. /\ (a.hash # Unspecified => a.hash = s.hash) /\ (b.hash # Unspecified => b.hash = s.hash)
          <=> (m.hash # Unspecified => m.hash = s.hash)
      BY <1>2, <2>2 DEF ConflictBoth, Conflict, Disagree, Or
    <2>8. m.runs.min \notin {Unspecified, 0} <=>
             a.runs.min \notin {Unspecified, 0} \/ b.runs.min \notin {Unspecified, 0}
      BY <1>0, <1>2, <2>2, MergedMinimum DEF ConflictBoth, Conflict
    <2>9. both <=> SatisfiesBoth(s, m)
      BY ONLY <2>3, <2>4, <2>5, <2>6, <2>7, <2>8 DEF SatisfiesBoth, SatisfiesRestrictions
    <2> QED BY <2>1, <2>9
  <1> QED BY <1>1, <1>2

\* A pair of restrictions is merged: what the property says of the result.
LEMMA MergeStepExact == ASSUME MergeStep PROVE RestrictionsExact'
  <1>1. PICK a \in SomeRestrictions, b \in SomeRestrictions :
            pick' = [st |-> "merged", a |-> a, b |-> b, merged |-> MergeBoth(a, b)]
    BY DEF MergeStep
  <1>2. a \in Restricted /\ b \in Restricted
    BY SettingsAssumption
  <1> DEFINE m == MergeBoth(a, b)
  <1>3. pick'.a = a /\ pick'.b = b /\ pick'.merged = m
    BY <1>1
  <1>4. ASSUME NEW s \in SomeSettings
        PROVE  /\ m = Unspecified => ~(SatisfiesBoth(s, a) /\ SatisfiesBoth(s, b))
               /\ m # Unspecified =>
                    /\ SatisfiesBoth(s, a) /\ SatisfiesBoth(s, b) <=> SatisfiesBoth(s, m)
                    /\ Within(m.evm, ApplyRange(m.evm, s.evm))
                    /\ Within(m.runs, ApplyRange(m.runs, s.runs))
    <2>1. SettingsTyped(s)
      BY SettingsAssumption DEF SettingsTyped
    <2>2. ASSUME m # Unspecified
          PROVE  Within(m.evm, ApplyRange(m.evm, s.evm)) /\ Within(m.runs, ApplyRange(m.runs, s.runs))
      <3>1. ~ConflictBoth(a, b) /\ m = MergedBoth(a, b)
        BY <1>2, <2>2, MergedBothOr
      <3>2. /\ a.evm \in Ranges /\ b.evm \in Ranges /\ a.runs \in Ranges /\ b.runs \in Ranges
            /\ s.evm \in Optional(Nat) /\ s.runs \in Optional(Nat)
        BY <1>2, <2>1 DEF Restricted, SettingsTyped
      <3>3. m.evm = MergeRange(a.evm, b.evm) /\ m.runs = MergeRange(a.runs, b.runs)
        BY <3>1 DEF MergedBoth
      <3>4. MergeRange(a.evm, b.evm) # Unspecified /\ MergeRange(a.runs, b.runs) # Unspecified
        BY <3>1 DEF ConflictBoth, Conflict
      <3> HIDE DEF m
      <3> QED BY <3>2, <3>3, <3>4, MergedRange
    <2> QED BY <1>2, <2>1, <2>2, MergedExact
  <1> HIDE DEF m
  <1> QED BY <1>3, <1>4 DEF RestrictionsExact

-----------------------------------------------------------------------------
(* Selections of outputs                                                   *)

\* A selection is a subset of itself as it is stored, although a file without
\* outputs is stored as one with none for any contract.
LEMMA OwnStored == ASSUME NEW a PROVE IsSubsetOf(a, StoredSelection(a))
  <1>1. DOMAIN StoredSelection(a) = DOMAIN a
    BY DEF StoredSelection
  <1>2. ASSUME NEW f \in DOMAIN a, NEW c \in DOMAIN a[f] PROVE StoredSelection(a)[f] = a[f]
    <2>1. a[f] # <<>>
      BY <1>2
    <2> QED BY <1>2, <2>1 DEF StoredSelection
  <1> QED BY <1>1, <1>2 DEF IsSubsetOf

\* Whatever a subset of a stored selection makes the compiler emit, the stored one did.
LEMMA SubsetEmitted ==
    ASSUME NEW a, NEW b, IsSubsetOf(a, StoredSelection(b)), NEW f, NEW c
    PROVE  Emits(a, f, c) \subseteq Emits(b, f, c)
  <1> DEFINE stored == StoredSelection(b)
  <1>1. SUFFICES ASSUME NEW o \in Emits(a, f, c) PROVE o \in Emits(b, f, c)
    OBVIOUS
  <1>2. PICK g \in DOMAIN a \cap {f, "*"} : \E d \in DOMAIN a[g] \cap {c, "*"} : o \in a[g][d]
    BY DEF Emits
  <1>3. PICK d \in DOMAIN a[g] \cap {c, "*"} : o \in a[g][d]
    BY <1>2
  <1>4. g \in DOMAIN stored /\ d \in DOMAIN stored[g] /\ o \in stored[g][d]
    BY <1>3 DEF IsSubsetOf
  <1>5. g \in DOMAIN b /\ stored[g] = IF b[g] = <<>> THEN [x \in {"*"} |-> {}] ELSE b[g]
    BY <1>4 DEF StoredSelection
  <1>6. stored[g] = b[g]
    <2>1. CASE b[g] = <<>>
      BY <1>4, <1>5, <2>1
    <2> QED BY <1>5, <2>1
  <1> HIDE DEF stored
  <1>7. d \in DOMAIN b[g] \cap {c, "*"} /\ o \in b[g][d] /\ g \in DOMAIN b \cap {f, "*"}
    BY <1>3, <1>4, <1>5, <1>6
  <1> QED BY <1>7 DEF Emits

LEMMA ReuseStepEmitsAll == ASSUME ReuseStep PROVE ReuseEmitsAll'
  <1> DEFINE asked(s, words) ==
               [s EXCEPT !.selection = IF words = {} THEN @ ELSE PushAll(@, "*", UNION {OutputsOf(w) : w \in words})]
             stored(old) == [old EXCEPT !.selection = StoredSelection(@), !.vyper.selection = StoredSelection(@)]
  <1>1. PICK s \in SomeSettings, old \in SomeSettings, words \in SomeWords :
            pick' = [st |-> "asked", s |-> asked(s, words), old |-> old,
                     use |-> BothCanUseCached(asked(s, words), stored(old))]
    BY DEF ReuseStep
  <1> DEFINE mine == asked(s, words)
             kept == stored(old)
             use == BothCanUseCached(mine, kept)
  <1>2. pick'.s = mine /\ pick'.old = old /\ (pick'.use <=> use)
    BY <1>1
  <1>3. /\ kept.selection = StoredSelection(old.selection)
        /\ kept.vyper = [old.vyper EXCEPT !.selection = StoredSelection(old.vyper.selection)]
        /\ kept.vyper.selection = StoredSelection(old.vyper.selection)
        /\ [old EXCEPT !.selection = {}, !.vyper = {}] = [kept EXCEPT !.selection = {}, !.vyper = {}]
    <2>1. /\ DOMAIN old = {"evm", "viaIr", "hash", "runs", "enabled", "options", "remappings", "selection", "vyper"}
          /\ DOMAIN old.vyper = {"evm", "selection", "search"}
      BY SettingsAssumption
    <2>2. kept = [old EXCEPT !.selection = StoredSelection(old.selection),
                             !.vyper = [old.vyper EXCEPT !.selection = StoredSelection(old.vyper.selection)]]
      BY <2>1
    <2> HIDE DEF kept
    <2> QED BY <2>1, <2>2
  <1>4. ASSUME use, NEW f, NEW c
        PROVE  /\ Emits(mine.selection, f, c) \subseteq Emits(old.selection, f, c)
               /\ Emits(mine.vyper.selection, f, c) \subseteq Emits(old.vyper.selection, f, c)
    <2>1. IsSubsetOf(mine.selection, kept.selection) /\ IsSubsetOf(mine.vyper.selection, kept.vyper.selection)
      BY <1>4 DEF BothCanUseCached, CanUseCached, VyperCanUseCached
    <2> HIDE DEF mine, kept
    <2> QED BY <1>3, <2>1, SubsetEmitted
  <1>5. ASSUME mine = old PROVE use
    <2>1. [old EXCEPT !.selection = {}, !.vyper = {}] = [kept EXCEPT !.selection = {}, !.vyper = {}]
      BY <1>3
    <2>2. [old.vyper EXCEPT !.selection = {}] = [kept.vyper EXCEPT !.selection = {}]
      BY <1>3
    <2>3. /\ IsSubsetOf(old.selection, kept.selection)
          /\ IsSubsetOf(old.vyper.selection, kept.vyper.selection)
      BY <1>3, OwnStored
    <2> HIDE DEF mine, kept
    <2> QED BY <1>5, <2>1, <2>2, <2>3 DEF BothCanUseCached, CanUseCached, VyperCanUseCached
  <1> HIDE DEF mine, kept, use
  <1> QED BY <1>2, <1>4, <1>5 DEF ReuseEmitsAll

\* What a file's restrictions and a build's settings allow is what was asked for:
\* restrictions are merged exactly, for any settings (merge, satisfies_restrictions),
\* and artifacts of a build with other settings are reused only if that build made
\* all that is asked for (can_use_cached).
THEOREM SettingsHold == SettingsSpec => []SettingsSound
  <1>1. SettingsInit => SettingsSound
    BY DEF SettingsInit, NoPick, SettingsSound, RestrictionsExact, ReuseEmitsAll
  <1>2. SettingsSound /\ [SettingsNext]_pick => SettingsSound'
    <2>1. ASSUME MergeStep PROVE ReuseEmitsAll'
      <3>1. pick'.st = "merged"
        BY <2>1 DEF MergeStep
      <3>2. pick'.st # "asked"
        BY <3>1
      <3> QED BY <3>2, Zenon DEF ReuseEmitsAll
    <2>2. ASSUME ReuseStep PROVE RestrictionsExact'
      BY <2>2 DEF ReuseStep, RestrictionsExact
    <2>3. ASSUME SettingsSound, UNCHANGED pick PROVE SettingsSound'
      BY <2>3 DEF SettingsSound, RestrictionsExact, ReuseEmitsAll
    <2> QED BY <2>1, <2>2, <2>3, MergeStepExact, ReuseStepEmitsAll DEF SettingsNext, SettingsSound
  <1> QED BY <1>1, <1>2, PTL DEF SettingsSpec

-----------------------------------------------------------------------------
(* Project::cleanup                                                        *)

OwnFolders(paths) == {cfg.cache} \cup Under(cfg.artifacts, paths) \cup Under(cfg.build_infos, paths)

\* A folder other than the project's own is gone, with all that was in it.
Emptied(dir) == dir # root => Under(dir, DOMAIN disk \cup dirs) = {}

\* How far cleanup got is in what is there: nothing but the project's output is ever
\* missing, the cache file is gone before anything else, and each folder once its
\* step is over.
CleanupInv ==
    /\ pc \in {"idle", "cache", "artifacts", "builds"} /\ outcome \in {"none", "ok", "failed"}
    /\ pc # "idle" => outcome = "none"
    /\ pc # "idle" \/ outcome # "none" =>
         /\ DOMAIN disk \subseteq before
         /\ before \ DOMAIN disk \subseteq OwnFolders(before)
         /\ cfg.cache \in DOMAIN disk => before = DOMAIN disk
    /\ pc = "cache" => before = DOMAIN disk
    /\ pc \in {"artifacts", "builds"} \/ outcome = "ok" => cfg.cache \notin DOMAIN disk
    /\ pc = "builds" \/ outcome = "ok" => Emptied(cfg.artifacts)
    /\ outcome = "ok" => Emptied(cfg.build_infos)

LEMMA WithoutDomain == ASSUME NEW f, NEW S PROVE DOMAIN Without(f, S) = DOMAIN f \ S
  BY DEF Without, Restrict

LEMMA UnderUnion ==
    ASSUME NEW dir, NEW S, NEW T
    PROVE  /\ Under(dir, S \cup T) = Under(dir, S) \cup Under(dir, T)
           /\ Under(dir, S \ T) = Under(dir, S) \ T
           /\ Under(dir, S) \subseteq S
           /\ S \subseteq T => Under(dir, S) \subseteq Under(dir, T)
  BY DEF Under

\* What a step of cleanup does to the files: gone are the cache file or files of one
\* of the two folders, unless it is the project's own.
LEMMA CleanDirRemoves ==
    ASSUME NEW dir, CleanDir(dir), root' = root
    PROVE  /\ DOMAIN disk' \subseteq DOMAIN disk
           /\ DOMAIN disk \ DOMAIN disk' \subseteq Under(dir, DOMAIN disk)
           /\ dirs' \subseteq dirs
           /\ dir # root => Under(dir, DOMAIN disk' \cup dirs') = {}
  <1> DEFINE gone == IF dir = root THEN {} ELSE Under(dir, DOMAIN disk)
  <1>1. /\ DOMAIN disk' = DOMAIN disk \ gone
        /\ dirs' = IF dir = root THEN dirs ELSE dirs \ Under(dir, dirs)
    BY WithoutDomain DEF CleanDir
  <1>2. dir # root => Under(dir, DOMAIN disk') = {} /\ Under(dir, dirs') = {}
    BY <1>1, UnderUnion
  <1>3. DOMAIN disk' \subseteq DOMAIN disk /\ DOMAIN disk \ DOMAIN disk' \subseteq gone /\ dirs' \subseteq dirs
    BY <1>1
  <1>4. gone \subseteq Under(dir, DOMAIN disk)
    OBVIOUS
  <1>5. dir # root => Under(dir, DOMAIN disk' \cup dirs') = {}
    <2>1. Under(dir, DOMAIN disk' \cup dirs') = Under(dir, DOMAIN disk') \cup Under(dir, dirs')
      BY UnderUnion
    <2> QED BY <1>2, <2>1
  <1> HIDE DEF gone
  <1> QED BY <1>3, <1>4, <1>5

\* A folder once emptied stays so while files are only removed.
LEMMA EmptiedStays ==
    ASSUME NEW dir, Emptied(dir), DOMAIN disk' \subseteq DOMAIN disk, dirs' \subseteq dirs, root' = root
    PROVE  dir # root' => Under(dir, DOMAIN disk' \cup dirs') = {}
  <1>1. Under(dir, DOMAIN disk' \cup dirs') \subseteq Under(dir, DOMAIN disk \cup dirs)
    BY DEF Under
  <1> QED BY <1>1 DEF Emptied

\* Nothing but the project's output is missing after a step that removes only that.
LEMMA RemovesOwn ==
    ASSUME DOMAIN disk \subseteq before, before \ DOMAIN disk \subseteq OwnFolders(before),
           NEW dir \in {cfg.artifacts, cfg.build_infos}, DOMAIN disk' \subseteq DOMAIN disk,
           DOMAIN disk \ DOMAIN disk' \subseteq Under(dir, DOMAIN disk)
    PROVE  DOMAIN disk' \subseteq before /\ before \ DOMAIN disk' \subseteq OwnFolders(before)
  <1>1. Under(dir, DOMAIN disk) \subseteq Under(dir, before)
    BY UnderUnion
  <1>2. Under(dir, before) \subseteq OwnFolders(before)
    BY DEF OwnFolders
  <1> QED BY <1>1, <1>2

LEMMA CleanupStep == ASSUME CleanupInv, [FilesNext]_filesVars PROVE CleanupInv'
  <1>1. ASSUME pc = "idle", pc' = "idle", outcome' = "none" PROVE CleanupInv'
    BY <1>1 DEF CleanupInv
  <1>2. ASSUME \/ \E S \in SUBSET ProjectSources : CompileProject(S)
               \/ \E to \in Roots : MoveProject(to)
               \/ \E g \in Givens : Configure(g)
               \/ \E p \in ProjectSources \ Elsewhere : EditSource(p) \/ DeleteSource(p)
        PROVE  pc = "idle" /\ pc' = "idle" /\ outcome' = "none"
    BY <1>2 DEF CompileProject, MoveProject, Configure, EditSource, DeleteSource
  <1>3. CASE StartCleanup
    BY <1>3 DEF StartCleanup, CleanupInv
  <1>4. ASSUME UNCHANGED <<root, given>> PROVE cfg' = cfg
    BY <1>4 DEF cfg, Layout, Located
  <1>5. CASE CleanCache
    <2>1. /\ cfg' = cfg /\ before' = before /\ outcome' = outcome /\ pc = "cache" /\ pc' = "artifacts"
          /\ DOMAIN disk' = DOMAIN disk \ {cfg.cache}
      BY <1>4, <1>5, WithoutDomain DEF CleanCache
    <2>2. DOMAIN disk = before /\ outcome = "none"
      BY <2>1 DEF CleanupInv
    <2>3. cfg.cache \in OwnFolders(before)
      BY DEF OwnFolders
    <2>4. OwnFolders(before)' = OwnFolders(before)
      BY <2>1 DEF OwnFolders
    <2>5. before' \ DOMAIN disk' \subseteq OwnFolders(before)' /\ DOMAIN disk' \subseteq before'
      BY <2>1, <2>2, <2>3, <2>4
    <2>6. cfg'.cache \notin DOMAIN disk'
      BY <2>1
    <2> QED BY <2>1, <2>2, <2>5, <2>6 DEF CleanupInv
  <1>6. ASSUME NEW dir \in {cfg.artifacts, cfg.build_infos}, pc # "idle", pc # "cache",
               UNCHANGED <<root, given, before>>, DOMAIN disk' \subseteq DOMAIN disk, dirs' \subseteq dirs,
               DOMAIN disk \ DOMAIN disk' \subseteq Under(dir, DOMAIN disk)
        PROVE  /\ cfg' = cfg
               /\ DOMAIN disk' \subseteq before'
               /\ before' \ DOMAIN disk' \subseteq OwnFolders(before)'
               /\ cfg.cache \notin DOMAIN disk'
               /\ Emptied(cfg.artifacts) => Emptied(cfg.artifacts)'
    <2>1. cfg' = cfg
      BY <1>4, <1>6
    <2>2. DOMAIN disk \subseteq before /\ before \ DOMAIN disk \subseteq OwnFolders(before) /\ cfg.cache \notin DOMAIN disk
      BY <1>6 DEF CleanupInv
    <2>3. DOMAIN disk' \subseteq before /\ before \ DOMAIN disk' \subseteq OwnFolders(before)
      BY <1>6, <2>2, RemovesOwn
    <2>4. OwnFolders(before)' = OwnFolders(before)
      BY <1>6, <2>1 DEF OwnFolders
    <2>5. Emptied(cfg.artifacts) => Emptied(cfg.artifacts)'
      BY <1>6, <2>1, EmptiedStays DEF Emptied
    <2> QED BY <1>6, <2>1, <2>2, <2>3, <2>4, <2>5
  <1>7. CASE CleanArtifacts
    <2>1. /\ pc = "artifacts" /\ pc' = "builds" /\ CleanDir(cfg.artifacts)
          /\ UNCHANGED <<root, given, outcome, before>>
      BY <1>7 DEF CleanArtifacts
    <2>2. /\ cfg' = cfg /\ DOMAIN disk' \subseteq before' /\ before' \ DOMAIN disk' \subseteq OwnFolders(before)'
          /\ cfg.cache \notin DOMAIN disk'
      BY <1>6, <2>1, CleanDirRemoves
    <2>3. Emptied(cfg.artifacts)'
      BY <2>1, <2>2, CleanDirRemoves DEF Emptied
    <2> QED BY <2>1, <2>2, <2>3 DEF CleanupInv
  <1>8. CASE CleanBuildInfos
    <2>1. /\ pc = "builds" /\ pc' = "idle" /\ CleanDir(cfg.build_infos) /\ outcome' = "ok"
          /\ UNCHANGED <<root, given, before>>
      BY <1>8 DEF CleanBuildInfos
    <2>2. /\ cfg' = cfg /\ DOMAIN disk' \subseteq before' /\ before' \ DOMAIN disk' \subseteq OwnFolders(before)'
          /\ cfg.cache \notin DOMAIN disk' /\ (Emptied(cfg.artifacts) => Emptied(cfg.artifacts)')
      BY <1>6, <2>1, CleanDirRemoves
    <2>3. Emptied(cfg.build_infos)'
      BY <2>1, <2>2, CleanDirRemoves DEF Emptied
    <2>4. Emptied(cfg.artifacts)
      BY <2>1 DEF CleanupInv
    <2> QED BY <2>1, <2>2, <2>3, <2>4 DEF CleanupInv
  <1>9. CASE CleanupFails
    <2> DEFINE dir == CASE pc = "artifacts" -> cfg.artifacts [] pc = "builds" -> cfg.build_infos [] OTHER -> root
    <2>1. PICK gone \in SUBSET (IF dir = root THEN {} ELSE Under(dir, DOMAIN disk)) : disk' = Without(disk, gone)
      BY <1>9 DEF CleanupFails
    <2>2. /\ pc # "idle" /\ pc' = "idle" /\ outcome' = "failed"
          /\ UNCHANGED <<root, given, dirs, before>>
      BY <1>9 DEF CleanupFails
    <2>3. DOMAIN disk' = DOMAIN disk \ gone
      BY <2>1, WithoutDomain
    <2>4. CASE pc = "cache"
      <3>1. gone = {} /\ cfg' = cfg /\ DOMAIN disk = before
        BY <1>4, <2>1, <2>2, <2>4 DEF CleanupInv
      <3> QED BY <2>2, <2>3, <3>1 DEF CleanupInv, OwnFolders
    <2>5. CASE pc # "cache"
      <3>1. dir \in {cfg.artifacts, cfg.build_infos}
        BY <2>2, <2>5 DEF CleanupInv
      <3>2. gone \subseteq Under(dir, DOMAIN disk)
        BY <2>1
      <3> HIDE DEF dir
      <3>3. /\ cfg' = cfg /\ DOMAIN disk' \subseteq before' /\ before' \ DOMAIN disk' \subseteq OwnFolders(before)'
            /\ cfg.cache \notin DOMAIN disk'
        <4>1. DOMAIN disk' \subseteq DOMAIN disk /\ DOMAIN disk \ DOMAIN disk' \subseteq Under(dir, DOMAIN disk)
          BY <2>3, <3>2
        <4> QED BY <1>6, <2>2, <2>5, <3>1, <4>1
      <3> QED BY <2>2, <3>3 DEF CleanupInv
    <2> QED BY <2>4, <2>5
  <1>10. CASE UNCHANGED filesVars
    <2>1. UNCHANGED <<disk, dirs, root, given, pc, outcome, before>> /\ cfg' = cfg
      BY <1>4, <1>10 DEF filesVars
    <2> QED BY <2>1 DEF CleanupInv, OwnFolders, Emptied, Under
  <1> QED BY <1>1, <1>2, <1>3, <1>5, <1>7, <1>8, <1>9, <1>10 DEF FilesNext

\* Whatever the project's layout, and wherever an operation fails, cleanup removes
\* nothing but the cache file, the artifacts and the build infos, and leaves no cache
\* file behind that describes artifacts it removed (Project::cleanup).
THEOREM CleanupKeepsRest == FilesSpec => []CleanupSound
  <1>1. FilesInit => CleanupInv
    BY DEF FilesInit, CleanupInv
  <1>2. CleanupInv => CleanupSound
    BY DEF CleanupInv, CleanupSound, OwnFolders, Emptied
  <1> QED BY <1>1, <1>2, CleanupStep, PTL DEF FilesSpec

-----------------------------------------------------------------------------
(* Paths                                                                   *)

Paths == Seq(Components)

LEMMA PrefixElements ==
    ASSUME NEW p \in Paths, NEW q \in Paths
    PROVE  StartsWith(p, q) <=> Len(q) <= Len(p) /\ \A i \in 1..Len(q) : q[i] = p[i]
  <1>1. CASE Len(q) <= Len(p)
    <2>1. /\ SubSeq(q, 1, Len(q)) \in Seq(Components) /\ SubSeq(p, 1, Len(q)) \in Seq(Components)
          /\ Len(SubSeq(q, 1, Len(q))) = Len(q) /\ Len(SubSeq(p, 1, Len(q))) = Len(q)
          /\ \A i \in 1..Len(q) : SubSeq(q, 1, Len(q))[i] = q[i] /\ SubSeq(p, 1, Len(q))[i] = p[i]
      BY <1>1 DEF Paths
    <2>2. ASSUME \A i \in 1..Len(q) : q[i] = p[i] PROVE SubSeq(q, 1, Len(q)) = SubSeq(p, 1, Len(q))
      BY <2>1, <2>2, SeqEqual
    <2> QED BY <1>1, <2>1, <2>2 DEF StartsWith, IsPrefix
  <1>2. CASE ~(Len(q) <= Len(p))
    BY <1>2 DEF StartsWith, IsPrefix
  <1> QED BY <1>1, <1>2

\* strip_prefix takes apart what join puts together.
LEMMA StrippedRest ==
    ASSUME NEW p \in Paths, NEW q \in Paths, StartsWith(p, q)
    PROVE  Stripped(p, q) \in Paths /\ Len(Stripped(p, q)) = Len(p) - Len(q) /\ q \o Stripped(p, q) = p
           /\ \A i \in 1..Len(Stripped(p, q)) : Stripped(p, q)[i] = p[Len(q) + i]
  <1>1. Len(q) \in Nat /\ Len(p) \in Nat /\ Len(q) <= Len(p) /\ \A i \in 1..Len(q) : q[i] = p[i]
    BY PrefixElements DEF Paths
  <1>2. /\ Stripped(p, q) \in Seq(Components) /\ Len(Stripped(p, q)) = Len(p) - Len(q)
        /\ \A i \in 1..Len(Stripped(p, q)) : Stripped(p, q)[i] = p[Len(q) + i]
    BY <1>1 DEF Stripped, Paths
  <1> DEFINE s == Stripped(p, q)
  <1>3. /\ q \o s \in Seq(Components) /\ Len(q \o s) = Len(q) + Len(s)
        /\ \A i \in 1..Len(q) + Len(s) : (q \o s)[i] = IF i <= Len(q) THEN q[i] ELSE s[i - Len(q)]
    BY <1>2, ConcatProperties DEF Paths
  <1> HIDE DEF s
  <1>4. q \o s = p
    <2>1. \A i \in 1..Len(p) : (q \o s)[i] = p[i]
      BY <1>1, <1>2, <1>3 DEF s
    <2>2. q \o s \in Seq(Components) /\ p \in Seq(Components) /\ Len(q \o s) = Len(p)
      BY <1>1, <1>2, <1>3 DEF s, Paths
    <2>3. \A i \in 1..Len(q \o s) : (q \o s)[i] = p[i]
      BY <2>1, <2>2
    <2> QED BY <2>2, <2>3, SeqEqual
  <1> QED BY <1>2, <1>4 DEF s, Paths

LEMMA StrippedJoined ==
    ASSUME NEW q \in Paths, NEW s \in Paths
    PROVE  q \o s \in Paths /\ StartsWith(q \o s, q) /\ Stripped(q \o s, q) = s
  <1> DEFINE p == q \o s
  <1>1. /\ p \in Seq(Components) /\ Len(p) = Len(q) + Len(s) /\ Len(q) \in Nat /\ Len(s) \in Nat
        /\ \A i \in 1..Len(p) : p[i] = IF i <= Len(q) THEN q[i] ELSE s[i - Len(q)]
    BY ConcatProperties DEF Paths
  <1> HIDE DEF p
  <1>2. StartsWith(p, q)
    BY <1>1, PrefixElements DEF Paths
  <1>3. Stripped(p, q) = s
    <2>1. /\ p \in Paths /\ Stripped(p, q) \in Seq(Components) /\ Len(Stripped(p, q)) = Len(s)
          /\ \A i \in 1..Len(s) : Stripped(p, q)[i] = p[Len(q) + i]
      BY <1>1, <1>2, StrippedRest DEF Paths
    <2>2. ASSUME NEW i \in 1..Len(s) PROVE Stripped(p, q)[i] = s[i]
      <3>1. Len(q) + i \in 1..Len(p) /\ ~(Len(q) + i <= Len(q)) /\ (Len(q) + i) - Len(q) = i
        BY <1>1
      <3> QED BY <1>1, <2>1, <3>1
    <2> QED BY <2>1, <2>2, SeqEqual DEF Paths
  <1> QED BY <1>1, <1>2, <1>3 DEF p, Paths

LEMMA LastJoined ==
    ASSUME NEW q \in Paths, NEW s \in Paths, s # <<>>
    PROVE  Last(q \o s) = Last(s) /\ Len(s) >= 1 /\ q \o s # <<>>
  <1>1. Len(s) \in Nat /\ Len(s) # 0 /\ Len(q) \in Nat
    BY EmptySeq DEF Paths
  <1>2. /\ Len(q \o s) = Len(q) + Len(s)
        /\ \A i \in 1..Len(q) + Len(s) : (q \o s)[i] = IF i <= Len(q) THEN q[i] ELSE s[i - Len(q)]
    BY ConcatProperties DEF Paths
  <1>3. Len(q) + Len(s) \in 1..Len(q) + Len(s) /\ (Len(q) + Len(s)) - Len(q) = Len(s) /\ ~(Len(q) + Len(s) <= Len(q))
    BY <1>1
  <1> QED BY <1>1, <1>2, <1>3 DEF Last

RelativePaths == {s \in Paths : s # <<>> /\ \A i \in 1..Len(s) : s[i] # "/"}

\* The names a layout has by default.
LEMMA LayoutNames ==
    /\ {"/", "out", "build-info", "src", "cache", "solidity-files-cache.json", "C.json"} \subseteq Components
    /\ "out" # "/" /\ "build-info" # "/" /\ "src" # "/" /\ "cache" # "/" /\ "C.json" # "/"
    /\ "solidity-files-cache.json" # "/" /\ "C.json" # "solidity-files-cache.json"
  BY DEF Components

LEMMA ThreeNames ==
    ASSUME NEW a \in Components, NEW b \in Components, NEW c \in Components
    PROVE  <<a>> \o <<b, c>> = <<a, b, c>>
  <1>1. <<a>> \in Seq(Components) /\ <<b, c>> \in Seq(Components) /\ <<a, b, c>> \in Seq(Components)
    OBVIOUS
  <1>2. Len(<<a>>) = 1 /\ Len(<<b, c>>) = 2 /\ Len(<<a, b, c>>) = 3
    OBVIOUS
  <1>3. <<a>> \o <<b, c>> \in Seq(Components) /\ Len(<<a>> \o <<b, c>>) = 3
    BY <1>1, <1>2, ConcatProperties
  <1>4. ASSUME NEW i \in 1..3 PROVE (<<a>> \o <<b, c>>)[i] = <<a, b, c>>[i]
    BY <1>1, <1>2, ConcatProperties
  <1> QED BY <1>1, <1>2, <1>3, <1>4, SeqEqual

LEMMA ShortPaths ==
    ASSUME NEW a \in Components \ {"/"}, NEW b \in Components \ {"/"}, NEW c \in Components \ {"/"}
    PROVE  /\ <<a>> \in RelativePaths /\ <<a, b>> \in RelativePaths /\ <<a, b, c>> \in RelativePaths
           /\ Last(<<a>>) = a /\ Last(<<a, b>>) = b /\ Last(<<a, b, c>>) = c
           /\ \A p \in Paths : Append(p, a) = p \o <<a>>
  <1>1. /\ <<a>> \in Seq(Components) /\ <<a, b>> \in Seq(Components)
        /\ <<a, b, c>> \in Seq(Components)
    OBVIOUS
  <1>2. Len(<<a>>) = 1 /\ Len(<<a, b>>) = 2 /\ Len(<<a, b, c>>) = 3
    OBVIOUS
  <1>3. /\ \A i \in 1..1 : <<a>>[i] # "/"
        /\ \A i \in 1..2 : <<a, b>>[i] # "/"
        /\ \A i \in 1..3 : <<a, b, c>>[i] # "/"
    OBVIOUS
  <1>4. <<a>> # <<>> /\ <<a, b>> # <<>> /\ <<a, b, c>> # <<>>
    OBVIOUS
  <1>5. /\ <<a>> \in RelativePaths /\ <<a, b>> \in RelativePaths /\ <<a, b, c>> \in RelativePaths
    BY <1>1, <1>2, <1>3, <1>4 DEF RelativePaths, Paths
  <1>6. Last(<<a>>) = a /\ Last(<<a, b>>) = b /\ Last(<<a, b, c>>) = c
    BY <1>2 DEF Last
  <1>7. ASSUME NEW p \in Paths PROVE Append(p, a) = p \o <<a>>
    BY AppendIsConcat DEF Paths
  <1> QED BY <1>5, <1>6, <1>7

LEMMA AbsoluteTyped ==
    ASSUME NEW p \in AbsolutePaths
    PROVE  p \in Paths /\ p # <<>> /\ Len(p) \in Nat \ {0} /\ p[1] = "/" /\ IsAbsolute(p)
           /\ \A i \in 2..Len(p) : p[i] # "/"
  BY EmptySeq DEF AbsolutePaths, IsAbsolute, Paths

\* A path below a folder, as its place in the folder.
LEMMA BelowFolder ==
    ASSUME NEW base \in AbsolutePaths, NEW p \in AbsolutePaths, StartsWith(p, base), p # base
    PROVE  Stripped(p, base) \in RelativePaths
  <1> DEFINE s == Stripped(p, base)
  <1>1. /\ s \in Paths /\ base \o s = p /\ base \in Paths /\ p \in Paths /\ Len(base) \in Nat \ {0}
        /\ Len(s) = Len(p) - Len(base) /\ Len(p) \in Nat
        /\ \A i \in 1..Len(s) : s[i] = p[Len(base) + i]
    BY StrippedRest, AbsoluteTyped
  <1> HIDE DEF s
  <1>2. s # <<>>
    BY <1>1, ConcatEmptySeq DEF Paths
  <1>3. ASSUME NEW i \in 1..Len(s) PROVE s[i] # "/"
    <2>1. Len(base) + i \in 2..Len(p)
      BY <1>1
    <2> QED BY <1>1, <2>1, AbsoluteTyped
  <1> QED BY <1>1, <1>2, <1>3 DEF RelativePaths, s

LEMMA JoinedRelative ==
    ASSUME NEW base \in AbsolutePaths, NEW s \in RelativePaths
    PROVE  /\ ~IsAbsolute(s) /\ Join(base, s) = base \o s /\ base \o s \in AbsolutePaths
           /\ StripPrefix(base \o s, base) = s /\ StartsWith(base \o s, base)
           /\ Last(base \o s) = Last(s) /\ base \o s # base
  <1>1. s \in Paths /\ base \in Paths /\ Len(s) \in Nat \ {0} /\ Len(base) \in Nat \ {0} /\ s # <<>>
        /\ \A i \in 1..Len(s) : s[i] # "/"
    BY EmptySeq, AbsoluteTyped DEF RelativePaths, Paths
  <1>2. ~IsAbsolute(s)
    BY <1>1 DEF IsAbsolute
  <1>3. StartsWith(base \o s, base) /\ Stripped(base \o s, base) = s /\ base \o s \in Paths
    BY <1>1, StrippedJoined
  <1>4. /\ Len(base \o s) = Len(base) + Len(s)
        /\ \A i \in 1..Len(base) + Len(s) : (base \o s)[i] = IF i <= Len(base) THEN base[i] ELSE s[i - Len(base)]
    BY <1>1, ConcatProperties DEF Paths
  <1>5. base \o s \in AbsolutePaths
    <2>1. base \o s # <<>> /\ (base \o s)[1] = "/"
      BY <1>1, <1>4, LastJoined, AbsoluteTyped
    <2>2. ASSUME NEW i \in 2..Len(base \o s) PROVE (base \o s)[i] # "/"
      <3>1. CASE i <= Len(base)
        <4>1. i \in 2..Len(base) /\ i \in 1..Len(base) + Len(s)
          BY <1>1, <1>4, <3>1
        <4> QED BY <1>4, <3>1, <4>1, AbsoluteTyped
      <3>2. CASE ~(i <= Len(base))
        <4>1. i - Len(base) \in 1..Len(s) /\ i \in 1..Len(base) + Len(s)
          BY <1>1, <1>4, <3>2
        <4> QED BY <1>1, <1>4, <3>2, <4>1
      <3> QED BY <3>1, <3>2
    <2> QED BY <1>3, <2>1, <2>2 DEF AbsolutePaths, IsAbsolute, Paths
  <1>6. base \o s # base
    BY <1>1, <1>4
  <1> QED BY <1>1, <1>2, <1>3, <1>5, <1>6, LastJoined DEF Join, StripPrefix

\* What the cache file has of a path leads back to it from the same folder, and has
\* its name.
LEMMA StripJoin ==
    ASSUME NEW base \in AbsolutePaths, NEW p \in AbsolutePaths, p # base
    PROVE  /\ Join(base, StripPrefix(p, base)) = p
           /\ StripPrefix(p, base) \in Paths \ {<<>>} /\ Last(StripPrefix(p, base)) = Last(p)
  <1>1. CASE StartsWith(p, base)
    <2>1. Stripped(p, base) \in RelativePaths /\ base \o Stripped(p, base) = p
      BY <1>1, BelowFolder, StrippedRest, AbsoluteTyped
    <2>2. StripPrefix(p, base) = Stripped(p, base)
      BY <1>1 DEF StripPrefix
    <2> DEFINE s == Stripped(p, base)
    <2>3. Join(base, s) = base \o s /\ Last(base \o s) = Last(s) /\ s \in Paths \ {<<>>}
      BY <2>1, JoinedRelative DEF RelativePaths
    <2> HIDE DEF s
    <2>4. base \o s = p /\ StripPrefix(p, base) = s
      BY <2>1, <2>2 DEF s
    <2> QED BY <2>3, <2>4
  <1>2. CASE ~StartsWith(p, base)
    BY <1>2, AbsoluteTyped DEF StripPrefix, Join
  <1> QED BY <1>1, <1>2

-----------------------------------------------------------------------------
(* A project that is moved                                                 *)

LEMMA RelocatedPath ==
    ASSUME root \in AbsolutePaths, NEW to \in AbsolutePaths, NEW p \in AbsolutePaths, p # root
    PROVE  /\ Relocated(p, to) \in AbsolutePaths /\ Last(Relocated(p, to)) = Last(p)
           /\ StartsWith(p, root) => /\ StartsWith(Relocated(p, to), to) /\ Relocated(p, to) # to
                                     /\ root \o Stripped(Relocated(p, to), to) = p
           /\ ~StartsWith(p, root) => Relocated(p, to) = p
  <1>1. CASE StartsWith(p, root)
    <2> DEFINE s == Stripped(p, root)
    <2>1. s \in RelativePaths /\ root \o s = p /\ s \in Paths /\ to \in Paths
      BY <1>1, BelowFolder, StrippedRest, AbsoluteTyped
    <2>2. Relocated(p, to) = to \o s
      BY <1>1 DEF Relocated
    <2> HIDE DEF s
    <2>3. Last(root \o s) = Last(s) /\ Last(to \o s) = Last(s) /\ Stripped(to \o s, to) = s
      BY <2>1, JoinedRelative, StrippedJoined
    <2>4. to \o s \in AbsolutePaths /\ StartsWith(to \o s, to) /\ to \o s # to
      BY <2>1, JoinedRelative
    <2> QED BY <1>1, <2>1, <2>2, <2>3, <2>4
  <1>2. CASE ~StartsWith(p, root)
    BY <1>2 DEF Relocated
  <1> QED BY <1>1, <1>2

\* Nothing is lost or overwritten by a move to where nothing is.
LEMMA MovedFile ==
    ASSUME root \in AbsolutePaths, NEW to \in AbsolutePaths, NEW f, DOMAIN f \subseteq AbsolutePaths,
           root \notin DOMAIN f, Under(to, DOMAIN f) = {}
    PROVE  /\ DOMAIN MovedTo(f, to) = {Relocated(p, to) : p \in DOMAIN f}
           /\ \A p \in DOMAIN f : MovedTo(f, to)[Relocated(p, to)] = f[p]
           /\ \A p, q \in DOMAIN f : Relocated(p, to) = Relocated(q, to) => p = q
  <1>1. DOMAIN MovedTo(f, to) = {Relocated(p, to) : p \in DOMAIN f}
    BY DEF MovedTo
  <1>2. \A p \in DOMAIN f : ~StartsWith(p, to)
    BY DEF Under
  <1>3. ASSUME NEW p \in DOMAIN f, NEW q \in DOMAIN f, Relocated(p, to) = Relocated(q, to) PROVE p = q
    <2>1. ASSUME NEW x \in DOMAIN f
          PROVE  /\ StartsWith(x, root) => /\ StartsWith(Relocated(x, to), to)
                                           /\ root \o Stripped(Relocated(x, to), to) = x
                 /\ ~StartsWith(x, root) => Relocated(x, to) = x /\ ~StartsWith(Relocated(x, to), to)
      <3>1. x \in AbsolutePaths /\ x # root
        OBVIOUS
      <3>2. /\ StartsWith(x, root) => /\ StartsWith(Relocated(x, to), to)
                                      /\ root \o Stripped(Relocated(x, to), to) = x
            /\ ~StartsWith(x, root) => Relocated(x, to) = x
        BY <3>1, RelocatedPath
      <3>3. ~StartsWith(x, to)
        BY <1>2
      <3> QED BY <3>2, <3>3
    <2>2. CASE StartsWith(p, root)
      BY <1>3, <2>1, <2>2
    <2>3. CASE ~StartsWith(p, root)
      BY <1>3, <2>1, <2>3
    <2> QED BY <2>2, <2>3
  <1>4. ASSUME NEW p \in DOMAIN f PROVE MovedTo(f, to)[Relocated(p, to)] = f[p]
    <2>1. (CHOOSE q \in DOMAIN f : Relocated(q, to) = Relocated(p, to)) = p
      BY <1>3
    <2>2. MovedTo(f, to)[Relocated(p, to)] = f[CHOOSE q \in DOMAIN f : Relocated(q, to) = Relocated(p, to)]
      BY DEF MovedTo
    <2> QED BY <2>1, <2>2
  <1> QED BY <1>1, <1>3, <1>4

-----------------------------------------------------------------------------
(* What the cache file names                                               *)

Names == SourceNames \cup {Last(p) : p \in Elsewhere}

\* Below the project's folder, wherever that is, or apart from every folder it may be.
Outside == {p \in AbsolutePaths \ {FsRoot} : \A r \in Roots : ~StartsWith(p, r) /\ ~StartsWith(r, p)}
GoodPlaces == RelativePaths \cup Outside

\* A source is told by its name, from other sources and from everything else.
DiskOK ==
    /\ root \in Roots /\ given \in Givens /\ nbuild \in Nat
    /\ DOMAIN disk \subseteq AbsolutePaths
    /\ \A p \in DOMAIN disk :
         /\ Last(p) \in Names \cup OutputNames
         /\ disk[p].kind = "source" <=> Last(p) \in Names
         /\ Last(p) \in Names => disk[p] = [kind |-> "source", of |-> Last(p), text |-> disk[p].text]
    /\ \A p, q \in DOMAIN disk : Last(p) = Last(q) /\ Last(p) \in Names => p = q

\* Where the artifacts of a configuration are, as the cache file has it.
Folders == {FolderOf(g) : g \in Givens}
EntryOK(e) ==
    /\ e = [file |-> e.file, hash |-> e.hash, artifact |-> <<Last(e.file), "C.json">>, build |-> e.build]
    /\ e.file \in Paths \ {<<>>} /\ Last(e.file) \in Names

\* The artifact at this path, if it is there, is the one the entry was made for.
ArtifactOK(a, e) == a \in DOMAIN disk => disk[a] = [kind |-> "artifact", of |-> Last(e.file), text |-> e.hash]
StoredOK(stored) ==
    /\ stored = [paths |-> stored.paths, entries |-> stored.entries, builds |-> stored.builds]
    /\ stored.paths.artifacts \in Folders
    /\ \A e \in stored.entries : EntryOK(e) /\ ArtifactOK(Join(root, stored.paths.artifacts) \o e.artifact, e)

\* A cache file is where the configurations with its artifacts folder have it; its
\* entries describe the artifacts of that folder, even while another one is configured.
InLayout(c, d) == \E g \in Givens : c = Join(root, CacheOf(g)) /\ d = FolderOf(g)
CacheOK ==
    \A c \in DOMAIN cacheFile : StoredOK(cacheFile[c]) /\ InLayout(c, cacheFile[c].paths.artifacts)

FilesInv == DiskOK /\ CacheOK

LEMMA GoodPlace ==
    ASSUME NEW p \in Paths, IsPlace(p)
    PROVE  p \in GoodPlaces
  <1>1. p # <<>> /\ Len(p) \in Nat \ {0}
    BY EmptySeq DEF IsPlace, Paths
  <1>2. ASSUME NEW i \in 2..Len(p) PROVE p[i] # "/"
    <2>1. /\ Tail(p) \in Seq(Components) /\ Len(Tail(p)) = Len(p) - 1
          /\ Tail(p)[i - 1] = p[i] /\ i - 1 \in 1..Len(Tail(p))
      BY <1>1, HeadTailProperties DEF Paths
    <2>2. p[i] \in ToSet(Tail(p))
      BY <2>1, LenProperties DEF ToSet
    <2> QED BY <2>2 DEF IsPlace
  <1>3. CASE IsAbsolute(p)
    BY <1>2, <1>3 DEF GoodPlaces, Outside, IsPlace, AbsolutePaths, Paths
  <1>4. CASE ~IsAbsolute(p)
    <2>1. p[1] # "/"
      BY <1>1, <1>4 DEF IsAbsolute
    <2>2. \A i \in 1..Len(p) : p[i] # "/"
      BY <1>1, <1>2, <2>1
    <2> QED BY <1>1, <2>2 DEF GoodPlaces, RelativePaths
  <1> QED BY <1>3, <1>4

LEMMA GivenPlaces ==
    ASSUME NEW g \in Givens
    PROVE  /\ FolderOf(g) \in GoodPlaces /\ CacheOf(g) \in GoodPlaces
           /\ g.build_infos = NoPath \/ g.build_infos \in GoodPlaces
           /\ Last(CacheOf(g)) \in OutputNames /\ Last(CacheOf(g)) # "C.json"
  <1>1. /\ g \in Places
        /\ \A p \in {g.artifacts, g.build_infos, g.cache} \ {NoPath} : IsPlace(p)
        /\ Last(CacheOf(g)) # "C.json"
    BY FilesAssumption
  <1>2. \A p \in {g.artifacts, g.build_infos, g.cache} : p = NoPath \/ p \in GoodPlaces
    BY <1>1, GoodPlace DEF Places, Paths
  <1>3. <<"out">> \in GoodPlaces /\ <<"cache", "solidity-files-cache.json">> \in GoodPlaces
    BY LayoutNames, ShortPaths DEF GoodPlaces
  <1> QED BY <1>1, <1>2, <1>3 DEF FolderOf, CacheOf, PathOr, OutputNames

LEMMA NamesApart ==
    /\ Names \cap OutputNames = {} /\ Names \subseteq Components \ {"/"} /\ OutputNames \subseteq Components \ {"/"}
    /\ {Last(r) : r \in Roots} \cap (Names \cup OutputNames) = {}
    /\ Roots \cup Elsewhere \subseteq AbsolutePaths
  <1>1. ASSUME NEW p \in AbsolutePaths \ {FsRoot} PROVE Last(p) \in Components \ {"/"}
    <2>1. Len(p) \in Nat \ {0} /\ p \in Seq(Components)
      BY AbsoluteTyped DEF Paths
    <2>2. CASE Len(p) = 1
      <3>1. p = <<"/">>
        <4>1. Len(<<"/">>) = 1 /\ <<"/">> \in Seq(Components) /\ <<"/">>[1] = "/"
          BY LayoutNames
        <4> QED BY <2>1, <2>2, <4>1, AbsoluteTyped, SeqEqual
      <3> QED BY <3>1 DEF FsRoot
    <2>3. CASE Len(p) # 1
      <3>1. Len(p) \in 2..Len(p) /\ Len(p) \in 1..Len(p)
        <4> DEFINE n == Len(p)
        <4>1. n \in Nat \ {0} /\ n # 1
          BY <2>1, <2>3
        <4> HIDE DEF n
        <4>2. n \in 2..n /\ n \in 1..n
          BY <4>1
        <4> QED BY <4>2 DEF n
      <3>2. p[Len(p)] \in Components
        BY <2>1, <3>1, ElementOfSeq
      <3> QED BY <3>1, <3>2, AbsoluteTyped DEF Last
    <2> QED BY <2>2, <2>3
  <1>2. /\ Roots \cup Elsewhere \subseteq AbsolutePaths \ {FsRoot} /\ SourceNames \subseteq Components \ {"/"}
        /\ {Last(p) : p \in Elsewhere} \cap SourceNames = {}
        /\ OutputNames \cap ({Last(p) : p \in Elsewhere} \cup SourceNames) = {}
        /\ {Last(r) : r \in Roots} \cap ({Last(p) : p \in Elsewhere} \cup SourceNames \cup OutputNames) = {}
        /\ OtherFile \in Seq(Components) \ {<<>>} /\ "/" \notin ToSet(OtherFile)
        /\ BuildIds \in Seq(Components \ {"/"})
    BY FilesAssumption
  <1>3. Last(OtherFile) \in Components \ {"/"}
    <2>1. Len(OtherFile) \in Nat \ {0} /\ DOMAIN OtherFile = 1..Len(OtherFile)
      BY <1>2, EmptySeq, LenProperties
    <2>2. Len(OtherFile) \in 1..Len(OtherFile)
      BY <2>1
    <2>3. OtherFile[Len(OtherFile)] \in Components /\ OtherFile[Len(OtherFile)] \in ToSet(OtherFile)
      BY <1>2, <2>1, <2>2, ElementOfSeq DEF ToSet
    <2> QED BY <1>2, <2>3 DEF Last
  <1>4. ToSet(BuildIds) \subseteq Components \ {"/"}
    BY <1>2, LenProperties, ElementOfSeq DEF ToSet
  <1>5. \A p \in Elsewhere : Last(p) \in Components \ {"/"}
    BY <1>1, <1>2
  <1>6. ASSUME NEW g \in Givens PROVE Last(CacheOf(g)) \in Components \ {"/"}
    <2> DEFINE p == CacheOf(g)
    <2>1. p \in GoodPlaces
      BY GivenPlaces
    <2> HIDE DEF p
    <2>2. ASSUME p \in RelativePaths PROVE Last(p) \in Components \ {"/"}
      <3>1. p \in Seq(Components) /\ Len(p) \in 1..Len(p) /\ \A i \in 1..Len(p) : p[i] # "/"
        BY <2>2, EmptySeq DEF RelativePaths, Paths
      <3> QED BY <3>1, ElementOfSeq DEF Last
    <2>3. ASSUME p \notin RelativePaths PROVE Last(p) \in Components \ {"/"}
      BY <1>1, <2>1, <2>3 DEF GoodPlaces, Outside
    <2> QED BY <2>2, <2>3 DEF p
  <1> QED BY <1>2, <1>3, <1>4, <1>5, <1>6, LayoutNames DEF Names, OutputNames

\* A place of a configuration, from wherever the project is, and as the cache file has it.
LEMMA PlacedPath ==
    ASSUME NEW p \in GoodPlaces, NEW r \in Roots
    PROVE  /\ Join(r, p) \in AbsolutePaths /\ Join(r, p) # r /\ Last(Join(r, p)) = Last(p)
           /\ StripPrefix(Join(r, p), r) = p
           /\ p \in RelativePaths => Join(r, p) = r \o p /\ StartsWith(Join(r, p), r)
           /\ p \notin RelativePaths => /\ Join(r, p) = p /\ p \in AbsolutePaths
                                         /\ ~StartsWith(p, r) /\ ~StartsWith(r, p)
  <1>1. r \in AbsolutePaths
    BY NamesApart
  <1>2. CASE p \in RelativePaths
    <2>1. /\ Join(r, p) = r \o p /\ r \o p \in AbsolutePaths /\ StripPrefix(r \o p, r) = p
          /\ StartsWith(r \o p, r) /\ Last(r \o p) = Last(p) /\ r \o p # r
      BY <1>1, <1>2, JoinedRelative
    <2> QED BY <1>2, <2>1
  <1>3. CASE p \notin RelativePaths
    <2>1. p \in AbsolutePaths /\ ~StartsWith(p, r) /\ ~StartsWith(r, p)
      BY <1>3 DEF GoodPlaces, Outside
    <2>2. Join(r, p) = p /\ StripPrefix(p, r) = p
      BY <2>1, AbsoluteTyped DEF Join, StripPrefix
    <2>3. p # r
      BY <1>1, <2>1, PrefixElements, AbsoluteTyped
    <2> QED BY <1>3, <2>1, <2>2, <2>3
  <1> QED BY <1>2, <1>3

\* Where a project is does not matter to what a place is in it.
LEMMA SamePlace ==
    ASSUME NEW p \in GoodPlaces, NEW q \in GoodPlaces, NEW r \in Roots, Join(r, p) = Join(r, q)
    PROVE  p = q
  BY PlacedPath

LEMMA FoldersGood == Folders \subseteq GoodPlaces
  BY GivenPlaces DEF Folders

LEMMA ConfigPaths ==
    ASSUME root \in Roots, given \in Givens
    PROVE  /\ cfg.root = root /\ root \in AbsolutePaths
           /\ cfg.cache = Join(root, CacheOf(given)) /\ cfg.cache \in AbsolutePaths
           /\ cfg.artifacts \in AbsolutePaths /\ cfg.build_infos \in AbsolutePaths
           /\ PathsRelative(cfg).artifacts = FolderOf(given) /\ FolderOf(given) \in Folders
           /\ Join(root, FolderOf(given)) = cfg.artifacts
           /\ cfg.artifacts # root
  <1>1. root \in AbsolutePaths /\ NoPath \notin AbsolutePaths
    BY NamesApart, FilesAssumption DEF AbsolutePaths
  <1>2. /\ FolderOf(given) \in GoodPlaces /\ CacheOf(given) \in GoodPlaces
        /\ given.build_infos = NoPath \/ given.build_infos \in GoodPlaces
    BY GivenPlaces
  <1>3. /\ Layout.artifacts = Located(given.artifacts) /\ Layout.cache = Located(given.cache)
        /\ Layout.build_infos = Located(given.build_infos)
    BY DEF Layout, Unset
  <1>4. /\ cfg.root = root
        /\ cfg.cache = PathOr(Layout.cache, root \o <<"cache", "solidity-files-cache.json">>)
        /\ cfg.artifacts = PathOr(Layout.artifacts, Append(root, "out"))
        /\ cfg.build_infos = PathOr(Layout.build_infos, Append(cfg.artifacts, "build-info"))
    BY DEF cfg, BuildWithRoot, FaveOrAlt
  <1>5. ASSUME NEW p \in AbsolutePaths, NEW n \in Components \ {"/"}
        PROVE  Append(p, n) = p \o <<n>> /\ <<n>> \in RelativePaths /\ Append(p, n) \in AbsolutePaths
    <2>1. Append(p, n) = p \o <<n>> /\ <<n>> \in RelativePaths
      BY ShortPaths, AbsoluteTyped
    <2> QED BY <2>1, JoinedRelative
  <1>6. cfg.cache = Join(root, CacheOf(given))
    <2>1. CASE given.cache = NoPath
      <3>1. Join(root, CacheOf(given)) = root \o <<"cache", "solidity-files-cache.json">>
        BY <1>1, <2>1, LayoutNames, ShortPaths, JoinedRelative DEF CacheOf, PathOr
      <3> QED BY <1>3, <1>4, <2>1, <3>1 DEF Located, PathOr
    <2>2. CASE given.cache # NoPath
      <3>1. Join(root, given.cache) \in AbsolutePaths /\ CacheOf(given) = given.cache
        BY <1>2, <2>2, PlacedPath DEF CacheOf, PathOr
      <3> QED BY <1>1, <1>3, <1>4, <2>2, <3>1 DEF Located, PathOr
    <2> QED BY <2>1, <2>2
  <1>7. cfg.artifacts = Join(root, FolderOf(given))
    <2>1. CASE given.artifacts = NoPath
      <3>1. Join(root, FolderOf(given)) = Append(root, "out")
        <4> DEFINE o == "out"
        <4>1. FolderOf(given) = <<o>> /\ o \in Components \ {"/"}
          BY <2>1, LayoutNames DEF FolderOf, PathOr
        <4> HIDE DEF o
        <4>2. Append(root, o) = root \o <<o>> /\ <<o>> \in RelativePaths
          BY <1>1, <1>5, <4>1
        <4>3. Join(root, <<o>>) = root \o <<o>>
          BY <1>1, <4>2, JoinedRelative
        <4> QED BY <4>1, <4>2, <4>3 DEF o
      <3> QED BY <1>3, <1>4, <2>1, <3>1 DEF Located, PathOr
    <2>2. CASE given.artifacts # NoPath
      <3>1. Join(root, given.artifacts) \in AbsolutePaths /\ FolderOf(given) = given.artifacts
        BY <1>2, <2>2, PlacedPath DEF FolderOf, PathOr
      <3> QED BY <1>1, <1>3, <1>4, <2>2, <3>1 DEF Located, PathOr
    <2> QED BY <2>1, <2>2
  <1>8. /\ cfg.cache \in AbsolutePaths /\ cfg.artifacts \in AbsolutePaths /\ cfg.artifacts # root
        /\ StripPrefix(cfg.artifacts, root) = FolderOf(given)
    BY <1>2, <1>6, <1>7, PlacedPath
  <1>9. cfg.build_infos \in AbsolutePaths
    <2>1. CASE given.build_infos = NoPath
      <3>1. Append(cfg.artifacts, "build-info") \in AbsolutePaths
        BY <1>5, <1>8, LayoutNames
      <3> QED BY <1>3, <1>4, <2>1, <3>1 DEF Located, PathOr
    <2>2. CASE given.build_infos # NoPath
      <3>1. Join(root, given.build_infos) \in AbsolutePaths
        BY <1>2, <2>2, PlacedPath
      <3> QED BY <1>1, <1>3, <1>4, <2>2, <3>1 DEF Located, PathOr
    <2> QED BY <2>1, <2>2
  <1>10. PathsRelative(cfg).artifacts = FolderOf(given)
    BY <1>4, <1>8 DEF PathsRelative, PathsOf, StripPrefixAll, Kept
  <1> QED BY <1>1, <1>4, <1>6, <1>7, <1>8, <1>9, <1>10 DEF Folders

\* The artifact of a source is below its folder, and tells it.
LEMMA FolderPaths ==
    ASSUME NEW d \in Folders, NEW r \in Roots, NEW n \in Names
    PROVE  /\ <<n, "C.json">> \in RelativePaths
           /\ Join(r, d) \o <<n, "C.json">> \in AbsolutePaths
           /\ Last(Join(r, d) \o <<n, "C.json">>) = "C.json"
           /\ d \in RelativePaths => /\ d \o <<n, "C.json">> \in RelativePaths
                                      /\ Join(r, d) \o <<n, "C.json">> = r \o (d \o <<n, "C.json">>)
  <1>1. r \in AbsolutePaths /\ n \in Components \ {"/"} /\ d \in GoodPlaces
    BY NamesApart, FoldersGood
  <1>2. <<n, "C.json">> \in RelativePaths /\ Last(<<n, "C.json">>) = "C.json"
    BY <1>1, LayoutNames, ShortPaths
  <1> DEFINE f == <<n, "C.json">>
  <1>3. Join(r, d) \in AbsolutePaths /\ (d \in RelativePaths => Join(r, d) = r \o d)
    BY <1>1, PlacedPath
  <1>4. ASSUME d \in RelativePaths PROVE d \o f \in RelativePaths /\ Join(r, d) \o f = r \o (d \o f)
    <2> HIDE DEF f
    <2>1. /\ d \in Seq(Components) /\ f \in Seq(Components) /\ r \in Seq(Components)
          /\ d # <<>> /\ Len(d) \in Nat \ {0} /\ Len(f) \in Nat
          /\ \A i \in 1..Len(d) : d[i] # "/"
          /\ \A i \in 1..Len(f) : f[i] # "/"
      BY <1>1, <1>2, <1>4, EmptySeq, AbsoluteTyped DEF RelativePaths, Paths, f
    <2>2. /\ d \o f \in Seq(Components) /\ Len(d \o f) = Len(d) + Len(f)
          /\ \A i \in 1..Len(d) + Len(f) : (d \o f)[i] = IF i <= Len(d) THEN d[i] ELSE f[i - Len(d)]
      BY <2>1, ConcatProperties
    <2>3. ASSUME NEW i \in 1..Len(d) + Len(f) PROVE (d \o f)[i] # "/"
      <3>1. CASE i <= Len(d)
        <4>1. i \in 1..Len(d)
          BY <2>1, <3>1
        <4> QED BY <2>1, <2>2, <3>1, <4>1
      <3>2. CASE ~(i <= Len(d))
        <4>1. i - Len(d) \in 1..Len(f)
          BY <2>1, <3>2
        <4> QED BY <2>1, <2>2, <3>2, <4>1
      <3> QED BY <3>1, <3>2
    <2>4. d \o f # <<>>
      BY <2>1, <2>2, EmptySeq
    <2>5. (r \o d) \o f = r \o (d \o f)
      BY <2>1, ConcatAssociative
    <2> QED BY <1>3, <1>4, <2>2, <2>3, <2>4, <2>5 DEF RelativePaths, Paths
  <1> HIDE DEF f
  <1>5. Join(r, d) \o f \in AbsolutePaths /\ Last(Join(r, d) \o f) = "C.json"
    BY <1>2, <1>3, JoinedRelative DEF f
  <1> QED BY <1>2, <1>4, <1>5 DEF f

\* Artifacts in different folders do not share a path.
LEMMA FoldersApart ==
    ASSUME NEW d \in Folders, NEW e \in Folders, NEW r \in Roots, NEW n \in Names, NEW m \in Names,
           Join(r, d) \o <<n, "C.json">> = Join(r, e) \o <<m, "C.json">>
    PROVE  d = e
  <1>1. d \in GoodPlaces /\ e \in GoodPlaces
    BY FoldersGood
  <1> DEFINE a == Join(r, d)
             b == Join(r, e)
             f == <<n, "C.json">>
             g == <<m, "C.json">>
  <1>2. a \in Seq(Components) /\ b \in Seq(Components) /\ Len(a) \in Nat /\ Len(b) \in Nat
    BY <1>1, PlacedPath, AbsoluteTyped DEF Paths
  <1>3. f \in Seq(Components) /\ g \in Seq(Components) /\ Len(f) = 2 /\ Len(g) = 2
    BY FolderPaths DEF RelativePaths, Paths
  <1>4. a \o f = b \o g
    OBVIOUS
  <1> HIDE DEF a, b, f, g
  <1>5. /\ Len(a \o f) = Len(a) + 2 /\ Len(b \o g) = Len(b) + 2
        /\ \A i \in 1..Len(a) + 2 : (a \o f)[i] = IF i <= Len(a) THEN a[i] ELSE f[i - Len(a)]
        /\ \A i \in 1..Len(b) + 2 : (b \o g)[i] = IF i <= Len(b) THEN b[i] ELSE g[i - Len(b)]
    <2>1. /\ Len(a \o f) = Len(a) + Len(f)
          /\ \A i \in 1..Len(a) + Len(f) : (a \o f)[i] = IF i <= Len(a) THEN a[i] ELSE f[i - Len(a)]
      BY <1>2, <1>3, ConcatProperties
    <2>2. /\ Len(b \o g) = Len(b) + Len(g)
          /\ \A i \in 1..Len(b) + Len(g) : (b \o g)[i] = IF i <= Len(b) THEN b[i] ELSE g[i - Len(b)]
      BY <1>2, <1>3, ConcatProperties
    <2> QED BY <1>3, <2>1, <2>2
  <1>6. Len(a) = Len(b)
    BY <1>2, <1>4, <1>5
  <1>7. ASSUME NEW i \in 1..Len(a) PROVE a[i] = b[i]
    BY <1>2, <1>4, <1>5, <1>6
  <1>8. a = b
    BY <1>2, <1>6, <1>7, SeqEqual
  <1> QED BY <1>1, <1>8, SamePlace DEF a, b

Smaller(f, g) == DOMAIN f \subseteq DOMAIN g /\ \A p \in DOMAIN f : f[p] = g[p]
LEMMA WithoutSmaller == ASSUME NEW f, NEW S PROVE Smaller(Without(f, S), f)
  BY DEF Smaller, Without, Restrict

LEMMA WrittenFile ==
    ASSUME NEW f, NEW g
    PROVE  /\ DOMAIN Written(f, g) = DOMAIN f \cup DOMAIN g
           /\ \A p \in DOMAIN g : Written(f, g)[p] = g[p]
           /\ \A p \in DOMAIN f \ DOMAIN g : Written(f, g)[p] = f[p]
  BY DEF Written

LEMMA OneFile == ASSUME NEW p, NEW x PROVE DOMAIN FileAt(p, x) = {p} /\ FileAt(p, x)[p] = x
  BY DEF FileAt

\* The files of a new project are told apart by their names.
LEMMA FilesStart == ASSUME FilesInit PROVE FilesInv
  <1>1. /\ root \in Roots /\ given \in Givens /\ nbuild = 0 /\ DOMAIN cacheFile = {}
        /\ root \in AbsolutePaths
    <2>1. DOMAIN <<>> = {}
      OBVIOUS
    <2> QED BY <2>1, NamesApart DEF FilesInit
  <1> DEFINE other == root \o OtherFile
             own == {root \o <<"src", n>> : n \in SourceNames}
             source(p) == [kind |-> "source", of |-> Last(p), text |-> 1]
             start == [p \in own \cup Elsewhere |-> source(p)]
             that == FileAt(other, [kind |-> "other", of |-> NoPath, text |-> 0])
  <1>2. disk = Written(start, that)
    BY DEF FilesInit
  <1>3. other \in AbsolutePaths /\ Last(other) \in OutputNames
    <2>1. OtherFile \in RelativePaths
      <3>1. OtherFile \in Paths /\ OtherFile # <<>> /\ "/" \notin ToSet(OtherFile)
        BY FilesAssumption DEF Paths
      <3>2. ASSUME NEW i \in 1..Len(OtherFile) PROVE OtherFile[i] \in ToSet(OtherFile)
        BY <3>1, LenProperties DEF ToSet, Paths
      <3> QED BY <3>1, <3>2 DEF RelativePaths
    <2> QED BY <1>1, <2>1, JoinedRelative DEF OutputNames
  <1>4. ASSUME NEW n \in SourceNames
        PROVE  /\ root \o <<"src", n>> \in AbsolutePaths /\ Last(root \o <<"src", n>>) = n
    <2>1. n \in Components \ {"/"}
      BY NamesApart DEF Names
    <2>2. <<"src", n>> \in RelativePaths /\ Last(<<"src", n>>) = n
      BY <2>1, LayoutNames, ShortPaths
    <2> QED BY <1>1, <2>2, JoinedRelative
  <1>5. /\ \A p \in own : p \in AbsolutePaths /\ Last(p) \in SourceNames
        /\ \A p, q \in own : Last(p) = Last(q) => p = q
    BY <1>4
  <1>6. /\ \A p \in Elsewhere : p \in AbsolutePaths /\ Last(p) \in Names /\ Last(p) \notin SourceNames
        /\ \A p, q \in Elsewhere : Last(p) = Last(q) => p = q
    BY NamesApart, FilesAssumption DEF Names
  <1> DEFINE sources == own \cup Elsewhere
  <1>7. /\ \A p \in sources : p \in AbsolutePaths /\ Last(p) \in Names
        /\ \A p, q \in sources : Last(p) = Last(q) => p = q
    BY <1>5, <1>6 DEF Names
  <1>8. DOMAIN disk = sources \cup {other} /\ disk[other].kind = "other" /\ other \notin sources
        /\ \A p \in sources : disk[p] = source(p)
    <2>1. DOMAIN start = sources /\ \A p \in sources : start[p] = source(p)
      OBVIOUS
    <2>2. other \notin sources
      BY <1>3, <1>7, NamesApart
    <2> HIDE DEF start, other, sources, source
    <2>3. DOMAIN that = {other} /\ that[other].kind = "other"
      <3>1. that[other] = [kind |-> "other", of |-> NoPath, text |-> 0]
        BY OneFile
      <3>2. DOMAIN that = {other}
        BY OneFile
      <3> HIDE DEF that
      <3> QED BY <3>1, <3>2
    <2> HIDE DEF that
    <2> QED BY <1>2, <2>1, <2>2, <2>3, WrittenFile
  <1> HIDE DEF start, other, sources, that
  <1>9. DiskOK
    <2>1. DOMAIN disk \subseteq AbsolutePaths
      BY <1>3, <1>7, <1>8
    <2>2. \A p \in DOMAIN disk : Last(p) \in Names <=> p \in sources
      BY <1>3, <1>7, <1>8, NamesApart
    <2>3. \A p \in DOMAIN disk : Last(p) \in Names \cup OutputNames
      BY <1>3, <1>7, <1>8
    <2>4. \A p \in DOMAIN disk : disk[p].kind = "source" <=> p \in sources
      BY <1>8
    <2>5. \A p \in sources : disk[p] = [kind |-> "source", of |-> Last(p), text |-> disk[p].text]
      BY <1>8
    <2> QED BY <1>1, <1>7, <2>1, <2>2, <2>3, <2>4, <2>5 DEF DiskOK
  <1>10. CacheOK
    BY <1>1 DEF CacheOK
  <1> QED BY <1>9, <1>10 DEF FilesInv

\* Removing files breaks nothing: what the cache names may be missing, but is never
\* something else.
LEMMA FilesRemoved ==
    ASSUME FilesInv, Smaller(disk', disk), Smaller(cacheFile', cacheFile), UNCHANGED <<root, nbuild>>,
           given' \in Givens
    PROVE  FilesInv'
  <1>1. DiskOK'
    BY DEF FilesInv, DiskOK, Smaller
  <1>2. ASSUME NEW c \in DOMAIN cacheFile'
        PROVE  /\ StoredOK(cacheFile[c]) /\ cacheFile'[c] = cacheFile[c]
               /\ InLayout(c, cacheFile[c].paths.artifacts)'
    BY DEF FilesInv, CacheOK, Smaller, InLayout
  <1>3. ASSUME NEW a, NEW e, ArtifactOK(a, e) PROVE ArtifactOK(a, e)'
    BY <1>3 DEF ArtifactOK, Smaller
  <1>4. ASSUME NEW stored, StoredOK(stored) PROVE StoredOK(stored)'
    BY <1>3, <1>4 DEF StoredOK
  <1>5. CacheOK'
    BY <1>2, <1>4 DEF CacheOK
  <1> QED BY <1>1, <1>5 DEF FilesInv

LEMMA SourceEdited == ASSUME FilesInv, NEW p \in ProjectSources, EditSource(p) PROVE FilesInv'
  <1>1. /\ disk' = [disk EXCEPT ![p].text = 2] /\ UNCHANGED <<root, given, cacheFile, nbuild>>
        /\ p \in DOMAIN disk /\ disk[p].kind = "source"
    BY DEF EditSource, ProjectSources
  <1>2. disk[p] = [kind |-> "source", of |-> Last(p), text |-> disk[p].text] /\ Last(p) \in Names
    BY <1>1 DEF FilesInv, DiskOK
  <1>3. /\ DOMAIN disk' = DOMAIN disk
        /\ \A q \in DOMAIN disk : q # p => disk'[q] = disk[q]
        /\ disk'[p] = [kind |-> "source", of |-> Last(p), text |-> 2]
    <2>1. disk'[p] = [disk[p] EXCEPT !.text = 2]
      BY <1>1
    <2> QED BY <1>1, <1>2, <2>1
  <1>4. DiskOK'
    BY <1>1, <1>2, <1>3 DEF FilesInv, DiskOK
  <1>5. ASSUME NEW a, NEW e, ArtifactOK(a, e) PROVE ArtifactOK(a, e)'
    <2>1. a \in DOMAIN disk => a # p
      BY <1>1, <1>5 DEF ArtifactOK
    <2> QED BY <1>3, <1>5, <2>1 DEF ArtifactOK
  <1>6. ASSUME NEW stored, StoredOK(stored) PROVE StoredOK(stored)'
    BY <1>1, <1>5, <1>6 DEF StoredOK
  <1>7. CacheOK'
    BY <1>1, <1>6 DEF FilesInv, CacheOK, InLayout
  <1> QED BY <1>4, <1>7 DEF FilesInv

\* What is below a folder is not below one that is apart from it.
LEMMA ApartBelow ==
    ASSUME NEW d \in Paths, NEW r \in Paths, NEW s \in Paths, ~StartsWith(d, r), ~StartsWith(r, d)
    PROVE  ~StartsWith(d \o s, r)
  <1> SUFFICES ASSUME StartsWith(d \o s, r) PROVE FALSE
    OBVIOUS
  <1> DEFINE p == d \o s
  <1>1. p \in Paths /\ StartsWith(p, d) /\ StartsWith(p, r)
    BY StrippedJoined
  <1> HIDE DEF p
  <1>2. /\ \A i \in 1..Len(d) : d[i] = p[i]
        /\ \A i \in 1..Len(r) : r[i] = p[i]
        /\ Len(d) \in Nat /\ Len(r) \in Nat
    BY <1>1, PrefixElements DEF Paths
  <1>3. CASE Len(d) <= Len(r)
    <2>1. ASSUME NEW i \in 1..Len(d) PROVE d[i] = r[i]
      BY <1>2, <1>3
    <2> QED BY <1>3, <2>1, PrefixElements
  <1>4. CASE Len(r) <= Len(d)
    <2>1. ASSUME NEW i \in 1..Len(r) PROVE r[i] = d[i]
      BY <1>2, <1>4
    <2> QED BY <1>4, <2>1, PrefixElements
  <1> QED BY <1>2, <1>3, <1>4

\* An artifact is moved with the project if its folder is in it, and stays where it is
\* otherwise; nothing else gets to its place.
LEMMA ArtifactMoved ==
    ASSUME root \in Roots, NEW to \in Roots, NEW p \in AbsolutePaths, p # root, ~StartsWith(p, to),
           NEW d \in Folders, NEW n \in Names, Relocated(p, to) = Join(to, d) \o <<n, "C.json">>
    PROVE  p = Join(root, d) \o <<n, "C.json">>
  <1> DEFINE f == <<n, "C.json">>
             s == d \o f
  <1>1. /\ root \in AbsolutePaths /\ to \in AbsolutePaths /\ f \in RelativePaths /\ d \in GoodPlaces
    BY NamesApart, FolderPaths, FoldersGood
  <1>2. /\ StartsWith(p, root) => /\ StartsWith(Relocated(p, to), to)
                                  /\ root \o Stripped(Relocated(p, to), to) = p
        /\ ~StartsWith(p, root) => Relocated(p, to) = p
    BY <1>1, RelocatedPath
  <1>3. CASE d \in RelativePaths
    <2>1. Relocated(p, to) = to \o s /\ Join(root, d) \o f = root \o s /\ s \in RelativePaths
      BY <1>3, FolderPaths
    <2> HIDE DEF s, f
    <2>2. StartsWith(to \o s, to) /\ Stripped(to \o s, to) = s
      BY <1>1, <2>1, StrippedJoined, AbsoluteTyped DEF RelativePaths
    <2> QED BY <1>2, <2>1, <2>2 DEF f
  <1>4. CASE d \notin RelativePaths
    <2>1. /\ Join(to, d) = d /\ Join(root, d) = d /\ d \in AbsolutePaths
          /\ ~StartsWith(d, to) /\ ~StartsWith(to, d)
      BY <1>1, <1>4, PlacedPath
    <2> HIDE DEF f
    <2>2. ~StartsWith(d \o f, to)
      BY <1>1, <2>1, ApartBelow, AbsoluteTyped DEF RelativePaths
    <2> QED BY <1>2, <2>1, <2>2 DEF f
  <1> QED BY <1>3, <1>4

\* A place of a configuration is moved with the project if it is in it.
LEMMA PlaceMoved ==
    ASSUME root \in Roots, NEW to \in Roots, NEW k \in GoodPlaces
    PROVE  Relocated(Join(root, k), to) = Join(to, k)
  <1>1. root \in AbsolutePaths /\ to \in AbsolutePaths
    BY NamesApart
  <1>2. CASE k \in RelativePaths
    <2>1. Join(root, k) = root \o k /\ Join(to, k) = to \o k
      BY <1>2, PlacedPath
    <2>2. StartsWith(root \o k, root) /\ Stripped(root \o k, root) = k
      BY <1>1, <1>2, StrippedJoined, AbsoluteTyped DEF RelativePaths
    <2> QED BY <2>1, <2>2 DEF Relocated
  <1>3. CASE k \notin RelativePaths
    BY <1>3, PlacedPath DEF Relocated
  <1> QED BY <1>2, <1>3

LEMMA ProjectMoved == ASSUME FilesInv, NEW to \in Roots, MoveProject(to) PROVE FilesInv'
  <1>1. /\ root' = to /\ UNCHANGED <<given, nbuild>>
        /\ disk' = MovedTo(disk, to) /\ cacheFile' = MovedTo(cacheFile, to)
    BY DEF MoveProject
  <1>2. /\ Under(to, DOMAIN disk) = {} /\ Under(to, DOMAIN cacheFile) = {}
        /\ \A p \in DOMAIN disk : ~StartsWith(p, to)
    BY DEF MoveProject, Under
  <1>3. /\ root \in AbsolutePaths /\ to \in AbsolutePaths /\ root \notin DOMAIN disk
        /\ DOMAIN disk \subseteq AbsolutePaths
    BY NamesApart DEF FilesInv, DiskOK
  <1>4. /\ DOMAIN disk' = {Relocated(p, to) : p \in DOMAIN disk}
        /\ \A p \in DOMAIN disk : disk'[Relocated(p, to)] = disk[p]
    BY <1>1, <1>2, <1>3, MovedFile
  <1>5. \A p \in DOMAIN disk : Relocated(p, to) \in AbsolutePaths /\ Last(Relocated(p, to)) = Last(p)
    BY <1>3, RelocatedPath
  <1>6. DiskOK'
    <2>1. root' \in Roots /\ given' \in Givens /\ nbuild' \in Nat /\ DOMAIN disk' \subseteq AbsolutePaths
      BY <1>1, <1>4, <1>5 DEF FilesInv, DiskOK
    <2>2. ASSUME NEW q \in DOMAIN disk'
          PROVE  /\ Last(q) \in Names \cup OutputNames
                 /\ disk'[q].kind = "source" <=> Last(q) \in Names
                 /\ Last(q) \in Names => disk'[q] = [kind |-> "source", of |-> Last(q), text |-> disk'[q].text]
      <3>1. PICK p \in DOMAIN disk : q = Relocated(p, to)
        BY <1>4
      <3>2. disk'[q] = disk[p] /\ Last(q) = Last(p)
        BY <1>4, <1>5, <3>1
      <3> QED BY <3>2 DEF FilesInv, DiskOK
    <2>3. ASSUME NEW q \in DOMAIN disk', NEW r \in DOMAIN disk', Last(q) = Last(r), Last(q) \in Names PROVE q = r
      <3>1. PICK p \in DOMAIN disk : q = Relocated(p, to)
        BY <1>4
      <3>2. PICK o \in DOMAIN disk : r = Relocated(o, to)
        BY <1>4
      <3>3. p = o
        BY <1>5, <2>3, <3>1, <3>2 DEF FilesInv, DiskOK
      <3> QED BY <3>1, <3>2, <3>3
    <2> QED BY <2>1, <2>2, <2>3 DEF DiskOK
  <1>7. ASSUME NEW x \in DOMAIN cacheFile'
        PROVE  \E c \in DOMAIN cacheFile :
                  /\ cacheFile'[x] = cacheFile[c]
                  /\ \E g \in Givens : x = Join(to, CacheOf(g)) /\ cacheFile[c].paths.artifacts = FolderOf(g)
    <2>1. ASSUME NEW y \in DOMAIN cacheFile
          PROVE  \E g \in Givens : /\ y = Join(root, CacheOf(g)) /\ Relocated(y, to) = Join(to, CacheOf(g))
                                   /\ cacheFile[y].paths.artifacts = FolderOf(g)
                                   /\ y \in AbsolutePaths /\ y # root
      <3>1. PICK g \in Givens : y = Join(root, CacheOf(g)) /\ cacheFile[y].paths.artifacts = FolderOf(g)
        BY DEF FilesInv, CacheOK, InLayout
      <3>2. root \in Roots /\ CacheOf(g) \in GoodPlaces
        BY GivenPlaces DEF FilesInv, DiskOK
      <3> QED BY <3>1, <3>2, PlaceMoved, PlacedPath
    <2>2. DOMAIN cacheFile \subseteq AbsolutePaths /\ root \notin DOMAIN cacheFile
      BY <2>1
    <2>3. /\ DOMAIN cacheFile' = {Relocated(y, to) : y \in DOMAIN cacheFile}
          /\ \A y \in DOMAIN cacheFile : cacheFile'[Relocated(y, to)] = cacheFile[y]
      BY <1>1, <1>2, <1>3, <2>2, MovedFile
    <2>4. PICK y \in DOMAIN cacheFile : x = Relocated(y, to)
      BY <2>3
    <2> QED BY <2>1, <2>3, <2>4
  <1>8. ASSUME NEW stored, StoredOK(stored), NEW e \in stored.entries,
               NEW a, a = Join(to, stored.paths.artifacts) \o e.artifact
        PROVE  ArtifactOK(a, e)'
    <2> DEFINE d == stored.paths.artifacts
    <2>1. d \in Folders /\ EntryOK(e) /\ ArtifactOK(Join(root, d) \o e.artifact, e)
      BY <1>8 DEF StoredOK
    <2>2. e.artifact = <<Last(e.file), "C.json">> /\ Last(e.file) \in Names
      BY <2>1 DEF EntryOK
    <2>3. ASSUME a \in DOMAIN disk' PROVE disk'[a] = [kind |-> "artifact", of |-> Last(e.file), text |-> e.hash]
      <3>1. PICK p \in DOMAIN disk : a = Relocated(p, to)
        BY <1>4, <2>3
      <3>2. p = Join(root, d) \o e.artifact
        <4> HIDE DEF d
        <4>1. Relocated(p, to) = Join(to, d) \o <<Last(e.file), "C.json">>
          BY <1>8, <2>2, <3>1 DEF d
        <4>2. root \in Roots /\ p \in AbsolutePaths /\ p # root /\ ~StartsWith(p, to)
          BY <1>2, <1>3 DEF FilesInv, DiskOK
        <4> QED BY <2>1, <2>2, <4>1, <4>2, ArtifactMoved
      <3>3. disk'[a] = disk[p]
        BY <1>4, <3>1
      <3> QED BY <2>1, <3>2, <3>3 DEF ArtifactOK
    <2> QED BY <2>3 DEF ArtifactOK
  <1>9. CacheOK'
    <2>1. ASSUME NEW stored, StoredOK(stored) PROVE StoredOK(stored)'
      BY <1>1, <1>8, <2>1 DEF StoredOK
    <2>2. ASSUME NEW x \in DOMAIN cacheFile'
          PROVE  \E kept : cacheFile'[x] = kept /\ StoredOK(kept)' /\ InLayout(x, kept.paths.artifacts)'
      <3>1. PICK c \in DOMAIN cacheFile :
               /\ cacheFile'[x] = cacheFile[c]
               /\ \E g \in Givens : x = Join(to, CacheOf(g)) /\ cacheFile[c].paths.artifacts = FolderOf(g)
        BY <1>7
      <3>2. StoredOK(cacheFile[c])
        BY DEF FilesInv, CacheOK
      <3>3. PICK kept : kept = cacheFile[c]
        OBVIOUS
      <3>4. StoredOK(kept)' /\ cacheFile'[x] = kept
        BY <2>1, <3>1, <3>2, <3>3
      <3>5. InLayout(x, kept.paths.artifacts)'
        BY <1>1, <3>1, <3>3 DEF InLayout
      <3> QED BY <3>4, <3>5
    <2> QED BY <2>2 DEF CacheOK
  <1> QED BY <1>6, <1>9 DEF FilesInv

\* An entry as a build has it in memory.
Shape(e) ==
    /\ e = [file |-> e.file, hash |-> e.hash, artifact |-> ArtifactFile(cfg, e.file), build |-> e.build]
    /\ e.file \in Paths /\ Last(e.file) \in Names

\* What is read from the cache file, with the paths joined, names artifacts that were
\* made for its entries.
LEMMA ReadEntries ==
    ASSUME FilesInv
    PROVE  /\ GetCache(cfg) = [paths |-> PathsRelative(cfg), entries |-> GetCache(cfg).entries,
                               builds |-> GetCache(cfg).builds]
           /\ \A e \in GetCache(cfg).entries : Shape(e) /\ ArtifactOK(e.artifact, e)
  <1> DEFINE stored == cacheFile[cfg.cache]
             used == cfg.cache \in DOMAIN cacheFile /\ stored.paths = PathsRelative(cfg)
             read == JoinArtifactsFiles(JoinEntries(stored.entries, cfg.root), cfg.artifacts)
  <1>1. /\ cfg.root = root /\ root \in AbsolutePaths /\ cfg.artifacts \in AbsolutePaths
        /\ Join(root, PathsRelative(cfg).artifacts) = cfg.artifacts
    BY ConfigPaths DEF FilesInv, DiskOK
  <1>2. CASE ~used
    <2>1. GetCache(cfg) = [paths |-> PathsRelative(cfg), entries |-> {}, builds |-> {}]
      BY <1>2 DEF GetCache, NewCache
    <2> QED BY <2>1
  <1>3. CASE used
    <2>1. /\ StoredOK(stored) /\ stored.paths = PathsRelative(cfg)
          /\ stored = [paths |-> stored.paths, entries |-> stored.entries, builds |-> stored.builds]
      BY <1>3 DEF FilesInv, CacheOK, StoredOK
    <2>2. GetCache(cfg) = [stored EXCEPT !.entries = read]
      BY <1>3 DEF GetCache, ReadJoined
    <2>3. ASSUME NEW e \in read PROVE Shape(e) /\ ArtifactOK(e.artifact, e)
      <3>1. PICK j \in JoinEntries(stored.entries, cfg.root) :
               e = [j EXCEPT !.artifact = Join(cfg.artifacts, j.artifact)]
        BY DEF JoinArtifactsFiles
      <3>2. PICK s \in stored.entries : j = [s EXCEPT !.file = Join(root, s.file)]
        BY <1>1 DEF JoinEntries
      <3>3. EntryOK(s) /\ ArtifactOK(Join(root, stored.paths.artifacts) \o s.artifact, s)
        BY <2>1 DEF StoredOK
      <3> DEFINE n == Last(s.file)
                 a == <<n, "C.json">>
      <3>4. /\ s = [file |-> s.file, hash |-> s.hash, artifact |-> a, build |-> s.build]
            /\ s.file \in Paths \ {<<>>} /\ n \in Names /\ s.artifact = a
        BY <3>3 DEF EntryOK
      <3>5. a \in RelativePaths
        <4>1. n \in Components \ {"/"} /\ "C.json" \in Components \ {"/"}
          BY <3>4, NamesApart, LayoutNames
        <4> HIDE DEF n
        <4> QED BY <4>1, ShortPaths
      <3> HIDE DEF a
      <3>6. j = [file |-> Join(root, s.file), hash |-> s.hash, artifact |-> a, build |-> s.build]
        BY <3>2, <3>4
      <3>7. e = [file |-> Join(root, s.file), hash |-> s.hash, artifact |-> Join(cfg.artifacts, a), build |-> s.build]
        BY <3>1, <3>6
      <3>8. Join(cfg.artifacts, a) = cfg.artifacts \o a
        BY <1>1, <3>5, JoinedRelative
      <3>9. Join(root, s.file) \in Paths /\ Last(Join(root, s.file)) = n
        <4>1. CASE IsAbsolute(s.file)
          BY <3>4, <4>1 DEF Join
        <4>2. CASE ~IsAbsolute(s.file)
          <5>1. Join(root, s.file) = root \o s.file
            BY <4>2 DEF Join
          <5> QED BY <1>1, <3>4, <5>1, LastJoined, StrippedJoined, AbsoluteTyped
        <4> QED BY <4>1, <4>2
      <3>10. Shape(e)
        <4>1. ArtifactFile(cfg, e.file) = cfg.artifacts \o a
          BY <3>7, <3>9 DEF ArtifactFile, a
        <4> HIDE DEF n
        <4> QED BY <3>4, <3>7, <3>8, <3>9, <4>1 DEF Shape
      <3>11. ArtifactOK(e.artifact, e)
        <4>1. e.artifact = Join(root, stored.paths.artifacts) \o s.artifact
          BY <1>1, <2>1, <3>4, <3>7, <3>8
        <4>2. Last(e.file) = Last(s.file) /\ e.hash = s.hash
          BY <3>7, <3>9
        <4> QED BY <3>3, <4>1, <4>2 DEF ArtifactOK
      <3> QED BY <3>10, <3>11
    <2> HIDE DEF read, stored
    <2>4. /\ [stored EXCEPT !.entries = read].entries = read
          /\ [stored EXCEPT !.entries = read] = [paths |-> stored.paths, entries |-> read, builds |-> stored.builds]
      BY <2>1
    <2> QED BY <2>1, <2>2, <2>3, <2>4
  <1> QED BY <1>2, <1>3

\* The cache file names its own files.
LEMMA OwnFiles == ASSUME FilesInv PROVE CacheNamesOwnFiles
  <1> DEFINE c == GetCache(cfg)
  <1>1. /\ c = [paths |-> PathsRelative(cfg), entries |-> c.entries, builds |-> c.builds]
        /\ \A e \in c.entries : Shape(e) /\ ArtifactOK(e.artifact, e)
    BY ReadEntries
  <1>2. RemoveMissingFiles(c).entries = {e \in c.entries : e.file \in DOMAIN disk}
    BY <1>1 DEF RemoveMissingFiles
  <1> HIDE DEF c
  <1>3. ASSUME NEW e \in c.entries, e.file \in DOMAIN disk
        PROVE  /\ disk[e.file].kind = "source"
               /\ e.artifact \in DOMAIN disk =>
                    disk[e.artifact] = [kind |-> "artifact", of |-> disk[e.file].of, text |-> e.hash]
    <2>1. Last(e.file) \in Names /\ ArtifactOK(e.artifact, e)
      BY <1>1 DEF Shape
    <2>2. disk[e.file].kind = "source" /\ disk[e.file].of = Last(e.file)
      BY <1>3, <2>1 DEF FilesInv, DiskOK
    <2> QED BY <2>1, <2>2 DEF ArtifactOK
  <1> QED BY <1>2, <1>3 DEF CacheNamesOwnFiles, c

LEMMA EntryFields ==
    ASSUME NEW p, NEW h, NEW a, NEW b, NEW q
    PROVE  /\ [[file |-> p, hash |-> h, artifact |-> a, build |-> b] EXCEPT !.file = q]
                = [file |-> q, hash |-> h, artifact |-> a, build |-> b]
           /\ [[file |-> p, hash |-> h, artifact |-> a, build |-> b] EXCEPT !.artifact = q]
                = [file |-> p, hash |-> h, artifact |-> q, build |-> b]
  OBVIOUS

\* What an entry becomes in the cache file.
LEMMA StoredEntry ==
    ASSUME root \in Roots, given \in Givens, NEW e, Shape(e), e.file \in AbsolutePaths, NEW f, NEW x,
           f = [e EXCEPT !.file = StripPrefix(e.file, root)],
           x = [f EXCEPT !.artifact = StripPrefix(f.artifact, cfg.artifacts)]
    PROVE  EntryOK(x) /\ Last(x.file) = Last(e.file) /\ x.hash = e.hash /\ x.artifact = <<Last(e.file), "C.json">>
  <1> DEFINE n == Last(e.file)
             a == <<n, "C.json">>
  <1>1. /\ root \in AbsolutePaths /\ cfg.artifacts \in AbsolutePaths
    BY ConfigPaths
  <1>2. e = [file |-> e.file, hash |-> e.hash, artifact |-> cfg.artifacts \o a, build |-> e.build] /\ n \in Names
    BY DEF Shape, ArtifactFile
  <1>3. a \in RelativePaths
    <2>1. n \in Components \ {"/"} /\ "C.json" \in Components \ {"/"}
      BY <1>2, NamesApart, LayoutNames
    <2> HIDE DEF n
    <2> QED BY <2>1, ShortPaths
  <1> HIDE DEF a, n
  <1>4. StripPrefix(cfg.artifacts \o a, cfg.artifacts) = a
    BY <1>1, <1>3, JoinedRelative
  <1>5. e.file # root
    BY <1>2, NamesApart DEF n
  <1>6. StripPrefix(e.file, root) \in Paths \ {<<>>} /\ Last(StripPrefix(e.file, root)) = n
    BY <1>1, <1>5, StripJoin DEF n
  <1> DEFINE p == StripPrefix(e.file, root)
             h == e.hash
             b == e.build
  <1>7. f = [file |-> p, hash |-> h, artifact |-> cfg.artifacts \o a, build |-> b]
    <2>1. e = [file |-> e.file, hash |-> h, artifact |-> cfg.artifacts \o a, build |-> b]
      BY <1>2
    <2>2. f = [[file |-> e.file, hash |-> h, artifact |-> cfg.artifacts \o a, build |-> b] EXCEPT !.file = p]
      BY <2>1
    <2> HIDE DEF p, h, b
    <2> QED BY <2>2, EntryFields
  <1>8. x = [file |-> p, hash |-> h, artifact |-> a, build |-> b]
    <2> HIDE DEF p, h, b
    <2>1. f.artifact = cfg.artifacts \o a
      BY <1>7
    <2>2. x = [f EXCEPT !.artifact = a]
      BY <1>4, <2>1
    <2>3. x = [[file |-> p, hash |-> h, artifact |-> cfg.artifacts \o a, build |-> b] EXCEPT !.artifact = a]
      BY <1>7, <2>2
    <2> QED BY <2>3, EntryFields
  <1>9. p \in Paths \ {<<>>} /\ Last(p) = n /\ n = Last(e.file) /\ h = e.hash /\ a = <<n, "C.json">>
    BY <1>6 DEF a, n
  <1> HIDE DEF p, h, b
  <1>10. x.file = p /\ x.hash = h /\ x.artifact = a /\ x.build = b
    BY ONLY <1>8
  <1> QED BY <1>2, <1>8, <1>9, <1>10 DEF EntryOK

\* Artifacts of different sources do not share a path.
LEMMA ArtifactPath ==
    ASSUME root \in Roots, given \in Givens, NEW f, NEW g, Last(f) \in Names, Last(g) \in Names
    PROVE  /\ ArtifactFile(cfg, f) \in AbsolutePaths /\ Last(ArtifactFile(cfg, f)) = "C.json"
           /\ ArtifactFile(cfg, f) = ArtifactFile(cfg, g) => Last(f) = Last(g)
           /\ ArtifactFile(cfg, f) = Join(root, PathsRelative(cfg).artifacts) \o <<Last(f), "C.json">>
  <1>1. cfg.artifacts \in AbsolutePaths /\ Join(root, PathsRelative(cfg).artifacts) = cfg.artifacts
    BY ConfigPaths
  <1> DEFINE a(n) == <<n, "C.json">>
  <1>2. ASSUME NEW n \in Names
        PROVE  a(n) \in RelativePaths /\ Last(a(n)) = "C.json" /\ a(n)[1] = n
    <2>1. n \in Components \ {"/"} /\ "C.json" \in Components \ {"/"}
      BY NamesApart, LayoutNames
    <2> QED BY <2>1, ShortPaths
  <1>3. ArtifactFile(cfg, f) = cfg.artifacts \o a(Last(f)) /\ ArtifactFile(cfg, g) = cfg.artifacts \o a(Last(g))
    BY DEF ArtifactFile
  <1>4. Join(root, PathsRelative(cfg).artifacts) \o <<Last(f), "C.json">> = cfg.artifacts \o a(Last(f))
    BY <1>1
  <1> HIDE DEF a
  <1>5. ASSUME NEW n \in Names
        PROVE  /\ cfg.artifacts \o a(n) \in AbsolutePaths /\ Last(cfg.artifacts \o a(n)) = "C.json"
               /\ Stripped(cfg.artifacts \o a(n), cfg.artifacts) = a(n)
    BY <1>1, <1>2, JoinedRelative, StrippedJoined, AbsoluteTyped DEF RelativePaths
  <1> QED BY <1>2, <1>3, <1>4, <1>5

LEMMA OutputPaths ==
    ASSUME root \in Roots, given \in Givens, NEW b \in ToSet(BuildIds)
    PROVE  /\ cfg.cache \in AbsolutePaths /\ Last(cfg.cache) \in OutputNames /\ Last(cfg.cache) # "C.json"
           /\ BuildInfoFile(cfg.build_infos, b) \in AbsolutePaths /\ Last(BuildInfoFile(cfg.build_infos, b)) = b
           /\ b \in OutputNames /\ b # "C.json"
  <1>1. root \in AbsolutePaths /\ cfg.cache = Join(root, CacheOf(given)) /\ cfg.build_infos \in AbsolutePaths
    BY ConfigPaths
  <1>2. b \in Components \ {"/"} /\ b \in OutputNames /\ b # "C.json"
    BY NamesApart, FilesAssumption DEF OutputNames
  <1>3. cfg.cache \in AbsolutePaths /\ Last(cfg.cache) \in OutputNames /\ Last(cfg.cache) # "C.json"
    BY <1>1, GivenPlaces, PlacedPath
  <1>4. BuildInfoFile(cfg.build_infos, b) \in AbsolutePaths /\ Last(BuildInfoFile(cfg.build_infos, b)) = b
    <2>1. BuildInfoFile(cfg.build_infos, b) = cfg.build_infos \o <<b>> /\ <<b>> \in RelativePaths /\ Last(<<b>>) = b
      BY <1>1, <1>2, ShortPaths, AbsoluteTyped DEF BuildInfoFile
    <2> QED BY <1>1, <2>1, JoinedRelative
  <1> QED BY <1>2, <1>3, <1>4

LEMMA CacheFields ==
    ASSUME NEW ps, NEW es, NEW bs, NEW x, NEW y, NEW c, c = [paths |-> ps, entries |-> es, builds |-> bs],
           NEW d, d = [c EXCEPT !.entries = x, !.builds = y]
    PROVE  d = [paths |-> ps, entries |-> x, builds |-> y]
  OBVIOUS

LEMMA ProjectCompiled ==
    ASSUME FilesInv, NEW S \in SUBSET ProjectSources, CompileProject(S)
    PROVE  FilesInv'
  <1> DEFINE read == GetCache(cfg)
             old == RemoveMissingFiles(read)
             clean == {e.file : e \in {x \in old.entries : x.hash = disk[x.file].text}}
             todo == S \cup (ProjectSources \ clean)
             b == BuildIds[nbuild + 1]
             entry(f) == [file |-> f, hash |-> disk[f].text, artifact |-> ArtifactFile(cfg, f), build |-> b]
             made == {entry(f) : f \in todo}
             all == {e \in old.entries : e.file \notin todo} \cup made
             new == [old EXCEPT !.entries = all, !.builds = @ \cup {b}]
             kept == [new EXCEPT !.builds = @ \ Outdated(new)]
             out == [p \in {e.artifact : e \in made} |->
                       [disk[(CHOOSE e \in made : e.artifact = p).file] EXCEPT !.kind = "artifact"]]
             info == FileAt(BuildInfoFile(cfg.build_infos, b), [kind |-> "info", of |-> b, text |-> 0])
             cached == FileAt(cfg.cache, [kind |-> "cache", of |-> NoPath, text |-> 0])
             entries == StripArtifactFilesPrefixes(StripEntriesPrefix(all, cfg.root), cfg.artifacts)
             written == Written(Written(cached, info), out)
  <1>1. /\ root \in Roots /\ given \in Givens /\ nbuild \in Nat
        /\ cfg.root = root /\ root \in AbsolutePaths /\ cfg.cache = Join(root, CacheOf(given))
        /\ PathsRelative(cfg).artifacts = FolderOf(given) /\ PathsRelative(cfg).artifacts \in Folders
    BY ConfigPaths DEF FilesInv, DiskOK
  <1>2. /\ read = [paths |-> PathsRelative(cfg), entries |-> read.entries, builds |-> read.builds]
        /\ \A e \in read.entries : Shape(e) /\ ArtifactOK(e.artifact, e)
    BY ReadEntries
  <1>3. old = [paths |-> PathsRelative(cfg), entries |-> {e \in read.entries : e.file \in DOMAIN disk},
               builds |-> read.builds]
    <2> HIDE DEF read
    <2> QED BY <1>2 DEF RemoveMissingFiles
  <1> DEFINE dropped == RemovedInfos(new)
  <1>4. /\ nbuild < Len(BuildIds) /\ nbuild' = nbuild + 1 /\ UNCHANGED <<root, given>>
        /\ disk' = Without(Written(disk, written), dropped)
        /\ \E stored : /\ cacheFile' = Written(cacheFile, FileAt(cfg.cache, stored))
                       /\ stored = [kept EXCEPT !.entries = StripArtifactFilesPrefixes(StripEntriesPrefix(@, cfg.root), cfg.artifacts)]
    BY DEF CompileProject
  <1>5. PICK stored : /\ cacheFile' = Written(cacheFile, FileAt(cfg.cache, stored))
                      /\ stored = [kept EXCEPT !.entries = StripArtifactFilesPrefixes(StripEntriesPrefix(@, cfg.root), cfg.artifacts)]
    BY <1>4
  <1>6. b \in ToSet(BuildIds)
    <2>1. BuildIds \in Seq(Components \ {"/"})
      BY FilesAssumption
    <2>2. DOMAIN BuildIds = 1..Len(BuildIds) /\ Len(BuildIds) \in Nat
      BY <2>1, LenProperties
    <2>3. nbuild < Len(BuildIds)
      BY <1>4
    <2>4. nbuild + 1 \in DOMAIN BuildIds
      BY ONLY <1>1, <2>2, <2>3
    <2> QED BY <2>4 DEF ToSet
  <1>7. stored = [paths |-> PathsRelative(cfg), entries |-> entries, builds |-> stored.builds]
    <2> HIDE DEF read
    <2>1. new = [paths |-> PathsRelative(cfg), entries |-> all, builds |-> old.builds \cup {b}]
      <3> DEFINE es == {e \in read.entries : e.file \in DOMAIN disk}
                 bs == read.builds
                 ps == PathsRelative(cfg)
      <3>1. old = [paths |-> ps, entries |-> es, builds |-> bs]
        BY <1>3
      <3> HIDE DEF old, b, all, es, bs, ps
      <3>2. old.builds = bs
        BY <3>1
      <3>3. new = [old EXCEPT !.entries = all, !.builds = bs \cup {b}]
        BY <3>1
      <3> HIDE DEF new
      <3>4. new = [paths |-> ps, entries |-> all, builds |-> bs \cup {b}]
        BY <3>1, <3>3, CacheFields
      <3> QED BY <3>2, <3>4 DEF ps
    <2> HIDE DEF new, all
    <2>2. kept = [paths |-> PathsRelative(cfg), entries |-> all, builds |-> kept.builds]
      BY <2>1
    <2> HIDE DEF kept
    <2> QED BY <1>5, <2>2
  <1>8. todo \subseteq ProjectSources
    OBVIOUS
  <1> HIDE DEF new, kept, dropped, clean, b, todo
  <1>9. /\ \A f \in todo : /\ f \in DOMAIN disk /\ f \in AbsolutePaths /\ f \in Paths /\ Last(f) \in Names
                           /\ disk[f] = [kind |-> "source", of |-> Last(f), text |-> disk[f].text]
        /\ \A f, g \in todo : Last(f) = Last(g) => f = g
    BY <1>8, AbsoluteTyped DEF FilesInv, DiskOK, ProjectSources
  <1>10. ASSUME NEW e \in all
         PROVE  /\ Shape(e) /\ e.file \in DOMAIN disk /\ e.file \in AbsolutePaths
                /\ \/ e.file \in todo /\ e.hash = disk[e.file].text
                   \/ e.file \notin todo /\ ArtifactOK(e.artifact, e)
    <2>1. CASE e \in made
      <3>1. PICK f \in todo : e = entry(f)
        BY <2>1
      <3>2. e.file = f /\ e.hash = disk[f].text /\ e = [file |-> e.file, hash |-> e.hash, artifact |-> ArtifactFile(cfg, e.file), build |-> e.build]
        BY <3>1
      <3> HIDE DEF entry
      <3> QED BY <1>9, <3>2 DEF Shape
    <2>2. CASE e \notin made
      <3>1. e \in old.entries /\ e.file \notin todo
        BY <2>2
      <3> HIDE DEF old, read
      <3>2. e \in read.entries /\ e.file \in DOMAIN disk
        BY <1>3, <3>1
      <3> QED BY <1>2, <3>1, <3>2 DEF FilesInv, DiskOK
    <2> QED BY <2>1, <2>2
  <1>11. /\ DOMAIN out = {ArtifactFile(cfg, f) : f \in todo}
         /\ \A f \in todo : out[ArtifactFile(cfg, f)] = [kind |-> "artifact", of |-> Last(f), text |-> disk[f].text]
    <2>1. /\ \A e \in made : e = entry(e.file) /\ e.file \in todo /\ e.artifact = ArtifactFile(cfg, e.file)
          /\ \A f \in todo : entry(f) \in made /\ entry(f).artifact = ArtifactFile(cfg, f)
      OBVIOUS
    <2>2. DOMAIN out = {e.artifact : e \in made}
      OBVIOUS
    <2>3. ASSUME NEW f \in todo
          PROVE  out[ArtifactFile(cfg, f)] = [kind |-> "artifact", of |-> Last(f), text |-> disk[f].text]
      <3> DEFINE p == ArtifactFile(cfg, f)
                 some == CHOOSE e \in made : e.artifact = p
      <3>1. some \in made /\ some.artifact = p
        <4> HIDE DEF made, p
        <4> QED BY <2>1 DEF p
      <3>2. some.file \in todo /\ ArtifactFile(cfg, some.file) = p
        <4> HIDE DEF made, p, some
        <4> QED BY <2>1, <3>1
      <3>3. some.file = f
        <4> HIDE DEF some
        <4> QED BY <1>1, <1>9, <3>2, ArtifactPath
      <3>4. out[p] = [disk[some.file] EXCEPT !.kind = "artifact"]
        <4> HIDE DEF made
        <4> QED BY <2>1, <2>2
      <3> HIDE DEF some, p, out, made
      <3>5. disk[f] = [kind |-> "source", of |-> Last(f), text |-> disk[f].text]
        BY <1>9
      <3>6. out[p] = [disk[f] EXCEPT !.kind = "artifact"]
        BY <3>3, <3>4
      <3> QED BY <3>5, <3>6 DEF p
    <2> HIDE DEF out, made
    <2> HIDE DEF entry
    <2>4. {e.artifact : e \in made} = {ArtifactFile(cfg, f) : f \in todo}
      BY <2>1
    <2> QED BY <2>2, <2>3, <2>4
  <1> HIDE DEF out, made
  \* What is written besides is not named like a source or an artifact.
  <1> DEFINE at == BuildInfoFile(cfg.build_infos, b)
             others == Written(cached, info)
  <1>12. /\ \A q \in DOMAIN out : /\ q \in AbsolutePaths /\ Last(q) = "C.json" /\ out[q].kind = "artifact"
         /\ \A q \in DOMAIN others : /\ q \in AbsolutePaths /\ Last(q) \in OutputNames /\ Last(q) # "C.json"
                                     /\ others[q].kind \in {"info", "cache"}
    <2>1. ASSUME NEW q \in DOMAIN out PROVE q \in AbsolutePaths /\ Last(q) = "C.json" /\ out[q].kind = "artifact"
      <3>1. PICK f \in todo : q = ArtifactFile(cfg, f)
        BY <1>11
      <3>2. out[q] = [kind |-> "artifact", of |-> Last(f), text |-> disk[f].text] /\ Last(f) \in Names
        BY <1>9, <1>11, <3>1
      <3>3. out[q].kind = "artifact"
        BY <3>2
      <3> QED BY <1>1, <3>1, <3>2, <3>3, ArtifactPath
    <2>2. /\ DOMAIN info = {at} /\ info[at] = [kind |-> "info", of |-> b, text |-> 0]
          /\ DOMAIN cached = {cfg.cache} /\ cached[cfg.cache] = [kind |-> "cache", of |-> NoPath, text |-> 0]
      BY OneFile
    <2> HIDE DEF info, cached
    <2>3. /\ DOMAIN others = {cfg.cache, at} /\ others[at] = info[at]
          /\ cfg.cache # at => others[cfg.cache] = cached[cfg.cache]
      BY <2>2 DEF Written
    <2>4. others[at].kind = "info" /\ (cfg.cache # at => others[cfg.cache].kind = "cache")
      <3> HIDE DEF others, at
      <3>1. others[at] = [kind |-> "info", of |-> b, text |-> 0]
        BY <2>2, <2>3
      <3>2. others[at].kind = "info"
        BY <3>1
      <3>3. ASSUME cfg.cache # at PROVE others[cfg.cache].kind = "cache"
        <4>1. others[cfg.cache] = [kind |-> "cache", of |-> NoPath, text |-> 0]
          BY <2>2, <2>3, <3>3
        <4> QED BY <4>1
      <3> QED BY <3>2, <3>3
    <2> HIDE DEF others, at
    <2>5. /\ cfg.cache \in AbsolutePaths /\ Last(cfg.cache) \in OutputNames /\ Last(cfg.cache) # "C.json"
          /\ at \in AbsolutePaths /\ Last(at) \in OutputNames /\ Last(at) # "C.json"
      BY <1>1, <1>6, OutputPaths, LayoutNames DEF OutputNames, at
    <2>6. ASSUME NEW q \in DOMAIN others
          PROVE  /\ q \in AbsolutePaths /\ Last(q) \in OutputNames /\ Last(q) # "C.json"
                 /\ others[q].kind \in {"info", "cache"}
      <3>1. CASE q = at
        BY <2>4, <2>5, <3>1
      <3>2. CASE q # at
        <4>1. q = cfg.cache /\ cfg.cache # at
          BY <2>3, <3>2
        <4> QED BY <2>4, <2>5, <4>1
      <3> QED BY <3>1, <3>2
    <2> QED BY <2>1, <2>6
  <1> HIDE DEF others, info, cached
  <1>13. ASSUME NEW q \in DOMAIN disk'
         PROVE  \/ q \in DOMAIN out /\ disk'[q] = out[q]
                \/ q \in DOMAIN others \ DOMAIN out /\ disk'[q] = others[q]
                \/ q \in DOMAIN disk \ (DOMAIN out \cup DOMAIN others) /\ disk'[q] = disk[q]
    <2>1. written = Written(others, out)
      BY DEF others
    <2> HIDE DEF written
    <2>2. /\ DOMAIN written = DOMAIN others \cup DOMAIN out
          /\ \A p \in DOMAIN out : written[p] = out[p]
          /\ \A p \in DOMAIN others \ DOMAIN out : written[p] = others[p]
      BY <2>1 DEF Written
    <2> DEFINE full == Written(disk, written)
    <2>3. /\ DOMAIN full = DOMAIN disk \cup DOMAIN written
          /\ \A p \in DOMAIN written : full[p] = written[p]
          /\ \A p \in DOMAIN disk \ DOMAIN written : full[p] = disk[p]
      BY WrittenFile
    <2>4. disk' = Without(full, dropped)
      BY <1>4
    <2> HIDE DEF full
    <2>5. q \in DOMAIN full /\ disk'[q] = full[q]
      BY <2>4, WithoutSmaller DEF Smaller
    <2> QED BY <2>2, <2>3, <2>5
  <1>14. DiskOK'
    <2>1. Names \cap OutputNames = {}
      BY NamesApart
    <2>2. ASSUME NEW q \in DOMAIN disk'
          PROVE  /\ q \in AbsolutePaths /\ Last(q) \in Names \cup OutputNames
                 /\ disk'[q].kind = "source" <=> Last(q) \in Names
                 /\ Last(q) \in Names => q \in DOMAIN disk /\ disk'[q] = disk[q]
      <3>1. CASE q \in DOMAIN out /\ disk'[q] = out[q]
        <4>1. q \in AbsolutePaths /\ Last(q) = "C.json" /\ disk'[q].kind = "artifact" /\ "C.json" \in OutputNames
          BY <1>12, <3>1 DEF OutputNames
        <4> QED BY <2>1, <4>1
      <3>2. CASE q \in DOMAIN others \ DOMAIN out /\ disk'[q] = others[q]
        <4>1. q \in AbsolutePaths /\ Last(q) \in OutputNames /\ disk'[q].kind \in {"info", "cache"}
          BY <1>12, <3>2
        <4> QED BY <2>1, <4>1
      <3>3. CASE q \in DOMAIN disk \ (DOMAIN out \cup DOMAIN others) /\ disk'[q] = disk[q]
        BY <3>3 DEF FilesInv, DiskOK
      <3> QED BY <1>13, <3>1, <3>2, <3>3
    <2>3. root' \in Roots /\ given' \in Givens /\ nbuild' \in Nat
      BY <1>1, <1>4
    <2>4. ASSUME NEW q \in DOMAIN disk', Last(q) \in Names
          PROVE  disk'[q] = [kind |-> "source", of |-> Last(q), text |-> disk'[q].text]
      BY <2>2, <2>4 DEF FilesInv, DiskOK
    <2>5. ASSUME NEW p \in DOMAIN disk', NEW q \in DOMAIN disk', Last(p) = Last(q), Last(p) \in Names PROVE p = q
      BY <2>2, <2>5 DEF FilesInv, DiskOK
    <2> QED BY <2>2, <2>3, <2>4, <2>5 DEF DiskOK
  \* The artifact of an entry is the one this build made, or the one it had.
  <1>15. ASSUME NEW e \in all, NEW a, a = e.artifact PROVE ArtifactOK(a, e)'
    <2>1. /\ Shape(e) /\ e.file \in DOMAIN disk /\ e.file \in AbsolutePaths
          /\ a = ArtifactFile(cfg, e.file) /\ Last(e.file) \in Names
      BY <1>10, <1>15 DEF Shape
    <2>2. Last(a) = "C.json"
      BY <1>1, <2>1, ArtifactPath
    <2>3. ASSUME a \in DOMAIN disk'
          PROVE  disk'[a] = [kind |-> "artifact", of |-> Last(e.file), text |-> e.hash]
      <3>1. a \notin DOMAIN others
        BY <1>12, <2>2
      <3>2. CASE a \in DOMAIN out /\ disk'[a] = out[a]
        <4>1. PICK f \in todo : a = ArtifactFile(cfg, f)
          BY <1>11, <3>2
        <4>2. Last(f) \in Names /\ Last(f) = Last(e.file) /\ f \in DOMAIN disk
          BY <1>1, <1>9, <2>1, <4>1, ArtifactPath
        <4>3. e.file = f
          BY <2>1, <4>2 DEF FilesInv, DiskOK
        <4>4. e.hash = disk[f].text
          BY <1>10, <4>3
        <4> QED BY <1>11, <3>2, <4>1, <4>2, <4>4
      <3>3. CASE a \in DOMAIN disk \ (DOMAIN out \cup DOMAIN others) /\ disk'[a] = disk[a]
        <4>1. e.file \notin todo
          BY <1>11, <2>1, <3>3
        <4>2. ArtifactOK(a, e)
          BY <1>10, <1>15, <4>1
        <4> QED BY <3>3, <4>2 DEF ArtifactOK
      <3> QED BY <1>13, <2>3, <3>1, <3>2, <3>3
    <2> QED BY <2>3 DEF ArtifactOK
  <1>16. ASSUME NEW x \in entries, NEW a, a = Join(root, PathsRelative(cfg).artifacts) \o x.artifact
         PROVE  EntryOK(x) /\ ArtifactOK(a, x)'
    <2> HIDE DEF all
    <2>1. PICK f \in StripEntriesPrefix(all, cfg.root) : x = [f EXCEPT !.artifact = StripPrefix(f.artifact, cfg.artifacts)]
      BY DEF StripArtifactFilesPrefixes
    <2>2. PICK e \in all : f = [e EXCEPT !.file = StripPrefix(e.file, root)]
      BY <1>1 DEF StripEntriesPrefix
    <2>3. Shape(e) /\ e.file \in AbsolutePaths
      BY <1>10, <2>2
    <2>4. EntryOK(x) /\ Last(x.file) = Last(e.file) /\ x.hash = e.hash /\ x.artifact = <<Last(e.file), "C.json">>
      <3>1. root \in Roots /\ given \in Givens
        BY <1>1
      <3> QED BY <2>1, <2>2, <2>3, <3>1, StoredEntry
    <2>5. a = e.artifact
      <3>1. e.artifact = ArtifactFile(cfg, e.file) /\ Last(e.file) \in Names
        BY <2>3 DEF Shape
      <3> QED BY <1>1, <1>16, <2>4, <3>1, ArtifactPath
    <2>6. ArtifactOK(a, e)'
      BY <1>15, <2>2, <2>5
    <2> QED BY <2>4, <2>6 DEF ArtifactOK
  <1> HIDE DEF entries
  \* Artifacts in other folders are left as they are.
  <1>17. ASSUME NEW other, StoredOK(other), other.paths.artifacts # FolderOf(given)
         PROVE  StoredOK(other)'
    <2> DEFINE d == other.paths.artifacts
    <2>1. d \in Folders
      BY <1>17 DEF StoredOK
    <2>2. ASSUME NEW e \in other.entries, NEW a, a = Join(root, d) \o e.artifact
          PROVE  EntryOK(e) /\ ArtifactOK(a, e)'
      <3>1. EntryOK(e) /\ ArtifactOK(a, e)
        BY <1>17, <2>2 DEF StoredOK
      <3>2. e.artifact = <<Last(e.file), "C.json">> /\ Last(e.file) \in Names
        BY <3>1 DEF EntryOK
      <3>3. Last(a) = "C.json"
        BY <1>1, <2>1, <2>2, <3>2, FolderPaths
      <3>4. a \notin DOMAIN others
        BY <1>12, <3>3
      <3>5. a \notin DOMAIN out
        <4>1. SUFFICES ASSUME NEW f \in todo, a = ArtifactFile(cfg, f) PROVE FALSE
          BY <1>11
        <4>2. Last(f) \in Names
          BY <1>9
        <4> DEFINE w == PathsRelative(cfg).artifacts
        <4>3. a = Join(root, w) \o <<Last(f), "C.json">> /\ w \in Folders /\ w # d
          BY <1>1, <1>17, <4>1, <4>2, ArtifactPath
        <4> DEFINE n == Last(e.file)
                   m == Last(f)
        <4>4. n \in Names /\ m \in Names /\ root \in Roots
          BY <1>1, <3>2, <4>2
        <4>5. Join(root, d) \o <<n, "C.json">> = Join(root, w) \o <<m, "C.json">>
          BY <2>2, <3>2, <4>3
        <4> HIDE DEF w, d, n, m
        <4>6. d = w
          BY <2>1, <4>3, <4>4, <4>5, FoldersApart
        <4> QED BY <4>3, <4>6
      <3>6. a \in DOMAIN disk' => a \in DOMAIN disk /\ disk'[a] = disk[a]
        BY <1>13, <3>4, <3>5
      <3> QED BY <3>1, <3>6 DEF ArtifactOK
    <2> HIDE DEF d
    <2> QED BY <1>4, <1>17, <2>1, <2>2 DEF StoredOK, d
  <1>18. CacheOK'
    <2>1. StoredOK(stored)'
      <3> DEFINE d == PathsRelative(cfg).artifacts
      <3>1. stored.paths.artifacts = d /\ stored.entries = entries /\ d \in Folders /\ root' = root
        BY <1>1, <1>4, <1>7
      <3>2. stored = [paths |-> stored.paths, entries |-> stored.entries, builds |-> stored.builds]
        BY <1>7
      <3>3. ASSUME NEW x \in stored.entries, NEW a, a = Join(root, stored.paths.artifacts) \o x.artifact
            PROVE  EntryOK(x) /\ ArtifactOK(a, x)'
        BY <1>16, <3>1, <3>3
      <3> HIDE DEF d
      <3> QED BY <3>1, <3>2, <3>3 DEF StoredOK
    <2>2. ASSUME NEW x \in DOMAIN cacheFile'
          PROVE  \E is : cacheFile'[x] = is /\ StoredOK(is)' /\ InLayout(x, is.paths.artifacts)'
      <3>1. /\ cfg.cache \in DOMAIN cacheFile' /\ cacheFile'[cfg.cache] = stored
            /\ x # cfg.cache => x \in DOMAIN cacheFile /\ cacheFile'[x] = cacheFile[x]
        <4>1. DOMAIN FileAt(cfg.cache, stored) = {cfg.cache} /\ FileAt(cfg.cache, stored)[cfg.cache] = stored
          BY OneFile
        <4> QED BY <1>5, <4>1 DEF Written
      <3>2. CASE x = cfg.cache
        <4>1. given \in Givens /\ x = Join(root, CacheOf(given)) /\ stored.paths.artifacts = FolderOf(given)
          BY <1>1, <1>7, <3>2
        <4>2. InLayout(x, stored.paths.artifacts)'
          BY <1>4, <4>1 DEF InLayout
        <4> QED BY <2>1, <3>1, <3>2, <4>2
      <3>3. CASE x # cfg.cache
        <4>1. PICK is : is = cacheFile[x]
          OBVIOUS
        <4>2. StoredOK(is) /\ InLayout(x, is.paths.artifacts)
          BY <3>1, <3>3, <4>1 DEF FilesInv, CacheOK
        <4>3. PICK g \in Givens : x = Join(root, CacheOf(g)) /\ is.paths.artifacts = FolderOf(g)
          BY <4>2 DEF InLayout
        <4>4. is.paths.artifacts # FolderOf(given)
          <5>1. FolderOf(g) = FolderOf(given) => CacheOf(g) = CacheOf(given)
            BY <1>1, FilesAssumption
          <5> QED BY <1>1, <3>3, <4>3, <5>1
        <4>5. InLayout(x, is.paths.artifacts)'
          BY <1>4, <4>3 DEF InLayout
        <4>6. StoredOK(is)'
          BY <1>17, <4>2, <4>4
        <4> QED BY <3>1, <3>3, <4>1, <4>5, <4>6
      <3> QED BY <3>2, <3>3
    <2> QED BY <2>2 DEF CacheOK
  <1> QED BY <1>14, <1>18 DEF FilesInv

LEMMA FilesStep == ASSUME FilesInv, [FilesNext]_filesVars PROVE FilesInv'
  <1>1. /\ root \in Roots /\ given \in Givens /\ nbuild \in Nat
        /\ Smaller(disk, disk) /\ Smaller(cacheFile, cacheFile)
    BY DEF FilesInv, DiskOK, Smaller
  <1>2. CASE \E S \in SUBSET ProjectSources : CompileProject(S)
    BY <1>2, ProjectCompiled
  <1>3. CASE \E to \in Roots : MoveProject(to)
    BY <1>3, ProjectMoved
  <1>4. CASE \E g \in Givens : Configure(g)
    BY <1>1, <1>4, FilesRemoved DEF Configure
  <1>5. CASE \E p \in ProjectSources \ Elsewhere : EditSource(p) \/ DeleteSource(p)
    <2>1. PICK p \in ProjectSources : EditSource(p) \/ DeleteSource(p)
      BY <1>5
    <2>2. CASE EditSource(p)
      BY <2>1, <2>2, SourceEdited
    <2>3. CASE DeleteSource(p)
      BY <1>1, <2>3, FilesRemoved, WithoutSmaller DEF DeleteSource
    <2> QED BY <2>1, <2>2, <2>3
  <1>6. CASE StartCleanup
    BY <1>1, <1>6, FilesRemoved DEF StartCleanup
  <1>7. CASE CleanCache
    <2>1. Smaller(disk', disk) /\ Smaller(cacheFile', cacheFile) /\ UNCHANGED <<root, given, nbuild>>
      BY <1>7, WithoutSmaller DEF CleanCache
    <2> QED BY <1>1, <2>1, FilesRemoved
  <1>8. CASE CleanArtifacts
    <2>1. Smaller(disk', disk) /\ Smaller(cacheFile', cacheFile) /\ UNCHANGED <<root, given, nbuild>>
      BY <1>8, WithoutSmaller DEF CleanArtifacts, CleanDir
    <2> QED BY <1>1, <2>1, FilesRemoved
  <1>9. CASE CleanBuildInfos
    <2>1. Smaller(disk', disk) /\ Smaller(cacheFile', cacheFile) /\ UNCHANGED <<root, given, nbuild>>
      BY <1>9, WithoutSmaller DEF CleanBuildInfos, CleanDir
    <2> QED BY <1>1, <2>1, FilesRemoved
  <1>10. CASE CleanupFails
    <2>1. Smaller(disk', disk) /\ Smaller(cacheFile', cacheFile) /\ UNCHANGED <<root, given, nbuild>>
      BY <1>10, WithoutSmaller DEF CleanupFails
    <2> QED BY <1>1, <2>1, FilesRemoved
  <1>11. CASE UNCHANGED filesVars
    BY <1>1, <1>11, FilesRemoved DEF filesVars
  <1> QED BY <1>2, <1>3, <1>4, <1>5, <1>6, <1>7, <1>8, <1>9, <1>10, <1>11 DEF FilesNext

\* However often a project is built, moved, edited, cleaned up and configured to keep its
\* output elsewhere, in the project or apart from it, what the next build takes from the
\* cache file is about its own sources and their artifacts (CompilerCache::read_joined and
\* write, ArtifactsCache get_cache), and cleanup removes nothing else.  Configurations
\* that share an artifacts folder must share the cache file, a folder that is named from
\* the root of the file system is apart from the places of the project
\* (FilesAssumption), and no build is cut short.
THEOREM FilesHold == FilesSpec => []FilesSound
  <1>1. FilesSpec => []FilesInv
    <2>1. FilesInv /\ [FilesNext]_filesVars => FilesInv'
      BY FilesStep
    <2>2. FilesInit => FilesInv
      BY FilesStart
    <2> QED BY <2>1, <2>2, PTL DEF FilesSpec
  <1>2. FilesInv => CacheNamesOwnFiles
    BY OwnFiles
  <1>3. FilesSpec => []CacheNamesOwnFiles
    BY <1>1, <1>2, PTL
  <1>4. FilesSpec => []CleanupSound
    BY CleanupKeepsRest
  <1>5. CacheNamesOwnFiles /\ CleanupSound => FilesSound
    BY DEF FilesSound
  <1> QED BY <1>3, <1>4, <1>5, PTL

-----------------------------------------------------------------------------
(* Toolchain                                                               *)

Reporters == {NoReporter, "global"} \cup Builders
JobStates == {"todo", "running", "done", "error", "skipped"}
BuildType(b) ==
    [st : {"new", "running", "ok", "failed"}, parallel : BOOLEAN, captured : Reporters,
     owner : Reporters, beside : BOOLEAN, jobs : [1..Len(BuildJobs[b]) -> JobStates]]
Steps == {"spawn", "find", "install", "installing", "compile", "done", "error"}

ToolTypeOK ==
    /\ glob \in [state : {"unset", "setting", "set"}, reporter : {NoReporter, "global"}]
    /\ scopes.of \in [Threads -> Reporters] /\ scopes.guards \in [Threads -> Seq(Reporters)]
    /\ DOMAIN builds = Builders /\ \A b \in Builders : builds[b] \in BuildType(b)
    /\ runs \in [Threads -> [at : {"idle"} \cup Steps, job : Nat]]

-----------------------------------------------------------------------------
(* The threads of a build                                                     *)

LEMMA ThreadsOfBuilds ==
    /\ \A t \in Threads : BuilderOf(t) \in Builders /\ (t \in Pools \/ BuilderOf(t) = t)
    /\ \A t \in Builders : t \in Threads /\ BuilderOf(t) = t /\ t \notin Pools
    /\ \A t \in Pools : t \in Threads /\ t \in PoolOf[BuilderOf(t)]
    /\ \A b \in Builders : \A t \in PoolOf[b] : t \in Pools /\ BuilderOf(t) = b
  <1>1. \A b \in Builders : \A t \in PoolOf[b] : t \in Pools
    BY DEF Pools
  <1>2. Pools \cap Builders = {}
    BY PoolsAssumption DEF Pools
  <1>3. ASSUME NEW t \in Pools PROVE BuilderOf(t) \in Builders /\ t \in PoolOf[BuilderOf(t)]
    <2>1. \E b \in Builders : t \in PoolOf[b]
      BY DEF Pools
    <2>2. BuilderOf(t) = CHOOSE b \in Builders : t \in PoolOf[b]
      BY <1>2 DEF BuilderOf
    <2> QED BY <2>1, <2>2
  <1>4. \A b \in Builders : \A t \in PoolOf[b] : BuilderOf(t) = b
    BY <1>1, <1>3, PoolsAssumption
  <1> QED BY <1>1, <1>2, <1>3, <1>4 DEF Threads, BuilderOf

\* The state of one job changes.
WithJob(b, i, x) == [builds EXCEPT ![b].jobs[i] = x]

LEMMA JobMoves ==
    ASSUME ToolTypeOK, NEW b \in Builders, NEW i \in DOMAIN builds[b].jobs, NEW x \in JobStates,
           builds' = WithJob(b, i, x)
    PROVE  /\ DOMAIN builds' = Builders
           /\ \A c \in Builders :
                /\ builds'[c] \in BuildType(c)
                /\ builds'[c].st = builds[c].st /\ builds'[c].parallel = builds[c].parallel
                /\ builds'[c].captured = builds[c].captured
                /\ builds'[c].owner = builds[c].owner /\ builds'[c].beside = builds[c].beside
                /\ DOMAIN builds'[c].jobs = DOMAIN builds[c].jobs
                /\ \A k \in DOMAIN builds[c].jobs :
                     builds'[c].jobs[k] = IF c = b /\ k = i THEN x ELSE builds[c].jobs[k]
  <1> DEFINE jobs == [builds[b].jobs EXCEPT ![i] = x]
  <1>1. builds' = [builds EXCEPT ![b] = [builds[b] EXCEPT !.jobs = jobs]]
    BY DEF WithJob
  <1>2. builds[b] \in BuildType(b) /\ DOMAIN builds = Builders
    BY DEF ToolTypeOK
  <1>3. /\ jobs \in [1..Len(BuildJobs[b]) -> JobStates]
        /\ \A k \in DOMAIN builds[b].jobs : jobs[k] = IF k = i THEN x ELSE builds[b].jobs[k]
        /\ DOMAIN builds[b].jobs = 1..Len(BuildJobs[b])
    BY <1>2 DEF BuildType
  <1> HIDE DEF jobs
  <1>4. /\ builds'[b] \in BuildType(b) /\ builds'[b].jobs = jobs
        /\ builds'[b].st = builds[b].st /\ builds'[b].parallel = builds[b].parallel
        /\ builds'[b].captured = builds[b].captured
        /\ builds'[b].owner = builds[b].owner /\ builds'[b].beside = builds[b].beside
    BY <1>1, <1>2, <1>3 DEF BuildType
  <1>5. \A c \in Builders \ {b} : builds'[c] = builds[c]
    BY <1>1, <1>2
  <1>6. \A c \in Builders : builds[c] \in BuildType(c)
    BY DEF ToolTypeOK
  <1>7. DOMAIN jobs = DOMAIN builds[b].jobs
    BY <1>3
  <1> QED BY <1>1, <1>2, <1>3, <1>4, <1>5, <1>6, <1>7

-----------------------------------------------------------------------------
(* Reporters are put back                                                     *)

\* The first guard of a thread puts back that there is no scoped reporter; the count
\* is the number of guards.
GuardsCounted ==
    /\ IsFiniteSet(GuardsHeld) /\ ReportersRestored
    /\ \A t \in Threads : scopes.guards[t] # <<>> => scopes.guards[t][1] = NoReporter

LEMMA GuardsHeldMeans ==
    \A x : x \in GuardsHeld <=>
             \E t \in Threads : \E k \in 1..Len(scopes.guards[t]) : x = <<t, k>>
  BY DEF GuardsHeld

\* The reporters that a thread has or will have again.
Held(t) == {scopes.of[t]} \cup {scopes.guards[t][k] : k \in 1..Len(scopes.guards[t])}

\* set_scoped
LEMMA ScopedHolds ==
    ASSUME ToolTypeOK, GuardsCounted, NEW t \in Threads, NEW r \in Reporters, scopes' = Scoped(t, r)
    PROVE  /\ GuardsCounted'
           /\ scopes'.of \in [Threads -> Reporters] /\ scopes'.guards \in [Threads -> Seq(Reporters)]
           /\ scopes'.guards[t] # <<>> /\ scopes'.of[t] = r
           /\ Held(t)' \subseteq Held(t) \cup {r}
           /\ Len(scopes'.guards[t]) = Len(scopes.guards[t]) + 1
           /\ \A s \in Threads \ {t} :
                scopes'.of[s] = scopes.of[s] /\ scopes'.guards[s] = scopes.guards[s]
  <1> DEFINE n == Len(scopes.guards[t])
             more == Append(scopes.guards[t], scopes.of[t])
  <1>1. /\ scopes.guards \in [Threads -> Seq(Reporters)] /\ scopes.of \in [Threads -> Reporters]
        /\ n \in Nat
    BY DEF ToolTypeOK
  <1>2. /\ scopes'.count = scopes.count + 1
        /\ scopes'.of = [scopes.of EXCEPT ![t] = r]
        /\ scopes'.guards = [scopes.guards EXCEPT ![t] = more]
    BY DEF Scoped
  <1>0. /\ more \in Seq(Reporters) /\ Len(more) = n + 1 /\ more # <<>>
        /\ more[1] = IF scopes.guards[t] = <<>> THEN scopes.of[t] ELSE scopes.guards[t][1]
        /\ \A k \in 1..n : more[k] = scopes.guards[t][k]
        /\ more[n + 1] = scopes.of[t]
    <2>1. scopes.guards[t] \in Seq(Reporters) /\ scopes.of[t] \in Reporters
      BY <1>1
    <2>2. /\ more \in Seq(Reporters) /\ Len(more) = n + 1
          /\ \A k \in 1..n : more[k] = scopes.guards[t][k]
          /\ more[n + 1] = scopes.of[t]
      BY <2>1
    <2>3. scopes.guards[t] = <<>> <=> n = 0
      BY <2>1
    <2> HIDE DEF more
    <2>4. more # <<>>
      BY <1>1, <2>2
    <2> QED BY <1>1, <2>2, <2>3, <2>4
  <1> HIDE DEF more
  <1>3. /\ scopes'.of \in [Threads -> Reporters] /\ scopes'.guards \in [Threads -> Seq(Reporters)]
        /\ scopes'.of[t] = r
        /\ scopes'.guards[t] = more
        /\ \A s \in Threads \ {t} :
             scopes'.of[s] = scopes.of[s] /\ scopes'.guards[s] = scopes.guards[s]
    BY <1>0, <1>1, <1>2
  <1>4. GuardsHeld' = GuardsHeld \cup {<<t, n + 1>>} /\ <<t, n + 1>> \notin GuardsHeld
    <2>1. \A x : x \in GuardsHeld' <=>
             \E s \in Threads : \E k \in 1..Len(scopes'.guards[s]) : x = <<s, k>>
      BY DEF GuardsHeld
    <2>2. <<t, n + 1>> \notin GuardsHeld
      BY <1>1, GuardsHeldMeans
    <2>3. 1..(n + 1) = 1..n \cup {n + 1}
      BY <1>1
    <2>4. ASSUME NEW s \in Threads, NEW k
          PROVE  k \in 1..Len(scopes'.guards[s]) <=>
                   k \in 1..Len(scopes.guards[s]) \/ (s = t /\ k = n + 1)
      BY <1>0, <1>3, <2>3
    <2>5. \A x : x \in GuardsHeld' => x \in GuardsHeld \/ x = <<t, n + 1>>
      BY <2>1, <2>4, GuardsHeldMeans
    <2>6. \A x : x \in GuardsHeld => x \in GuardsHeld'
      BY <2>1, <2>4, GuardsHeldMeans
    <2>7. <<t, n + 1>> \in GuardsHeld'
      BY <2>1, <2>4
    <2> QED BY <2>2, <2>5, <2>6, <2>7
  <1>5. IsFiniteSet(GuardsHeld') /\ Cardinality(GuardsHeld') = Cardinality(GuardsHeld) + 1
    BY <1>4, FS_AddElement DEF GuardsCounted
  <1>6. scopes'.guards[t][1] = NoReporter
    BY <1>0, <1>3 DEF GuardsCounted, ReportersRestored
  <1>7. Held(t)' \subseteq Held(t) \cup {r}
    <2>1. Held(t)' = {r} \cup {more[k] : k \in 1..(n + 1)}
      BY <1>0, <1>3 DEF Held
    <2>2. ASSUME NEW k \in 1..(n + 1) PROVE more[k] \in Held(t)
      <3>1. k \in 1..n \/ k = n + 1
        BY <1>1
      <3> QED BY <1>0, <3>1 DEF Held
    <2> QED BY <2>1, <2>2
  <1> QED BY <1>0, <1>2, <1>3, <1>5, <1>6, <1>7 DEF GuardsCounted, ReportersRestored

\* ScopeGuard::drop
LEMMA DroppedHolds ==
    ASSUME ToolTypeOK, GuardsCounted, NEW t \in Threads, scopes.guards[t] # <<>>, scopes' = Dropped(t)
    PROVE  /\ GuardsCounted'
           /\ scopes'.of \in [Threads -> Reporters] /\ scopes'.guards \in [Threads -> Seq(Reporters)]
           /\ Held(t)' \subseteq Held(t)
           /\ Len(scopes'.guards[t]) = Len(scopes.guards[t]) - 1
           /\ \A s \in Threads \ {t} :
                scopes'.of[s] = scopes.of[s] /\ scopes'.guards[s] = scopes.guards[s]
  <1> DEFINE n == Len(scopes.guards[t])
             rest == SubSeq(scopes.guards[t], 1, n - 1)
  <1>1. /\ scopes.guards \in [Threads -> Seq(Reporters)] /\ scopes.of \in [Threads -> Reporters]
        /\ n \in Nat \ {0} /\ scopes.guards[t][n] \in Reporters
    BY DEF ToolTypeOK
  <1>2. /\ scopes'.count = scopes.count - 1
        /\ scopes'.of = [scopes.of EXCEPT ![t] = scopes.guards[t][n]]
        /\ scopes'.guards = [scopes.guards EXCEPT ![t] = rest]
    BY DEF Dropped
  <1>3. /\ rest \in Seq(Reporters) /\ Len(rest) = n - 1
        /\ \A k \in 1..(n - 1) : rest[k] = scopes.guards[t][k]
    BY <1>1
  <1> HIDE DEF rest
  <1>4. /\ scopes'.of \in [Threads -> Reporters] /\ scopes'.guards \in [Threads -> Seq(Reporters)]
        /\ scopes'.of[t] = scopes.guards[t][n] /\ scopes'.guards[t] = rest
        /\ \A s \in Threads \ {t} :
             scopes'.of[s] = scopes.of[s] /\ scopes'.guards[s] = scopes.guards[s]
    BY <1>1, <1>2, <1>3
  <1>5. GuardsHeld' = GuardsHeld \ {<<t, n>>} /\ <<t, n>> \in GuardsHeld
    <2>1. \A x : x \in GuardsHeld' <=>
             \E s \in Threads : \E k \in 1..Len(scopes'.guards[s]) : x = <<s, k>>
      BY DEF GuardsHeld
    <2>2. <<t, n>> \in GuardsHeld
      BY <1>1, GuardsHeldMeans
    <2>3. 1..(n - 1) = 1..n \ {n}
      BY <1>1
    <2>4. ASSUME NEW s \in Threads, NEW k
          PROVE  k \in 1..Len(scopes'.guards[s]) <=>
                   k \in 1..Len(scopes.guards[s]) /\ ~(s = t /\ k = n)
      BY <1>3, <1>4, <2>3
    <2>5. \A x : x \in GuardsHeld' => x \in GuardsHeld /\ x # <<t, n>>
      BY <2>1, <2>4, GuardsHeldMeans
    <2>6. \A x : x \in GuardsHeld /\ x # <<t, n>> => x \in GuardsHeld'
      BY <2>1, <2>4, GuardsHeldMeans
    <2> QED BY <2>2, <2>5, <2>6
  <1>6. IsFiniteSet(GuardsHeld') /\ Cardinality(GuardsHeld') = Cardinality(GuardsHeld) - 1
    BY <1>5, FS_RemoveElement DEF GuardsCounted
  <1>7. /\ scopes'.guards[t] # <<>> => scopes'.guards[t][1] = NoReporter
        /\ scopes'.guards[t] = <<>> => scopes'.of[t] = NoReporter
    BY <1>1, <1>3, <1>4 DEF GuardsCounted
  <1>8. Held(t)' \subseteq Held(t)
    <2>1. Held(t)' = {scopes.guards[t][n]} \cup {rest[k] : k \in 1..(n - 1)}
      BY <1>3, <1>4 DEF Held
    <2>2. \A k \in 1..n : scopes.guards[t][k] \in Held(t)
      BY DEF Held
    <2>3. n \in 1..n /\ 1..(n - 1) \subseteq 1..n
      BY <1>1
    <2> QED BY <1>3, <2>1, <2>2, <2>3
  <1> QED BY <1>2, <1>3, <1>4, <1>6, <1>7, <1>8 DEF GuardsCounted, ReportersRestored
-----------------------------------------------------------------------------
(* Builds are heard                                                           *)

Busy(t) == runs[t].at # "idle"
BuildOf(t) == builds[BuilderOf(t)]

\* A thread that is busy runs a job of a build in progress; a pool thread has the
\* reporter of its build and the guard that takes it away again.
RunsCurrent ==
    \A t \in Threads : Busy(t) =>
        /\ runs[t].job \in DOMAIN BuildOf(t).jobs /\ BuildOf(t).jobs[runs[t].job] = "running"
        /\ BuildOf(t).st = "running" /\ (BuildOf(t).parallel <=> t \in Pools)
        /\ t \in Pools => scopes.guards[t] # <<>> /\ scopes.of[t] = BuildOf(t).captured

\* A job runs on one thread.
RunsApart ==
    \A t, s \in Threads :
        Busy(t) /\ Busy(s) /\ BuilderOf(t) = BuilderOf(s) /\ runs[t].job = runs[s].job => t = s

\* What a thread has reported so far of a job whose reporter hears all.
RunsReported ==
    \A t \in Threads : Busy(t) /\ Tracked(BuilderOf(t)) =>
        /\ runs[t].at # "spawn" => Got(BuilderOf(t), runs[t].job, "spawn", BuildOf(t).captured)
        /\ runs[t].at = "done" => Got(BuilderOf(t), runs[t].job, "success", BuildOf(t).captured)

InstallOpen(b, i) == \E t \in Threads : BuilderOf(t) = b /\ runs[t].job = i /\ runs[t].at = "installing"
InstallReported(b, i) ==
    Got(b, i, "installing", builds[b].captured) =>
        \/ Got(b, i, "installed", builds[b].captured) \/ Got(b, i, "install failed", builds[b].captured)
        \/ InstallOpen(b, i)

\* What has been reported of each of its jobs.
JobReported(b, i) ==
    /\ builds[b].jobs[i] \in {"done", "error"} => Got(b, i, "spawn", builds[b].captured)
    /\ builds[b].jobs[i] = "done" => Got(b, i, "success", builds[b].captured)
    /\ InstallReported(b, i)
JobsReported ==
    \A b \in Builders : Tracked(b) => \A i \in DOMAIN builds[b].jobs : JobReported(b, i)

\* Nothing is heard of a build that has not begun; one that ended well has done all
\* its jobs, since jobs are skipped only after one failed.
BuildsInOrder ==
    \A b \in Builders :
        /\ builds[b].st = "new" => /\ ~builds[b].parallel /\ \A e \in heard : e.by # b
                                   /\ \A i \in DOMAIN builds[b].jobs : builds[b].jobs[i] = "todo"
        /\ builds[b].st = "ok" => \A i \in DOMAIN builds[b].jobs : builds[b].jobs[i] = "done"
        /\ \A i \in DOMAIN builds[b].jobs : builds[b].jobs[i] = "skipped" => HasFailed(b)

\* The threads of a build have its own reporter, the global one or none; so has the
\* build, and the reporter of a scope around it while it goes on.
Hearers(b) == {NoReporter, "global", b}
BuildOwned(b) ==
    /\ {builds[b].captured, builds[b].owner} \subseteq Hearers(b)
    /\ ~builds[b].beside => builds[b].captured = builds[b].owner
    /\ builds[b].owner = b =>
          ~builds[b].beside /\ (builds[b].st = "running" => scopes.guards[b] # <<>>)
ScopesOwned ==
    /\ \A t \in Threads : Held(t) \subseteq Hearers(BuilderOf(t))
    /\ \A b \in Builders : scopes.guards[b] # <<>> => scopes.of[b] = b /\ Len(scopes.guards[b]) = 1
Owned == ScopesOwned /\ ScopesApart /\ \A b \in Builders : BuildOwned(b)

BuildsHeard == RunsCurrent /\ RunsApart /\ RunsReported /\ JobsReported /\ BuildsInOrder
ToolInv == ToolTypeOK /\ GuardsCounted /\ Owned /\ BuildsHeard

\* While a thread has a guard, it tells its own reporter.
LEMMA GuardedTells ==
    ASSUME ToolTypeOK, GuardsCounted, NEW t \in Threads, scopes.guards[t] # <<>>
    PROVE  scopes.count # 0 /\ GetDefault(t) = scopes.of[t]
  <1>1. scopes.guards[t] \in Seq(Reporters)
    BY DEF ToolTypeOK
  <1>2. <<t, 1>> \in GuardsHeld
    <2>1. 1 \in 1..Len(scopes.guards[t])
      BY <1>1
    <2> QED BY <2>1, GuardsHeldMeans
  <1>3. Cardinality(GuardsHeld) # 0
    BY <1>2, FS_EmptySet DEF GuardsCounted
  <1> QED BY <1>3 DEF GetDefault, GuardsCounted, ReportersRestored

\* A thread at work tells the reporter its build began with.
LEMMA TellsCaptured ==
    ASSUME ToolInv, NEW t \in Threads, Busy(t), Tracked(BuilderOf(t))
    PROVE  GetDefault(t) = BuildOf(t).captured
  <1> DEFINE b == BuilderOf(t)
  <1>1. b \in Builders /\ (t \in Pools \/ b = t)
    BY ThreadsOfBuilds
  <1>2. BuildOf(t).st = "running" /\ (BuildOf(t).parallel <=> t \in Pools)
    BY DEF ToolInv, BuildsHeard, RunsCurrent
  <1>3. CASE t \in Pools
    <2>1. scopes.guards[t] # <<>> /\ scopes.of[t] = BuildOf(t).captured
      BY <1>3 DEF ToolInv, BuildsHeard, RunsCurrent
    <2> QED BY <2>1, GuardedTells DEF ToolInv
  <1>4. CASE t \notin Pools
    <2>1. b = t /\ builds[t].owner = t
      BY <1>1, <1>2, <1>4 DEF Tracked, BuildOf
    <2>2. BuildOwned(t)
      BY <1>1, <2>1 DEF ToolInv, Owned
    <2>3. scopes.guards[t] # <<>> /\ builds[t].captured = t
      BY <1>2, <2>1, <2>2 DEF BuildOwned, BuildOf
    <2>4. scopes.of[t] = t
      BY <1>1, <2>1, <2>3 DEF ToolInv, Owned, ScopesOwned
    <2> QED BY <2>1, <2>3, <2>4, GuardedTells DEF ToolInv, BuildOf
  <1> QED BY <1>3, <1>4

LEMMA DefaultOwned == ASSUME ToolInv, NEW t \in Threads PROVE GetDefault(t) \in Hearers(BuilderOf(t))
  <1>1. scopes.of[t] \in Hearers(BuilderOf(t))
    BY DEF ToolInv, Owned, ScopesOwned, Held
  <1>2. glob.reporter \in {NoReporter, "global"}
    BY DEF ToolInv, ToolTypeOK
  <1> QED BY <1>1, <1>2 DEF GetDefault, Hearers

\* A step that changes neither the reporter of a build nor that it goes on.
LEMMA OwnedKept ==
    ASSUME ToolInv,
           \A b \in Builders :
             /\ builds'[b].captured = builds[b].captured /\ builds'[b].owner = builds[b].owner
             /\ builds'[b].beside = builds[b].beside
             /\ builds'[b].st = "running" => builds[b].st = "running",
           \A t \in Threads : Held(t)' \subseteq Hearers(BuilderOf(t)),
           \A b \in Builders :
             \/ scopes'.of[b] = scopes.of[b] /\ scopes'.guards[b] = scopes.guards[b]
             \/ /\ builds[b].st # "running"
                /\ scopes'.guards[b] # <<>> => scopes'.of[b] = b /\ Len(scopes'.guards[b]) = 1,
           \A e \in heard' \ heard : e.to \in Hearers(e.by)
    PROVE  Owned'
  <1>1. ScopesOwned'
    BY DEF ToolInv, Owned, ScopesOwned
  <1>2. ScopesApart'
    BY ReportersAssumption DEF ToolInv, Owned, ScopesApart, Hearers
  <1>3. ASSUME NEW b \in Builders PROVE BuildOwned(b)'
    <2>1. BuildOwned(b)
      BY DEF ToolInv, Owned
    <2> QED BY <2>1 DEF BuildOwned
  <1> QED BY <1>1, <1>2, <1>3 DEF Owned

LEMMA InitHolds == ToolchainInit => ToolInv
  <1> SUFFICES ASSUME ToolchainInit PROVE ToolInv
    OBVIOUS
  <1>1. /\ scopes.of = [t \in Threads |-> NoReporter] /\ scopes.guards = [t \in Threads |-> <<>>]
        /\ scopes.count = 0 /\ heard = {} /\ runs = [t \in Threads |-> NoRun]
    BY DEF ToolchainInit
  <1>2. ToolTypeOK
    <2>1. ASSUME NEW b \in Builders PROVE builds[b] \in BuildType(b)
      BY DEF ToolchainInit, BuildType, Reporters, JobStates
    <2>2. glob \in [state : {"unset", "setting", "set"}, reporter : {NoReporter, "global"}]
      BY DEF ToolchainInit
    <2>3. scopes.of \in [Threads -> Reporters] /\ scopes.guards \in [Threads -> Seq(Reporters)]
      BY <1>1 DEF Reporters
    <2>4. runs \in [Threads -> [at : {"idle"} \cup Steps, job : Nat]]
      BY <1>1 DEF NoRun
    <2> QED BY <2>1, <2>2, <2>3, <2>4 DEF ToolTypeOK, ToolchainInit
  <1>3. GuardsCounted
    <2>1. GuardsHeld = {}
      <3>1. \A t \in Threads : 1..Len(scopes.guards[t]) = {}
        BY <1>1
      <3> QED BY <3>1, GuardsHeldMeans
    <2> QED BY <1>1, <2>1, FS_EmptySet DEF GuardsCounted, ReportersRestored
  <1>4. \A b \in Builders : /\ builds[b].st = "new" /\ ~builds[b].parallel /\ ~builds[b].beside
                            /\ builds[b].captured = NoReporter /\ builds[b].owner = NoReporter
                            /\ \A i \in DOMAIN builds[b].jobs : builds[b].jobs[i] = "todo"
    BY DEF ToolchainInit
  <1>5. Owned
    <2>1. ASSUME NEW t \in Threads PROVE Held(t) \subseteq Hearers(BuilderOf(t))
      <3>1. scopes.of[t] = NoReporter /\ 1..Len(scopes.guards[t]) = {}
        BY <1>1
      <3> QED BY <3>1 DEF Held, Hearers
    <2>2. \A b \in Builders : b \in Threads
      BY DEF Threads
    <2> QED BY <1>1, <1>4, <2>1, <2>2, ReportersAssumption
            DEF Owned, ScopesOwned, ScopesApart, BuildOwned, Hearers
  <1>6. BuildsHeard
    <2>1. \A t \in Threads : ~Busy(t)
      BY <1>1 DEF Busy, NoRun
    <2>2. \A b \in Builders : ~Tracked(b)
      BY <1>4, ReportersAssumption DEF Tracked
    <2> QED BY <1>1, <1>4, <2>1, <2>2
            DEF BuildsHeard, RunsCurrent, RunsApart, RunsReported, JobsReported, BuildsInOrder
  <1> QED BY <1>2, <1>3, <1>5, <1>6 DEF ToolInv

-----------------------------------------------------------------------------
(* Reporters and builds                                                       *)

\* Guards of other threads than those of a pool come and go.
LEMMA ScopesChange ==
    ASSUME ToolInv, UNCHANGED <<builds, runs, heard>>, ToolTypeOK', GuardsCounted', Owned',
           \A t \in Pools : scopes'.of[t] = scopes.of[t] /\ scopes'.guards[t] = scopes.guards[t]
    PROVE  ToolInv'
  <1>1. RunsCurrent'
    BY DEF ToolInv, BuildsHeard, RunsCurrent, Busy, BuildOf
  <1>2. RunsApart' /\ RunsReported'
    BY DEF ToolInv, BuildsHeard, RunsApart, RunsReported, Busy, BuildOf, Got, Tracked
  <1>3. JobsReported'
    BY DEF ToolInv, BuildsHeard, JobsReported, JobReported, InstallReported, InstallOpen, Got, Tracked
  <1>4. BuildsInOrder'
    BY DEF ToolInv, BuildsHeard, BuildsInOrder, HasFailed
  <1> QED BY <1>1, <1>2, <1>3, <1>4 DEF ToolInv, BuildsHeard

LEMMA OwnedStays ==
    ASSUME ToolInv, UNCHANGED scopes,
           \A b \in Builders :
             /\ builds'[b].captured = builds[b].captured /\ builds'[b].owner = builds[b].owner
             /\ builds'[b].beside = builds[b].beside
             /\ builds'[b].st = "running" => builds[b].st = "running",
           \A e \in heard' \ heard : e.to \in Hearers(e.by)
    PROVE  Owned'
  <1>1. \A t \in Threads : Held(t)' \subseteq Hearers(BuilderOf(t))
    BY DEF ToolInv, Owned, ScopesOwned, Held
  <1> QED BY <1>1, OwnedKept

LEMMA SetGlobalHolds == ASSUME ToolInv, NEW b \in Builders, SetGlobal(b) PROVE ToolInv'
  <1>1. UNCHANGED <<scopes, builds, runs, heard>>
    BY DEF SetGlobal
  <1>2. ToolTypeOK'
    <2>1. glob' \in [state : {"unset", "setting", "set"}, reporter : {NoReporter, "global"}]
      BY DEF SetGlobal, ToolInv, ToolTypeOK
    <2> QED BY <1>1, <2>1 DEF ToolInv, ToolTypeOK
  <1>3. GuardsCounted'
    BY <1>1 DEF ToolInv, GuardsCounted, ReportersRestored, GuardsHeld
  <1>4. Owned'
    BY <1>1, OwnedStays
  <1> QED BY <1>1, <1>2, <1>3, <1>4, ScopesChange

LEMMA WithScopedHolds == ASSUME ToolInv, NEW b \in Builders, WithScoped(b) PROVE ToolInv'
  <1>1. /\ UNCHANGED <<glob, builds, runs, heard>> /\ scopes' = Scoped(b, b)
        /\ builds[b].st = "new" /\ scopes.guards[b] = <<>>
    BY DEF WithScoped
  <1>2. b \in Threads /\ b \notin Pools /\ b \in Reporters /\ Pools \subseteq Threads /\ BuilderOf(b) = b
    BY ThreadsOfBuilds DEF Reporters
  <1>3. /\ GuardsCounted'
        /\ scopes'.of \in [Threads -> Reporters] /\ scopes'.guards \in [Threads -> Seq(Reporters)]
        /\ Held(b)' \subseteq Held(b) \cup {b} /\ scopes'.of[b] = b
        /\ Len(scopes'.guards[b]) = Len(scopes.guards[b]) + 1
        /\ \A s \in Threads \ {b} :
             scopes'.of[s] = scopes.of[s] /\ scopes'.guards[s] = scopes.guards[s]
    BY <1>1, <1>2, ScopedHolds DEF ToolInv
  <1>4. ToolTypeOK'
    BY <1>1, <1>3 DEF ToolInv, ToolTypeOK
  <1>5. Owned'
    <2>1. ASSUME NEW t \in Threads PROVE Held(t)' \subseteq Hearers(BuilderOf(t))
      <3>1. Held(t) \subseteq Hearers(BuilderOf(t))
        BY DEF ToolInv, Owned, ScopesOwned
      <3>2. CASE t = b
        BY <1>2, <1>3, <3>1, <3>2 DEF Hearers
      <3>3. CASE t # b
        BY <1>3, <3>1, <3>3 DEF Held
      <3> QED BY <3>2, <3>3
    <2>2. \A c \in Builders : c \in Threads
      BY ThreadsOfBuilds
    <2>3. Len(scopes'.guards[b]) = 1
      BY <1>1, <1>3
    <2> QED BY <1>1, <1>3, <2>1, <2>2, <2>3, OwnedKept
  <1> QED BY <1>1, <1>2, <1>3, <1>4, <1>5, ScopesChange

LEMMA EndScopedHolds == ASSUME ToolInv, NEW b \in Builders, EndScoped(b) PROVE ToolInv'
  <1>1. /\ UNCHANGED <<glob, builds, runs, heard>> /\ scopes' = Dropped(b) /\ scopes.guards[b] # <<>>
        /\ builds[b].st # "running"
    BY DEF EndScoped
  <1>2. b \in Threads /\ b \notin Pools /\ Pools \subseteq Threads
    BY ThreadsOfBuilds
  <1>3. /\ GuardsCounted'
        /\ scopes'.of \in [Threads -> Reporters] /\ scopes'.guards \in [Threads -> Seq(Reporters)]
        /\ Held(b)' \subseteq Held(b) /\ Len(scopes'.guards[b]) = Len(scopes.guards[b]) - 1
        /\ \A s \in Threads \ {b} :
             scopes'.of[s] = scopes.of[s] /\ scopes'.guards[s] = scopes.guards[s]
    BY <1>1, <1>2, DroppedHolds DEF ToolInv
  <1>4. ToolTypeOK'
    BY <1>1, <1>3 DEF ToolInv, ToolTypeOK
  <1>5. Owned'
    <2>1. ASSUME NEW t \in Threads PROVE Held(t)' \subseteq Hearers(BuilderOf(t))
      <3>1. Held(t) \subseteq Hearers(BuilderOf(t))
        BY DEF ToolInv, Owned, ScopesOwned
      <3>2. CASE t = b
        BY <1>3, <3>1, <3>2
      <3>3. CASE t # b
        BY <1>3, <3>1, <3>3 DEF Held
      <3> QED BY <3>2, <3>3
    <2>2. \A c \in Builders : c \in Threads
      BY ThreadsOfBuilds
    <2>3. scopes'.guards[b] = <<>>
      <3>1. Len(scopes.guards[b]) = 1
        BY <1>1 DEF ToolInv, Owned, ScopesOwned
      <3>2. Len(scopes'.guards[b]) = 0 /\ scopes'.guards[b] \in Seq(Reporters)
        BY <1>2, <1>3, <3>1
      <3> QED BY <3>2
    <2> QED BY <1>1, <1>3, <2>1, <2>2, <2>3, OwnedKept
  <1> QED BY <1>1, <1>2, <1>3, <1>4, <1>5, ScopesChange

\* A build begins or ends: none of its threads is at work.
LEMMA BuildMoves ==
    ASSUME ToolInv, NEW b \in Builders, UNCHANGED <<scopes, runs, heard>>, ToolTypeOK',
           \A c \in Builders \ {b} : builds'[c] = builds[c],
           \A t \in Threads : Busy(t) => BuilderOf(t) # b,
           builds'[b].jobs = builds[b].jobs,
           builds'[b].st # "new",
           \/ /\ builds'[b].captured = builds[b].captured /\ builds'[b].owner = builds[b].owner
              /\ builds'[b].beside = builds[b].beside /\ builds'[b].parallel = builds[b].parallel
           \/ builds[b].st = "new",
           BuildOwned(b)',
           builds'[b].st = "ok" => \A i \in DOMAIN builds[b].jobs : builds[b].jobs[i] = "done"
    PROVE  ToolInv'
  <1>1. GuardsCounted'
    BY DEF ToolInv, GuardsCounted, ReportersRestored, GuardsHeld
  <1>2. RunsCurrent' /\ RunsApart'
    BY ThreadsOfBuilds DEF ToolInv, BuildsHeard, RunsCurrent, RunsApart, Busy, BuildOf
  <1>5. RunsReported'
    <2> SUFFICES ASSUME NEW t \in Threads, Busy(t), Tracked(BuilderOf(t))'
                 PROVE  /\ runs[t].at # "spawn" => Got(BuilderOf(t), runs[t].job, "spawn", BuildOf(t).captured)'
                        /\ runs[t].at = "done" => Got(BuilderOf(t), runs[t].job, "success", BuildOf(t).captured)'
      BY DEF RunsReported, Busy
    <2>1. BuilderOf(t) \in Builders \ {b}
      BY ThreadsOfBuilds
    <2>2. builds'[BuilderOf(t)] = builds[BuilderOf(t)]
      BY <2>1
    <2>3. Tracked(BuilderOf(t))
      BY <2>2 DEF Tracked
    <2> QED BY <2>2, <2>3 DEF ToolInv, BuildsHeard, RunsReported, BuildOf, Got
  <1>6. Owned'
    <2>1. ScopesOwned' /\ ScopesApart'
      BY DEF ToolInv, Owned, ScopesOwned, ScopesApart, Held
    <2>2. ASSUME NEW c \in Builders \ {b} PROVE BuildOwned(c)'
      <3>1. builds'[c] = builds[c] /\ BuildOwned(c)
        BY DEF ToolInv, Owned
      <3> QED BY <3>1 DEF BuildOwned
    <2> QED BY <2>1, <2>2 DEF Owned
  <1>3. JobsReported'
    <2> SUFFICES ASSUME NEW c \in Builders, Tracked(c)', NEW i \in DOMAIN builds'[c].jobs
                 PROVE  JobReported(c, i)'
      BY DEF JobsReported
    <2>1. CASE c # b \/ builds[b].st # "new"
      <3>1. Tracked(c) /\ i \in DOMAIN builds[c].jobs
        BY <2>1 DEF Tracked
      <3>2. JobReported(c, i)
        BY <3>1 DEF ToolInv, BuildsHeard, JobsReported
      <3>3. builds'[c].jobs = builds[c].jobs /\ builds'[c].captured = builds[c].captured
        BY <2>1
      <3> QED BY <3>2, <3>3 DEF JobReported, InstallReported, InstallOpen, Got
    <2>2. CASE c = b /\ builds[b].st = "new"
      <3>1. /\ \A e \in heard' : e.by # b
            /\ builds'[c].jobs[i] = "todo"
        BY <2>2 DEF ToolInv, BuildsHeard, BuildsInOrder
      <3>2. \A event, to : ~Got(b, i, event, to)'
        BY <3>1 DEF Got
      <3> QED BY <2>2, <3>1, <3>2 DEF JobReported, InstallReported
    <2> QED BY <2>1, <2>2
  <1>4. BuildsInOrder'
    BY DEF ToolInv, BuildsHeard, BuildsInOrder, HasFailed
  <1> QED BY <1>1, <1>2, <1>3, <1>4, <1>5, <1>6 DEF ToolInv, BuildsHeard

LEMMA StartBuildHolds ==
    ASSUME ToolInv, NEW b \in Builders, NEW parallel \in BOOLEAN, StartBuild(b, parallel)
    PROVE  ToolInv'
  <1>1. /\ builds[b].st = "new" /\ UNCHANGED <<glob, scopes, runs, installed, heard>>
        /\ builds' = [builds EXCEPT ![b].st = "running", ![b].parallel = parallel, ![b].captured = GetDefault(b),
                                    ![b].owner = ReporterOf(b),
                                    ![b].beside = scopes.guards[b] = <<>> /\ scopes.count # 0]
    BY DEF StartBuild
  <1>2. DOMAIN builds = Builders /\ \A c \in Builders : builds[c] \in BuildType(c)
    BY DEF ToolInv, ToolTypeOK
  <1> DEFINE beside == scopes.guards[b] = <<>> /\ scopes.count # 0
  <1>0. b \in Threads /\ BuilderOf(b) = b /\ beside \in BOOLEAN
    BY ThreadsOfBuilds
  <1>7. glob.reporter \in {NoReporter, "global"}
    BY DEF ToolInv, ToolTypeOK
  <1>3. /\ {GetDefault(b), ReporterOf(b)} \subseteq Hearers(b) /\ Hearers(b) \subseteq Reporters
        /\ ~beside => GetDefault(b) = ReporterOf(b)
        /\ ReporterOf(b) = b => scopes.guards[b] # <<>>
    <2>1. GetDefault(b) \in Hearers(b)
      BY <1>0, DefaultOwned
    <2>2. CASE scopes.guards[b] # <<>>
      <3>1. scopes.of[b] = b
        BY <2>2 DEF ToolInv, Owned, ScopesOwned
      <3> QED BY <1>0, <2>1, <2>2, <3>1, GuardedTells DEF ToolInv, ReporterOf, Hearers, Reporters
    <2>3. CASE scopes.guards[b] = <<>>
      BY <1>7, <2>1, <2>3, ReportersAssumption DEF ReporterOf, GetDefault, Hearers, Reporters
    <2> QED BY <2>2, <2>3
  <1> HIDE DEF beside
  <1>4. /\ DOMAIN builds' = Builders /\ \A c \in Builders \ {b} : builds'[c] = builds[c]
        /\ builds'[b] \in BuildType(b) /\ builds'[b].st = "running"
        /\ builds'[b].captured = GetDefault(b) /\ builds'[b].owner = ReporterOf(b) /\ builds'[b].beside = beside
        /\ builds'[b].jobs = builds[b].jobs
    <2>1. builds'[b] = [builds[b] EXCEPT !.st = "running", !.parallel = parallel, !.captured = GetDefault(b),
                                         !.owner = ReporterOf(b), !.beside = beside]
      BY <1>1, <1>2 DEF beside
    <2>2. DOMAIN builds' = Builders /\ \A c \in Builders \ {b} : builds'[c] = builds[c]
      BY <1>1, <1>2
    <2> QED BY <1>0, <1>2, <1>3, <2>1, <2>2 DEF BuildType
  <1>5. ToolTypeOK'
    BY <1>1, <1>2, <1>4 DEF ToolInv, ToolTypeOK
  <1>6. \A t \in Threads : Busy(t) => BuilderOf(t) # b
    BY <1>1 DEF ToolInv, BuildsHeard, RunsCurrent, BuildOf
  <1>8. BuildOwned(b)'
    <2>1. {builds'[b].captured, builds'[b].owner} \subseteq Hearers(b)
      BY <1>3, <1>4
    <2>2. ~builds'[b].beside => builds'[b].captured = builds'[b].owner
      BY <1>3, <1>4
    <2>3. builds'[b].owner = b => ~builds'[b].beside /\ scopes'.guards[b] # <<>>
      BY <1>1, <1>3, <1>4 DEF beside
    <2> QED BY <2>1, <2>2, <2>3 DEF BuildOwned, Hearers
  <1> QED BY <1>1, <1>4, <1>5, <1>6, <1>8, BuildMoves

LEMMA CollectHolds == ASSUME ToolInv, NEW b \in Builders, Collect(b) PROVE ToolInv'
  <1> DEFINE st == IF HasFailed(b) THEN "failed" ELSE "ok"
  <1>1. /\ builds[b].st = "running" /\ UNCHANGED <<glob, scopes, runs, installed, heard>>
        /\ \A i \in DOMAIN builds[b].jobs : builds[b].jobs[i] \notin {"todo", "running"}
        /\ builds' = [builds EXCEPT ![b].st = st]
    BY DEF Collect
  <1>2. DOMAIN builds = Builders /\ \A c \in Builders : builds[c] \in BuildType(c)
    BY DEF ToolInv, ToolTypeOK
  <1>3. st \in {"failed", "ok"} /\ (st = "ok" => ~HasFailed(b))
    OBVIOUS
  <1> HIDE DEF st
  <1>4. /\ DOMAIN builds' = Builders /\ \A c \in Builders \ {b} : builds'[c] = builds[c]
        /\ builds'[b] \in BuildType(b) /\ builds'[b].st = st
        /\ builds'[b].jobs = builds[b].jobs /\ builds'[b].captured = builds[b].captured
        /\ builds'[b].parallel = builds[b].parallel
        /\ builds'[b].owner = builds[b].owner /\ builds'[b].beside = builds[b].beside
    <2>1. builds'[b] = [builds[b] EXCEPT !.st = st]
      BY <1>1, <1>2
    <2> QED BY <1>1, <1>2, <1>3, <2>1 DEF BuildType
  <1>5. ToolTypeOK'
    BY <1>1, <1>2, <1>4 DEF ToolInv, ToolTypeOK
  <1>6. \A t \in Threads : Busy(t) => BuilderOf(t) # b
    BY <1>1 DEF ToolInv, BuildsHeard, RunsCurrent, BuildOf
  <1>7. ASSUME st = "ok", NEW i \in DOMAIN builds[b].jobs PROVE builds[b].jobs[i] = "done"
    <2>1. builds[b].jobs[i] \in JobStates
      BY <1>2 DEF BuildType
    <2>2. builds[b].jobs[i] \notin {"error", "skipped"}
      BY <1>3, <1>7 DEF ToolInv, BuildsHeard, BuildsInOrder, HasFailed
    <2> QED BY <1>1, <2>1, <2>2 DEF JobStates
  <1>8. BuildOwned(b)'
    <2>1. BuildOwned(b)
      BY DEF ToolInv, Owned
    <2> QED BY <1>3, <1>4, <2>1 DEF BuildOwned
  <1> QED BY <1>1, <1>3, <1>4, <1>5, <1>6, <1>7, <1>8, BuildMoves

LEMMA SkipRestHolds == ASSUME ToolInv, NEW b \in Builders, SkipRest(b) PROVE ToolInv'
  <1>1. builds[b].st = "running" /\ HasFailed(b) /\ UNCHANGED <<glob, scopes, runs, installed, heard>>
    BY DEF SkipRest
  <1>2. PICK i \in DOMAIN builds[b].jobs :
          builds[b].jobs[i] = "todo" /\ builds' = [builds EXCEPT ![b].jobs[i] = "skipped"]
    BY DEF SkipRest
  <1>3. /\ DOMAIN builds' = Builders
        /\ \A c \in Builders :
             /\ builds'[c] \in BuildType(c)
             /\ builds'[c].st = builds[c].st /\ builds'[c].parallel = builds[c].parallel
             /\ builds'[c].captured = builds[c].captured
             /\ builds'[c].owner = builds[c].owner /\ builds'[c].beside = builds[c].beside
             /\ DOMAIN builds'[c].jobs = DOMAIN builds[c].jobs
             /\ \A k \in DOMAIN builds[c].jobs :
                  builds'[c].jobs[k] = IF c = b /\ k = i THEN "skipped" ELSE builds[c].jobs[k]
    <2>1. ToolTypeOK /\ "skipped" \in JobStates /\ builds' = WithJob(b, i, "skipped")
      BY <1>2 DEF ToolInv, JobStates, WithJob
    <2> QED BY <1>2, <2>1, JobMoves
  <1>4. ToolTypeOK'
    BY <1>1, <1>3 DEF ToolInv, ToolTypeOK
  <1>5. GuardsCounted'
    BY <1>1 DEF ToolInv, GuardsCounted, ReportersRestored, GuardsHeld
  <1>6. RunsCurrent' /\ RunsApart' /\ RunsReported'
    <2>1. \A c \in Builders : Tracked(c)' <=> Tracked(c)
      BY <1>3 DEF Tracked
    <2> QED BY <1>1, <1>2, <1>3, <2>1, ThreadsOfBuilds
            DEF ToolInv, BuildsHeard, RunsCurrent, RunsApart, RunsReported, Busy, BuildOf, Got
  <1>9. Owned'
    BY <1>1, <1>3, OwnedStays
  <1>7. JobsReported'
    <2> SUFFICES ASSUME NEW c \in Builders, Tracked(c), NEW k \in DOMAIN builds[c].jobs
                 PROVE  JobReported(c, k)'
      BY <1>3 DEF JobsReported, Tracked
    <2>1. JobReported(c, k)
      BY DEF ToolInv, BuildsHeard, JobsReported
    <2>2. \A event, to : Got(c, k, event, to)' <=> Got(c, k, event, to)
      BY <1>1 DEF Got
    <2>3. InstallOpen(c, k)' <=> InstallOpen(c, k)
      BY <1>1 DEF InstallOpen
    <2>4. /\ builds'[c].jobs[k] \in {builds[c].jobs[k], "skipped"}
          /\ builds'[c].captured = builds[c].captured
      BY <1>3
    <2> QED BY <2>1, <2>2, <2>3, <2>4 DEF JobReported, InstallReported
  <1>8. BuildsInOrder'
    <2>1. \A c \in Builders : HasFailed(c) => HasFailed(c)'
      BY <1>2, <1>3 DEF HasFailed
    <2> QED BY <1>1, <1>2, <1>3, <2>1 DEF ToolInv, BuildsHeard, BuildsInOrder
  <1> QED BY <1>4, <1>5, <1>6, <1>7, <1>8, <1>9 DEF ToolInv, BuildsHeard

\* A job is given to an idle thread, of the pool if the build has one.
LEMMA JobBegins ==
    ASSUME ToolInv, NEW t \in Threads, ~Busy(t), NEW b, b = BuilderOf(t), NEW i \in DOMAIN builds[b].jobs,
           builds[b].st = "running", builds[b].parallel <=> t \in Pools, builds[b].jobs[i] = "todo",
           builds' = WithJob(b, i, "running"),
           runs' = [runs EXCEPT ![t] = [at |-> "spawn", job |-> i]],
           UNCHANGED <<glob, heard>>, GuardsCounted',
           scopes'.of \in [Threads -> Reporters], scopes'.guards \in [Threads -> Seq(Reporters)],
           t \in Pools => scopes'.guards[t] # <<>> /\ scopes'.of[t] = builds[b].captured,
           \A s \in Threads : Held(s)' \subseteq Hearers(BuilderOf(s)),
           \A c \in Builders : scopes'.of[c] = scopes.of[c] /\ scopes'.guards[c] = scopes.guards[c],
           \A s \in Threads \ {t} : scopes'.of[s] = scopes.of[s] /\ scopes'.guards[s] = scopes.guards[s]
    PROVE  ToolInv'
  <1>0. b \in Builders
    BY ThreadsOfBuilds
  <1>1. /\ DOMAIN builds' = Builders
        /\ \A c \in Builders :
             /\ builds'[c] \in BuildType(c)
             /\ builds'[c].st = builds[c].st /\ builds'[c].parallel = builds[c].parallel
             /\ builds'[c].captured = builds[c].captured
             /\ builds'[c].owner = builds[c].owner /\ builds'[c].beside = builds[c].beside
             /\ DOMAIN builds'[c].jobs = DOMAIN builds[c].jobs
             /\ \A k \in DOMAIN builds[c].jobs :
                  builds'[c].jobs[k] = IF c = b /\ k = i THEN "running" ELSE builds[c].jobs[k]
    <2>1. ToolTypeOK /\ "running" \in JobStates 
      BY DEF ToolInv, JobStates
    <2> QED BY <1>0, <2>1, JobMoves
  <1>2. i \in Nat
    <2>1. builds[b].jobs \in [1..Len(BuildJobs[b]) -> JobStates]
      BY <1>0 DEF ToolInv, ToolTypeOK, BuildType
    <2> QED BY <1>0, <2>1, PoolsAssumption
  <1>3. /\ runs' \in [Threads -> [at : {"idle"} \cup Steps, job : Nat]]
        /\ runs'[t].at = "spawn" /\ runs'[t].job = i
        /\ \A s \in Threads \ {t} : runs'[s] = runs[s]
    BY <1>2 DEF ToolInv, ToolTypeOK, Steps
  <1>4. ToolTypeOK'
    BY <1>1, <1>3 DEF ToolInv, ToolTypeOK
  <1>5. RunsCurrent'
    <2> SUFFICES ASSUME NEW s \in Threads, Busy(s)'
                 PROVE  /\ runs'[s].job \in DOMAIN builds'[BuilderOf(s)].jobs
                        /\ builds'[BuilderOf(s)].jobs[runs'[s].job] = "running"
                        /\ builds'[BuilderOf(s)].st = "running"
                        /\ builds'[BuilderOf(s)].parallel <=> s \in Pools
                        /\ s \in Pools => /\ scopes'.guards[s] # <<>>
                                          /\ scopes'.of[s] = builds'[BuilderOf(s)].captured
      BY DEF RunsCurrent, BuildOf
    <2>1. CASE s = t
      BY <1>0, <1>1, <1>3, <2>1
    <2>2. CASE s # t
      <3>1. BuilderOf(s) \in Builders /\ Busy(s)
        BY <1>3, <2>2, ThreadsOfBuilds DEF Busy
      <3>2. /\ runs[s].job \in DOMAIN BuildOf(s).jobs /\ BuildOf(s).jobs[runs[s].job] = "running"
            /\ BuildOf(s).st = "running" /\ (BuildOf(s).parallel <=> s \in Pools)
            /\ s \in Pools => scopes.guards[s] # <<>> /\ scopes.of[s] = BuildOf(s).captured
        BY <3>1 DEF ToolInv, BuildsHeard, RunsCurrent
      <3> QED BY <1>1, <1>3, <2>2, <3>1, <3>2 DEF BuildOf
    <2> QED BY <2>1, <2>2
  <1>6. RunsApart'
    <2>1. ASSUME NEW s \in Threads \ {t}, Busy(s), BuilderOf(s) = b PROVE runs[s].job # i
      BY <2>1 DEF ToolInv, BuildsHeard, RunsCurrent, BuildOf
    <2> QED BY <1>3, <2>1 DEF ToolInv, BuildsHeard, RunsApart, Busy
  <1>10. Owned'
    <2>1. \A e \in heard' \ heard : e.to \in Hearers(e.by)
      OBVIOUS
    <2> QED BY <1>1, <2>1, OwnedKept
  <1>11. \A c \in Builders : Tracked(c)' <=> Tracked(c)
    BY <1>1 DEF Tracked
  <1>7. RunsReported'
    <2> SUFFICES ASSUME NEW s \in Threads, Busy(s)', Tracked(BuilderOf(s))', runs'[s].at # "spawn"
                 PROVE  /\ Got(BuilderOf(s), runs'[s].job, "spawn", builds'[BuilderOf(s)].captured)
                        /\ runs'[s].at = "done" =>
                             Got(BuilderOf(s), runs'[s].job, "success", builds'[BuilderOf(s)].captured)
      BY <1>3 DEF RunsReported, BuildOf, Got
    <2>1. s \in Threads \ {t} /\ BuilderOf(s) \in Builders
      BY <1>3, ThreadsOfBuilds
    <2>2. /\ runs'[s] = runs[s] /\ Busy(s) /\ builds'[BuilderOf(s)].captured = builds[BuilderOf(s)].captured
          /\ Tracked(BuilderOf(s))
      BY <1>1, <1>3, <1>11, <2>1 DEF Busy
    <2> QED BY <2>1, <2>2 DEF ToolInv, BuildsHeard, RunsReported, BuildOf
  <1>8. JobsReported'
    <2> SUFFICES ASSUME NEW c \in Builders, Tracked(c), NEW k \in DOMAIN builds[c].jobs
                 PROVE  JobReported(c, k)'
      BY <1>1, <1>11 DEF JobsReported
    <2>1. JobReported(c, k)
      BY DEF ToolInv, BuildsHeard, JobsReported
    <2>2. InstallOpen(c, k) => InstallOpen(c, k)'
      BY <1>3, ThreadsOfBuilds DEF InstallOpen, Busy
    <2>3. \A event, to : Got(c, k, event, to)' <=> Got(c, k, event, to)
      BY DEF Got
    <2>4. /\ builds'[c].jobs[k] \in {builds[c].jobs[k], "running"}
          /\ builds'[c].captured = builds[c].captured
      BY <1>1
    <2> QED BY <2>1, <2>2, <2>3, <2>4 DEF JobReported, InstallReported
  <1>9. BuildsInOrder'
    <2>1. \A c \in Builders : HasFailed(c) => HasFailed(c)'
      BY <1>1 DEF HasFailed
    <2>2. ASSUME NEW c \in Builders
          PROVE  /\ builds'[c].st = "new" =>
                      /\ ~builds'[c].parallel /\ \A e \in heard' : e.by # c
                      /\ \A k \in DOMAIN builds'[c].jobs : builds'[c].jobs[k] = "todo"
                 /\ builds'[c].st = "ok" => \A k \in DOMAIN builds'[c].jobs : builds'[c].jobs[k] = "done"
                 /\ \A k \in DOMAIN builds'[c].jobs : builds'[c].jobs[k] = "skipped" => HasFailed(c)
      <3>1. /\ builds[c].st = "new" => /\ ~builds[c].parallel /\ \A e \in heard : e.by # c
                                       /\ \A k \in DOMAIN builds[c].jobs : builds[c].jobs[k] = "todo"
            /\ builds[c].st = "ok" => \A k \in DOMAIN builds[c].jobs : builds[c].jobs[k] = "done"
            /\ \A k \in DOMAIN builds[c].jobs : builds[c].jobs[k] = "skipped" => HasFailed(c)
        BY DEF ToolInv, BuildsHeard, BuildsInOrder
      <3>2. CASE c = b
        BY <1>1, <3>1, <3>2
      <3>3. CASE c # b
        BY <1>1, <3>1, <3>3
      <3> QED BY <3>2, <3>3
    <2> QED BY <2>1, <2>2 DEF BuildsInOrder
  <1> QED BY <1>4, <1>5, <1>6, <1>7, <1>8, <1>9, <1>10 DEF ToolInv, BuildsHeard

LEMMA NextJobHolds == ASSUME ToolInv, NEW b \in Builders, NextJob(b) PROVE ToolInv'
  <1>1. /\ builds[b].st = "running" /\ ~builds[b].parallel /\ runs[b] = NoRun
        /\ UNCHANGED <<glob, scopes, installed, heard>>
    BY DEF NextJob
  <1>2. PICK i \in DOMAIN builds[b].jobs :
          /\ builds[b].jobs[i] = "todo"
          /\ builds' = WithJob(b, i, "running")
          /\ runs' = [runs EXCEPT ![b] = [at |-> "spawn", job |-> i]]
    BY DEF NextJob, WithJob
  <1>3. b \in Threads /\ b \notin Pools /\ BuilderOf(b) = b
    BY ThreadsOfBuilds
  <1>4. ~Busy(b)
    BY <1>1 DEF Busy, NoRun
  <1>5. GuardsCounted' /\ scopes'.of \in [Threads -> Reporters] /\ scopes'.guards \in [Threads -> Seq(Reporters)]
    BY <1>1 DEF ToolInv, ToolTypeOK, GuardsCounted, ReportersRestored, GuardsHeld
  <1>6. \A s \in Threads : Held(s)' \subseteq Hearers(BuilderOf(s))
    BY <1>1 DEF ToolInv, Owned, ScopesOwned, Held
  <1> QED BY <1>1, <1>2, <1>3, <1>4, <1>5, <1>6, JobBegins

LEMMA TakeJobHolds == ASSUME ToolInv, NEW t \in Threads, TakeJob(t) PROVE ToolInv'
  <1> DEFINE b == BuilderOf(t)
  <1>1. /\ t \in PoolOf[b] /\ builds[b].st = "running" /\ builds[b].parallel /\ runs[t] = NoRun
        /\ scopes' = Scoped(t, builds[b].captured)
        /\ UNCHANGED <<glob, installed, heard>>
    BY DEF TakeJob, OnPoolThread
  <1>2. PICK i \in DOMAIN builds[b].jobs :
          /\ builds[b].jobs[i] = "todo"
          /\ builds' = WithJob(b, i, "running")
          /\ runs' = [runs EXCEPT ![t] = [at |-> "spawn", job |-> i]]
    BY DEF TakeJob, WithJob
  <1>3. b \in Builders /\ t \in Pools
    BY <1>1, ThreadsOfBuilds
  <1>4. ~Busy(t)
    BY <1>1 DEF Busy, NoRun
  <1>5. builds[b].captured \in Reporters /\ builds[b].captured \in Hearers(b)
    BY <1>3 DEF ToolInv, ToolTypeOK, BuildType, Owned, BuildOwned
  <1>6. /\ GuardsCounted'
        /\ scopes'.of \in [Threads -> Reporters] /\ scopes'.guards \in [Threads -> Seq(Reporters)]
        /\ scopes'.guards[t] # <<>> /\ scopes'.of[t] = builds[b].captured
        /\ Held(t)' \subseteq Held(t) \cup {builds[b].captured}
        /\ \A s \in Threads \ {t} :
             scopes'.of[s] = scopes.of[s] /\ scopes'.guards[s] = scopes.guards[s]
    BY <1>1, <1>5, ScopedHolds DEF ToolInv
  <1>7. ASSUME NEW s \in Threads PROVE Held(s)' \subseteq Hearers(BuilderOf(s))
    <2>1. Held(s) \subseteq Hearers(BuilderOf(s))
      BY DEF ToolInv, Owned, ScopesOwned
    <2>2. CASE s = t
      BY <1>5, <1>6, <2>1, <2>2
    <2>3. CASE s # t
      BY <1>6, <2>1, <2>3 DEF Held
    <2> QED BY <2>2, <2>3
  <1>8. \A c \in Builders : c \in Threads \ {t}
    BY <1>3, ThreadsOfBuilds
  <1> QED BY <1>1, <1>2, <1>3, <1>4, <1>6, <1>7, <1>8, JobBegins

-----------------------------------------------------------------------------
(* One job                                                                    *)

\* What a job has said by the step it is at.
Says(t) ==
    LET said(event) == Got(BuilderOf(t), runs[t].job, event, BuildOf(t).captured) IN
    /\ runs[t].at # "spawn" => said("spawn")
    /\ runs[t].at = "done" => said("success")
    /\ said("installing") => said("installed") \/ said("install failed") \/ runs[t].at = "installing"

\* The steps of a job on thread t: it says what has to be said before it goes on.
LEMMA JobGoesOn ==
    ASSUME ToolInv, NEW t \in Threads, Busy(t), NEW step \in Steps,
           runs' = [runs EXCEPT ![t].at = step],
           UNCHANGED <<glob, scopes, builds>>,
           heard \subseteq heard',
           \A e \in heard' \ heard : e.by = BuilderOf(t) /\ e.job = runs[t].job /\ e.to = GetDefault(t),
           Tracked(BuilderOf(t)) => Says(t)'
    PROVE  ToolInv'
  <1> DEFINE b == BuilderOf(t)
             i == runs[t].job
  <1>0. b \in Builders /\ Pools \subseteq Threads
    BY ThreadsOfBuilds
  <1>1. /\ runs' \in [Threads -> [at : {"idle"} \cup Steps, job : Nat]]
        /\ runs'[t].at = step /\ runs'[t].job = i
        /\ \A s \in Threads \ {t} : runs'[s] = runs[s]
        /\ \A s \in Threads : runs'[s].job = runs[s].job /\ (Busy(s)' <=> Busy(s))
    BY DEF ToolInv, ToolTypeOK, Steps, Busy
  <1>2. ToolTypeOK'
    BY <1>1 DEF ToolInv, ToolTypeOK
  <1>3. GuardsCounted'
    BY DEF ToolInv, GuardsCounted, ReportersRestored, GuardsHeld
  <1>4. RunsCurrent' /\ RunsApart'
    <2>1. RunsCurrent'
      BY <1>1 DEF ToolInv, BuildsHeard, RunsCurrent, BuildOf
    <2>2. RunsApart'
      BY <1>1 DEF ToolInv, BuildsHeard, RunsApart
    <2> QED BY <2>1, <2>2
  <1>8. Owned'
    <2>1. \A e \in heard' \ heard : e.to \in Hearers(e.by)
      BY DefaultOwned
    <2> QED BY <2>1, OwnedStays
  <1>9. \A c : Tracked(c)' <=> Tracked(c)
    BY DEF Tracked
  <1>5. RunsReported'
    <2> SUFFICES ASSUME NEW s \in Threads, Busy(s), Tracked(BuilderOf(s))
                 PROVE  /\ runs'[s].at # "spawn" => Got(BuilderOf(s), runs[s].job, "spawn", BuildOf(s).captured)'
                        /\ runs'[s].at = "done" => Got(BuilderOf(s), runs[s].job, "success", BuildOf(s).captured)'
      BY <1>0, <1>1, <1>9 DEF RunsReported, BuildOf
    <2>1. CASE s = t
      BY <1>1, <2>1 DEF Says
    <2>2. CASE s # t
      BY <1>0, <1>1, <2>2 DEF ToolInv, BuildsHeard, RunsReported, BuildOf, Got
    <2> QED BY <2>1, <2>2
  <1>6. JobsReported'
    <2> SUFFICES ASSUME NEW c \in Builders, Tracked(c), NEW k \in DOMAIN builds[c].jobs
                 PROVE  JobReported(c, k)'
      BY <1>9 DEF JobsReported
    <2>1. JobReported(c, k)
      BY DEF ToolInv, BuildsHeard, JobsReported
    <2>2. CASE c = b /\ k = i
      <3>1. builds[c].jobs[k] = "running"
        BY <2>2 DEF ToolInv, BuildsHeard, RunsCurrent, BuildOf
      <3>2. step = "installing" => InstallOpen(c, k)'
        BY <1>1, <2>2, <3>1 DEF InstallOpen
      <3>3. InstallReported(c, k)'
        BY <1>1, <2>2, <3>2 DEF InstallReported, BuildOf, Says
      <3> QED BY <3>1, <3>3 DEF JobReported
    <2>3. CASE ~(c = b /\ k = i)
      <3>1. \A event, to : Got(c, k, event, to)' <=> Got(c, k, event, to)
        BY <2>3 DEF Got
      <3>2. InstallOpen(c, k) => InstallOpen(c, k)'
        <4>1. \A s \in Threads : BuilderOf(s) = c /\ runs[s].job = k => s # t
          BY <2>3
        <4> QED BY <1>1, <4>1 DEF InstallOpen
      <3> QED BY <2>1, <3>1, <3>2 DEF JobReported, InstallReported
    <2> QED BY <2>2, <2>3
  <1>7. BuildsInOrder'
    <2>1. builds[b].st = "running"
      BY DEF ToolInv, BuildsHeard, RunsCurrent, BuildOf
    <2> QED BY <1>0, <2>1 DEF ToolInv, BuildsHeard, BuildsInOrder, HasFailed
  <1> QED BY <1>2, <1>3, <1>4, <1>5, <1>6, <1>7, <1>8 DEF ToolInv, BuildsHeard

\* A job that is not being installed has an installation that was begun reported.
LEMMA NotInstalling ==
    ASSUME ToolInv, NEW t \in Threads, Busy(t), Tracked(BuilderOf(t)), runs[t].at # "installing",
           Got(BuilderOf(t), runs[t].job, "installing", BuildOf(t).captured)
    PROVE  \/ Got(BuilderOf(t), runs[t].job, "installed", BuildOf(t).captured)
           \/ Got(BuilderOf(t), runs[t].job, "install failed", BuildOf(t).captured)
  <1> DEFINE b == BuilderOf(t)
             i == runs[t].job
  <1>1. b \in Builders /\ i \in DOMAIN builds[b].jobs
    BY ThreadsOfBuilds DEF ToolInv, BuildsHeard, RunsCurrent, BuildOf
  <1>2. InstallReported(b, i)
    BY <1>1 DEF ToolInv, BuildsHeard, JobsReported, JobReported
  <1>3. ~InstallOpen(b, i)
    <2> SUFFICES ASSUME NEW s \in Threads, BuilderOf(s) = b, runs[s].job = i, runs[s].at = "installing"
                 PROVE  FALSE
      BY DEF InstallOpen
    <2>1. Busy(s)
      BY DEF Busy
    <2>2. s = t
      BY <2>1 DEF ToolInv, BuildsHeard, RunsApart
    <2> QED BY <2>2
  <1> QED BY <1>1, <1>2, <1>3 DEF InstallReported, BuildOf

\* A step of a job that reports an event.
LEMMA JobTells ==
    ASSUME ToolInv, NEW t \in Threads, Busy(t), NEW step \in Steps, NEW event,
           Go(t, step), Tell(t, event, runs[t].job), UNCHANGED <<glob, scopes, builds>>,
           event = "spawn" \/ runs[t].at # "spawn",
           step = "done" => event = "success",
           event = "installing" => step = "installing",
           event \in {"installed", "install failed"} \/ runs[t].at # "installing"
    PROVE  ToolInv'
  <1> DEFINE b == BuilderOf(t)
             i == runs[t].job
             to == BuildOf(t).captured
             new == [to |-> GetDefault(t), by |-> b, event |-> event, job |-> i]
  <1>1. heard' = heard \cup {new} /\ runs' = [runs EXCEPT ![t].at = step]
    BY DEF Tell, Go
  <1>2. /\ heard \subseteq heard'
        /\ \A e \in heard' \ heard : e.by = b /\ e.job = i /\ e.to = GetDefault(t)
    <2>1. \A e \in heard' \ heard : e = new
      BY <1>1
    <2>2. new.by = b /\ new.job = i /\ new.to = GetDefault(t)
      OBVIOUS
    <2> HIDE DEF new
    <2> QED BY <1>1, <2>1, <2>2
  <1>3. runs'[t].job = i /\ runs'[t].at = step /\ BuildOf(t)' = BuildOf(t)
    BY <1>1 DEF ToolInv, ToolTypeOK, BuildOf
  <1>4. ASSUME Tracked(b) PROVE Says(t)'
    <2>1. GetDefault(t) = to
      BY <1>4, TellsCaptured
    <2>2. \A e : [to |-> to, by |-> b, event |-> e, job |-> i] \in heard'
                   <=> e = event \/ Got(b, i, e, to)
      BY <1>1, <2>1 DEF Got
    <2>3. \A e : Got(b, i, e, to)' <=> e = event \/ Got(b, i, e, to)
      BY <1>3, <2>2 DEF Got
    <2>4. runs[t].at # "spawn" => Got(b, i, "spawn", to)
      BY <1>4 DEF ToolInv, BuildsHeard, RunsReported
    <2>5. runs[t].at # "installing" =>
            (Got(b, i, "installing", to) => Got(b, i, "installed", to) \/ Got(b, i, "install failed", to))
      BY <1>4, NotInstalling
    <2> QED BY <1>3, <2>3, <2>4, <2>5 DEF Says
  <1> QED BY <1>1, <1>2, <1>4, JobGoesOn

\* A step of a job that reports nothing.
LEMMA JobQuiet ==
    ASSUME ToolInv, NEW t \in Threads, Busy(t), NEW step \in Steps \ {"done"},
           Go(t, step), UNCHANGED <<glob, scopes, builds, heard>>,
           runs[t].at \notin {"spawn", "installing"}
    PROVE  ToolInv'
  <1> DEFINE b == BuilderOf(t)
             i == runs[t].job
             to == BuildOf(t).captured
  <1>1. runs' = [runs EXCEPT ![t].at = step]
    BY DEF Go
  <1>2. runs'[t].job = i /\ runs'[t].at = step /\ BuildOf(t)' = BuildOf(t)
    BY <1>1 DEF ToolInv, ToolTypeOK, BuildOf
  <1>3. ASSUME Tracked(b) PROVE Says(t)'
    <2>1. \A e : Got(b, i, e, to)' <=> Got(b, i, e, to)
      BY <1>2 DEF Got
    <2>2. Got(b, i, "spawn", to)
      BY <1>3 DEF ToolInv, BuildsHeard, RunsReported
    <2>3. Got(b, i, "installing", to) => Got(b, i, "installed", to) \/ Got(b, i, "install failed", to)
      BY <1>3, NotInstalling
    <2> QED BY <1>2, <2>1, <2>2, <2>3 DEF Says
  <1> QED BY <1>1, <1>3, JobGoesOn

LEMMA JobStepHolds ==
    ASSUME ToolInv, NEW t \in Threads,
           ReportSpawn(t) \/ FindSvmInstalledVersion(t) \/ InstallStart(t) \/ InstallDone(t) \/ Compile(t)
    PROVE  ToolInv'
  <1>1. CASE ReportSpawn(t)
    <2>1. /\ Busy(t) /\ Go(t, "find") /\ Tell(t, "spawn", runs[t].job) /\ UNCHANGED <<glob, scopes, builds>>
          /\ runs[t].at = "spawn"
      BY <1>1 DEF ReportSpawn, At, Busy
    <2> QED BY <2>1, JobTells DEF Steps
  <1>2. CASE FindSvmInstalledVersion(t)
    <2>1. /\ Busy(t) /\ (Go(t, "compile") \/ Go(t, "install")) /\ UNCHANGED <<glob, scopes, builds, heard>>
          /\ runs[t].at = "find"
      BY <1>2 DEF FindSvmInstalledVersion, At, Busy
    <2> QED BY <2>1, JobQuiet DEF Steps
  <1>3. CASE InstallStart(t)
    <2>1. /\ Busy(t) /\ Go(t, "installing") /\ Tell(t, "installing", runs[t].job)
          /\ UNCHANGED <<glob, scopes, builds>> /\ runs[t].at = "install"
      BY <1>3 DEF InstallStart, At, Busy
    <2> QED BY <2>1, JobTells DEF Steps
  <1>4. CASE InstallDone(t)
    <2>1. /\ Busy(t) /\ UNCHANGED <<glob, scopes, builds>> /\ runs[t].at = "installing"
          /\ \/ Tell(t, "installed", runs[t].job) /\ Go(t, "compile")
             \/ Tell(t, "install failed", runs[t].job) /\ Go(t, "error")
      BY <1>4 DEF InstallDone, At, Busy
    <2>2. CASE Tell(t, "installed", runs[t].job) /\ Go(t, "compile")
      BY <2>1, <2>2, JobTells DEF Steps
    <2>3. CASE Tell(t, "install failed", runs[t].job) /\ Go(t, "error")
      BY <2>1, <2>3, JobTells DEF Steps
    <2> QED BY <2>1, <2>2, <2>3
  <1>5. CASE Compile(t)
    <2>1. /\ Busy(t) /\ UNCHANGED <<glob, scopes, builds>> /\ runs[t].at = "compile"
          /\ \/ Tell(t, "success", runs[t].job) /\ Go(t, "done")
             \/ Go(t, "error") /\ UNCHANGED heard
      BY <1>5 DEF Compile, At, Busy
    <2>2. CASE Tell(t, "success", runs[t].job) /\ Go(t, "done")
      BY <2>1, <2>2, JobTells DEF Steps
    <2>3. CASE Go(t, "error") /\ UNCHANGED heard
      BY <2>1, <2>3, JobQuiet DEF Steps
    <2> QED BY <2>1, <2>2, <2>3
  <1> QED BY <1>1, <1>2, <1>3, <1>4, <1>5

\* The job is over: what its thread has reported is known of the job from now on.
LEMMA EndJobHolds == ASSUME ToolInv, NEW t \in Threads, EndJob(t) PROVE ToolInv'
  <1> DEFINE b == BuilderOf(t)
             i == runs[t].job
             x == runs[t].at
  <1>0. b \in Builders /\ Pools \subseteq Threads /\ Busy(t) /\ x \in {"done", "error"} /\ x \in JobStates
    BY ThreadsOfBuilds DEF EndJob, Busy, JobStates
  <1>1. /\ i \in DOMAIN builds[b].jobs /\ builds[b].jobs[i] = "running" /\ builds[b].st = "running"
        /\ (builds[b].parallel <=> t \in Pools) /\ (t \in Pools => scopes.guards[t] # <<>>)
    BY <1>0 DEF ToolInv, BuildsHeard, RunsCurrent, BuildOf
  <1>2. /\ builds' = WithJob(b, i, x) /\ runs' = [runs EXCEPT ![t] = NoRun]
        /\ (t \in Pools => scopes' = Dropped(t)) /\ (t \notin Pools => scopes' = scopes)
        /\ UNCHANGED <<glob, installed, heard>>
    BY DEF EndJob, WithJob
  <1>3. /\ DOMAIN builds' = Builders
        /\ \A c \in Builders :
             /\ builds'[c] \in BuildType(c)
             /\ builds'[c].st = builds[c].st /\ builds'[c].parallel = builds[c].parallel
             /\ builds'[c].captured = builds[c].captured
             /\ builds'[c].owner = builds[c].owner /\ builds'[c].beside = builds[c].beside
             /\ DOMAIN builds'[c].jobs = DOMAIN builds[c].jobs
             /\ \A k \in DOMAIN builds[c].jobs :
                  builds'[c].jobs[k] = IF c = b /\ k = i THEN x ELSE builds[c].jobs[k]
    <2>1. ToolTypeOK
      BY DEF ToolInv
    <2> QED BY <1>0, <1>1, <1>2, <2>1, JobMoves
  <1>4. /\ GuardsCounted'
        /\ scopes'.of \in [Threads -> Reporters] /\ scopes'.guards \in [Threads -> Seq(Reporters)]
        /\ \A s \in Threads \ {t} :
             scopes'.of[s] = scopes.of[s] /\ scopes'.guards[s] = scopes.guards[s]
        /\ Held(t)' \subseteq Held(t)
        /\ t \notin Pools => scopes' = scopes
    <2>1. CASE t \in Pools
      BY <1>1, <1>2, <2>1, DroppedHolds DEF ToolInv
    <2>2. CASE t \notin Pools
      BY <1>2, <2>2 DEF ToolInv, ToolTypeOK, GuardsCounted, ReportersRestored, GuardsHeld, Held
    <2> QED BY <2>1, <2>2
  <1>5. /\ runs' \in [Threads -> [at : {"idle"} \cup Steps, job : Nat]]
        /\ runs'[t].at = "idle"
        /\ \A s \in Threads \ {t} : runs'[s] = runs[s]
    <2>1. NoRun \in [at : {"idle"} \cup Steps, job : Nat] /\ NoRun.at = "idle"
      BY DEF NoRun
    <2> QED BY <1>2, <2>1 DEF ToolInv, ToolTypeOK
  <1>6. ToolTypeOK'
    BY <1>2, <1>3, <1>4, <1>5 DEF ToolInv, ToolTypeOK
  <1>7. ASSUME NEW s \in Threads, Busy(s)'
        PROVE  s # t /\ Busy(s) /\ runs'[s] = runs[s] /\ (BuilderOf(s) = b => runs[s].job # i)
    BY <1>0, <1>5, <1>7 DEF Busy, ToolInv, BuildsHeard, RunsApart
  <1>8. RunsCurrent'
    <2> SUFFICES ASSUME NEW s \in Threads, Busy(s)'
                 PROVE  /\ runs'[s].job \in DOMAIN builds'[BuilderOf(s)].jobs
                        /\ builds'[BuilderOf(s)].jobs[runs'[s].job] = "running"
                        /\ builds'[BuilderOf(s)].st = "running"
                        /\ builds'[BuilderOf(s)].parallel <=> s \in Pools
                        /\ s \in Pools => /\ scopes'.guards[s] # <<>>
                                          /\ scopes'.of[s] = builds'[BuilderOf(s)].captured
      BY DEF RunsCurrent, BuildOf
    <2>1. BuilderOf(s) \in Builders
      BY ThreadsOfBuilds
    <2>2. s # t /\ Busy(s) /\ runs'[s] = runs[s] /\ (BuilderOf(s) = b => runs[s].job # i)
      BY <1>7
    <2>3. /\ runs[s].job \in DOMAIN BuildOf(s).jobs /\ BuildOf(s).jobs[runs[s].job] = "running"
          /\ BuildOf(s).st = "running" /\ (BuildOf(s).parallel <=> s \in Pools)
          /\ s \in Pools => scopes.guards[s] # <<>> /\ scopes.of[s] = BuildOf(s).captured
      BY <2>2 DEF ToolInv, BuildsHeard, RunsCurrent
    <2> QED BY <1>3, <1>4, <2>1, <2>2, <2>3 DEF BuildOf
  <1>9. RunsApart'
    BY <1>7 DEF ToolInv, BuildsHeard, RunsApart
  <1>13. Owned'
    <2>1. ASSUME NEW s \in Threads PROVE Held(s)' \subseteq Hearers(BuilderOf(s))
      <3>1. Held(s) \subseteq Hearers(BuilderOf(s))
        BY DEF ToolInv, Owned, ScopesOwned
      <3>2. CASE s = t
        BY <1>4, <3>1, <3>2
      <3>3. CASE s # t
        BY <1>4, <3>1, <3>3 DEF Held
      <3> QED BY <3>2, <3>3
    <2>2. \A c \in Builders : scopes'.of[c] = scopes.of[c] /\ scopes'.guards[c] = scopes.guards[c]
      BY <1>4, ThreadsOfBuilds
    <2> QED BY <1>2, <1>3, <2>1, <2>2, OwnedKept
  <1>14. \A c \in Builders : Tracked(c)' <=> Tracked(c)
    BY <1>3 DEF Tracked
  <1>10. RunsReported'
    <2> SUFFICES ASSUME NEW s \in Threads, Busy(s)', Tracked(BuilderOf(s))'
                 PROVE  /\ runs'[s].at # "spawn" =>
                             Got(BuilderOf(s), runs'[s].job, "spawn", builds'[BuilderOf(s)].captured)
                        /\ runs'[s].at = "done" =>
                             Got(BuilderOf(s), runs'[s].job, "success", builds'[BuilderOf(s)].captured)
      BY <1>2 DEF RunsReported, BuildOf, Got
    <2>1. BuilderOf(s) \in Builders
      BY ThreadsOfBuilds
    <2>2. /\ runs'[s] = runs[s] /\ Busy(s) /\ builds'[BuilderOf(s)].captured = builds[BuilderOf(s)].captured
          /\ Tracked(BuilderOf(s))
      BY <1>3, <1>7, <1>14, <2>1
    <2> QED BY <2>1, <2>2 DEF ToolInv, BuildsHeard, RunsReported, BuildOf
  <1>11. JobsReported'
    <2> SUFFICES ASSUME NEW c \in Builders, Tracked(c), NEW k \in DOMAIN builds[c].jobs
                 PROVE  JobReported(c, k)'
      BY <1>3, <1>14 DEF JobsReported
    <2>1. JobReported(c, k)
      BY DEF ToolInv, BuildsHeard, JobsReported
    <2>2. CASE c = b /\ k = i
      <3>1. builds'[c].jobs[k] = x /\ builds'[c].captured = BuildOf(t).captured
        BY <1>3, <2>2 DEF BuildOf
      <3>2. /\ Got(b, i, "spawn", BuildOf(t).captured)
            /\ x = "done" => Got(b, i, "success", BuildOf(t).captured)
        BY <1>0, <2>2 DEF ToolInv, BuildsHeard, RunsReported
      <3>3. Got(b, i, "installing", BuildOf(t).captured) =>
              Got(b, i, "installed", BuildOf(t).captured) \/ Got(b, i, "install failed", BuildOf(t).captured)
        BY <1>0, <2>2, NotInstalling
      <3> QED BY <1>2, <2>2, <3>1, <3>2, <3>3 DEF JobReported, InstallReported, Got
    <2>3. CASE ~(c = b /\ k = i)
      <3>1. builds'[c].jobs[k] = builds[c].jobs[k] /\ builds'[c].captured = builds[c].captured
        BY <1>3, <2>3
      <3>2. InstallOpen(c, k) => InstallOpen(c, k)'
        <4>1. \A s \in Threads : BuilderOf(s) = c /\ runs[s].job = k => s # t
          BY <2>3
        <4> QED BY <1>5, <4>1 DEF InstallOpen
      <3> QED BY <1>2, <2>1, <3>1, <3>2 DEF JobReported, InstallReported, Got
    <2> QED BY <2>2, <2>3
  <1>12. BuildsInOrder'
    <2>1. \A c \in Builders : HasFailed(c) => HasFailed(c)'
      BY <1>1, <1>3 DEF HasFailed
    <2> QED BY <1>0, <1>1, <1>2, <1>3, <2>1 DEF ToolInv, BuildsHeard, BuildsInOrder
  <1> QED BY <1>4, <1>6, <1>8, <1>9, <1>10, <1>11, <1>12, <1>13 DEF ToolInv, BuildsHeard

-----------------------------------------------------------------------------
(* The theorems                                                               *)

LEMMA UnchangedHolds == ASSUME ToolInv, UNCHANGED toolVars PROVE ToolInv'
  <1>1. UNCHANGED <<glob, scopes, builds, runs, heard>>
    BY DEF toolVars
  <1>2. ToolTypeOK'
    BY <1>1 DEF ToolInv, ToolTypeOK
  <1>3. GuardsCounted'
    BY <1>1 DEF ToolInv, GuardsCounted, ReportersRestored, GuardsHeld
  <1>4. Owned'
    BY <1>1, OwnedStays
  <1> QED BY <1>1, <1>2, <1>3, <1>4, ScopesChange

LEMMA StepHolds == ToolInv /\ [ToolchainNext]_toolVars => ToolInv'
  <1> SUFFICES ASSUME ToolInv, [ToolchainNext]_toolVars PROVE ToolInv'
    OBVIOUS
  <1>1. ASSUME NEW b \in Builders, SetGlobal(b) PROVE ToolInv'
    BY <1>1, SetGlobalHolds
  <1>2. ASSUME NEW b \in Builders, WithScoped(b) PROVE ToolInv'
    BY <1>2, WithScopedHolds
  <1>3. ASSUME NEW b \in Builders, EndScoped(b) PROVE ToolInv'
    BY <1>3, EndScopedHolds
  <1>4. ASSUME NEW b \in Builders, NEW p \in BOOLEAN, StartBuild(b, p) PROVE ToolInv'
    BY <1>4, StartBuildHolds
  <1>5. ASSUME NEW b \in Builders, NextJob(b) PROVE ToolInv'
    BY <1>5, NextJobHolds
  <1>6. ASSUME NEW b \in Builders, SkipRest(b) PROVE ToolInv'
    BY <1>6, SkipRestHolds
  <1>7. ASSUME NEW b \in Builders, Collect(b) PROVE ToolInv'
    BY <1>7, CollectHolds
  <1>8. ASSUME NEW t \in Threads, TakeJob(t) PROVE ToolInv'
    BY <1>8, TakeJobHolds
  <1>9. ASSUME NEW t \in Threads,
               ReportSpawn(t) \/ FindSvmInstalledVersion(t) \/ InstallStart(t) \/ InstallDone(t) \/ Compile(t)
        PROVE  ToolInv'
    BY <1>9, JobStepHolds
  <1>10. ASSUME NEW t \in Threads, EndJob(t) PROVE ToolInv'
    BY <1>10, EndJobHolds
  <1>11. CASE UNCHANGED toolVars
    BY <1>11, UnchangedHolds
  <1> QED
    BY <1>1, <1>2, <1>3, <1>4, <1>5, <1>6, <1>7, <1>8, <1>9, <1>10, <1>11, Zenon DEF ToolchainNext

LEMMA ToolInvHolds == ToolchainSpec => []ToolInv
  BY InitHolds, StepHolds, PTL DEF ToolchainSpec

\* Every build is in a state of its kind, its captured reporter is one there is,
\* and the threads run jobs (compile_sequential, compile_parallel).
THEOREM TypeCorrect == ToolchainSpec => []ToolTypeOK
  <1>1. ToolInv => ToolTypeOK
    BY DEF ToolInv
  <1> QED BY ToolInvHolds, <1>1, PTL

\* Reporters are put back in whatever order scopes, pool threads and builds end; the
\* reporter of a scope hears of every job and every installation of the build in it
\* and of no other build, and so does the global reporter of a parallel build that
\* began while no thread had a scope (set_scoped, ScopeGuard, compile_parallel).
THEOREM ReportersHear == ToolchainSpec => []ToolchainSound
  <1>1. ASSUME ToolInv PROVE ToolchainSound
    <2>1. ReportersRestored /\ ScopesApart
      BY <1>1 DEF ToolInv, GuardsCounted, Owned
    <2>2. ASSUME NEW b \in Builders, Tracked(b), NEW i \in DOMAIN builds[b].jobs PROVE JobHeard(b, i)
      <3>1. JobReported(b, i)
        BY <1>1, <2>2 DEF ToolInv, BuildsHeard, JobsReported
      <3>2. builds[b].captured = builds[b].owner
        BY <1>1, <2>2 DEF ToolInv, Owned, BuildOwned, Tracked
      <3>3. builds[b].jobs[i] \in {"done", "error"} => ~InstallOpen(b, i)
        BY <1>1 DEF ToolInv, BuildsHeard, RunsCurrent, BuildOf, InstallOpen, Busy
      <3> QED BY <3>1, <3>2, <3>3 DEF JobReported, InstallReported, JobHeard
    <2>3. BuildReported
      BY <1>1, <2>2 DEF BuildReported, ToolInv, BuildsHeard, BuildsInOrder
    <2> QED BY <2>1, <2>3 DEF ToolchainSound
  <1> QED BY ToolInvHolds, <1>1, PTL
=============================================================================
