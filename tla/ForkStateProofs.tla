--------------------------- MODULE ForkStateProofs ---------------------------
(***************************************************************************)
(* Proofs about AccountFetch, for any number of requests that share the    *)
(* fetch mode, about MemDb, for any accounts, slots and chain, and about   *)
(* ForkCacheFile, for any number of processes that share a cache file and  *)
(* crash or overwrite it at any point.                                     *)
(***************************************************************************)
EXTENDS AccountFetch, MemDb, ForkCacheFile, FiniteSetTheorems, TLAPS

-----------------------------------------------------------------------------
(* AccountFetch                                                            *)

\* A future waits for calls it has made: the race for both, the others for theirs.
AwaitedCallsMade ==
    \A r \in Reqs :
      /\ stage[r] \in {"race", "info"} => info[r] # "unsent"
      /\ stage[r] \in {"race", "triple"} => triple[r] # "unsent"

FetchInv == FetchTypeOK /\ AwaitedCallsMade /\ FailsOnlyOnSeparateCalls

LEMMA FetchInvInit == FetchInit => FetchInv
  BY DEF FetchInit, FetchInv, FetchTypeOK, AwaitedCallsMade, FailsOnlyOnSeparateCalls, Call, Done

LEMMA FetchInvStep == FetchInv /\ [FetchNext]_fetchVars => FetchInv'
  <1> SUFFICES ASSUME FetchInv, [FetchNext]_fetchVars PROVE FetchInv'
    OBVIOUS
  <1> USE DEF FetchInv, FetchTypeOK, AwaitedCallsMade, FailsOnlyOnSeparateCalls, Call, Done, Become
  <1>1. ASSUME NEW r \in Reqs, DispatchUnchecked(r) PROVE FetchInv'
    BY <1>1 DEF DispatchUnchecked
  <1>2. ASSUME NEW r \in Reqs, DispatchInfo(r) PROVE FetchInv'
    BY <1>2 DEF DispatchInfo
  <1>3. ASSUME NEW r \in Reqs, DispatchSeparate(r) PROVE FetchInv'
    BY <1>3 DEF DispatchSeparate
  <1>4. ASSUME NEW r \in Reqs, RaceInfo(r) PROVE FetchInv'
    BY <1>4 DEF RaceInfo
  <1>5. ASSUME NEW r \in Reqs, RaceTriple(r) PROVE FetchInv'
    BY <1>5 DEF RaceTriple
  <1>6. ASSUME NEW r \in Reqs, AwaitInfo(r) PROVE FetchInv'
    BY <1>6 DEF AwaitInfo
  <1>7. ASSUME NEW r \in Reqs, AwaitTriple(r) PROVE FetchInv'
    BY <1>7 DEF AwaitTriple
  <1>8. ASSUME NEW r \in Reqs, ProviderInfo(r) PROVE FetchInv'
    BY <1>8, InfoAssumption DEF ProviderInfo
  <1>9. ASSUME NEW r \in Reqs, ProviderTriple(r) PROVE FetchInv'
    BY <1>9 DEF ProviderTriple
  <1>10. ASSUME NEW r \in Reqs, NextRequest(r) PROVE FetchInv'
    BY <1>10 DEF NextRequest
  <1>11. CASE UNCHANGED fetchVars
    BY <1>11 DEF fetchVars
  <1> QED
    BY <1>1, <1>2, <1>3, <1>4, <1>5, <1>6, <1>7, <1>8, <1>9, <1>10, <1>11
    DEF FetchNext, Progress, Poll

\* The dispatch never meets a mode it has no arm for (the match in
\* get_account_req whose last arm is unreachable!), and no future is awaited
\* whose calls were not made.
THEOREM FetchTypeCorrect == FetchSpec => [](FetchTypeOK /\ AwaitedCallsMade)
  <1>1. FetchInv => FetchTypeOK /\ AwaitedCallsMade
    BY DEF FetchInv
  <1> QED BY <1>1, FetchInvInit, FetchInvStep, PTL DEF FetchSpec

\* An account request fails only when one of the three standard calls failed,
\* whatever the other requests learn about the endpoint while it is in flight
\* (get_account_req and its fallbacks).
THEOREM FailsForStandardCalls == FetchSpec => []FailsOnlyOnSeparateCalls
  <1>1. FetchInv => FailsOnlyOnSeparateCalls
    BY DEF FetchInv
  <1> QED BY <1>1, FetchInvInit, FetchInvStep, PTL DEF FetchSpec

-----------------------------------------------------------------------------
(* MemDb: partial maps                                                     *)

Partial(D, R) == UNION {[S -> R] : S \in SUBSET D}

IsPartial(f, D, R) ==
    /\ f = [x \in DOMAIN f |-> f[x]]
    /\ DOMAIN f \subseteq D
    /\ \A x \in DOMAIN f : f[x] \in R

LEMMA PartialMeans ==
    ASSUME NEW D, NEW R, NEW f
    PROVE  f \in Partial(D, R) <=> IsPartial(f, D, R)
  <1>1. ASSUME f \in Partial(D, R) PROVE IsPartial(f, D, R)
    <2>1. PICK S \in SUBSET D : f \in [S -> R]
      BY <1>1 DEF Partial
    <2> QED BY <2>1 DEF IsPartial
  <1>2. ASSUME IsPartial(f, D, R) PROVE f \in Partial(D, R)
    <2>1. f \in [DOMAIN f -> R]
      BY <1>2 DEF IsPartial
    <2> QED BY <1>2, <2>1 DEF Partial, IsPartial
  <1> QED BY <1>1, <1>2

LEMMA NoEntriesPartial == ASSUME NEW D, NEW R PROVE NoEntries \in Partial(D, R)
  <1>1. NoEntries \in [{} -> R]
    BY DEF NoEntries
  <1> QED BY <1>1 DEF Partial


LEMMA WithPartial ==
    ASSUME NEW D, NEW R, NEW f \in Partial(D, R), NEW x \in D, NEW v \in R
    PROVE  With(f, x, v) \in Partial(D, R)
  <1>1. DOMAIN f \subseteq D /\ \A y \in DOMAIN f : f[y] \in R
    BY PartialMeans DEF IsPartial
  <1>2. DOMAIN With(f, x, v) = DOMAIN f \cup {x}
    BY DEF With
  <1>3. \A y \in DOMAIN With(f, x, v) : With(f, x, v)[y] \in R
    BY <1>1 DEF With
  <1>4. With(f, x, v) = [y \in DOMAIN With(f, x, v) |-> With(f, x, v)[y]]
    BY DEF With
  <1> QED BY <1>1, <1>2, <1>3, <1>4, PartialMeans DEF IsPartial

LEMMA WithoutPartial ==
    ASSUME NEW D, NEW R, NEW f \in Partial(D, R), NEW x
    PROVE  Without(f, x) \in Partial(D, R)
  <1>1. DOMAIN f \subseteq D /\ \A y \in DOMAIN f : f[y] \in R
    BY PartialMeans DEF IsPartial
  <1>2. DOMAIN Without(f, x) = DOMAIN f \ {x}
    BY DEF Without
  <1>3. \A y \in DOMAIN Without(f, x) : Without(f, x)[y] \in R
    BY <1>1 DEF Without
  <1>4. Without(f, x) = [y \in DOMAIN Without(f, x) |-> Without(f, x)[y]]
    BY DEF Without
  <1> QED BY <1>1, <1>2, <1>3, <1>4, PartialMeans DEF IsPartial

-----------------------------------------------------------------------------
(* MemDb: type correctness                                                 *)

States == [info : Infos, slots : [Slots -> Values]]

MemTypeOK ==
    /\ backing \in {"local", "fork"}
    /\ accounts \in Partial(Accts, Infos)
    /\ storage \in Partial(Accts, Partial(Slots, Values))
    /\ world \in [Accts -> States]
    /\ flying \subseteq FetchKeys /\ raced \subseteq FetchKeys
    /\ backing = "local" => flying = {}

\* Keys are told apart by what they are made of.
LEMMA KeysDiffer ==
    /\ \A a, b \in Accts : InfoKey(a) = InfoKey(b) => a = b
    /\ \A a, b \in Accts, s \in Slots : InfoKey(a) # SlotKey(b, s)
    /\ \A a, b \in Accts, s, t \in Slots : SlotKey(a, s) = SlotKey(b, t) => a = b /\ s = t
  <1>1. \A a, b \in Accts : InfoKey(a) = InfoKey(b) => a = b
    BY DEF InfoKey
  <1>2. \A a, b \in Accts, s \in Slots : InfoKey(a) # SlotKey(b, s)
    BY SlotsAssumption DEF InfoKey, SlotKey
  <1>3. \A a, b \in Accts, s, t \in Slots : SlotKey(a, s) = SlotKey(b, t) => a = b /\ s = t
    BY DEF SlotKey
  <1> QED BY <1>1, <1>2, <1>3

LEMMA EmptyInfoTyped == EmptyInfo \in Infos
  BY DEF EmptyInfo, Infos, KECCAK_EMPTY

\* The hash of the one code there is, and that no hash stored is zero.
LEMMA CommittedTyped ==
    ASSUME NEW i \in Infos
    PROVE  CommittedInfo(i) \in Infos /\ CommittedInfo(i).code_hash # ZeroHash
  <1>1. CASE i.code \notin {NoCode, 0}
    <2>1. i.code = 5
      BY <1>1 DEF Infos
    <2> QED BY <1>1, <2>1 DEF CommittedInfo, Infos, HashOf, ZeroHash
  <1>2. CASE i.code \in {NoCode, 0} /\ i.code_hash = ZeroHash
    BY <1>2 DEF CommittedInfo, Infos, KECCAK_EMPTY, ZeroHash
  <1>3. CASE i.code \in {NoCode, 0} /\ i.code_hash # ZeroHash
    BY <1>3 DEF CommittedInfo
  <1> QED BY <1>1, <1>2, <1>3

LEMMA AccountTyped ==
    ASSUME NEW acc \in Accounts
    PROVE  acc.info \in Infos /\ acc.storage \in Partial(Slots, Values)
  BY DEF Accounts, Partial

LEMMA SlotsHeldTyped ==
    ASSUME MemTypeOK, NEW a
    PROVE  SlotsHeld(a) \in Partial(Slots, Values)
  BY PartialMeans, NoEntriesPartial DEF MemTypeOK, SlotsHeld, IsPartial

\* Which slots a commit leaves, and their values.
LEMMA CommittedSlotsMeans ==
    ASSUME NEW old \in Partial(Slots, Values), NEW acc \in Accounts
    PROVE  LET new == CommittedSlots(old, acc)
           IN /\ new \in Partial(Slots, Values)
              /\ \A s \in Slots :
                   /\ s \in DOMAIN acc.storage =>
                        /\ s \in DOMAIN new <=> acc.storage[s] # 0
                        /\ s \in DOMAIN new => new[s] = acc.storage[s]
                   /\ s \notin DOMAIN acc.storage =>
                        /\ s \in DOMAIN new <=> acc.status # "created" /\ s \in DOMAIN old
                        /\ s \in DOMAIN new => new[s] = old[s]
  <1> DEFINE base == IF acc.status = "created" THEN NoEntries ELSE old
             kept == {s \in DOMAIN base \cup DOMAIN acc.storage :
                        s \in DOMAIN acc.storage => acc.storage[s] # 0}
             new == [s \in kept |-> IF s \in DOMAIN acc.storage THEN acc.storage[s] ELSE base[s]]
  <1>1. CommittedSlots(old, acc) = new
    BY DEF CommittedSlots
  <1>2. IsPartial(base, Slots, Values) /\ IsPartial(acc.storage, Slots, Values)
    BY AccountTyped, NoEntriesPartial, PartialMeans
  <1>3. IsPartial(new, Slots, Values)
    BY <1>2 DEF IsPartial
  <1>4. new \in Partial(Slots, Values)
    BY <1>3, PartialMeans
  <1>5. DOMAIN NoEntries = {}
    BY DEF NoEntries
  <1> QED BY <1>1, <1>2, <1>4, <1>5 DEF IsPartial

LEMMA MemTypeInit == MemInit => MemTypeOK
  <1> SUFFICES ASSUME MemInit PROVE MemTypeOK
    OBVIOUS
  <1>1. world \in [Accts -> States]
    BY RemoteAssumption, ValuesAssumption, EmptyInfoTyped DEF MemInit, States
  <1> QED BY <1>1, NoEntriesPartial DEF MemInit, MemTypeOK

\* What a commit stores for an account.
LEMMA CommitMeans ==
    ASSUME MemTypeOK, NEW a \in Accts, NEW acc \in Accounts, Commit(a, acc)
    PROVE  LET gone == IsEmpty(acc.info) \/ acc.status = "selfdestructed"
               new  == IF gone THEN NoEntries ELSE CommittedSlots(SlotsHeld(a), acc)
           IN /\ accounts' = IF gone THEN Without(accounts, a)
                             ELSE With(accounts, a, CommittedInfo(acc.info))
              /\ storage' = IF new = NoEntries THEN Without(storage, a) ELSE With(storage, a, new)
  BY DEF Commit, SlotsHeld

LEMMA WorldAfterTyped ==
    ASSUME NEW w \in States, NEW acc \in Accounts
    PROVE  WorldAfter(w, acc) \in States
  <1>1. IsPartial(acc.storage, Slots, Values) /\ acc.info \in Infos
    BY AccountTyped, PartialMeans
  <1> QED BY <1>1, ValuesAssumption, CommittedTyped, EmptyInfoTyped DEF WorldAfter, States, IsPartial

LEMMA MemTypeStep == MemTypeOK /\ [MemNext]_memVars => MemTypeOK'
  <1> SUFFICES ASSUME MemTypeOK, [MemNext]_memVars PROVE MemTypeOK'
    OBVIOUS
  <1>1. ASSUME NEW a \in Accts, NEW acc \in Accounts, DoCommit(a, acc) PROVE MemTypeOK'
    <2> DEFINE gone == IsEmpty(acc.info) \/ acc.status = "selfdestructed"
               new  == IF gone THEN NoEntries ELSE CommittedSlots(SlotsHeld(a), acc)
    <2>1. /\ accounts' = IF gone THEN Without(accounts, a)
                         ELSE With(accounts, a, CommittedInfo(acc.info))
          /\ storage' = IF new = NoEntries THEN Without(storage, a) ELSE With(storage, a, new)
      BY <1>1, CommitMeans DEF DoCommit
    <2>2. accounts' \in Partial(Accts, Infos)
      BY <2>1, WithoutPartial, WithPartial, AccountTyped, CommittedTyped DEF MemTypeOK
    <2>3. new \in Partial(Slots, Values)
      BY SlotsHeldTyped, CommittedSlotsMeans, NoEntriesPartial
    <2>4. storage' \in Partial(Accts, Partial(Slots, Values))
      <3> HIDE DEF new
      <3> QED BY <2>1, <2>3, WithoutPartial, WithPartial DEF MemTypeOK
    <2>5. world' \in [Accts -> States]
      BY <1>1, WorldAfterTyped DEF DoCommit, MemTypeOK
    <2>6. raced' \subseteq FetchKeys
      BY <1>1 DEF DoCommit, RacedAfter, MemTypeOK
    <2> QED BY <1>1, <2>2, <2>4, <2>5, <2>6 DEF DoCommit, MemTypeOK
  <1>2. ASSUME NEW a \in Accts, NEW i \in Infos, DoInsertAccount(a, i) PROVE MemTypeOK'
    <2>1. raced' \subseteq FetchKeys
      BY <1>2 DEF DoInsertAccount, RacedAfter, MemTypeOK
    <2> QED BY <1>2, <2>1, WithPartial DEF DoInsertAccount, MemTypeOK, States
  <1>3. ASSUME NEW a \in Accts, AskAccount(a) PROVE MemTypeOK'
    BY <1>3 DEF AskAccount, FetchKeys, MemTypeOK
  <1>4. ASSUME NEW a \in Accts, NEW s \in Slots, AskSlot(a, s) PROVE MemTypeOK'
    BY <1>4 DEF AskSlot, FetchKeys, MemTypeOK
  <1>5. ASSUME NEW a \in Accts, AccountAnswered(a) PROVE MemTypeOK'
    <2>1. Remote[a].info \in Infos
      BY RemoteAssumption
    <2> QED BY <1>5, <2>1, WithPartial DEF AccountAnswered, MemTypeOK
  <1>6. ASSUME NEW a \in Accts, NEW s \in Slots, SlotAnswered(a, s) PROVE MemTypeOK'
    <2>1. Remote[a].slots[s] \in Values
      BY RemoteAssumption
    <2>2. With(SlotsHeld(a), s, Remote[a].slots[s]) \in Partial(Slots, Values)
      BY <2>1, SlotsHeldTyped, WithPartial
    <2>3. storage' \in Partial(Accts, Partial(Slots, Values))
      BY <1>6, <2>2, WithPartial DEF SlotAnswered, MemTypeOK
    <2> QED BY <1>6, <2>3 DEF SlotAnswered, MemTypeOK
  <1>7. ASSUME NEW k \in flying, FetchFails(k) PROVE MemTypeOK'
    BY <1>7 DEF FetchFails, MemTypeOK
  <1>8. CASE UNCHANGED memVars
    BY <1>8 DEF memVars, MemTypeOK
  <1> QED BY <1>1, <1>2, <1>3, <1>4, <1>5, <1>6, <1>7, <1>8 DEF MemNext

\* MemDb's two maps, the world and what is behind MemDb are always well formed.
THEOREM MemTypeCorrect == MemDbSpec => []MemTypeOK
  <1>1. MemTypeOK /\ [MemDbNext]_<<memVars, metaVars>> => MemTypeOK'
    BY MemTypeStep DEF MemDbNext
  <1> QED BY <1>1, MemTypeInit, PTL DEF MemDbSpec

-----------------------------------------------------------------------------
(* MemDb: what is read is what was committed                               *)

LEMMA StorageRefMeans ==
    ASSUME NEW a, NEW s
    PROVE  /\ StorageRef(a, s) =
                IF s \in DOMAIN SlotsHeld(a) THEN SlotsHeld(a)[s]
                ELSE IF backing = "fork" THEN Remote[a].slots[s] ELSE 0
           /\ StorageRef(a, s)' =
                IF s \in DOMAIN SlotsHeld(a)' THEN SlotsHeld(a)'[s]
                ELSE IF backing' = "fork" THEN Remote[a].slots[s] ELSE 0
  <1>1. DOMAIN NoEntries = {}
    BY DEF NoEntries
  <1> QED BY <1>1 DEF StorageRef, SlotsHeld

\* A map of slots that replaces one account's.
LEMMA SlotsReplaced ==
    ASSUME NEW a \in Accts, NEW new,
           storage' = IF new = NoEntries THEN Without(storage, a) ELSE With(storage, a, new)
    PROVE  /\ SlotsHeld(a)' = new
           /\ \A b \in Accts \ {a} : SlotsHeld(b)' = SlotsHeld(b)
  BY DEF With, Without, SlotsHeld

\* While a fetch is in flight and nothing was committed to its key since it was
\* asked for, the committed value is the one that will arrive, or nothing.
FlyingUnwritten ==
    \A a \in Accts :
      /\ InfoKey(a) \in flying \ raced => world[a].info \in {EmptyInfo, Remote[a].info}
      /\ \A s \in Slots :
           SlotKey(a, s) \in flying \ raced => world[a].slots[s] \in {0, Remote[a].slots[s]}

\* The three parts of MemDbSound hold together and are kept together.
MemInv == MemTypeOK /\ MemDbSound /\ FlyingUnwritten

LEMMA MemInvInit == MemInit => MemInv
  <1> SUFFICES ASSUME MemInit PROVE MemInv
    OBVIOUS
  <1>1. DOMAIN NoEntries = {}
    BY DEF NoEntries
  <1>2. LocalStateIsCommitted
    BY <1>1 DEF MemInit, LocalStateIsCommitted, BasicRef, StorageRef
  <1>3. ForkKeepsCommitted
    BY <1>1 DEF MemInit, ForkKeepsCommitted, BasicRef, StorageRef
  <1>4. Normalised
    BY <1>1 DEF MemInit, Normalised
  <1>5. FlyingUnwritten
    BY DEF MemInit, FlyingUnwritten
  <1> QED BY <1>2, <1>3, <1>4, <1>5, MemTypeInit DEF MemInv, MemDbSound

\* Which keys a commit leaves raced: of those it writes, the ones in flight.
LEMMA RacedMeans ==
    ASSUME NEW a \in Accts, NEW acc \in Accounts, DoCommit(a, acc)
    PROVE  /\ InfoKey(a) \in raced' <=> InfoKey(a) \in flying
           /\ \A s \in Slots :
                IF IsEmpty(acc.info) \/ acc.status # "touched" \/ s \in DOMAIN acc.storage
                THEN SlotKey(a, s) \in raced' <=> SlotKey(a, s) \in flying
                ELSE SlotKey(a, s) \in raced' <=> SlotKey(a, s) \in raced
           /\ \A b \in Accts \ {a} :
                /\ InfoKey(b) \in raced' <=> InfoKey(b) \in raced
                /\ \A s \in Slots : SlotKey(b, s) \in raced' <=> SlotKey(b, s) \in raced
  <1> DEFINE W == KeysOf(a, acc)
  <1>1. \A k : k \in raced' <=> IF k \in W THEN k \in flying ELSE k \in raced
    BY DEF DoCommit, RacedAfter
  <1>2. InfoKey(a) \in W
    BY DEF KeysOf
  <1>3. ASSUME NEW s \in Slots
        PROVE  SlotKey(a, s) \in W <=>
                 IsEmpty(acc.info) \/ acc.status # "touched" \/ s \in DOMAIN acc.storage
    BY KeysDiffer, AccountTyped, PartialMeans DEF KeysOf, IsPartial
  <1>4. ASSUME NEW b \in Accts, a # b
        PROVE  InfoKey(b) \notin W /\ \A s \in Slots : SlotKey(b, s) \notin W
    BY <1>4, KeysDiffer, AccountTyped, PartialMeans DEF KeysOf, IsPartial
  <1> HIDE DEF W
  <1> QED BY <1>1, <1>2, <1>3, <1>4

\* A commit's reads, account by account.
LEMMA CommitRead ==
    ASSUME MemInv, NEW a \in Accts, NEW acc \in Accounts, DoCommit(a, acc)
    PROVE  LocalStateIsCommitted' /\ ForkKeepsCommitted' /\ FlyingUnwritten'
  <1> DEFINE gone == IsEmpty(acc.info) \/ acc.status = "selfdestructed"
             new  == IF gone THEN NoEntries ELSE CommittedSlots(SlotsHeld(a), acc)
  <1>1. /\ accounts' = IF gone THEN Without(accounts, a)
                       ELSE With(accounts, a, CommittedInfo(acc.info))
        /\ storage' = IF new = NoEntries THEN Without(storage, a) ELSE With(storage, a, new)
    BY CommitMeans DEF DoCommit, MemInv
  <1>2. SlotsHeld(a)' = new /\ \A b \in Accts \ {a} : SlotsHeld(b)' = SlotsHeld(b)
    BY <1>1, SlotsReplaced
  <1>3. /\ backing' = backing
        /\ \A b \in Accts \ {a} : world'[b] = world[b]
        /\ world'[a] = WorldAfter(world[a], acc)
        /\ flying' = flying
    BY DEF DoCommit, MemInv, MemTypeOK
  <1>4. ASSUME NEW b \in Accts, b # a
        PROVE  /\ BasicRef(b)' = BasicRef(b)
               /\ \A s \in Slots : StorageRef(b, s)' = StorageRef(b, s)
    <2>1. BasicRef(b)' = BasicRef(b)
      BY <1>1, <1>3, <1>4 DEF With, Without, BasicRef
    <2>2. ASSUME NEW s \in Slots PROVE StorageRef(b, s)' = StorageRef(b, s)
      BY <1>2, <1>3, <1>4, StorageRefMeans
    <2> QED BY <2>1, <2>2
  <1>5. backing = "local" => BasicRef(a)' = world'[a].info
    BY <1>1, <1>3 DEF With, Without, BasicRef, WorldAfter
  <1>6. /\ world'[a].info # EmptyInfo => BasicRef(a)' = world'[a].info
        /\ backing = "fork" => BasicRef(a)' \in {world'[a].info, Remote[a].info}
    BY <1>1, <1>3 DEF With, Without, BasicRef, WorldAfter
  <1>7. ASSUME NEW s \in Slots
        PROVE  /\ backing = "local" => StorageRef(a, s)' = world'[a].slots[s]
               /\ backing = "fork" => StorageRef(a, s)' \in {world'[a].slots[s], Remote[a].slots[s]}
               /\ backing = "fork" /\ world'[a].slots[s] # 0 /\ SlotKey(a, s) \notin raced' =>
                    StorageRef(a, s)' = world'[a].slots[s]
    <2>1. StorageRef(a, s)' = IF s \in DOMAIN new THEN new[s]
                              ELSE IF backing = "fork" THEN Remote[a].slots[s] ELSE 0
      BY <1>2, <1>3, StorageRefMeans
    <2>2. CASE gone
      <3>1. world'[a].slots[s] = 0
        BY <1>3, <2>2 DEF WorldAfter
      <3>2. s \notin DOMAIN new
        BY <2>2 DEF NoEntries
      <3> QED BY <2>1, <3>1, <3>2 DEF MemInv, MemTypeOK
    <2>3. CASE ~gone
      <3>1. world'[a].slots[s] = IF s \in DOMAIN acc.storage THEN acc.storage[s]
                                 ELSE IF acc.status = "created" THEN 0 ELSE world[a].slots[s]
        BY <1>3, <2>3 DEF WorldAfter
      <3>2. /\ s \in DOMAIN acc.storage =>
                 /\ s \in DOMAIN new <=> acc.storage[s] # 0
                 /\ s \in DOMAIN new => new[s] = acc.storage[s]
            /\ s \notin DOMAIN acc.storage =>
                 /\ s \in DOMAIN new <=> acc.status # "created" /\ s \in DOMAIN SlotsHeld(a)
                 /\ s \in DOMAIN new => new[s] = SlotsHeld(a)[s]
        BY <2>3, SlotsHeldTyped, CommittedSlotsMeans DEF MemInv
      <3>3. /\ backing = "local" => StorageRef(a, s) = world[a].slots[s]
            /\ backing = "fork" => StorageRef(a, s) \in {world[a].slots[s], Remote[a].slots[s]}
            /\ backing = "fork" /\ world[a].slots[s] # 0 /\ SlotKey(a, s) \notin raced =>
                 StorageRef(a, s) = world[a].slots[s]
        BY DEF MemInv, MemDbSound, LocalStateIsCommitted, ForkKeepsCommitted
      <3>4. s \notin DOMAIN acc.storage /\ acc.status # "created" =>
              (SlotKey(a, s) \in raced' <=> SlotKey(a, s) \in raced)
        BY <2>3, RacedMeans DEF Accounts
      <3>5. backing \in {"local", "fork"}
        BY DEF MemInv, MemTypeOK
      <3> HIDE DEF new, gone
      <3> QED BY <2>1, <3>1, <3>2, <3>3, <3>4, <3>5, StorageRefMeans
    <2> QED BY <2>2, <2>3
  <1>8. /\ InfoKey(a) \in raced' <=> InfoKey(a) \in flying
        /\ \A s \in Slots :
             \/ SlotKey(a, s) \in raced' <=> SlotKey(a, s) \in flying
             \/ /\ SlotKey(a, s) \in raced' <=> SlotKey(a, s) \in raced
                /\ world'[a].slots[s] = world[a].slots[s]
    BY <1>3, RacedMeans DEF WorldAfter, Accounts
  <1>9. \A b \in Accts \ {a} :
          /\ InfoKey(b) \in raced' <=> InfoKey(b) \in raced
          /\ \A s \in Slots : SlotKey(b, s) \in raced' <=> SlotKey(b, s) \in raced
    BY RacedMeans
  <1> HIDE DEF new, gone
  <1>10. LocalStateIsCommitted'
    BY <1>3, <1>4, <1>5, <1>7 DEF MemInv, MemDbSound, LocalStateIsCommitted
  <1>11. ForkKeepsCommitted'
    BY <1>3, <1>4, <1>6, <1>7, <1>9 DEF MemInv, MemDbSound, ForkKeepsCommitted
  <1>12. FlyingUnwritten'
    BY <1>3, <1>8, <1>9 DEF MemInv, FlyingUnwritten
  <1> QED BY <1>10, <1>11, <1>12

LEMMA CommitNormalised ==
    ASSUME MemInv, NEW a \in Accts, NEW acc \in Accounts, DoCommit(a, acc)
    PROVE  Normalised'
  <1> DEFINE gone == IsEmpty(acc.info) \/ acc.status = "selfdestructed"
             new  == IF gone THEN NoEntries ELSE CommittedSlots(SlotsHeld(a), acc)
  <1>1. /\ accounts' = IF gone THEN Without(accounts, a)
                       ELSE With(accounts, a, CommittedInfo(acc.info))
        /\ storage' = IF new = NoEntries THEN Without(storage, a) ELSE With(storage, a, new)
    BY CommitMeans DEF DoCommit, MemInv
  <1>2. new # NoEntries => DOMAIN new # {}
    <2>1. IsPartial(new, Slots, Values)
      BY SlotsHeldTyped, CommittedSlotsMeans, NoEntriesPartial, PartialMeans DEF MemInv
    <2>2. new = [x \in DOMAIN new |-> new[x]]
      BY <2>1 DEF IsPartial
    <2>3. DOMAIN new = {} => new = NoEntries
      <3> HIDE DEF new
      <3> QED BY <2>2 DEF NoEntries
    <2> QED BY <2>3
  <1>3. CommittedInfo(acc.info).code_hash # ZeroHash
    BY AccountTyped, CommittedTyped
  <1> HIDE DEF new, gone
  <1> QED BY <1>1, <1>2, <1>3 DEF With, Without, MemInv, MemDbSound, Normalised

LEMMA InsertSound ==
    ASSUME MemInv, NEW a \in Accts, NEW i \in Infos, i.code_hash # ZeroHash, DoInsertAccount(a, i)
    PROVE  MemDbSound' /\ FlyingUnwritten'
  <1>1. /\ accounts' = With(accounts, a, i)
        /\ storage' = storage /\ backing' = backing /\ flying' = flying
        /\ world'[a].info = i
        /\ \A b \in Accts : world'[b].slots = world[b].slots
        /\ \A b \in Accts \ {a} : world'[b].info = world[b].info
    BY DEF DoInsertAccount, MemInv, MemTypeOK, States
  <1>2. BasicRef(a)' = i /\ \A b \in Accts \ {a} : BasicRef(b)' = BasicRef(b)
    BY <1>1 DEF With, BasicRef
  <1>3. \A b \in Accts, s \in Slots : StorageRef(b, s)' = StorageRef(b, s)
    BY <1>1 DEF StorageRef
  <1>4. /\ InfoKey(a) \in raced' <=> InfoKey(a) \in flying
        /\ \A b \in Accts \ {a} : InfoKey(b) \in raced' <=> InfoKey(b) \in raced
        /\ \A b \in Accts, s \in Slots : SlotKey(b, s) \in raced' <=> SlotKey(b, s) \in raced
    BY KeysDiffer DEF DoInsertAccount, RacedAfter
  <1>5. LocalStateIsCommitted'
    BY <1>1, <1>2, <1>3 DEF MemInv, MemDbSound, LocalStateIsCommitted
  <1>6. ForkKeepsCommitted'
    BY <1>1, <1>2, <1>3, <1>4 DEF MemInv, MemDbSound, ForkKeepsCommitted
  <1>7. Normalised'
    BY <1>1 DEF With, MemInv, MemDbSound, Normalised
  <1>8. FlyingUnwritten'
    BY <1>1, <1>4 DEF MemInv, FlyingUnwritten
  <1> QED BY <1>5, <1>6, <1>7, <1>8 DEF MemDbSound

\* A key is asked for while it is absent, and so read as the provider's.
LEMMA AskSound ==
    ASSUME MemInv,
           \/ \E a \in Accts : AskAccount(a)
           \/ \E a \in Accts, s \in Slots : AskSlot(a, s)
    PROVE  MemDbSound' /\ FlyingUnwritten'
  <1>1. /\ backing = "fork"
        /\ accounts' = accounts /\ storage' = storage /\ world' = world
        /\ backing' = backing /\ raced' = raced
    BY DEF AskAccount, AskSlot
  <1>2. /\ \A b \in Accts : BasicRef(b)' = BasicRef(b)
        /\ \A b \in Accts, s \in Slots : StorageRef(b, s)' = StorageRef(b, s)
    BY <1>1 DEF BasicRef, StorageRef
  <1>3. MemDbSound'
    BY <1>1, <1>2 DEF MemInv, MemDbSound, LocalStateIsCommitted, ForkKeepsCommitted, Normalised
  <1>4. ASSUME NEW a \in Accts, InfoKey(a) \in flying', InfoKey(a) \notin flying
        PROVE  BasicRef(a) = Remote[a].info
    <2>1. \E b \in Accts : AskAccount(b) /\ InfoKey(a) = InfoKey(b)
      BY <1>4, KeysDiffer DEF AskAccount, AskSlot
    <2>2. a \notin DOMAIN accounts
      BY <2>1, KeysDiffer DEF AskAccount
    <2> QED BY <1>1, <2>2 DEF BasicRef
  <1>5. ASSUME NEW a \in Accts, NEW s \in Slots,
               SlotKey(a, s) \in flying', SlotKey(a, s) \notin flying
        PROVE  StorageRef(a, s) = Remote[a].slots[s]
    BY <1>1, <1>5, KeysDiffer, StorageRefMeans DEF AskAccount, AskSlot
  <1>6. FlyingUnwritten'
    BY <1>1, <1>4, <1>5 DEF MemInv, MemDbSound, ForkKeepsCommitted, FlyingUnwritten
  <1> QED BY <1>3, <1>6

\* The answer replaces what was stored meanwhile, which the key's race records.
LEMMA AccountAnsweredSound ==
    ASSUME MemInv, NEW a \in Accts, AccountAnswered(a)
    PROVE  MemDbSound' /\ FlyingUnwritten'
  <1>1. /\ accounts' = With(accounts, a, Remote[a].info)
        /\ storage' = storage /\ backing' = backing /\ world' = world /\ raced' = raced
        /\ InfoKey(a) \in flying /\ flying' \subseteq flying
        /\ backing = "fork"
    BY DEF AccountAnswered, MemInv, MemTypeOK
  <1>2. /\ BasicRef(a)' = Remote[a].info
        /\ \A b \in Accts \ {a} : BasicRef(b)' = BasicRef(b)
    BY <1>1 DEF With, BasicRef
  <1>3. \A b \in Accts, s \in Slots : StorageRef(b, s)' = StorageRef(b, s)
    BY <1>1 DEF StorageRef
  <1>4. InfoKey(a) \notin raced => world[a].info \in {EmptyInfo, Remote[a].info}
    BY <1>1 DEF MemInv, FlyingUnwritten
  <1>5. LocalStateIsCommitted' /\ ForkKeepsCommitted'
    BY <1>1, <1>2, <1>3, <1>4
    DEF MemInv, MemDbSound, LocalStateIsCommitted, ForkKeepsCommitted
  <1>6. Remote[a].info.code_hash # ZeroHash
    BY RemoteAssumption
  <1>7. Normalised'
    BY <1>1, <1>6 DEF With, MemInv, MemDbSound, Normalised
  <1>8. FlyingUnwritten'
    BY <1>1 DEF MemInv, FlyingUnwritten
  <1> QED BY <1>5, <1>7, <1>8 DEF MemDbSound

LEMMA SlotAnsweredSound ==
    ASSUME MemInv, NEW a \in Accts, NEW t \in Slots, SlotAnswered(a, t)
    PROVE  MemDbSound' /\ FlyingUnwritten'
  <1> DEFINE new == With(SlotsHeld(a), t, Remote[a].slots[t])
  <1>1. /\ storage' = With(storage, a, new)
        /\ accounts' = accounts /\ backing' = backing /\ world' = world /\ raced' = raced
        /\ SlotKey(a, t) \in flying /\ flying' \subseteq flying
        /\ backing = "fork"
    BY DEF SlotAnswered, MemInv, MemTypeOK
  <1>2. /\ DOMAIN new = DOMAIN SlotsHeld(a) \cup {t}
        /\ new[t] = Remote[a].slots[t]
        /\ \A s \in DOMAIN SlotsHeld(a) \ {t} : new[s] = SlotsHeld(a)[s]
    BY DEF With
  <1>3. SlotsHeld(a)' = new /\ \A b \in Accts \ {a} : SlotsHeld(b)' = SlotsHeld(b)
    BY <1>1 DEF With, SlotsHeld
  <1> HIDE DEF new
  <1>4. \A b \in Accts : BasicRef(b)' = BasicRef(b)
    BY <1>1 DEF BasicRef
  <1>5. /\ StorageRef(a, t)' = Remote[a].slots[t]
        /\ \A s \in Slots \ {t} : StorageRef(a, s)' = StorageRef(a, s)
        /\ \A b \in Accts \ {a}, s \in Slots : StorageRef(b, s)' = StorageRef(b, s)
    BY <1>1, <1>2, <1>3, StorageRefMeans
  <1>6. SlotKey(a, t) \notin raced => world[a].slots[t] \in {0, Remote[a].slots[t]}
    BY <1>1 DEF MemInv, FlyingUnwritten
  <1>7. LocalStateIsCommitted' /\ ForkKeepsCommitted'
    BY <1>1, <1>4, <1>5, <1>6
    DEF MemInv, MemDbSound, LocalStateIsCommitted, ForkKeepsCommitted
  <1>8. Normalised'
    BY <1>1, <1>2 DEF With, MemInv, MemDbSound, Normalised
  <1>9. FlyingUnwritten'
    BY <1>1 DEF MemInv, FlyingUnwritten
  <1> QED BY <1>7, <1>8, <1>9 DEF MemDbSound

LEMMA MemInvStep == MemInv /\ [MemNext]_memVars => MemInv'
  <1> SUFFICES ASSUME MemInv, [MemNext]_memVars PROVE MemInv'
    OBVIOUS
  <1> DEFINE Sound == MemDbSound /\ FlyingUnwritten
  <1>1. MemTypeOK'
    BY MemTypeStep DEF MemInv
  <1>2. ASSUME \E a \in Accts, acc \in Accounts : DoCommit(a, acc) PROVE Sound'
    BY <1>2, CommitRead, CommitNormalised DEF MemDbSound
  <1>3. ASSUME \E a \in Accts, i \in {j \in Infos : ~IsEmpty(j) /\ j.code_hash # ZeroHash} :
                 DoInsertAccount(a, i)
        PROVE  Sound'
    BY <1>3, InsertSound
  <1>4. ASSUME \/ \E a \in Accts : AskAccount(a)
               \/ \E a \in Accts, s \in Slots : AskSlot(a, s)
        PROVE  Sound'
    BY <1>4, AskSound
  <1>5. ASSUME \E a \in Accts : AccountAnswered(a) PROVE Sound'
    BY <1>5, AccountAnsweredSound
  <1>6. ASSUME \E a \in Accts, s \in Slots : SlotAnswered(a, s) PROVE Sound'
    BY <1>6, SlotAnsweredSound
  <1>7. ASSUME UNCHANGED memVars \/ \E k \in flying : FetchFails(k) PROVE Sound'
    <2>1. /\ accounts' = accounts /\ storage' = storage /\ world' = world
          /\ backing' = backing /\ raced' = raced /\ flying' \subseteq flying
      BY <1>7 DEF memVars, FetchFails
    <2>2. /\ \A a \in Accts : BasicRef(a)' = BasicRef(a)
          /\ \A a \in Accts, s \in Slots : StorageRef(a, s)' = StorageRef(a, s)
      BY <2>1 DEF BasicRef, StorageRef
    <2>3. LocalStateIsCommitted' /\ ForkKeepsCommitted'
      BY <2>1, <2>2 DEF MemInv, MemDbSound, LocalStateIsCommitted, ForkKeepsCommitted
    <2>4. Normalised' /\ FlyingUnwritten'
      BY <2>1 DEF MemInv, MemDbSound, Normalised, FlyingUnwritten
    <2> QED BY <2>3, <2>4 DEF MemDbSound
  <1>8. Sound'
    BY <1>2, <1>3, <1>4, <1>5, <1>6, <1>7 DEF MemNext
  <1> QED BY <1>1, <1>8 DEF MemInv

-----------------------------------------------------------------------------
(* MemDb: the stored metadata                                              *)

\* What the caller asked for has no field this build does not know, and the hosts
\* are finitely many: a single one is written and read back as itself.
MetaInv ==
    /\ MetaSurvives
    /\ fields \in {OldFields, NewFields}
    /\ DOMAIN asked.block_env \subseteq fields
    /\ meta.hosts \subseteq Hosts /\ meta.chain \in {NoChain, 1, 2}
    /\ \E c, e, h : meta = [chain |-> c, block_env |-> e, hosts |-> h]
    /\ \E c, e, h : asked = [chain |-> c, block_env |-> e, hosts |-> h]

LEMMA MetaInvInit == MetaInit => MetaInv
  <1> SUFFICES ASSUME MetaInit PROVE MetaInv
    OBVIOUS
  <1>1. PICK env \in [OldFields -> Values], h \in Hosts :
          meta = NewMeta(env, h) /\ fields = OldFields /\ asked = NewMeta(env, h)
    BY DEF MetaInit
  <1>2. NewMeta(env, h) = [chain |-> NoChain, block_env |-> env, hosts |-> {h}]
    BY DEF NewMeta
  <1>3. MetaSurvives
    BY <1>1, <1>2 DEF MetaSurvives
  <1>4. /\ \E c, e, g : meta = [chain |-> c, block_env |-> e, hosts |-> g]
        /\ \E c, e, g : asked = [chain |-> c, block_env |-> e, hosts |-> g]
    BY <1>1, <1>2
  <1>5. DOMAIN asked.block_env \subseteq fields /\ fields \in {OldFields, NewFields}
    BY <1>1, <1>2
  <1>6. meta.hosts \subseteq Hosts /\ meta.chain \in {NoChain, 1, 2}
    BY <1>1, <1>2
  <1> QED BY <1>3, <1>4, <1>5, <1>6 DEF MetaInv

LEMMA SingleHost ==
    ASSUME NEW H \in SUBSET Hosts, Cardinality(H) = 1
    PROVE  H = {CHOOSE h \in H : TRUE}
  <1>1. IsFiniteSet({"h1"} \cup {"h2"})
    BY FS_Singleton, FS_AddElement
  <1>2. {"h1"} \cup {"h2"} = Hosts
    BY DEF Hosts
  <1>3. IsFiniteSet(H)
    BY <1>1, <1>2, FS_Subset
  <1>4. PICK h : H = {h}
    BY <1>3, FS_Singleton
  <1> QED BY <1>4

\* The round trip through the file, whatever form the hosts were written in.
LEMMA RoundTrip ==
    ASSUME MetaInv, NEW fs \in {OldFields, NewFields}, NEW single \in BOOLEAN,
           fields \subseteq fs, single => Cardinality(meta.hosts) = 1
    PROVE  Deserialized(Serialized(meta, single), fs) =
             [chain |-> meta.chain, block_env |-> CompatEnv(meta.block_env, fs), hosts |-> meta.hosts]
  <1> DEFINE text == Serialized(meta, single)
  <1>1. (IF text.chain = {} THEN NoChain ELSE CHOOSE c \in text.chain : TRUE) = meta.chain
    BY DEF Serialized
  <1>2. (IF text.hosts.kind = "Single" THEN {text.hosts.host} ELSE text.hosts.hosts) = meta.hosts
    <2>1. CASE single
      BY <2>1, SingleHost DEF Serialized, MetaInv
    <2>2. CASE ~single
      BY <2>2 DEF Serialized
    <2> QED BY <2>1, <2>2
  <1>3. text.block_env = meta.block_env
    BY DEF Serialized
  <1>4. Deserialized(text, fs) =
          [chain |-> IF text.chain = {} THEN NoChain ELSE CHOOSE c \in text.chain : TRUE,
           block_env |-> CompatEnv(text.block_env, fs),
           hosts |-> IF text.hosts.kind = "Single" THEN {text.hosts.host} ELSE text.hosts.hosts]
    BY DEF Deserialized
  <1> HIDE DEF text
  <1>5. Deserialized(text, fs) =
          [chain |-> meta.chain, block_env |-> CompatEnv(meta.block_env, fs), hosts |-> meta.hosts]
    BY <1>1, <1>2, <1>3, <1>4
  <1> QED BY <1>5 DEF text

LEMMA MetaInvStep == MetaInv /\ [MetaNext]_metaVars => MetaInv'
  <1> SUFFICES ASSUME MetaInv, [MetaNext]_metaVars PROVE MetaInv'
    OBVIOUS
  <1>1. ASSUME NEW h \in Hosts, WithUrl(h) PROVE MetaInv'
    BY <1>1 DEF WithUrl, MetaInv, MetaSurvives
  <1>2. ASSUME NEW c \in {1, 2}, SetChain(c) PROVE MetaInv'
    BY <1>2 DEF SetChain, MetaInv, MetaSurvives
  <1>3. ASSUME NEW env \in [fields -> Values], SetBlockEnv(env) PROVE MetaInv'
    BY <1>3 DEF SetBlockEnv, MetaInv, MetaSurvives
  <1>4. ASSUME NEW fs \in {OldFields, NewFields}, NEW single \in BOOLEAN, Reopen(fs, single)
        PROVE  MetaInv'
    <2>1. /\ meta' = [chain |-> meta.chain, block_env |-> CompatEnv(meta.block_env, fs),
                      hosts |-> meta.hosts]
          /\ fields' = fs /\ asked' = asked /\ fields \subseteq fs
      BY <1>4, RoundTrip DEF Reopen
    <2>2. DOMAIN CompatEnv(meta.block_env, fs) = fs
      BY DEF CompatEnv
    <2>3. \A f \in fs : CompatEnv(meta.block_env, fs)[f] = IF f \in DOMAIN asked.block_env
                                                           THEN asked.block_env[f] ELSE 0
      BY <2>1 DEF CompatEnv, Default, MetaInv, MetaSurvives
    <2> QED BY <2>1, <2>2, <2>3 DEF MetaInv, MetaSurvives
  <1>5. CASE UNCHANGED metaVars
    BY <1>5 DEF metaVars, MetaInv, MetaSurvives
  <1> QED BY <1>1, <1>2, <1>3, <1>4, <1>5 DEF MetaNext

\* Whatever transactions are committed (do_commit) and accounts inserted while
\* fetches are asked for, answered or fail in any order (on_request, poll), MemDb
\* on its own answers the committed state, and with a provider behind it a
\* committed value other than zero unless a fetch of its key was in flight when
\* it was committed; what the caller configured survives every round trip of the metadata
\* through the cache file (BlockchainDbMeta, BlockEnvBackwardsCompat).
THEOREM ForkStateHolds == MemDbSpec => []ForkStateSound
  <1>1. MemInit /\ MetaInit => MemInv /\ MetaInv
    BY MemInvInit, MetaInvInit
  <1>2. MemInv /\ MetaInv /\ [MemDbNext]_<<memVars, metaVars>> => MemInv' /\ MetaInv'
    BY MemInvStep, MetaInvStep DEF MemDbNext
  <1>3. MemInv /\ MetaInv => ForkStateSound
    BY DEF MemInv, MetaInv, ForkStateSound
  <1> QED BY <1>1, <1>2, <1>3, PTL DEF MemDbSpec

-----------------------------------------------------------------------------
(* ForkCacheFile: type correctness                                         *)

LEMMA EmptyTyped == ASSUME NEW m \in Meta PROVE Empty(m) \in Complete
  BY DEF Empty, Complete, Maps

LEMMA LoadedTyped ==
    ASSUME TypeOK, NEW m \in Meta, NEW skip \in BOOLEAN
    PROVE  Loaded(m, skip) \in Complete
  BY EmptyTyped DEF TypeOK, Loaded

LEMMA InsertedTyped ==
    ASSUME NEW map \in Maps, NEW b \in Envs, NEW i \in Items
    PROVE  Inserted(map, b, i) \in Maps
  <1>1. <<b, i>> \in Entries /\ <<b, i>>[2] = i
    BY DEF Entries
  <1> QED BY <1>1 DEF Inserted, Maps

\* What an interrupted or overlapped flush leaves.
LEMMA TornTyped ==
    ASSUME TypeOK, Torn
    PROVE  /\ disk' \in {"missing", "malformed", "complete"}
           /\ file' \in Complete \cup {Blank} /\ (Readable' => file' \in Complete)
           /\ stray' \in BOOLEAN
  BY TornAssumption DEF Torn, TypeOK, Readable

LEMMA TypeInit == Init => TypeOK
  BY DEF Init, TypeOK, Readable, Maps

LEMMA TypeStep == TypeOK /\ [Next]_vars => TypeOK'
  <1> SUFFICES ASSUME TypeOK, [Next]_vars PROVE TypeOK'
    OBVIOUS
  <1>1. ASSUME NEW p \in Procs, New(p) \/ NewSkipCheck(p) PROVE TypeOK'
    <2>1. PICK m \in Meta, skip \in BOOLEAN : NewDb(p, m, skip)
      BY <1>1 DEF New, NewSkipCheck
    <2>2. Loaded(m, skip) \in Complete /\ m.env \in Envs
      BY LoadedTyped DEF Meta
    <2>3. pins' \in [Procs -> SUBSET Envs] /\ checked' \in [Procs -> SUBSET Envs]
      BY <2>1, <2>2 DEF NewDb, TypeOK
    <2>4. inherited' \in [Procs -> BOOLEAN]
      BY <2>1 DEF NewDb, TypeOK
    <2> QED BY <2>1, <2>2, <2>3, <2>4 DEF NewDb, TypeOK, Readable
  <1>2. ASSUME NEW p \in Procs, Pin(p) PROVE TypeOK'
    BY <1>2 DEF Pin, TypeOK, Readable
  <1>3. ASSUME NEW p \in Procs, InsertAccount(p) PROVE TypeOK'
    <2>1. PICK i \in Items, b \in pins[p] : mem' = [mem EXCEPT ![p].accounts = Inserted(@, b, i)]
      BY <1>3 DEF InsertAccount
    <2>2. mem[p] \in Complete /\ b \in Envs
      BY <1>3, <2>1 DEF InsertAccount, TypeOK
    <2>3. [mem[p] EXCEPT !.accounts = Inserted(mem[p].accounts, b, i)] \in Complete
      BY <2>2, InsertedTyped DEF Complete
    <2>4. mem' = [mem EXCEPT ![p] = [mem[p] EXCEPT !.accounts = Inserted(mem[p].accounts, b, i)]]
      BY <2>1
    <2> QED BY <1>3, <2>3, <2>4 DEF InsertAccount, TypeOK, Readable
  <1>4. ASSUME NEW p \in Procs, InsertStorage(p) PROVE TypeOK'
    <2>1. PICK i \in Items, b \in pins[p] : mem' = [mem EXCEPT ![p].storage = Inserted(@, b, i)]
      BY <1>4 DEF InsertStorage
    <2>2. mem[p] \in Complete /\ b \in Envs
      BY <1>4, <2>1 DEF InsertStorage, TypeOK
    <2>3. [mem[p] EXCEPT !.storage = Inserted(mem[p].storage, b, i)] \in Complete
      BY <2>2, InsertedTyped DEF Complete
    <2>4. mem' = [mem EXCEPT ![p] = [mem[p] EXCEPT !.storage = Inserted(mem[p].storage, b, i)]]
      BY <2>1
    <2> QED BY <1>4, <2>3, <2>4 DEF InsertStorage, TypeOK, Readable
  <1>5. ASSUME NEW p \in Procs, Clear(p) PROVE TypeOK'
    <2>1. mem[p] \in Complete
      BY <1>5 DEF Clear, TypeOK
    <2>2. [mem[p] EXCEPT !.accounts = {}, !.storage = {}] \in Complete
      BY <2>1 DEF Complete, Maps
    <2>3. mem' = [mem EXCEPT ![p] = [mem[p] EXCEPT !.accounts = {}, !.storage = {}]]
      BY <1>5 DEF Clear
    <2> QED BY <1>5, <2>2, <2>3 DEF Clear, TypeOK, Readable
  <1>6. ASSUME NEW p \in Procs, Flush(p) PROVE TypeOK'
    <2>1. clash' \in BOOLEAN /\ ~Readable'
      BY <1>6 DEF Flush, TypeOK, Readable
    <2> QED BY <1>6, <2>1 DEF Flush, TypeOK, Writing
  <1>7. ASSUME NEW p \in Procs, SerializeAccounts(p) PROVE TypeOK'
    <2>1. mem[p].accounts \in Maps
      BY <1>7 DEF SerializeAccounts, TypeOK, Complete
    <2> QED BY <1>7, <2>1 DEF SerializeAccounts, TypeOK, Writing, Readable
  <1>8. ASSUME NEW p \in Procs, FlushEnd(p) \/ FlushError(p) PROVE TypeOK'
    <2>1. mem[p] \in Complete /\ buf[p] \in Maps /\ Return(p)
      BY <1>8 DEF FlushEnd, FlushError, Writing, TypeOK
    <2>2. [mem[p] EXCEPT !.accounts = buf[p]] \in Complete
      BY <2>1 DEF Complete
    <2>3. /\ disk' \in {"missing", "malformed", "complete"}
          /\ file' \in Complete \cup {Blank} /\ (Readable' => file' \in Complete)
          /\ stray' \in BOOLEAN
      <3>1. CASE Torn
        BY <3>1, TornTyped
      <3>2. CASE disk' = "complete" /\ file' = [mem[p] EXCEPT !.accounts = buf[p]] /\ stray' = Strayed(p)
        BY <2>2, <3>2 DEF Strayed, TypeOK
      <3> QED BY <1>8, <3>1, <3>2 DEF FlushEnd, FlushError
    <2>4. {} \in Maps
      BY DEF Maps
    <2> QED BY <2>1, <2>3, <2>4 DEF Return, TypeOK
  <1>9. ASSUME NEW p \in Procs, Exit(p) PROVE TypeOK'
    <2>1. /\ disk' \in {"missing", "malformed", "complete"}
          /\ file' \in Complete \cup {Blank} /\ (Readable' => file' \in Complete)
          /\ stray' \in BOOLEAN
      BY <1>9, TornTyped DEF Exit, TypeOK, Readable
    <2>2. {} \in Maps /\ clash' \in BOOLEAN
      BY <1>9 DEF Exit, Maps, TypeOK
    <2> QED BY <1>9, <2>1, <2>2 DEF Exit, TypeOK
  <1>10. CASE UNCHANGED vars
    BY <1>10 DEF vars, TypeOK, Readable
  <1> QED BY <1>1, <1>2, <1>3, <1>4, <1>5, <1>6, <1>7, <1>8, <1>9, <1>10 DEF Next

\* The cache of every process and the file hold metadata and maps of entries,
\* whatever processes crash or write over each other.
THEOREM TypeCorrect == Spec => []TypeOK
  BY TypeInit, TypeStep, PTL DEF Spec

-----------------------------------------------------------------------------
(* Data of one block                                                       *)

\* What holds of one process: a flush writes its own cache's accounts, which are
\* of one block if the process has not strayed; a check that was made held.
ProcHolds(p) ==
    /\ st[p] # "off" /\ ~Strayed(p) => OfEnv(mem[p])
    /\ ~Strayed(p) => \A e \in buf[p] : e[1] = mem[p].meta.env
    /\ st[p] # "accounts" => buf[p] = {}
    /\ \A own \in Envs : checked[p] = {own} => st[p] # "off" /\ mem[p].meta.env = own

FileHolds == Readable /\ ~stray => OfEnv(file)

EntriesInv == FileHolds /\ \A p \in Procs : ProcHolds(p)

\* A step of one process leaves the others as they are.
OnlyFor(p) ==
    \A q \in Procs \ {p} :
      /\ st'[q] = st[q] /\ mem'[q] = mem[q] /\ checked'[q] = checked[q]
      /\ pins'[q] = pins[q] /\ buf'[q] = buf[q] /\ inherited'[q] = inherited[q]

LEMMA OthersHold ==
    ASSUME NEW p \in Procs, OnlyFor(p), EntriesInv, ProcHolds(p)', FileHolds'
    PROVE  EntriesInv'
  BY DEF OnlyFor, EntriesInv, ProcHolds, Strayed, OfEnv

LEMMA EntriesInit == Init => EntriesInv
  <1> SUFFICES ASSUME Init PROVE EntriesInv
    OBVIOUS
  <1>1. ASSUME NEW p \in Procs PROVE ProcHolds(p)
    <2>1. checked[p] = {} /\ \A own : {} # {own}
      BY DEF Init
    <2> QED BY <2>1 DEF Init, ProcHolds
  <1>2. FileHolds
    BY DEF Init, FileHolds, Readable
  <1> QED BY <1>1, <1>2 DEF EntriesInv

LEMMA TornHolds == ASSUME Torn PROVE FileHolds'
  BY DEF Torn, FileHolds, Readable

LEMMA OpenHolds ==
    ASSUME TypeOK, EntriesInv, NEW p \in Procs, NEW m \in Meta, NEW skip \in BOOLEAN,
           NewDb(p, m, skip)
    PROVE  EntriesInv'
  <1>1. /\ OnlyFor(p) /\ st'[p] = "open" /\ mem'[p] = Loaded(m, skip)
        /\ checked'[p] = (IF skip THEN {} ELSE {m.env})
        /\ inherited'[p] = (stray /\ Loaded(m, skip) # Empty(m))
        /\ buf'[p] = buf[p] /\ st[p] = "off"
        /\ UNCHANGED <<disk, file, stray>>
    BY DEF NewDb, OnlyFor, TypeOK
  <1>2. OfEnv(Empty(m))
    BY DEF OfEnv, Empty
  <1>3. ~inherited'[p] => OfEnv(mem'[p])
    BY <1>1, <1>2 DEF Loaded, EntriesInv, FileHolds
  <1>4. ~skip => mem'[p].meta.env = m.env
    BY <1>1 DEF Loaded, MetaMatches, Empty
  <1>5. buf'[p] = {}
    BY <1>1 DEF EntriesInv, ProcHolds
  <1>6. ProcHolds(p)'
    BY <1>1, <1>3, <1>4, <1>5 DEF ProcHolds, Strayed, OfEnv
  <1>7. FileHolds'
    BY <1>1 DEF EntriesInv, FileHolds, Readable, OfEnv
  <1> QED BY <1>1, <1>6, <1>7, OthersHold

\* Whatever is inserted or cleared is of a pinned block.
LEMMA InsertHolds ==
    ASSUME TypeOK, EntriesInv, NEW p \in Procs, InsertAccount(p) \/ InsertStorage(p) \/ Clear(p)
    PROVE  EntriesInv'
  <1>1. /\ OnlyFor(p) /\ mem[p] \in Complete
        /\ UNCHANGED <<disk, file, stray, pins, checked, st, buf>>
    BY DEF InsertAccount, InsertStorage, Clear, OnlyFor, TypeOK
  <1>2. mem'[p].meta = mem[p].meta
    BY <1>1 DEF InsertAccount, InsertStorage, Clear, TypeOK, Complete
  <1>3. FileHolds'
    BY <1>1 DEF EntriesInv, FileHolds, Readable, OfEnv
  <1>4. CASE Clear(p)
    <2>1. mem'[p].accounts = {} /\ mem'[p].storage = {} /\ st[p] = "open"
      BY <1>1, <1>4 DEF Clear, TypeOK, Complete
    <2>2. buf[p] = {}
      BY <2>1 DEF EntriesInv, ProcHolds
    <2>3. ProcHolds(p)'
      BY <1>1, <1>2, <2>1, <2>2 DEF EntriesInv, ProcHolds, OfEnv
    <2> QED BY <1>1, <1>3, <2>3, OthersHold
  <1>5. CASE InsertAccount(p) \/ InsertStorage(p)
    <2>1. inherited' = inherited /\ st[p] # "off"
      BY <1>5 DEF InsertAccount, InsertStorage
    <2>2. \A e \in (mem'[p].accounts \cup mem'[p].storage) \ (mem[p].accounts \cup mem[p].storage) :
            e[1] \in pins[p]
      <3>1. ASSUME NEW map, NEW b, NEW i, NEW e \in Inserted(map, b, i) \ map
            PROVE  e[1] = b
        BY DEF Inserted
      <3>2. CASE InsertAccount(p)
        <4>1. PICK i \in Items, b \in pins[p] :
                mem' = [mem EXCEPT ![p].accounts = Inserted(@, b, i)]
          BY <3>2 DEF InsertAccount
        <4>2. /\ mem'[p].accounts = Inserted(mem[p].accounts, b, i)
              /\ mem'[p].storage = mem[p].storage
          BY <1>1, <4>1 DEF TypeOK, Complete
        <4> QED BY <3>1, <4>2
      <3>3. CASE InsertStorage(p)
        <4>1. PICK i \in Items, b \in pins[p] :
                mem' = [mem EXCEPT ![p].storage = Inserted(@, b, i)]
          BY <3>3 DEF InsertStorage
        <4>2. /\ mem'[p].storage = Inserted(mem[p].storage, b, i)
              /\ mem'[p].accounts = mem[p].accounts
          BY <1>1, <4>1 DEF TypeOK, Complete
        <4> QED BY <3>1, <4>2
      <3> QED BY <1>5, <3>2, <3>3
    <2>3. ProcHolds(p)'
      BY <1>1, <1>2, <2>1, <2>2 DEF EntriesInv, ProcHolds, Strayed, OfEnv
    <2> QED BY <1>1, <1>3, <2>3, OthersHold
  <1> QED BY <1>4, <1>5

\* A flush ends with the file its own cache, or torn.
LEMMA FlushEndHolds ==
    ASSUME TypeOK, EntriesInv, NEW p \in Procs, FlushEnd(p) \/ FlushError(p)
    PROVE  EntriesInv'
  <1>1. /\ OnlyFor(p) /\ st'[p] = "open" /\ buf'[p] = {} /\ st[p] # "off"
        /\ UNCHANGED <<mem, checked, pins, inherited>>
    BY DEF FlushEnd, FlushError, Writing, Return, OnlyFor, TypeOK
  <1>2. ProcHolds(p)'
    BY <1>1 DEF EntriesInv, ProcHolds, Strayed, OfEnv
  <1>3. FileHolds'
    <2>1. CASE Torn
      BY <2>1, TornHolds
    <2>2. CASE disk' = "complete" /\ file' = [mem[p] EXCEPT !.accounts = buf[p]] /\ stray' = Strayed(p)
      <3>1. mem[p] \in Complete
        BY <1>1 DEF TypeOK
      <3>2. file'.meta = mem[p].meta /\ file'.accounts = buf[p] /\ file'.storage = mem[p].storage
        BY <2>2, <3>1 DEF Complete
      <3> QED BY <1>1, <2>2, <3>2 DEF EntriesInv, ProcHolds, FileHolds, OfEnv
    <2> QED BY <2>1, <2>2 DEF FlushEnd, FlushError
  <1> QED BY <1>1, <1>2, <1>3, OthersHold

LEMMA ExitHolds ==
    ASSUME TypeOK, EntriesInv, NEW p \in Procs, Exit(p)
    PROVE  EntriesInv'
  <1>1. OnlyFor(p) /\ st'[p] = "off" /\ buf'[p] = {} /\ checked'[p] = {}
    BY DEF Exit, OnlyFor, TypeOK
  <1>2. \A own : {} # {own}
    OBVIOUS
  <1>3. ProcHolds(p)'
    BY <1>1, <1>2 DEF ProcHolds
  <1>4. FileHolds'
    BY TornHolds DEF Exit, EntriesInv, FileHolds, Readable, OfEnv
  <1> QED BY <1>1, <1>3, <1>4, OthersHold

LEMMA EntriesStep == TypeOK /\ EntriesInv /\ [Next]_vars => EntriesInv'
  <1> SUFFICES ASSUME TypeOK, EntriesInv, [Next]_vars PROVE EntriesInv'
    OBVIOUS
  <1>1. ASSUME NEW p \in Procs, New(p) \/ NewSkipCheck(p) PROVE EntriesInv'
    BY <1>1, OpenHolds DEF New, NewSkipCheck
  <1>2. ASSUME NEW p \in Procs, Pin(p) PROVE EntriesInv'
    <2>1. /\ OnlyFor(p) /\ pins[p] \subseteq pins'[p]
          /\ UNCHANGED <<disk, file, st, mem, checked, buf, inherited, stray>>
      BY <1>2 DEF Pin, OnlyFor, TypeOK
    <2>2. ProcHolds(p)' /\ FileHolds'
      BY <2>1 DEF EntriesInv, ProcHolds, FileHolds, Readable, Strayed, OfEnv
    <2> QED BY <2>1, <2>2, OthersHold
  <1>3. ASSUME NEW p \in Procs, InsertAccount(p) \/ InsertStorage(p) \/ Clear(p) PROVE EntriesInv'
    BY <1>3, InsertHolds
  <1>4. ASSUME NEW p \in Procs, Flush(p) PROVE EntriesInv'
    <2>1. /\ OnlyFor(p) /\ st[p] = "open" /\ st'[p] = "truncated" /\ disk' = "malformed"
          /\ UNCHANGED <<mem, checked, pins, buf, inherited>>
      BY <1>4 DEF Flush, OnlyFor, TypeOK
    <2>2. ProcHolds(p)' /\ FileHolds'
      BY <2>1 DEF EntriesInv, ProcHolds, FileHolds, Readable, Strayed, OfEnv
    <2> QED BY <2>1, <2>2, OthersHold
  <1>5. ASSUME NEW p \in Procs, SerializeAccounts(p) PROVE EntriesInv'
    <2>1. /\ OnlyFor(p) /\ st[p] = "truncated" /\ st'[p] = "accounts" /\ buf'[p] = mem[p].accounts
          /\ UNCHANGED <<disk, file, mem, checked, pins, inherited, stray>>
      BY <1>5 DEF SerializeAccounts, OnlyFor, TypeOK
    <2>2. ProcHolds(p)' /\ FileHolds'
      BY <2>1 DEF EntriesInv, ProcHolds, FileHolds, Readable, Strayed, OfEnv
    <2> QED BY <2>1, <2>2, OthersHold
  <1>6. ASSUME NEW p \in Procs, FlushEnd(p) \/ FlushError(p) PROVE EntriesInv'
    BY <1>6, FlushEndHolds
  <1>7. ASSUME NEW p \in Procs, Exit(p) PROVE EntriesInv'
    BY <1>7, ExitHolds
  <1>8. CASE UNCHANGED vars
    BY <1>8 DEF vars, EntriesInv, ProcHolds, FileHolds, Readable, Strayed, OfEnv
  <1> QED BY <1>1, <1>2, <1>3, <1>4, <1>5, <1>6, <1>7, <1>8 DEF Next

\* A process that stays at the block of its metadata holds and flushes data of
\* that block only, and the file is of one block unless a process that strayed
\* (set_pinned_block) or several at once have written it since the last flush of
\* one that did not (flush_to), whoever crashes in the middle of a flush.
THEOREM EntriesOfOneBlock == Spec => []EntriesMatchMeta
  <1>1. EntriesInv => EntriesMatchMeta
    BY DEF EntriesInv, ProcHolds, FileHolds, EntriesMatchMeta
  <1> QED BY <1>1, TypeCorrect, EntriesInit, EntriesStep, PTL DEF Spec

\* A process that opened the cache with BlockchainDb::new and stays at the block
\* it asked for serves entries fetched at that block only, unless what it read
\* was written by a process that strayed or by several at once.
THEOREM CheckedOwnBlock == Spec => []CheckedServesOwnBlock
  <1>1. EntriesInv => CheckedServesOwnBlock
    <2> SUFFICES ASSUME EntriesInv, NEW p \in Procs, NEW own \in Envs,
                        checked[p] = {own}, pins[p] = {own}, ~inherited[p]
                 PROVE  \A e \in mem[p].accounts \cup mem[p].storage : e[1] = own
      BY DEF CheckedServesOwnBlock
    <2>1. st[p] # "off" /\ mem[p].meta.env = own
      BY DEF EntriesInv, ProcHolds
    <2>2. ~Strayed(p)
      BY <2>1 DEF Strayed
    <2> QED BY <2>1, <2>2 DEF EntriesInv, ProcHolds, OfEnv
  <1> QED BY <1>1, TypeCorrect, EntriesInit, EntriesStep, PTL DEF Spec
=============================================================================
