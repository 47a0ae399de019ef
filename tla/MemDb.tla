------------------------------- MODULE MemDb -------------------------------
(***************************************************************************)
(* fork-db/src/cache.rs: the in-memory state a fork keeps (MemDb), the     *)
(* commit of a transaction's changes to it, and the metadata stored with   *)
(* it.  The state is read in two ways: by an executor that takes MemDb for *)
(* the whole world, where what is absent is zero, and by SharedBackend,    *)
(* which asks the provider for what is absent.                             *)
(***************************************************************************)
EXTENDS Naturals, FiniteSets

CONSTANTS
    Accts,       \* account addresses
    Slots,       \* storage slots
    Remote,      \* Accts -> [info, slots]: the chain at the forked block
    NoCode,      \* an AccountInfo whose code is not loaded
    Values       \* what a slot holds, and a field of the block environment

\* A slot is not the name that stands for an account's info in a key.
ASSUME SlotsAssumption == "info" \notin Slots

ASSUME ValuesAssumption == 0 \in Values

\* keccak of a non-empty code, and the two codes of "no code".
HashOf(code) == 10 + code
KECCAK_EMPTY == 1
ZeroHash == 0

\* AccountInfo: the nonce stands for nonce and balance.
Infos == [nonce : {0, 1}, code : {NoCode, 0, 5}, code_hash : {ZeroHash, KECCAK_EMPTY, 15}]
EmptyInfo == [nonce |-> 0, code |-> NoCode, code_hash |-> KECCAK_EMPTY]

\* revm::state::Account as an executor hands it to commit.
Accounts == [info : Infos, status : {"touched", "created", "selfdestructed"},
             storage : UNION {[S -> Values] : S \in SUBSET Slots}]

\* The provider answers for every address and slot; the code hash of the account
\* it is cached as is never zero: the handler's poll computes it from the code.
ASSUME RemoteAssumption ==
    Remote \in [Accts -> [info : {i \in Infos : i.code_hash # ZeroHash}, slots : [Slots -> Values]]]

VARIABLES
    accounts,    \* MemDb.accounts: partial function of Accts
    storage,     \* MemDb.storage: Accts :> Slots :> value, both partial
    world,       \* ghost: the state the committed transactions produced
    backing,     \* "local": nothing behind MemDb; "fork": the provider is
    flying,      \* the keys the handler has a fetch in flight for
    raced        \* ghost: keys last committed with a fetch of them in flight

memVars == <<accounts, storage, world, backing, flying, raced>>

\* A key of the handler's cache: an account's info, or one of its slots.
InfoKey(a) == <<a, "info">>
SlotKey(a, s) == <<a, s>>
FetchKeys == {InfoKey(a) : a \in Accts} \cup {SlotKey(a, s) : a \in Accts, s \in Slots}

Without(f, x) == [y \in DOMAIN f \ {x} |-> f[y]]
With(f, x, v) == [y \in DOMAIN f \cup {x} |-> IF y = x THEN v ELSE f[y]]
NoEntries == [x \in {} |-> x]

-----------------------------------------------------------------------------
\* revm's Account::is_empty.
IsEmpty(info) == info.nonce = 0 /\ info.code_hash \in {KECCAK_EMPTY, ZeroHash}

\* The code hash do_commit stores.
CommittedInfo(info) ==
    IF info.code \notin {NoCode, 0} THEN [info EXCEPT !.code_hash = HashOf(info.code)]
    ELSE IF info.code_hash = ZeroHash THEN [info EXCEPT !.code_hash = KECCAK_EMPTY]
    ELSE info

\* Mutant: a created account keeps the slots of the one it replaces.
CommittedSlots_KeepsCreated(old, acc) ==
    LET kept == {s \in DOMAIN old \cup DOMAIN acc.storage :
                   s \in DOMAIN acc.storage => acc.storage[s] # 0}
    IN [s \in kept |-> IF s \in DOMAIN acc.storage THEN acc.storage[s] ELSE old[s]]

\* The account's storage after its changed slots are applied: zero is absence.
CommittedSlots(old, acc) ==
    LET base == IF acc.status = "created" THEN NoEntries ELSE old
        kept == {s \in DOMAIN base \cup DOMAIN acc.storage :
                   s \in DOMAIN acc.storage => acc.storage[s] # 0}
    IN [s \in kept |-> IF s \in DOMAIN acc.storage THEN acc.storage[s] ELSE base[s]]

\* One account of do_commit.
Commit(a, acc) ==
    IF IsEmpty(acc.info) \/ acc.status = "selfdestructed"
    THEN /\ accounts' = Without(accounts, a)
         /\ storage' = Without(storage, a)
    ELSE LET old == IF a \in DOMAIN storage THEN storage[a] ELSE NoEntries
             new == CommittedSlots(old, acc)
         IN /\ accounts' = With(accounts, a, CommittedInfo(acc.info))
            /\ storage' = IF new = NoEntries THEN Without(storage, a) ELSE With(storage, a, new)

\* What a transaction's change to an account means, whoever stores it.
WorldAfter(w, acc) ==
    IF IsEmpty(acc.info) \/ acc.status = "selfdestructed"
    THEN [info |-> EmptyInfo, slots |-> [s \in Slots |-> 0]]
    ELSE [info |-> CommittedInfo(acc.info),
          slots |-> [s \in Slots |->
                       IF s \in DOMAIN acc.storage THEN acc.storage[s]
                       ELSE IF acc.status = "created" THEN 0 ELSE w.slots[s]]]

\* The keys a commit says something new of: all slots when it clears the storage.
KeysOf(a, acc) ==
    {InfoKey(a)} \cup
    {SlotKey(a, s) : s \in IF IsEmpty(acc.info) \/ acc.status # "touched" THEN Slots
                          ELSE DOMAIN acc.storage}

\* Of the keys written, those with a fetch in flight are raced from now on.
RacedAfter(written) == (raced \ written) \cup (written \cap flying)

DoCommit(a, acc) ==
    /\ Commit(a, acc)
    /\ world' = [world EXCEPT ![a] = WorldAfter(@, acc)]
    /\ raced' = RacedAfter(KeysOf(a, acc))
    /\ UNCHANGED <<backing, flying>>

\* do_insert_account: the info alone, storage untouched.
DoInsertAccount(a, info) ==
    /\ accounts' = With(accounts, a, info)
    /\ world' = [world EXCEPT ![a].info = info]
    /\ raced' = RacedAfter({InfoKey(a)})
    /\ UNCHANGED <<storage, backing, flying>>

SlotsHeld(a) == IF a \in DOMAIN storage THEN storage[a] ELSE NoEntries

\* on_request: only a key that is absent now, and that no fetch is in flight for,
\* is asked of the provider.
AskAccount(a) ==
    /\ backing = "fork"
    /\ a \notin DOMAIN accounts
    /\ flying' = flying \cup {InfoKey(a)}
    /\ UNCHANGED <<accounts, storage, world, backing, raced>>

\* Mutant: a slot is fetched whether or not it is cached.
AskSlot_KnownToo(a, s) ==
    /\ backing = "fork"
    /\ flying' = flying \cup {SlotKey(a, s)}
    /\ UNCHANGED <<accounts, storage, world, backing, raced>>

AskSlot(a, s) ==
    /\ backing = "fork"
    /\ s \notin DOMAIN SlotsHeld(a)
    /\ flying' = flying \cup {SlotKey(a, s)}
    /\ UNCHANGED <<accounts, storage, world, backing, raced>>

\* poll: the answer is inserted whatever has been stored meanwhile.
AccountAnswered(a) ==
    /\ InfoKey(a) \in flying
    /\ accounts' = With(accounts, a, Remote[a].info)
    /\ flying' = flying \ {InfoKey(a)}
    /\ UNCHANGED <<storage, world, backing, raced>>

SlotAnswered(a, s) ==
    /\ SlotKey(a, s) \in flying
    /\ storage' = With(storage, a, With(SlotsHeld(a), s, Remote[a].slots[s]))
    /\ flying' = flying \ {SlotKey(a, s)}
    /\ UNCHANGED <<accounts, world, backing, raced>>

\* poll: an error goes to the listeners and stores nothing.
FetchFails(k) ==
    /\ k \in flying
    /\ flying' = flying \ {k}
    /\ UNCHANGED <<accounts, storage, world, backing, raced>>

MemInit ==
    /\ accounts = NoEntries
    /\ storage = NoEntries
    /\ backing \in {"local", "fork"}
    /\ world = [a \in Accts |-> IF backing = "fork" THEN Remote[a]
                                ELSE [info |-> EmptyInfo, slots |-> [s \in Slots |-> 0]]]
    /\ flying = {}
    /\ raced = {}

MemNext ==
    \/ \E a \in Accts, acc \in Accounts : DoCommit(a, acc)
    \/ \E a \in Accts, info \in {i \in Infos : ~IsEmpty(i) /\ i.code_hash # ZeroHash} :
         DoInsertAccount(a, info)
    \/ \E a \in Accts : AskAccount(a) \/ AccountAnswered(a)
    \/ \E a \in Accts, s \in Slots : AskSlot(a, s) \/ SlotAnswered(a, s)
    \/ \E k \in flying : FetchFails(k)

-----------------------------------------------------------------------------
\* Reads: an absent entry is zero, or the provider's.
BasicRef(a) ==
    IF a \in DOMAIN accounts THEN accounts[a]
    ELSE IF backing = "fork" THEN Remote[a].info ELSE EmptyInfo

StorageRef(a, s) ==
    IF a \in DOMAIN storage /\ s \in DOMAIN storage[a] THEN storage[a][s]
    ELSE IF backing = "fork" THEN Remote[a].slots[s] ELSE 0

\* Without a provider behind it MemDb is exactly the committed state: a slot
\* written with zero, a destroyed account and a created one's old slots are
\* gone, and a code hash is never zero (do_commit).
LocalStateIsCommitted ==
    backing = "local" =>
      \A a \in Accts :
        /\ BasicRef(a) = world[a].info
        /\ \A s \in Slots : StorageRef(a, s) = world[a].slots[s]

\* With the provider behind it, what is read is what was committed or what the
\* forked block has.  A committed value that is not zero is what is read, unless
\* a fetch of the same key was in flight when it was committed: the answer, which
\* poll inserts unconditionally, may have replaced it.  (A committed zero or a
\* destroyed account is absent and is fetched again from the forked block.)
ForkKeepsCommitted ==
    backing = "fork" =>
      \A a \in Accts :
        /\ BasicRef(a) \in {world[a].info, Remote[a].info}
        /\ world[a].info # EmptyInfo /\ InfoKey(a) \notin raced => BasicRef(a) = world[a].info
        /\ \A s \in Slots :
             /\ StorageRef(a, s) \in {world[a].slots[s], Remote[a].slots[s]}
             /\ world[a].slots[s] # 0 /\ SlotKey(a, s) \notin raced =>
                  StorageRef(a, s) = world[a].slots[s]

\* do_commit keeps no empty storage map and no zero code hash.
Normalised ==
    /\ \A a \in DOMAIN storage : DOMAIN storage[a] # {}
    /\ \A a \in DOMAIN accounts : accounts[a].code_hash # ZeroHash

MemDbSound == LocalStateIsCommitted /\ ForkKeepsCommitted /\ Normalised

-----------------------------------------------------------------------------
\* BlockchainDbMeta, written to a file by one build of the crate and read back
\* by the same or a later one, whose block environment has one more field.
VARIABLES
    meta,        \* BlockchainDbMeta in memory
    fields,      \* the fields of this build's block environment
    asked        \* ghost: what the caller configured

metaVars == <<meta, fields, asked>>

OldFields == {"number"}
NewFields == {"number", "blob"}
Hosts == {"h1", "h2"}
NoChain == 0
Default(fs) == [f \in fs |-> 0]

\* BlockchainDbMeta::new
NewMeta(env, host) == [chain |-> NoChain, block_env |-> env, hosts |-> {host}]

\* The JSON value: a chain that is None is not written, hosts is a list
\* (before the list existed: one host).
Serialized(m, single) ==
    [chain |-> IF m.chain = NoChain THEN {} ELSE {m.chain},
     block_env |-> m.block_env,
     hosts |-> IF single THEN [kind |-> "Single", host |-> CHOOSE h \in m.hosts : TRUE]
               ELSE [kind |-> "Multi", hosts |-> m.hosts]]

\* BlockEnvBackwardsCompat: missing fields come from the default.
CompatEnv(env, fs) == [f \in fs |-> IF f \in DOMAIN env THEN env[f] ELSE Default(fs)[f]]

Deserialized(text, fs) ==
    [chain |-> IF text.chain = {} THEN NoChain ELSE CHOOSE c \in text.chain : TRUE,
     block_env |-> CompatEnv(text.block_env, fs),
     hosts |-> IF text.hosts.kind = "Single" THEN {text.hosts.host} ELSE text.hosts.hosts]

WithUrl(h) ==
    /\ meta' = [meta EXCEPT !.hosts = @ \cup {h}]
    /\ asked' = [asked EXCEPT !.hosts = @ \cup {h}]
    /\ UNCHANGED fields

SetChain(c) ==
    /\ meta' = [meta EXCEPT !.chain = c]
    /\ asked' = [asked EXCEPT !.chain = c]
    /\ UNCHANGED fields

SetBlockEnv(env) ==
    /\ meta' = [meta EXCEPT !.block_env = env]
    /\ asked' = [asked EXCEPT !.block_env = env]
    /\ UNCHANGED fields

\* The file is written and opened again, possibly by a later build.
Reopen(fs, single) ==
    /\ fields \subseteq fs
    /\ single => Cardinality(meta.hosts) = 1
    /\ meta' = Deserialized(Serialized(meta, single), fs)
    /\ fields' = fs
    /\ UNCHANGED asked

MetaInit ==
    \E env \in [OldFields -> Values], h \in Hosts :
      /\ meta = NewMeta(env, h)
      /\ fields = OldFields
      /\ asked = NewMeta(env, h)

MetaNext ==
    \/ \E h \in Hosts : WithUrl(h)
    \/ \E c \in {1, 2} : SetChain(c)
    \/ \E env \in [fields -> Values] : SetBlockEnv(env)
    \/ \E fs \in {OldFields, NewFields}, single \in BOOLEAN : Reopen(fs, single)

\* The state and its metadata, which no operation touches together.
MemDbNext ==
    \/ MemNext /\ UNCHANGED metaVars
    \/ MetaNext /\ UNCHANGED memVars

MemDbSpec == MemInit /\ MetaInit /\ [][MemDbNext]_<<memVars, metaVars>>

\* What the caller configured survives any number of round trips through the
\* file and through a build whose block environment has more fields; a field
\* the file does not have is the default (BlockEnvBackwardsCompat).
MetaSurvives ==
    /\ meta.chain = asked.chain
    /\ meta.hosts = asked.hosts
    /\ DOMAIN meta.block_env = fields
    /\ \A f \in fields : meta.block_env[f] = IF f \in DOMAIN asked.block_env
                                             THEN asked.block_env[f] ELSE 0

\* The state of a fork is the committed one, in memory (do_commit), and what is
\* stored with it means the same after it was written and read by another version
\* (BlockchainDbMeta).
ForkStateSound == MemDbSound /\ MetaSurvives
=============================================================================
