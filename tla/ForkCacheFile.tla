--------------------------- MODULE ForkCacheFile ---------------------------
(***************************************************************************)
(* The on-disk cache of crates/fork-db: BlockchainDb::new opens it,        *)
(* JsonBlockCacheDB::flush rewrites it in place.  Several processes may    *)
(* share a path, each may crash at any point, and a flush truncates the    *)
(* file long before it has written it.                                     *)
(*                                                                         *)
(* A cache entry is a pair <<b, i>>: item i as fetched at block b.  The    *)
(* block of a fetch is the one pinned when it was asked for, which nothing *)
(* ties to the block environment of the metadata.  Slots and block hashes  *)
(* are one map, `storage`: both are serialized after the accounts, each    *)
(* under its own lock.  The hosts of the metadata, which new_db merges,    *)
(* decide nothing and are left out.                                        *)
(***************************************************************************)
EXTENDS Naturals, FiniteSets

CONSTANTS
    Procs,      \* processes using the same cache path
    Envs,       \* block environments, and the blocks they are of
    Chains,     \* values of BlockchainDbMeta.chain
    Items,      \* things that can be fetched
    NoMeta,     \* the metadata of no cache
    TornTexts   \* what parses although several writers have written it

Meta == [env : Envs, chain : Chains]
Entries == Envs \X Items

\* A map holds one entry of an item.
Maps == {map \in SUBSET Entries : \A e, f \in map : e[2] = f[2] => e = f}

VARIABLES
    disk,       \* the file: "missing", "malformed" or "complete"
    file,       \* what a complete file holds
    st,         \* per process: "off" | "open" | "truncated" | "accounts"
    mem,        \* per process: BlockchainDb (meta and MemDb)
    checked,    \* per process: the block environment new compared, if it did
    pins,       \* per process: the blocks its backend has been pinned to
    buf,        \* per process: the accounts its flush has serialized
    clash,      \* two flushes have overlapped on the file
    inherited,  \* ghost: per process, what it loaded was from a stray file
    stray       \* ghost: the file is of a process that strayed, or of several

vars == <<disk, file, st, mem, checked, pins, buf, clash, inherited, stray>>

Complete == [meta : Meta, accounts : Maps, storage : Maps]
Empty(m) == [meta |-> m, accounts |-> {}, storage |-> {}]
Blank == Empty(NoMeta)

ASSUME TornAssumption == TornTexts \subseteq Complete

Writing == {"truncated", "accounts"}
Writers == {p \in Procs : st[p] \in Writing}
Readable == disk = "complete"

\* The process fetched, or may still be fetching, at another block than that of
\* its metadata, or has read what such a process wrote.
Strayed(p) == inherited[p] \/ \E b \in pins[p] : b # mem[p].meta.env

Init ==
    /\ disk = "missing"
    /\ file = Blank
    /\ st = [p \in Procs |-> "off"]
    /\ mem = [p \in Procs |-> Blank]
    /\ checked = [p \in Procs |-> {}]
    /\ pins = [p \in Procs |-> {}]
    /\ buf = [p \in Procs |-> {}]
    /\ clash = FALSE
    /\ inherited = [p \in Procs |-> FALSE]
    /\ stray = FALSE

\* Mutant: the metadata on disk is not compared.
MetaMatches_Always(m, f) == TRUE

\* PartialEq for BlockchainDbMeta: the block environment alone decides.
MetaMatches(m, f) == m.env = f.meta.env

\* Mutant: the cache loaded keeps the metadata given to new_db.
Loaded_KeepMeta(m, skipCheck) ==
    IF Readable /\ (skipCheck \/ MetaMatches(m, file)) THEN [file EXCEPT !.meta = m] ELSE Empty(m)

\* JsonBlockCacheDB::load fails on a missing or malformed file.
Loaded(m, skipCheck) ==
    IF Readable /\ (skipCheck \/ MetaMatches(m, file)) THEN file ELSE Empty(m)

\* BlockchainDb::new_db, and the backend started on it with some block pinned.
NewDb(p, m, skipCheck) ==
    /\ st[p] = "off"
    /\ st' = [st EXCEPT ![p] = "open"]
    /\ mem' = [mem EXCEPT ![p] = Loaded(m, skipCheck)]
    /\ checked' = [checked EXCEPT ![p] = IF skipCheck THEN {} ELSE {m.env}]
    /\ \E b \in Envs : pins' = [pins EXCEPT ![p] = {b}]
    /\ inherited' = [inherited EXCEPT ![p] = stray /\ Loaded(m, skipCheck) # Empty(m)]
    /\ UNCHANGED <<disk, file, buf, clash, stray>>

New(p) == \E m \in Meta : NewDb(p, m, FALSE)
NewSkipCheck(p) == \E m \in Meta : NewDb(p, m, TRUE)

\* set_pinned_block leaves the metadata as they are.
Pin(p) ==
    /\ st[p] # "off"
    /\ \E b \in Envs : pins' = [pins EXCEPT ![p] = @ \cup {b}]
    /\ UNCHANGED <<disk, file, st, mem, checked, buf, clash, inherited, stray>>

\* What a map holds of item i is replaced.
Inserted(map, b, i) == {e \in map : e[2] # i} \cup {<<b, i>>}

\* The backend inserts an answer to a request made under any pin so far; it goes
\* on doing so while another thread flushes.
InsertAccount(p) ==
    /\ st[p] # "off"
    /\ \E i \in Items, b \in pins[p] :
          mem' = [mem EXCEPT ![p].accounts = Inserted(@, b, i)]
    /\ UNCHANGED <<disk, file, st, checked, pins, buf, clash, inherited, stray>>

InsertStorage(p) ==
    /\ st[p] # "off"
    /\ \E i \in Items, b \in pins[p] :
          mem' = [mem EXCEPT ![p].storage = Inserted(@, b, i)]
    /\ UNCHANGED <<disk, file, st, checked, pins, buf, clash, inherited, stray>>

\* MemDb::clear: also what was loaded is gone; requests in flight are not.
Clear(p) ==
    /\ st[p] = "open"
    /\ mem' = [mem EXCEPT ![p].accounts = {}, ![p].storage = {}]
    /\ inherited' = [inherited EXCEPT ![p] = FALSE]
    /\ UNCHANGED <<disk, file, st, checked, pins, buf, clash, stray>>

\* flush_to: File::create truncates.  (If it fails nothing changes.)
Flush(p) ==
    /\ st[p] = "open"
    /\ st' = [st EXCEPT ![p] = "truncated"]
    /\ disk' = "malformed" /\ file' = Blank
    /\ clash' = (clash \/ Writers # {})
    /\ UNCHANGED <<mem, checked, pins, buf, inherited, stray>>

\* Serialize for JsonBlockCacheData: each map is read under its own lock, the
\* accounts before the storage.  The metadata do not change.
SerializeAccounts(p) ==
    /\ st[p] = "truncated"
    /\ st' = [st EXCEPT ![p] = "accounts"]
    /\ buf' = [buf EXCEPT ![p] = mem[p].accounts]
    /\ UNCHANGED <<disk, file, mem, checked, pins, clash, inherited, stray>>

\* Nothing that parses is left, unless several writers, each at its own offset,
\* have put their bytes into one file: that may be anything.
Torn ==
    \/ disk' = "malformed" /\ file' = Blank /\ UNCHANGED stray
    \/ clash /\ disk' = "complete" /\ file' \in TornTexts /\ stray' = TRUE

\* The flush is over: back to the caller, which after the one made on drop ends.
Return(p) ==
    /\ st' = [st EXCEPT ![p] = "open"]
    /\ buf' = [buf EXCEPT ![p] = {}]
    /\ clash' = (clash /\ Writers # {p})
    /\ UNCHANGED <<mem, checked, pins, inherited>>

\* The storage is serialized and the writer closed.
FlushEnd(p) ==
    /\ st[p] = "accounts"
    /\ IF clash THEN Torn
       ELSE /\ disk' = "complete"
            /\ file' = [mem[p] EXCEPT !.accounts = buf[p]]
            /\ stray' = Strayed(p)
    /\ Return(p)

\* A write error returns early: the file stays truncated or half written.
FlushError(p) == st[p] \in Writing /\ Torn /\ Return(p)

\* The process ends, in the middle of a flush or not: what it held is gone.
Exit(p) ==
    /\ st[p] # "off"
    /\ IF st[p] \in Writing THEN Torn ELSE UNCHANGED <<disk, file, stray>>
    /\ clash' = (clash /\ Writers # {p})
    /\ st' = [st EXCEPT ![p] = "off"]
    /\ mem' = [mem EXCEPT ![p] = Blank]
    /\ checked' = [checked EXCEPT ![p] = {}]
    /\ pins' = [pins EXCEPT ![p] = {}]
    /\ inherited' = [inherited EXCEPT ![p] = FALSE]
    /\ buf' = [buf EXCEPT ![p] = {}]

Next ==
    \E p \in Procs :
        \/ New(p) \/ NewSkipCheck(p) \/ Pin(p) \/ InsertAccount(p) \/ InsertStorage(p)
        \/ Clear(p) \/ Flush(p) \/ SerializeAccounts(p) \/ FlushEnd(p) \/ FlushError(p)
        \/ Exit(p)

Spec == Init /\ [][Next]_vars

-----------------------------------------------------------------------------
(* Properties                                                              *)

\* The cache of each process and the file hold metadata and entries.
TypeOK ==
    /\ disk \in {"missing", "malformed", "complete"}
    /\ file \in Complete \cup {Blank} /\ (Readable => file \in Complete)
    /\ st \in [Procs -> {"off", "open"} \cup Writing]
    /\ mem \in [Procs -> Complete \cup {Blank}]
    /\ \A p \in Procs : st[p] # "off" => mem[p] \in Complete
    /\ checked \in [Procs -> SUBSET Envs] /\ pins \in [Procs -> SUBSET Envs]
    /\ buf \in [Procs -> Maps]
    /\ clash \in BOOLEAN
    /\ inherited \in [Procs -> BOOLEAN] /\ stray \in BOOLEAN

OfEnv(d) == \A e \in d.accounts \cup d.storage : e[1] = d.meta.env

\* A process that stays at the block of its metadata holds, and writes to disk,
\* data of that block only: not after a crash in mid-flush, not when a file of
\* another block is replaced, not after it cleared what it loaded.  What strays
\* is what a process fetched at another pin (set_pinned_block), what flushes that
\* overlapped on the file left there, and what was read from such files, until
\* a flush of a process that did not stray replaces them.
EntriesMatchMeta ==
    /\ \A p \in Procs : st[p] # "off" /\ ~Strayed(p) => OfEnv(mem[p])
    /\ Readable /\ ~stray => OfEnv(file)

\* A process that opened the cache with BlockchainDb::new and stays at the block
\* it asked for serves data of that block only, whatever processes with other
\* metadata, started with or without the check, left in the file: it has to
\* have read a file some process strayed into, or several wrote into, to do more.
CheckedServesOwnBlock ==
    \A p \in Procs, own \in Envs :
      checked[p] = {own} /\ pins[p] = {own} /\ ~inherited[p] =>
        \A e \in mem[p].accounts \cup mem[p].storage : e[1] = own
=============================================================================
