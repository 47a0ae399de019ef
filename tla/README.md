# Verification of foundry-core

TLA+ models of this repository, the TLC configurations that check them, and
TLAPS proofs about the fork backend, the caches, the browser wallet, the service
clients, the incremental build, the toolchain, the settings and the project
files. `PROJECT.json` links every definition to the
lines it models and lists what is hard to test in the code with the properties
that cover it.

## 1. The system

| Crate and part | State | Operations | What is hard |
|---|---|---|---|
| `fork-db`, backend | `MemDb` cache, request channel, listeners and futures of `BackendHandler`, pinned block | blocking reads, updates, pins, flushes; `poll` of the handler; drops | callers on other threads, bundling, wake-ups, answers that arrive after a pin, an update or the last drop |
| `fork-db`, account fetch | one `AtomicU8` mode | futures of `get_account_req` | futures share a mode that others change |
| `fork-db`, `MemDb` and metadata | accounts, slots, block environment, hosts | commit, insert, set, store, read back | absence means zero to one reader and "not fetched" to the other; answers that arrive after a commit; files of older versions |
| `fork-db`, cache file | one JSON file per chain and block | open with and without the check, pin, insert, flush, flush on drop | in-place writes that overlap, crashes, several processes; what is pinned is not what the metadata say |
| `wallets`, browser wallet | three queues with responses, the connection, a server | `request_*` calls that poll, HTTP handlers, disconnect, timeout, drop | every step takes its own lock |
| `wallets`, signers | options, pending signers, keys file | choice of one or several signers, lazy unlocking | precedence; one of several unlocks fails |
| `wallets`, channel database | one row per channel | find, upsert, delete | programs read, modify and write back |
| `compilers`, incremental build | cache file, artifact files, build infos | preprocess, compile, write artifacts, write cache | invalidation through imports, profiles and modes; runs that fail or are killed |
| `compilers`, resolver and settings | graph by index, versions, profiles | resolve, choose, make jobs, print, standard JSON | order of visits, cycles, files shared by jobs |
| `compilers`, project files | relative paths in the cache file, directories | build, move, configure, `cleanup` | stale relative paths; a removal that fails half way |
| `compilers`, output | aggregated output, taken paths, extra files, diagnostics | extend, name, write, consume, verdict, lookups and removals | name collisions over several builds, what is cached and what is new |
| `compilers`, toolchain | installed versions, reporters per thread | sequential and parallel runs, installation, scopes | thread-local state on pool threads |
| `compilers`, flattener | replacements per file | collect, rename, apply | names shared between files, several kinds of import |
| `artifacts` | none | remapping search, linking, conversions, source maps, selections | parallel search with links; packed numbers |
| `block-explorers` | a file cache | requests, cache, source tree | a file written by several processes; errors shaped like results |

The crates do not call each other at run time. Inside `compilers` a build goes
through the parts in the order *project files, resolver, incremental build,
toolchain, output*; what one hands to the next is a parameter of the next
module (`JobOf` of `CompilerCache` is what `Resolver` makes, the jobs of a plan
of `BuildOutput` and of `Toolchain` as well). In `fork-db` the handler fills
`MemDb` and polls the futures of `AccountFetch`.

What makes each part correct:

* backend: a caller always returns, with the value the cache holds; a key is
  fetched once; nobody waits on a fetch that does not exist; the last drop
  flushes what was fetched;
* account fetch: probing a faster method never costs a request that the
  ordinary calls could answer;
* `MemDb`: what is read is what was committed, or what an answer that was on its way
  at the commit brought; metadata keep their meaning;
* cache file: a process that stays at the block of its metadata has, and hands on,
  data of that block only;
* browser wallet: a request is pending or answered, never both, never lost; a
  returned key authorization is genuine;
* signers: the ones that were asked for, by precedence; no payment through a channel
  is lost while programs take turns;
* incremental build: reuse is invisible (except in time): the output is what a
  full build would give, complete, and an unchanged project is not compiled
  again;
* resolver: every input is in a job that holds all it imports and whose version
  and profile fit; no needless version; errors name a real conflict;
* output: everything asked for is handed out, in files of their own, and the
  verdict follows the diagnostics;
* flattener: the one file means what the many meant;
* linking and source maps: the code is the compiled code with the addresses in
  place; every instruction has the values its compressed text stands for;
* explorer: an error is never taken for a result, nor an unfinished file for an
  entry.

## 2. Modules

| Module | Models | Main state | Actions |
|---|---|---|---|
| `ForkBackend` | `fork-db/src/backend.rs` | `db`, `channel`, `queued`, `listeners`, `fetches`, `direct`, wakers | one per `SharedBackend` method; `poll` in steps |
| `ForkStore` | what a caller of `SharedBackend` is promised | `store`, `waiting`, `answer` | ask, hit, fill, fail, put |
| `AccountFetch` | `get_account_req` | `mode`, two calls per future | dispatch, race, await |
| `MemDb` | `MemDb`, `BlockchainDbMeta` in `fork-db/src/cache.rs` | `accounts`, `storage`, `backing`, `flying`, `meta`; ghosts `world`, `raced`, `asked` | commit, insert; ask, answer, fail; set, store, reopen |
| `ForkCacheFile` | the cache file in `fork-db/src/cache.rs` | `disk`, `file`, `clash`, per process `mem`, `pins` and `buf`; ghosts `inherited`, `stray` | open, pin, insert, clear, the steps of a flush, error, exit or crash |
| `BrowserWallet` | `wallets/src/wallet_browser` | `queue`, `responses`, `connection`, `pc` per call | one per lock acquisition |
| `Wallets` | options, signers, keys file, channels of `wallets` | `chosen`, `multi`, `channels`, `copies`; ghosts `held`, `ledger` | choose, unlock, find, use, upsert, delete |
| `Explorer` | `block-explorers` | `cacheFile`, a call per client; ghost `alone` | look up, answer, create, write a block, die; calls without cache |
| `CompilerCache` | `compilers/src/cache.rs`, `compile/project.rs`, `filter.rs` | `src`, `opts`, `cacheFile`, `artFile`, `bare`, `run` | the four stages of a build, edits, crashes |
| `ProjectPaths` | path helpers, `ProjectPathsConfig` | none (operators) | |
| `SolcSettings` | EVM versions, restrictions, selections, sanitizing, for solc and Vyper | `pick` | merge, ask for reuse |
| `Vyper` | `compilers/src/compilers/vyper/parser.rs`, languages of `multi.rs` | none (operators) | |
| `Resolver` | `compilers/src/resolver`, standard JSON | `res` (nodes, edges, queue, choices, jobs, tree) | parse, visit a node, finish, choose, make jobs, print |
| `Remappings` | `artifacts/solc/src/remappings` | `find` (one task per directory), `moved` | scan an entry, search, join, collect; read, save, move |
| `ProjectFiles` | paths of the cache file, `Project::cleanup` | `disk`, `dirs`, `cacheFile`, `pc` | compile, move, configure, edit, the steps of cleanup |
| `Toolchain` | compiler runs, installation, reporters | `builds`, `scopes`, `installed`, `heard`; `owner`, `beside` of a build are ghosts | take and end a job, install, set and drop scopes |
| `BuildOutput` | aggregation, artifact paths, extra files, verdict | `out` | start, collect, place, write, consume |
| `OutputQueries` | lookups and removals in an output | `query` | remove by name, path or id |
| `Linking` | `bytecode.rs`, `contract.rs`, `Libraries` | `contract`; ghost `origin` | link one, link all, convert |
| `SourceMap` | `sourcemap.rs` | parser state | one per token |
| `Flatten` | `flatten.rs` and the text-based flattener | none; `shape` in `FlattenMC` | |

Theorems and their proofs are in modules of their own:

| Module | Proves about | For every |
|---|---|---|
| `ForkBackendProofs` | `ForkBackend`, `ForkStore` | set of clients, keys, blocks and values |
| `ForkStateProofs` | `AccountFetch`, `MemDb`, `ForkCacheFile` | set of futures; of addresses, slots, values and files of metadata; of processes, environments, chains and entries |
| `BrowserWalletProofs` | `BrowserWallet` | set of calls, handlers and wallets |
| `ServicesProofs` | `Wallets`, `Explorer` | wallet options; set of sessions and channels; of clients, answers and lifetimes, source paths |
| `CompilerCacheProofs` | `CompilerCache` | graph of imports, set of contents, profiles and settings, any history |
| `BuildInputsProofs` | `SolcSettings`, `ProjectFiles`, paths of `ProjectPaths`, `Toolchain` | settings and restrictions; project places, configurations and sources; set of builds with pools and jobs of any size |
| `ResolverProofs` | the graph, the tree and the jobs of `Resolver` | projects with any files and imports |
| `BuildOutputsProofs` | `Linking`, `OutputQueries` | libraries, code and addresses; outputs and what is looked up in them |

`*MC` modules hold the constants of the instances. Five of them put parts that
share no state into one run: a variable `part`, chosen initially, says which part
moves, and the others keep their initial state, so that nothing is multiplied
(`ForkStateMC`, `ForkFetchMC`, `ServicesMC`, `BuildInputsMC`, `BuildOutputsMC`).
A definition called `X_Something` right before `X` is a mutated form of `X`:
replacing `X` by it must break a property, which shows that the property depends
on that line of code.

How the models correspond to the code:

* `ForkBackend`. `poll` is cut wherever another thread can act. A future is lazy
  (`created`) until polled, then `sent`; a waker is registered when the channel
  or a future returns pending (`rxArmed`, `sent`) and its firing sets `woken`, so
  that a lost wake-up is a state of the model. The value of a key at block `p` is
  `p`. Locks inside one handler step are not split: the handler is the only
  writer besides the flush.
* `MemDb`. The ghost `world` is what the committed transactions say; the two
  readers are the one for which absence is zero and the one that asks the
  provider (`Remote`). A key is asked for only while it is absent, and the answer is
  inserted whatever has been stored meanwhile, as in the handler: `flying` are the
  keys that have been asked for, the ghost `raced` those that were committed while
  they were. A shared backend need not take part in a commit for this to happen; any
  holder of the `MemDb` may commit.
* `ForkCacheFile`. An entry is an item with the block it was fetched at, which is one
  the process has pinned (`pins`): `set_pinned_block` leaves the metadata alone, and a
  request made before it may be answered after. A flush truncates the file and reads
  the maps one after the other. If flushes of two processes overlap (`clash`) the file
  is nothing that parses, or any of `TornTexts`, which may mix the two in any way. The
  ghosts follow what comes from a process that strayed from the block of its metadata:
  `stray` for the file, `inherited` for who has read it.
* `BrowserWallet`. `PostCheck` and `PostStore`, `CheckConnected` and `AddRequest`,
  `Expire` and `RemoveRequest` are separate because the code takes separate
  locks. `Disconnect` clears the connection and `DrainQueue` drains one queue at
  a time, in the code's order.
* `Wallets`. A pending signer keeps its place among the results, so that one that
  fails drops exactly those at later places. The ghost `held` says of each program's
  copy of a row whether another program has written since, `ledger` what was done with
  the channel as long as programs took turns.
* `Explorer`. The ghost `alone` says that nobody else was writing when the file was
  created. A file is a sequence of blocks; a writer truncates it and writes
  its blocks at its own offset, whatever others have done meanwhile. Every kind
  of answer (shape of the result, status, what it says) goes through every call.
* `CompilerCache`. `Preprocess` is the whole of `ArtifactsCache::new`,
  `remove_dirty_sources` and `filter`. An artifact is represented by what it was
  compiled from, so "stale" can be stated. What the compiler and the
  preprocessor read of a file (`Artifact`, `Sees`) is an assumption about code
  outside the repository. Settings are compared for equality here; what
  `can_use_cached` accepts besides is in `SolcSettings`. A run has a set of flags
  (`Flags`): with the cache, preprocessed, sparse, with extra files whose data an
  artifact may lack (`bare`), with generated sources, which as extra files always
  count as missing. `LayerAssumption` says that where a mode preprocesses, and only
  there, sources import sources only; section 5 has what happens otherwise.
* `ProjectFiles`. Sources are told apart by their names. A project moves only to
  where nothing is. A configuration (`Givens`) sets any of artifacts folder, build
  infos and cache file, relative to the project or absolute; absolute ones lie apart
  from the places of the project, and configurations that have their artifacts in one
  folder have one cache file (`FilesAssumption`): without that the property is false,
  see section 5.
* `Resolver`. One visit of the queue is one step. A world is a project on disk
  with its configuration; paths are sequences of components and imports go
  through the real resolution of `ProjectPaths`. Vyper files have import lines
  and a version pragma, read by the operators of `Vyper`; `Pep440Admits` is what
  PEP 440 says of a pragma, apart from the code that translates it. Only one
  version of Vyper is ever available. Solidity files do not import Vyper files.
* `Remappings`. Every directory is a task; a task handles its entries in any
  order and tasks interleave, as rayon and the operating system may do. The set
  of links already followed is shared, as in the code.
* `BuildOutput`. A plan is a sequence of builds; artifact paths, lower-cased for
  comparison, are taken by earlier artifacts and by those of the cache.
* `Toolchain`. Reporters live in thread locals; a guard remembers the reporter it
  puts back. A pool thread takes the reporter that was captured when the build
  began. The ghost `owner` is the reporter a build should report to, `beside` says that
  another thread had a scope when it began.
* `Linking`. An object is a sequence of cells: code, placeholder, address. The
  ghost `origin` keeps the compiled contract and what was linked, in order.
* `SourceMap`. Words have `W` bits, so that packing and sign are met with small
  numbers; the reference reads the text without the compression.
* `Flatten`. A source is a sequence of words and the syntax tree is derived from
  the same program (`FileChunk`, `DefChunk`, `UseChunk` are what the compiler is
  taken to say). The result is read again as a program and compared. Of the regular
  expression of the text-based flattener `Found` has what it asks of the words around
  a name.

## 3. Runs

| Run | Instance | Shows |
|---|---|---|
| `backend_safety` | 2 clients, 1 account, 2 blocks, 2 non-blocking calls; commits to 1 account with 2 slots while its info and slots are fetched; metadata over 2 sets of fields | bundling, no lost or doubled call, no lost wake-up, answers agree with the cache, fetched values do not flip; the state of a fork is the committed one, unless an answer was on its way |
| `backend_live` | 2 clients, a slot and a block hash, 1 non-blocking call; 2 account futures over an endpoint that may refuse the fast call each time | refinement of `ForkStore`; every call and every future resolves; the handler ends after the last drop, with everything fetched on disk; no request fails that three calls could answer |
| `cache_file` | 2 processes, 2 environments and blocks to pin, 1 chain, 1 item in each map; mixed texts of every pair of blocks | who stays at a block has and writes data of it only; what strays is not read past the next clean flush |
| `services` | a transaction and a signature, 2 handlers; all combinations of wallet options; 2 programs on a channel; 2 processes on an explorer cache, time up to 3, lifetime 2; every answer and call | queue and response are exclusive, returned calls leave no request, a disconnect leaves only calls that raced it; signers are those asked for, by precedence, and which are lost after a failed unlock; no payment is lost in turns; the cache serves recent answers, whole ones where writers did not overlap; errors stay errors |
| `wallet_live` | a key authorization, 2 wallets, 2 handlers | the call returns; what it returns was signed by the signer over the unmodified payload |
| `compile_cache` | 4 files, 2 versions, 2 profiles, 5 modes (uncached, cached, preprocessed, sparse with extra files, with generated sources), 2 disturbances | the cache file tells the truth; reuse equals a full build; the output is complete; builds converge |
| `build_inputs` | projects of 2 or 3 inputs, a library and an outside file: 1 080 graphs, 1 728 version cases, 1 800 with Vyper imports, pragmas and pruned files, 50 settings for solc; 4 directory trees, 112 remapping lines; pairs of settings and of restrictions; 2 builds on 3 pool threads with scopes and a global reporter; 2 builds of a project with 2 places and 3 configurations | graph, jobs and choices are right; the search ends, finds the libraries and is repeatable; merged restrictions are exact and reuse emits all; reporters hear the builds they belong to; the cache names its own files and cleanup removes no others |
| `build_outputs` | plans of 2, 3 or 5 builds with 4 files, 3 names, 5 versions, 2 profiles, extra files and diagnostics; outputs with 3 files; 3 libraries; token strings up to 4, alone and after a full element; programs of 3 files, names with a number among them | the output is whole, artifact files are apart and extra files current; verdict, lookups and removals; linking and source maps; flattening keeps the meaning |

Four runs find a violation of something the repository states:

| Run | The code |
|---|---|
| `backend_overwrite` | an answer in flight overwrites a value a caller has just put in |
| `wallet_disconnect` | a request queued right after a disconnect drained the queues waits for its timeout |
| `compile_stale` | a build without the cache rewrites artifacts that the cache file still describes; after an undo they are reused |
| `compile_settings` | a filtered build after a settings change returns imports' artifacts made with the old settings |

Bounds. Two clients are enough for every order of two requests, and the handler
treats clients alike (symmetry is used in safety runs only, never with
liveness). `MaxSends` bounds updates, pins and flushes, which do not block. Two
processes and two environments give every overlap of two flushes and every
change of block. One item in each of the two maps is enough for a flush that sees one
map before and the other after an insertion, and for every mixture of two writers that
is not of one block (`MCTornTexts`). In the build, `MaxEdits` bounds edits, setting changes, deleted
artifacts and crashes together; the number of builds is not bounded. The four
files are a source, one that imports it, and two tests that import that one, so
that invalidation takes two hops and a mock and an ordinary test differ. Three
contents are used: two with the same interface and one without contracts.
`Editable` limits edits to the bottom of the graph and to one test. `BuildIds`
has two identifiers in `ProjectFiles`: one build that writes and one that reads after the
move; its configurations are the default, other folders with the same cache file, and
all of it outside. A numbered path of an artifact needs five builds of one file by
five versions, which the version plans of `build_outputs` have.
`MaxAmount` and `MaxTime` stop counters of `Wallets` and `Explorer`; a lifetime
of 2 with 4 instants lets an entry expire and be written anew. Directory trees
hold nested libraries, a domain folder, links to each other and upwards, each of
which takes another branch of the search. Graphs have cycles, missing imports and
imports from outside the root. `W = 6` leaves four bits for the modifier depth,
and tokens at, below and above its limit.

Deadlock. Backend, wallet and build-part runs may stop (all handles dropped, all
calls done, the plan at its end), so deadlock is not an error there; in
`cache_file` and `compile_cache` it is checked.

Fairness. `ForkFetchMC!BothFairness`: a woken task is polled (tokio), every
provider call resolves one way or the other (the transport has timeouts), a drop
that has begun finishes, and an account future whose calls resolve is polled.
Nothing is asked of callers. `BrowserWallet!FairSpec`: a started call is polled
and its clock runs; the page, the user and the server owe nothing. All other
properties need none.

## 4. Proofs

Each theorem holds for every value of the constants that meets the assumptions
of the module it is about; TLC evaluates the assumptions on the instances of
section 3. The arguments below say what had to be added to the property that is
checked to make it inductive, and why.

### Fork backend (`ForkBackendProofs`)

From `KeysAssumption` (the kinds of key are disjoint, clients are not keys),
`ValsAssumption` (values of the chain are told from values of callers) and
`BoundAssumption`.

* `TypeCorrect`: `Spec => []TypeOK`.
* `NoDuplicateFetch`, `ListenersTracked`: a key is fetched once at a time, and has
  listeners exactly while it is. Neither is inductive alone: a miss starts a fetch
  only if nobody listens, so there is no second fetch because listeners exist
  while a fetch does; and an answer clears the listeners, which keeps that
  equivalence only if the fetch was the only one of its key. `Bundled` is both;
  a step leaves listeners and fetches alone, moves one on, ends one or registers
  a listener, and each of these is a lemma.
* `RepeatedReadsAgree`: the action property `FetchedValuesStable`. It needs
  `FetchesAreMisses`: a request is in flight only for a key without fetched value,
  so its answer cannot replace one.
* `WakeupsNotLost`: `NoLostWakeup` says that a sleeping handler has nothing to do;
  it is kept only with `WakeInv`, which says the same of a handler in the middle of
  `poll`: it went to sleep with empty queues (`NothingKept`), a receiver found
  empty has a waker or a sender that used it (`ReceiverArmed`), and a future that
  has been visited in this pass has its waker (`FuturesVisited`).
* `CallsHeldOnce`: messages move from channel to queue, so `CallsInv` is about their
  concatenation `Mail`, of which only the head is taken: no two places hold the
  same call (`CallsApart`), a blocked call is in some place (`CallsHeld`), and what
  is held belongs to a call that is blocked on it (`CallsTracked`).
* `BackendImplementsStore`: refinement of `ForkStore`, step by step. A step of the
  backend is a hit, a fill, a failure or a put of the store, or nothing its callers
  see. `AnswersCached`, that an answered call gets the value cached at that moment,
  is read off the store's steps.
* `LastFlushKeepsFetched`: `FlushInv` adds that whoever waits holds a handle and that
  the flush begins after the last handle is gone; with `CallsInv` no request is then
  left whose answer the flush could miss.

### Cache file and state of a fork (`ForkStateProofs`)

From `TornAssumption` (what overlapping flushes leave, if it parses, is a cache with
metadata), `InfoAssumption` (the answers to the fast call), `SlotsAssumption`,
`ValuesAssumption` (a slot is not the name for an account's info; zero is a value) and
`RemoteAssumption` (the provider's state is typed and its accounts have a code hash).

* `TypeCorrect`; `EntriesOfOneBlock` and `CheckedOwnBlock`, from `EntriesInv`: a process
  that has not strayed from the block of its metadata has entries of it only, and so
  has what its flush has already serialized, which is written later than it was read
  (`ProcHolds`); the file is of one block unless it is `stray`. That the check compared
  the environments is part of it, because what is loaded replaces the metadata the
  process was started with.
* `FetchTypeCorrect` (with `AwaitedCallsMade`: a future awaits only calls it made)
  and `FailsForStandardCalls`: whatever concurrent futures make of the shared mode,
  a request fails only if one of the three ordinary calls did.
* `MemTypeCorrect` and `ForkStateHolds`: what is read is the committed state, or the
  forked block's, and the committed one wherever it is not zero and no fetch of the key
  was in flight. `MemInv` is inductive over commit, insert and the steps of a fetch
  because of `FlyingUnwritten`: a key that is being fetched and was not committed since
  has no committed value the answer could replace. The lemma `CommittedSlotsMeans` says
  what a commit leaves of an account's slots. `MetaInv` does the same for metadata,
  which survive being stored and read (`RoundTrip`).

### Browser wallet (`BrowserWalletProofs`)

From `WalletAssumption` (calls have a kind and a sender).

* `TypeCorrect`; `QueuesLive`, `RequestsAnsweredOnce`: a request is pending or
  answered, never both or neither, and none is left of a call that returned. These
  hold only together, as `Waiting`: queues have no duplicates, what is queued waits,
  a handler that passed the check may store although the request has gone since
  (`HandlersAsked`), and nobody stores an answer for a call that has not asked
  (`UnaskedUnanswered`).
* `DisconnectLeavesRacers`: `RacersTracked` follows the calls that saw the connection
  before it was cleared.
* `KeyAuthorizationsChecked`: a returned authorization is signed by its signer over
  the payload asked for; `SignerFirst` orders the steps of the call.

### Services (`ServicesProofs`)

From `OptionsAssumption` (an option that is not given is told from a signer; options
that may be repeated are sequences), `RowsAssumption` (no row is taken for an absent
one), `TimeAssumption` (lifetime and clock bound are natural numbers) and
`TreePathsAssumption` (the path of a source ends in a file name, and only its first
component may be the root: `Path::components`).

* `SignersAsAsked`: `WalletsSound`. For one signer the cases of `maybe_signer` are
  followed to the option that is given first (`ChosenAsAsked`, `FirstOption`) or to the
  entry of the keys file (`LookedUp`). For several, `ResultSigner` and `MadeAsAsked`
  relate each result to an option; `MultiInv` says that a signer that is asked for and
  not there waits to be unlocked or, once the drain has begun, was to be unlocked at
  the place of one that failed or later.
* `PaymentsRecorded`: `PaymentsKept`. `PaymentInv` says of a channel whose programs have
  taken turns (`TurnsHold`) that at most one copy is unsaved and says what was done
  with the channel, and that current copies are as the row. A step with one channel
  leaves the others as they are (`OneChannel`).
* `CacheHitsTrue`: blocks of a hit are true of when they were asked for and have not
  expired; they are of one write unless others were writing when the file was created.
  Writers overlap and die anywhere, so `CacheInv` is about single blocks: each is a
  hole or makes the claim its writer could make, and claims stay true as time passes.
  `AloneInv` is about a file as a whole: as long as it is `alone` there is one writer,
  and the file has what that one has written.
* `ExplorerAnswers`: `ExplorerSound`, for every answer and call and any set of source
  paths. What cleaning keeps of a path is a function of its components, followed by
  induction stated over a set (`UpTo`): no parent folder, the root only in front, the
  file name at the end (`KeptMeans`, `LastKept`); a path that is clean stays as it is
  (`AllKept`). Two entries share a file only if both or neither were given the
  extension, because the extension is added only where no entry has that path.

### Incremental build (`CompilerCacheProofs`)

From `CacheAssumption` (sorts of the constants) and `LayerAssumption`, which asks for
nothing where no mode preprocesses (section 2). Without the preprocessor all four
properties are thus proved for any graph of imports. What a run wrote that did not get
to replace the cache file (`torn`: it was killed, failed, or ran without the cache) is
excepted by the properties themselves; the run `compile_stale` shows why.

* `TypeCorrect`, `CacheTruthful`, `ReuseInvisible`, `OutputAlwaysComplete` from one
  invariant `CacheInv`, over any number of builds, edits, changes of settings, lost
  artifacts, failures and crashes between any two writes. That reuse is invisible
  follows only if the cache file is truthful at every moment a build may start, so
  `CacheInv` speaks of the file on disk (`CacheFileSound`,
  `CacheDescribesArtifacts`), of the imports it was written with
  (`ImportsPresent`), and of a run in progress (`RunSound`: what it kept is current,
  what it compiles is missing or dirty, what it has made is what the sources are).
* The lemmas on dirty detection are the core. Without the preprocessor a clean file
  has only unchanged files below it (`CleanWithoutPreprocessor`); with it, changes
  stop at interfaces but are followed through mock edges
  (`CleanWithPreprocessor`). Both walks are least sets; induction over a walk is
  stated over sets: a set that holds the start and is closed under the step holds
  everything reached. No induction theorem of the library is used for it.
* `SecondBuildCompilesNothing`: `Converges`, which excepts what makes the code compile
  again: artifacts that cannot be read, generated sources, and extra files whose data
  an artifact that was not asked for lacks. `FixedInv` adds to `CacheInv` what a
  finished build leaves on disk (`SettledOnDisk`) and what a run over it plans
  (`PlanSound`); `ExtrasInv` that what was asked for has the data of its extra files,
  on disk as in a run, from which also the second half of `OutputAlwaysComplete`
  follows.

### What goes into a build (`BuildInputsProofs`)

From `SettingsAssumption` (restrictions and settings are typed; the unspecified value
is not one of them), `FilesAssumption` (section 2), `PoolsAssumption` (pools are
disjoint from each other and from the threads that start builds) and
`ReportersAssumption` (the global reporter is none of a scope).

* `SettingsHold`: merging two restrictions gives exactly what both allow or reports a
  conflict, and settings that are reused emit every output asked for. Merging is
  proved field by field, so that the solc and Vyper parts share `MergedTighter`.
* `CleanupKeepsRest`: wherever `cleanup` fails, only output of the project is gone and
  no cache file is left over removed artifacts. `CleanupInv` follows which folders
  have been emptied at each step.
* `FilesHold`: what a build reads from the cache file names its own sources and the
  artifacts made for them. `DiskOK` says that sources are told by their names;
  `CacheOK` that a cache file is where some configuration with its artifacts folder has
  it (`InLayout`) and that its entries describe the artifacts of that folder, also
  while another configuration is used. A build replaces artifacts of its own folder
  only (`FoldersApart`), and of the cache files only its own names them, because
  configurations with one artifacts folder share it. The lemmas on paths (`StripJoin`,
  `RelocatedPath`, `MovedFile`, `ApartBelow`) say that stripping a root and joining
  another is a bijection on what is below.
* `TypeCorrect` and `ReportersHear` (`Toolchain`): `ToolInv` counts the guards on each
  thread (`GuardsCounted`: a scope that is dropped puts back what it found, in any
  order of threads), says that the threads of a build have the reporter of its scope,
  the global one or none (`Owned`), and relates what a reporter has heard to where each
  job stands (`BuildsHeard`), for the builds that are `Tracked`: those in a scope, and
  parallel ones begun while no other thread had a scope.

### The dependency graph (`ResolverProofs`)

From `WorldsAssumption` (the input files of a project are a sequence without
duplicates, every file that can be read has a sequence of imports, and whether the
tree repeats is a truth value).

* `GraphBuilt`: `GraphFaithful`, for projects of any files that import each other in
  any way, cycles too. `IsBuilt` is the invariant while the queue is worked off: the
  index is the visited files followed by the queue, without duplicates; the edges of a
  visited file are its resolved imports, what is not an edge is noted as missing
  (`EdgesOf`); and a file that is no input is imported by one before it (`HasParent`).
  Following imports one after the other is a recursive function over them, so
  `Grown` says what holds after the first n, by induction stated over a set (`UpTo`);
  the same argument follows `Selected` and the walk that reaches a file. That every
  file is reached from an input, and is printed in the end, is then an argument on
  the first that is not (`LeastNumber`). `IsTree` is the invariant of the printed
  tree: what was opened has its imports printed or still to come (`IsPending`), and
  no line stands below itself. A job holds all that its files import because a step
  of the walk that does not end it adds a node (`FollowEnds`), so that as many steps
  as there are nodes are enough. Import resolution itself is used as it is, whatever
  it returns.

### What comes out of a build (`BuildOutputsProofs`)

From `LinkAssumption` (no two libraries share a placeholder, and compiled code refers
to the libraries it has placeholders of) and `OutputsAssumption` (paths tell files
apart, names of contracts are identifiers, and no version and profile is in an output
twice).

* `LinkedCodeSound`: `LinkSound`. `LinkInv` says that either code is the compiled one
  with each library at the address first given to it (`ObjectOf`), which fixes cells,
  references and kind together; forms that drop references keep only the cells.
  Linking one library more is a step from one such object to the next, whatever the
  order. `link_all` is a recursive function over the list, followed by induction
  stated over a set (`UpTo`): it stops at the library that completes the object, and
  from there on the next step would change nothing.
* `TakenApartSound`: `QueriesSound`. `QueryInv` is that what is left is a map of an
  output and makes up, with what was handed out, all there was. Each removal takes
  one entry of one sequence (`OneTaken`) and leaves all others, also those of the
  same contract (`ContractRemoved`, `SourceRemoved`); a lookup finds what its text
  says (`LookedUp`).

### Only model-checked

* Liveness: `EveryCallReturns` (twice), `HandlerFinishes` and `EveryFetchResolves`
  (out of the prover's reach, as is `ENABLED`).
* `RemappingsSound`, `ArtifactsSound` and `VerdictSound`: folds over sequences and
  sets; what they compute for every input needs induction over data.
  `ArtifactsSound` excepts paths that both are numbered and artifacts that `consume`
  drops, see section 5.
* `InputsComplete`, `ChoiceJustified`: versions, jobs and the standard JSON are
  made by folds over the walk of the graph, and pragmas are read from text.
* `SourceTextSound`: source maps are read through folds over tokens, and the
  flattener's dependencies are a RECURSIVE operator, which takes the SMT backend from
  every module that sees it.

## 5. Observed, without a run of their own

Modelled as the code has it; a property that would be false says which case it
leaves out.

`fork-db`
* Updates received in the pass that sees the channel closed are dropped unapplied:
  `poll` returns before it drains its queue (`backend.rs:512`).
* `UpdateStorage` replaces an account's whole slot map: cached slots the update
  does not name are gone (`backend.rs:274`).
* A slot committed as zero and a destroyed account are absent, and fetched again
  from the forked block (`cache.rs:303-327`). Answers are inserted unconditionally
  (`backend.rs:556`, 590): a value that was committed while its key was being fetched
  is overwritten, `backend_overwrite` for updates and `raced` in `MemDb` for commits.
* `set_pinned_block` changes the block of fetches and not the metadata
  (`backend.rs:263`): what is fetched afterwards is stored under an environment it is
  not of. Flushes of two processes write in place without a lock (`cache.rs:472-500`),
  so that a mixture of both may be read.
* `new_skip_check` takes over stored data and metadata although its doc says an
  empty database is returned if they differ (`cache.rs:64-81`); equality of
  metadata ignores the chain (`cache.rs:192`).

`wallets`
* A duplicate or late post stores a response nobody will take
  (`handlers.rs:136`); `sign_key_authorization` does not look at the current
  connection although its doc says so (`signer.rs:99`); dropping any clone of the
  signer stops the server of the others (`signer.rs:122`).
* A failed unlock drops the pending signers after it, and the next call returns the
  rest without an error (`wallet_multi/mod.rs:34`).
* The lookup in the keys file ignores chain and expiry of an entry; amounts of the
  channel database are read, modified and written back without a lock, so the
  last writer wins and payments of the other are lost; a deleted row may come back.

`compilers`
* A dirty source stops the walk that marks mock edges (`cache.rs:835-847`,
  888-908): with the preprocessor, a test that sees a mock only through a source
  which imports the mock keeps an artifact made with an old interface when that
  source and the mocked one change together, although the comment says that all
  mock edges are marked. `LayerAssumption` excludes it; without it
  `ReusedIsFresh` is false.
* Two configurations with one artifacts folder and different cache files write each
  other's artifacts, and each cache file goes on naming them; `FilesAssumption` excludes
  such pairs, without it `FilesSound` is false.
* Generated sources, as extra files, always count as missing (`configurable.rs:391-393`,
  `cache.rs:824-828`): with them every build compiles everything again. With any extra
  files so does an artifact without their data of a file that was not asked for.
* Compiling one profile of a file removes the reused artifacts of its other
  profiles at that version from the output (`cache.rs:1252`); `OutputWhole` says which.
* `conflict_free_output_file` compares a numbered path relative to the artifacts
  folder with full paths: after five changes of version a taken number looks free
  (`artifact_output/mod.rs:694-746`), although the comment speaks of a unique file;
  `ArtifactsApart` excepts numbered paths.
* `remove_outdated_builds` looks for build infos relative to the working
  directory (`cache.rs:161-183`); `cleanup` removes a sources folder that was
  configured as artifacts folder.
* Of a Vyper file that is read from the cache an empty list of outputs is asked
  for: `sparse_sources` leaves an empty map of contracts, in which
  `sanitize_output_selection` finds no list to put `abi` into, and which is written
  as `"*": []` (`artifacts/vyper/src/settings.rs:146-153`,
  `artifacts/solc/src/output_selection.rs:150`); the comment there wants to avoid
  this. Relative Vyper imports are also looked for in the libraries, against the
  comment above (`vyper/parser.rs:110-136`).
* The optimizer's option for unchecked increments of loops is sent to versions of solc
  before 0.8.22, too, against the comment at `artifacts/solc/src/lib.rs:482`.
* Before Vyper 0.3.0 any EVM version is passed on, also one that is too new
  (`artifacts/vyper/src/settings.rs:200`). A Vyper pragma without an operator is
  taken for a caret, and one that names a pre-release is never met by a released
  version, which is all `available_versions` reports (`vyper/mod.rs:217`).
* A reporter scope open on one thread hides the global reporter from all
  (`report/mod.rs:10-13`): a build without a scope that begins meanwhile, or goes on
  without a pool, reports to nobody. Two jobs may both install a missing version.
* `has_compiled_contracts` is true when there are none (`output/mod.rs:292-296`);
  `has_contract_artifact` looks at the first file only; an artifact of a file
  without contracts counts as dirty whenever extra files are configured.
* The flattener renames neither errors and events of a file nor aliased ones
  (`flatten.rs:538-599`). A name it makes (`C_0`) is not compared with the names there
  are (`flatten.rs:326`). It combines the version pragmas of all files, although its doc
  says that only the target's remain (`flatten.rs:256`, 686), and a pragma that cannot
  be parsed is lost.
* The text-based flattener cuts out one pragma of a kind per file and leaves an alias
  where its pattern does not look, as in the type of an array (`config.rs:152-202`).
* Restrictions are checked on settings before they are sanitized;
  `can_use_cached` ignores command-line settings.

`artifacts`
* Where libraries link to one another, which remapping is found depends on the
  order of the threads (`find.rs:102-104`, 328).
* `all_link_references` loses a library that only the creation code needs if the
  runtime code needs another one of the same file (`contract.rs:98-112`);
  `strip_bytecode_placeholders` never succeeds on an unlinked object
  (`bytecode.rs:346`, 433-437); legacy placeholders of long names collide.
* The source index 2^32 - 1 reads as "no source"; a remapping name with a colon
  and no context is read back with one.

`block-explorers`
* A delayed writer replaces a newer cache entry; blocks of overlapping writes of one
  kind of answer may fit together into one that neither was; the cache key has no chain, so
  clients of different chains need different roots; calls that expect a string
  report a limited rate as another error.

## 6. Not modelled

The routes and the page of the browser wallet; what signers do with their keys
and devices; the compiler processes and their JSON; the Hardhat artifact format;
the text of diagnostics, reports and build infos; query parameters and result
fields of the explorer; types that only mirror JSON; walking and reading files.
These have no state of their own and no control that a property could be about.
Two builds of one project at the same time, and the second reading of the sources
(`cache.rs:859`), are outside `CompilerCache`: nothing in the code orders them,
and none of its properties would hold.

## 7. Plan

All parts named above are modelled. Proofs that are left, in this order:

1. That the version and the profile of a job fit all its files (in `InputsComplete`):
   the walk of `NodeIds` has to be shown to yield what `FollowedIn` reaches.
2. The verdict of a build (`VerdictSound`): the invariant is that what the cache file
   names caused no failure.
3. Lemmas about single steps of `Remappings` and `BuildOutput`; their folds stay
   with TLC.
