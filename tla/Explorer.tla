------------------------------ MODULE Explorer ------------------------------
(***************************************************************************)
(* The client of a block explorer: how an answer is sorted into results    *)
(* and errors, the cache of ABIs and sources on disk, which the processes  *)
(* of a user share without a lock, and the source tree that is written     *)
(* from an answer.                                                         *)
(*                                                                         *)
(* A file is a sequence of blocks: an item that says "not_verified" takes  *)
(* one block, contract data take two.  A writer truncates the file and     *)
(* then writes block after block at its own offset.                        *)
(***************************************************************************)
EXTENDS Naturals, Sequences, FiniteSets, SequencesExt

CONSTANTS
    Clients,     \* processes of one chain that share a cache root
    Ttl,
    MaxTime,     \* bound: the clock stops here
    TreePaths    \* the source paths of an answer, each a sequence of components

ASSUME TimeAssumption == Ttl \in Nat /\ MaxTime \in Nat

VARIABLES
    expClock,    \* seconds
    verified,    \* whether the contract is verified, and since when
    expKind,     \* what the clients ask for, "abi" or "sources": each has a file of its own
    cacheFile,   \* the file of the contract
    alone,       \* ghost: no other process was writing the file when it was created
    expCall,     \* per client: the call it is in
    plainCall    \* the last call that does not use the cache, and what came of it

expVars == <<expClock, verified, expKind, cacheFile, alone, expCall, plainCall>>

Hole == [of |-> 0, item |-> "hole", part |-> 0, expiry |-> 0, asked |-> 0]
NoFile == <<>>
NotCalling == [at |-> "idle"]

-----------------------------------------------------------------------------
(* Answers.  shape is the type of the answer's result field: a string, a   *)
(* list of contract data or of other objects, null, or no JSON at all.     *)

Answers == {
    [shape |-> "data",   status |-> "1", says |-> "data"],
    [shape |-> "data",   status |-> "1", says |-> "not_verified"],   \* etherscan: ABI field
    [shape |-> "list",   status |-> "1", says |-> "only_address"],   \* blockscout
    [shape |-> "string", status |-> "1", says |-> "data"],
    [shape |-> "string", status |-> "0", says |-> "not_verified"],
    [shape |-> "null",   status |-> "0", says |-> "not_verified"],   \* in the message
    [shape |-> "string", status |-> "0", says |-> "rate_limit"],
    [shape |-> "string", status |-> "0", says |-> "invalid_key"],
    [shape |-> "string", status |-> "0", says |-> "no_data"],
    [shape |-> "null",   status |-> "0", says |-> "error"],
    [shape |-> "string", status |-> "2", says |-> "error"],
    [shape |-> "list",   status |-> "1", says |-> "nothing"],
    [shape |-> "text",   status |-> "none", says |-> "page_not_found"],
    [shape |-> "text",   status |-> "none", says |-> "cloudflare"],
    [shape |-> "text",   status |-> "none", says |-> "error"]}

\* The answers an explorer gives to a request for an ABI or for sources.
Truthful(a, isVerified) ==
    /\ a.says = "data" => isVerified
    /\ a.says \in {"not_verified", "only_address"} => ~isVerified

Err(kind) == [ok |-> FALSE, error |-> kind]

\* Response<T> with T = Option<String>, String, ContractMetadata or another list.
Fits(type, a) ==
    \/ type = "option" /\ a.shape \in {"string", "null"}
    \/ type = "string" /\ a.shape = "string"
    \/ type = "data" /\ a.shape = "data"
    \/ type = "list" /\ a.shape \in {"list", "data"}

\* sanitize_response: the untagged Success variant is tried before Error.
SanitizeResponse(type, a) ==
    IF a.shape = "text" THEN Err(a.says)
    ELSE IF Fits(type, a) THEN [ok |-> TRUE, answer |-> a]
    ELSE IF a.shape \notin {"string", "null"} THEN Err("serde")
    ELSE IF a.shape = "string" /\ a.says \in {"rate_limit", "invalid_key"} THEN Err(a.says)
    ELSE Err("error_response")

-----------------------------------------------------------------------------
(* The calls.  A result says what is returned and what is put into the     *)
(* cache: "data", "none" (not verified) or nothing.                        *)

Failed(kind, store) == [ok |-> FALSE, error |-> kind, store |-> store]
NotVerified(store) == Failed("not_verified", store)

\* contract_abi, from the answer on.
ContractAbi(a) ==
    LET r == SanitizeResponse("option", a) IN
    IF ~r.ok THEN Failed(r.error, "nothing")
    ELSE IF a.shape = "null"
    THEN IF a.says = "not_verified" THEN NotVerified("nothing") ELSE Failed("empty_result", "nothing")
    ELSE IF a.says \in {"invalid_key", "rate_limit"} THEN Failed(a.says, "nothing")
    ELSE IF a.says = "not_verified" THEN NotVerified("none")
    ELSE IF a.says = "data" THEN [ok |-> TRUE, store |-> "data"]
    ELSE Failed("serde", "nothing")

\* contract_source_code: the text is searched before the answer is parsed.
ContractSourceCode(a) ==
    IF a.says \in {"not_verified", "only_address"} THEN NotVerified("none")
    ELSE LET r == SanitizeResponse("data", a) IN
         IF r.ok THEN [ok |-> TRUE, store |-> "data"] ELSE Failed(r.error, "nothing")

\* contract_creation_data
ContractCreationData(a) ==
    IF a.says = "no_data" THEN Err("not_found")
    ELSE LET r == SanitizeResponse("list", a) IN
         IF r.ok /\ a.says = "nothing" THEN Err("empty_result") ELSE r

\* Mutant: every status but 0 is success.
ByStatus_OnlyZero(type, a) ==
    LET r == SanitizeResponse(type, a) IN IF r.ok /\ a.status = "0" THEN Err("failed") ELSE r

\* The calls that look at the status.
ByStatus(type, a) ==
    LET r == SanitizeResponse(type, a) IN
    IF ~r.ok THEN r
    ELSE IF a.status = "0" THEN Err("failed")
    ELSE IF a.status = "1" THEN r
    ELSE Err("bad_status")
GetEtherBalanceSingle(a) == ByStatus("string", a)
GetEtherBalanceMulti(a) == ByStatus("list", a)
GetBlockByTimestamp(a) == ByStatus("string", a)
GasEstimate(a) ==
    LET r == SanitizeResponse("string", a) IN IF r.ok /\ a.status # "1" THEN Err("failed") ELSE r

\* Transactions, token transfers, mined blocks, gas prices: the result as it is.
Listed(a) == SanitizeResponse("list", a)

\* Submitting a contract for verification and asking for its status: the
\* caller is given the answer with its status.
Verification(a) == SanitizeResponse("string", a)

FromAnswer(a) == IF expKind = "abi" THEN ContractAbi(a) ELSE ContractSourceCode(a)

-----------------------------------------------------------------------------
(* Making a client.  A chain is named or only a number; a named one may be *)
(* local, may need no key, and may have no explorer.                       *)

ClientChains == {[kind |-> k, explorer |-> e] : k \in {"named", "keyless", "local", "id"}, e \in BOOLEAN}

\* get_api_key_from_chain
ApiKeyFromChain(chain, env) ==
    CASE chain.kind = "keyless" -> [ok |-> TRUE, key |-> "empty"]
      [] chain.kind = "local" -> Err("local_network")
      [] chain.kind = "id" -> Err("chain_not_supported")
      [] chain.kind = "named" -> IF env = "unset" THEN Err("no_variable") ELSE [ok |-> TRUE, key |-> env]

\* ClientBuilder::chain, with_api_key, build; an empty key is none.
Build(chain, key) ==
    IF chain.kind = "id" \/ ~chain.explorer THEN Err("chain_not_supported")
    ELSE [ok |-> TRUE, key |-> IF key = "empty" THEN "none" ELSE key]

NewFromEnv(chain, env) ==
    LET key == ApiKeyFromChain(chain, env) IN IF key.ok THEN Build(chain, key.key) ELSE key

\* new_from_opt_env
NewFromOptEnv(chain, env) ==
    LET made == NewFromEnv(chain, env)
    IN IF ~made.ok /\ made.error = "no_variable" THEN Build(chain, "empty") ELSE made

-----------------------------------------------------------------------------
(* The cache                                                               *)

Size(item) == IF item = "none" THEN 1 ELSE 2
Block(c, part) == [of |-> Size(expCall[c].item), item |-> expCall[c].item, part |-> part,
                   expiry |-> expCall[c].expiry, asked |-> expCall[c].asked]

\* A block written at its offset, whatever the file holds by now.
WrittenAt(file, i, block) ==
    [j \in 1..(IF Len(file) > i THEN Len(file) ELSE i) |->
        IF j = i THEN block ELSE IF j <= Len(file) THEN file[j] ELSE Hole]

\* serde_json::from_str: the text reads as one envelope.  The blocks of two writes of
\* the same item have the same size and fit together.
Parses(file) ==
    /\ file # NoFile
    /\ \A i \in DOMAIN file : file[i].part = i /\ file[i].of = Len(file) /\ file[i].item = file[1].item

\* Mutant: an envelope that only begins well is taken.
CacheHit_Prefix(file) == file # NoFile /\ file[1].part = 1 /\ expClock < file[1].expiry
\* Cache::get
CacheHit(file) == Parses(file) /\ expClock < file[1].expiry

ExplorerInit ==
    /\ expClock = 0
    /\ verified = [is |-> FALSE, since |-> 0]
    /\ expKind \in {"abi", "sources"}
    /\ cacheFile = NoFile /\ alone = TRUE
    /\ expCall = [c \in Clients |-> NotCalling]
    /\ plainCall = NotCalling

ExpTick ==
    /\ expClock < MaxTime /\ expClock' = expClock + 1
    /\ UNCHANGED <<verified, expKind, cacheFile, alone, expCall, plainCall>>

\* Someone verifies the contract.
GetsVerified ==
    /\ ~verified.is /\ verified' = [is |-> TRUE, since |-> expClock]
    /\ UNCHANGED <<expClock, expKind, cacheFile, alone, expCall, plainCall>>

\* A call looks into the cache first; a hit is its result.
LookUp(c) ==
    /\ expCall[c] = NotCalling /\ ~CacheHit(cacheFile)
    /\ expCall' = [expCall EXCEPT ![c] = [at |-> "ask"]]
    /\ UNCHANGED <<expClock, verified, expKind, cacheFile, alone, plainCall>>

\* The answer arrives, or the request fails.
Answered(c, a) ==
    /\ expCall[c].at = "ask" /\ Truthful(a, verified.is)
    /\ LET r == FromAnswer(a) IN
       expCall' = [expCall EXCEPT ![c] =
           IF r.store = "nothing" THEN NotCalling
           ELSE [at |-> "create", item |-> r.store, asked |-> expClock, expiry |-> 0]]
    /\ UNCHANGED <<expClock, verified, expKind, cacheFile, alone, plainCall>>

\* Mutant: a file that exists is opened as it is.
Created_Kept(file) == file
\* File::create truncates.
Created(file) == NoFile

Writing(c) == expCall[c].at \in {"write", "write_more"}

\* Cache::set: the file is created or truncated, and the expiry computed; a
\* folder or file that cannot be created is let go.
CreateFile(c) ==
    /\ expCall[c].at = "create"
    /\ \/ /\ cacheFile' = Created(cacheFile) /\ alone' = (\A d \in Clients \ {c} : ~Writing(d))
          /\ expCall' = [expCall EXCEPT ![c].at = "write", ![c].expiry = expClock + Ttl]
       \/ expCall' = [expCall EXCEPT ![c] = NotCalling] /\ UNCHANGED <<cacheFile, alone>>
    /\ UNCHANGED <<expClock, verified, expKind, plainCall>>

\* The buffered writer hands over one block after the other.
WriteBlock(c) ==
    /\ Writing(c)
    /\ LET i == IF expCall[c].at = "write" THEN 1 ELSE 2 IN
       /\ cacheFile' = WrittenAt(cacheFile, i, Block(c, i))
       /\ expCall' = [expCall EXCEPT ![c] = IF i = Size(@.item) THEN NotCalling ELSE [@ EXCEPT !.at = "write_more"]]
    /\ UNCHANGED <<expClock, verified, expKind, alone, plainCall>>

\* A process ends in the middle of its call.
ClientDies(c) ==
    /\ expCall[c] # NotCalling /\ expCall' = [expCall EXCEPT ![c] = NotCalling]
    /\ UNCHANGED <<expClock, verified, expKind, cacheFile, alone, plainCall>>

ExplorerNext ==
    \/ ExpTick \/ GetsVerified
    \/ \E c \in Clients :
        \/ LookUp(c) \/ (\E a \in Answers : Answered(c, a))
        \/ CreateFile(c) \/ WriteBlock(c) \/ ClientDies(c)

\* A call without the cache.
PlainCall(call, a) ==
    /\ plainCall = NotCalling
    /\ plainCall' = [at |-> call, answer |-> a,
            result |-> CASE call = "abi" -> ContractAbi(a)
                         [] call = "sources" -> ContractSourceCode(a)
                         [] call = "creation" -> ContractCreationData(a)
                         [] call = "balance" -> GetEtherBalanceSingle(a)
                         [] call = "balances" -> GetEtherBalanceMulti(a)
                         [] call = "block" -> GetBlockByTimestamp(a)
                         [] call = "gas" -> GasEstimate(a)
                         [] call = "list" -> Listed(a)
                         [] call = "verify" -> Verification(a)]
    /\ UNCHANGED <<expClock, verified, expKind, cacheFile, alone, expCall>>

-----------------------------------------------------------------------------
(* The source tree of an answer.  A path is a sequence of components, each *)
(* a name and an extension, which is "none" when there is none.            *)

Named(name, ext) == [name |-> name, ext |-> ext]
RootDir == Named("/", "none")
ParentDir == Named("..", "none")
Root == Named("C", "none")   \* the name of the contract

\* What Path::components gives for the path of a source: a file, below the root or not.
ASSUME TreePathsAssumption ==
    \A p \in TreePaths :
        /\ p \in Seq([name : STRING, ext : STRING]) /\ p # <<>>
        /\ Last(p) \notin {RootDir, ParentDir}
        /\ \A i \in DOMAIN p : p[i] = RootDir => i = 1

\* The first components of a path, without the parent folders among them.
KeptUpTo(path) ==
    LET kept[n \in 0..Len(path)] ==
            IF n = 0 THEN <<>>
            ELSE IF path[n] = ParentDir THEN kept[n - 1]
            ELSE Append(kept[n - 1], path[n])
    IN kept

\* sanitize_path
SanitizePath(path) ==
    LET kept == KeptUpTo(path)[Len(path)]
    IN IF kept # <<>> /\ Head(kept) = RootDir THEN Tail(kept) ELSE kept

\* write_to: the file of one entry.
TreeFile(entries, path) ==
    LET clean == SanitizePath(path)
        withSol == Front(clean) \o <<Named(Last(clean).name, "sol")>>
    IN IF Last(clean).ext = "none" /\ withSol \notin entries THEN withSol ELSE clean

\* source_entries and write_to, of a contract with these source paths.
SourceEntries(root, paths) == {<<root>> \o SanitizePath(p) : p \in paths}
WriteTree(paths) ==
    LET entries == SourceEntries(Root, paths) IN
    /\ plainCall = NotCalling
    /\ plainCall' = [at |-> "tree", entries |-> entries, files |-> [p \in entries |-> TreeFile(entries, p)]]
    /\ UNCHANGED <<expClock, verified, expKind, cacheFile, alone, expCall>>

MakeClient(chain, env) ==
    /\ plainCall = NotCalling
    /\ plainCall' = [at |-> "client", chain |-> chain, env |-> env, result |-> NewFromOptEnv(chain, env)]
    /\ UNCHANGED <<expClock, verified, expKind, cacheFile, alone, expCall>>

PlainCallNext ==
    \/ \E a \in Answers, call \in {"abi", "sources", "creation", "balance", "balances", "block", "gas", "list", "verify"} :
           PlainCall(call, a)
    \/ \E paths \in SUBSET TreePaths : WriteTree(paths)
    \/ \E chain \in ClientChains, env \in {"unset", "empty", "key"} : MakeClient(chain, env)

ExplorerSpec == ExplorerInit /\ [][ExplorerNext \/ PlainCallNext]_expVars

-----------------------------------------------------------------------------
(* Properties                                                              *)

\* What the cache serves, however processes create, truncate, write and read the file
\* in place and die: it is the whole of one write if no other process was writing when
\* the file was created; and if writes overlapped, whose blocks then may fit together,
\* every block is still of an answer of the explorer, true when it was asked for, and
\* written less than a ttl ago.  Nothing is ever served that only an error was
\* (Cache::set, Cache::get).
TrueBlock(b) ==
    /\ b.item = "data" => verified.is /\ verified.since <= b.asked
    /\ b.item = "none" /\ verified.is => b.asked <= verified.since
    /\ b.asked <= expClock /\ b.expiry <= expClock + Ttl
CacheServesAnswers ==
    CacheHit(cacheFile) =>
        /\ alone => \A i \in DOMAIN cacheFile : cacheFile[i] = [cacheFile[1] EXCEPT !.part = i]
        /\ Len(cacheFile) = Size(cacheFile[1].item) /\ expClock < cacheFile[1].expiry
        /\ \A i \in DOMAIN cacheFile : cacheFile[i].item \in {"data", "none"} /\ TrueBlock(cacheFile[i])

\* No call takes an answer that is an error for its result, whatever the type the
\* answer happens to fit: only the verification calls hand an error on, with its
\* status.  A limited rate and a bad key are told apart from other errors by the calls
\* that are given contract data or lists.
ErrorsAreErrors ==
    plainCall.at \notin {"idle", "tree", "client"} =>
        LET a == plainCall.answer  r == plainCall.result IN
        a.says \in {"rate_limit", "invalid_key", "no_data", "error", "page_not_found", "cloudflare"} =>
            /\ r.ok => plainCall.at = "verify" /\ a.status # "1"
            /\ plainCall.at \in {"abi", "sources"} => r.store = "nothing"
            /\ a.says \in {"rate_limit", "invalid_key"} /\ plainCall.at \in {"abi", "sources", "creation", "list", "balances"} =>
                  r.error = a.says

\* Every source of an answer is written below the folder that was asked for, and two
\* sources with different clean paths never to the same file, with or without
\* extension.
TreeWritten ==
    plainCall.at = "tree" =>
        \A p \in plainCall.entries :
            /\ {RootDir, ParentDir} \cap Range(plainCall.files[p]) = {}
            /\ Head(plainCall.files[p]) = Root
            /\ \A q \in plainCall.entries : plainCall.files[p] = plainCall.files[q] => p = q

\* A client is made for exactly the chains that have an explorer and are not local;
\* without a key the requests carry none, never an empty one.
ClientsMade ==
    plainCall.at = "client" =>
        LET r == plainCall.result IN
        /\ r.ok <=> plainCall.chain.explorer /\ plainCall.chain.kind \in {"named", "keyless"}
        /\ r.ok => r.key \in {"none", "key"} /\ (r.key = "none") = (plainCall.env # "key" \/ plainCall.chain.kind = "keyless")

\* What the client tells its caller is what the explorer answered: for a chain that
\* has an explorer, with errors kept apart from results and sources written where
\* they belong.
ExplorerSound == ClientsMade /\ ErrorsAreErrors /\ TreeWritten
=============================================================================
