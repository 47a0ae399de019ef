------------------------------- MODULE Wallets -------------------------------
(***************************************************************************)
(* Where signers come from: the options of one wallet and of several, key  *)
(* stores that are unlocked later, the keys file of Tempo, and the table   *)
(* of payment channels.                                                    *)
(*                                                                         *)
(* A signer is a record that says which secret it signs with.  Options are *)
(* records; Absent stands for an option that is not given.                 *)
(***************************************************************************)
EXTENDS Naturals, Sequences, FiniteSets, SequencesExt

CONSTANTS
    Absent,
    SingleOpts,     \* options of one wallet to try
    MultiOpts,      \* options of several wallets to try
    Sessions,       \* programs that use one channel database
    ChannelIds,
    MaxAmount       \* bound: what may be paid through one channel

VARIABLES
    chosen,      \* the last choice of one signer
    multi,       \* a MultiWallet
    channels,    \* [ChannelIds -> row or Absent]
    copies,      \* [Sessions -> [ChannelIds -> the row a program holds]]
    held,        \* ghost: what became of a program's copy since it was read or written
    ledger       \* ghost: what was done with a channel while programs took turns

channelVars == <<channels, copies, held, ledger>>
walletVars == <<chosen, multi, channelVars>>

Fail(error) == [ok |-> FALSE, error |-> error]
Local(key) == [kind |-> "local", address |-> <<key>>]
Ok(signer) == [ok |-> TRUE, signer |-> signer, access |-> Absent]

-----------------------------------------------------------------------------
(* Secrets.  A private key names the address it is the key of; the key     *)
(* "bad" cannot be decoded and "variable" is the name of an environment    *)
(* variable.                                                               *)

\* create_private_key_signer
PrivateKeySigner(key) ==
    CASE key = "bad" -> Fail("decode")
      [] key = "variable" -> Fail("exists_as_variable")
      [] OTHER -> Ok(Local(key))

\* create_mnemonic_signer, from_mnemonic: a path takes precedence over the index.
MnemonicSigner(phrase, passphrase, path, index) ==
    IF phrase = "bad" THEN Fail("mnemonic")
    ELSE Ok([kind |-> "local", address |-> <<phrase, passphrase, IF path # Absent THEN path ELSE index>>])

\* create_ledger_signer, create_trezor_signer
HardwareSigner(device, path, index) ==
    Ok([kind |-> device, address |-> <<device, IF path # Absent THEN path ELSE index>>])

\* PrivateKeySigner::decrypt_keystore
Decrypt(store, password) ==
    IF password = store.password THEN Ok(Local(store.key)) ELSE Fail("wrong_password")

\* create_keystore_signer
CreateKeystoreSigner(store, password, file) ==
    IF store.kind # "file" THEN Fail("no_keystore_file")
    ELSE IF password # Absent THEN Decrypt(store, password)
    ELSE IF file = "missing" THEN Fail("no_password_file")
    ELSE IF file # Absent THEN Decrypt(store, file)
    ELSE [ok |-> TRUE, pending |-> store]

\* PendingSigner::unlock, with what the user types.
Unlock(pending, typed) ==
    IF pending.kind = "interactive" THEN PrivateKeySigner(typed) ELSE Decrypt(pending, typed)

IsSequence(s) == s \in Seq(Range(s))
\* An option that is not given is neither a signer nor the account of an access key;
\* devices are not kept in memory; what may be given several times is a sequence, and
\* of paths to keys a sequence of paths.
ASSUME OptionsAssumption ==
    /\ \A o \in SingleOpts :
          /\ Absent \notin {Local(o.typed), Local(o.privateKey),
                            [kind |-> "local", address |-> <<o.mnemonic, Absent, "0">>],
                            [wallet |-> o.rootAccount, key |-> o.accessKey, authorization |-> Absent]}
          /\ IsSequence(o.keysFile)
    /\ \A o \in MultiOpts :
          /\ o.device # "local" /\ Absent \notin Range(o.hdPaths)
          /\ IsSequence(o.hdPaths) /\ IsSequence(o.indexes) /\ IsSequence(o.keystores)
          /\ IsSequence(o.privateKeys) /\ IsSequence(o.mnemonics) /\ IsSequence(o.interactives)

-----------------------------------------------------------------------------
(* One wallet                                                              *)

\* lookup_signer: the first entry of the keys file for the address that has a key.
LookupSigner(entries, from) ==
    LET first == SelectInSeq(entries, LAMBDA e : e.wallet = from /\ e.key # Absent)
    IN IF first = 0 THEN [ok |-> TRUE, signer |-> Absent, access |-> Absent]
       ELSE LET e == entries[first]  made == PrivateKeySigner(e.key)
            IN IF ~made.ok \/ e.keyAddress \in {Absent, e.wallet} THEN made
               ELSE IF e.authorization = "bad" THEN Fail("authorization")
               ELSE [made EXCEPT !.access = [wallet |-> e.wallet, key |-> e.keyAddress,
                                             authorization |-> e.authorization]]

\* Mutant: a private key goes before the prompt.
RawSigner_KeyFirst(o) ==
    IF o.privateKey # Absent THEN PrivateKeySigner(o.privateKey)
    ELSE IF o.interactive THEN PrivateKeySigner(o.typed)
    ELSE IF o.mnemonic # Absent THEN MnemonicSigner(o.mnemonic, Absent, Absent, "0")
    ELSE [ok |-> TRUE, signer |-> Absent, access |-> Absent]
\* RawWalletOpts::signer
RawSigner(o) ==
    IF o.interactive THEN PrivateKeySigner(o.typed)
    ELSE IF o.privateKey # Absent THEN PrivateKeySigner(o.privateKey)
    ELSE IF o.mnemonic # Absent THEN MnemonicSigner(o.mnemonic, Absent, Absent, "0")
    ELSE [ok |-> TRUE, signer |-> Absent, access |-> Absent]

\* A remote signer needs its environment variables.
RemoteSigner(o, service) ==
    IF service \in o.env THEN Ok([kind |-> service, address |-> <<service>>]) ELSE Fail("no_variable")

FromKeystore(o) ==
    LET made == CreateKeystoreSigner(o.keystore, o.password, Absent)
    IN IF made.ok /\ "pending" \in DOMAIN made THEN Unlock(made.pending, o.typed) ELSE made

\* WalletOpts::maybe_signer
MaybeSigner(o) ==
    IF o.accessKey # Absent
    THEN IF o.rootAccount = Absent THEN Fail("root_account_required")
         ELSE LET made == PrivateKeySigner(o.accessKey)
              IN IF made.ok THEN [made EXCEPT !.access = [wallet |-> o.rootAccount, key |-> o.accessKey,
                                                          authorization |-> Absent]]
                 ELSE made
    ELSE IF o.hardware # Absent THEN HardwareSigner(o.hardware, Absent, "0")
    ELSE IF o.remote # Absent THEN RemoteSigner(o, o.remote)
    ELSE LET raw == RawSigner(o)
         IN IF ~raw.ok \/ raw.signer # Absent THEN raw
            ELSE IF o.keystore # Absent THEN FromKeystore(o)
            ELSE IF o.from # Absent THEN LookupSigner(o.keysFile, o.from)
            ELSE raw

ChooseSigner(o) ==
    /\ chosen' = [opts |-> o, result |-> MaybeSigner(o)]
    /\ UNCHANGED <<multi, channelVars>>

-----------------------------------------------------------------------------
(* Several wallets                                                         *)

AtOr(seq, i, default) == IF i <= Len(seq) THEN seq[i] ELSE default

\* keystores: passwords and password files belong to the key stores by position.
KeystoreResults(o) ==
    [i \in DOMAIN o.keystores |->
        CreateKeystoreSigner(o.keystores[i], AtOr(o.passwords, i, Absent), AtOr(o.passwordFiles, i, Absent))]
MnemonicResults(o) ==
    [i \in DOMAIN o.mnemonics |->
        MnemonicSigner(o.mnemonics[i], AtOr(o.passphrases, i, Absent), AtOr(o.hdPaths, i, Absent), AtOr(o.indexes, i, "0"))]
KeyResults(o) == [i \in DOMAIN o.privateKeys |-> PrivateKeySigner(o.privateKeys[i])]

\* ledgers, trezors: paths replace the indexes; at least one signer.
DeviceResults(o) ==
    IF o.device = Absent THEN <<>>
    ELSE IF o.device = "ledger" /\ Len(o.hdPaths) > 1 THEN <<Fail("one_signer")>>
    ELSE IF o.hdPaths # <<>> THEN [i \in DOMAIN o.hdPaths |-> HardwareSigner(o.device, o.hdPaths[i], "0")]
    ELSE IF o.indexes # <<>> THEN [i \in DOMAIN o.indexes |-> HardwareSigner(o.device, Absent, o.indexes[i])]
    ELSE <<HardwareSigner(o.device, Absent, "0")>>

\* The prompts of interactive, interactives.
InteractiveResults(o) ==
    [i \in DOMAIN o.interactives |-> [ok |-> TRUE, pending |-> [kind |-> "interactive", key |-> o.interactives[i]]]]

MultiResults(o) ==
    DeviceResults(o) \o KeystoreResults(o) \o KeyResults(o) \o MnemonicResults(o) \o InteractiveResults(o)

NoneFailed == 0   \* no place of a pending signer

\* get_multi_wallet: the first failure is the result.  A pending signer is told by its
\* place among the results, which is the order they are unlocked in.
GetMultiWallet(o) ==
    LET results == MultiResults(o)
        isPending == {i \in DOMAIN results : "pending" \in DOMAIN results[i]}
    IN /\ multi' =
            IF \E i \in DOMAIN results : ~results[i].ok THEN [multi EXCEPT !.st = "failed"]
            ELSE [st |-> "ready", opts |-> o, last |-> "none", failed |-> NoneFailed,
                  pending |-> [i \in isPending |-> results[i].pending],
                  signers |-> {results[i].signer : i \in DOMAIN results \ isPending}]
       /\ UNCHANGED <<chosen, channelVars>>

\* What the user types for a pending signer: what it needs, or something else.
Typed(pending) == IF pending.kind = "interactive" THEN {pending.key, "bad"} ELSE {pending.password, "wrong"}

\* The pending signers that are drained before the one at n, or all.
Drained(n) == {i \in DOMAIN multi.pending : n = NoneFailed \/ i < n}

\* Mutant: an unlocked signer replaces the ones before it.
UnlockedBefore_Last(n) ==
    {Local(multi.pending[i].key) : i \in {j \in Drained(n) : \A k \in Drained(n) : k <= j}}
\* The signers that are unlocked before the one at n.
UnlockedBefore(n) == {Local(multi.pending[i].key) : i \in Drained(n)}

\* signers: the pending ones are drained one by one; when one cannot be
\* unlocked the error is returned, and the drain drops those that were left.
Signers ==
    /\ multi.st = "ready"
    /\ \E failed \in DOMAIN multi.pending \cup {NoneFailed} :
        /\ \A i \in Drained(failed) : \E t \in Typed(multi.pending[i]) : Unlock(multi.pending[i], t).ok
        /\ failed # NoneFailed =>
              \E t \in Typed(multi.pending[failed]) : ~Unlock(multi.pending[failed], t).ok
        /\ multi' = [multi EXCEPT !.pending = <<>>, !.signers = @ \cup UnlockedBefore(failed),
                                  !.last = IF failed = NoneFailed THEN "ok" ELSE "error",
                                  !.failed = IF failed = NoneFailed THEN @ ELSE failed]
    /\ UNCHANGED <<chosen, channelVars>>

\* add_signer
Added == [kind |-> "added", address |-> <<"added">>]
AddSigner ==
    /\ multi.st = "ready" /\ multi' = [multi EXCEPT !.signers = @ \cup {Added}]
    /\ UNCHANGED <<chosen, channelVars>>

-----------------------------------------------------------------------------
(* Payment channels.  A row has the columns that make the channel what it  *)
(* is (id), the time it was created, and what changes with its use.        *)

Row(id, created, amount, state) == [id |-> id, created |-> created, amount |-> amount, state |-> state]

\* No row is taken for an absent one.
ASSUME RowsAssumption ==
    /\ MaxAmount \in Nat
    /\ Absent \notin [id : ChannelIds, created : Sessions, amount : 0..MaxAmount, state : {"active", "closing"}]

\* The ghosts.  A copy is current until another program writes the row; then it is
\* overtaken.  It is unsaved once it was used and until it is written.  The ledger has
\* what was done with a channel as long as programs take turns: they read the row
\* before they use it and write it before the next one does.
Holds == {"none", "current", "unsaved", "overtaken"}
NewLedger == [turns |-> TRUE, paid |-> 0, state |-> "active"]
NoTurns == [turns |-> FALSE, paid |-> 0, state |-> "active"]
Turn(c, kept, new) == [ledger EXCEPT ![c] = IF @.turns /\ kept THEN new ELSE NoTurns]
OthersIn(s, c, S) == \A r \in Sessions \ {s} : held[r][c] \in S
\* The copies of other programs are behind what s wrote.
Overtaken(s, c, own) ==
    [r \in Sessions |-> [held[r] EXCEPT ![c] =
        IF r = s THEN own ELSE IF @ = "none" THEN @ ELSE "overtaken"]]

\* find
Find(s, c) ==
    /\ channels[c] # Absent /\ copies' = [copies EXCEPT ![s][c] = channels[c]]
    /\ held' = [held EXCEPT ![s][c] = "current"]
    /\ ledger' = Turn(c, held[s][c] # "unsaved", ledger[c])
    /\ UNCHANGED <<chosen, multi, channels>>

\* Use of a channel by the program that holds a copy: a payment or a request to close.
UseCopy(s, c) ==
    LET kept == held[s][c] # "overtaken" /\ OthersIn(s, c, Holds \ {"unsaved"}) IN
    /\ copies[s][c] # Absent
    /\ \/ /\ copies[s][c].amount < MaxAmount /\ copies' = [copies EXCEPT ![s][c].amount = @ + 1]
          /\ ledger' = Turn(c, kept, [ledger[c] EXCEPT !.paid = @ + 1])
       \/ /\ copies' = [copies EXCEPT ![s][c].state = "closing"]
          /\ ledger' = Turn(c, kept, [ledger[c] EXCEPT !.state = "closing"])
    /\ held' = [held EXCEPT ![s][c] = IF @ = "overtaken" THEN @ ELSE "unsaved"]
    /\ UNCHANGED <<chosen, multi, channels>>

\* A program opens the channel on chain.
OpenChannel(s, c) ==
    /\ copies[s][c] = Absent
    /\ copies' = [copies EXCEPT ![s][c] = Row(c, s, 0, "active")]
    /\ held' = [held EXCEPT ![s][c] = "unsaved"]
    /\ ledger' = Turn(c, channels[c] = Absent /\ OthersIn(s, c, {"none"}), NewLedger)
    /\ UNCHANGED <<chosen, multi, channels>>

\* Mutant: the amount is not among the columns that are set on conflict.
Upserted_NoAmount(old, row) ==
    IF old = Absent THEN row ELSE [row EXCEPT !.id = old.id, !.created = old.created, !.amount = old.amount]
\* On conflict the identity and the time of creation stay.
Upserted(old, row) == IF old = Absent THEN row ELSE [row EXCEPT !.id = old.id, !.created = old.created]

Upsert(s, c) ==
    /\ copies[s][c] # Absent /\ channels' = [channels EXCEPT ![c] = Upserted(@, copies[s][c])]
    /\ held' = Overtaken(s, c, "current")
    /\ ledger' = Turn(c, held[s][c] # "overtaken" /\ OthersIn(s, c, Holds \ {"unsaved"}), ledger[c])
    /\ UNCHANGED <<chosen, multi, copies>>

\* delete; the program forgets its copy.
Delete(s, c) ==
    /\ channels[c] # Absent
    /\ channels' = [channels EXCEPT ![c] = Absent] /\ copies' = [copies EXCEPT ![s][c] = Absent]
    /\ held' = Overtaken(s, c, "none")
    /\ ledger' = [ledger EXCEPT ![c] = IF OthersIn(s, c, {"none"}) THEN NewLedger ELSE NoTurns]
    /\ UNCHANGED <<chosen, multi>>

WalletsInit ==
    /\ chosen = Absent
    /\ multi = [st |-> "none"]
    /\ channels = [c \in ChannelIds |-> Absent]
    /\ copies = [s \in Sessions |-> [c \in ChannelIds |-> Absent]]
    /\ held = [s \in Sessions |-> [c \in ChannelIds |-> "none"]]
    /\ ledger = [c \in ChannelIds |-> NewLedger]

ChooseNext == chosen = Absent /\ \E o \in SingleOpts : ChooseSigner(o)
MultiNext ==
    \/ multi.st = "none" /\ \E o \in MultiOpts : GetMultiWallet(o)
    \/ Signers \/ AddSigner
ChannelsNext ==
    \E s \in Sessions, c \in ChannelIds :
        Find(s, c) \/ UseCopy(s, c) \/ OpenChannel(s, c) \/ Upsert(s, c) \/ Delete(s, c)

WalletsSpec == WalletsInit /\ [][ChooseNext \/ MultiNext \/ ChannelsNext]_walletVars

-----------------------------------------------------------------------------
(* Properties                                                              *)

\* The options that name one signer, the one that goes first before the others.
Options == <<"hardware", "remote", "interactive", "privateKey", "mnemonic", "keystore">>
GivenOption(o, k) ==
    CASE k = "hardware" -> o.hardware # Absent
      [] k = "remote" -> o.remote # Absent
      [] k = "interactive" -> o.interactive
      [] k = "privateKey" -> o.privateKey # Absent
      [] k = "mnemonic" -> o.mnemonic # Absent
      [] k = "keystore" -> o.keystore # Absent
SignerOf(o, k) ==
    CASE k = "hardware" -> [kind |-> o.hardware, address |-> <<o.hardware, "0">>]
      [] k = "remote" -> [kind |-> o.remote, address |-> <<o.remote>>]
      [] k = "interactive" -> Local(o.typed)
      [] k = "privateKey" -> Local(o.privateKey)
      [] k = "mnemonic" -> [kind |-> "local", address |-> <<o.mnemonic, Absent, "0">>]
      [] k = "keystore" -> Local(o.keystore.key)

\* What an entry of the keys file for the sender gives, or nothing when there is none.
FromEntry(r, e, from) ==
    /\ e.wallet = from /\ e.key # Absent /\ r.signer = Local(e.key)
    /\ r.access = IF e.keyAddress \in {Absent, from} THEN Absent
                  ELSE [wallet |-> from, key |-> e.keyAddress, authorization |-> e.authorization]
FromKeysFile(r, entries, from) ==
    \/ /\ r.signer = Absent /\ r.access = Absent
       /\ from # Absent => \A e \in Range(entries) : e.wallet = from => e.key = Absent
    \/ from # Absent /\ \E e \in Range(entries) : FromEntry(r, e, from)

AsAsked(o, r) ==
    LET given == {i \in DOMAIN Options : GivenOption(o, Options[i])}
    IN IF o.accessKey # Absent
       THEN /\ r.signer = Local(o.accessKey)
            /\ r.access = [wallet |-> o.rootAccount, key |-> o.accessKey, authorization |-> Absent]
       ELSE IF given # {}
       THEN /\ r.access = Absent
            /\ \A i \in given : (\A j \in given : i <= j) => r.signer = SignerOf(o, Options[i])
       ELSE FromKeysFile(r, o.keysFile, o.from)

\* One signer is chosen by precedence (maybe_signer): an access key, with the account it
\* signs for; else the signer of the first option that is given, without an account, and
\* no later option when that one fails; else what the keys file has for the sender, with
\* an account if the key is another's.  Only without all of these is there none.
SignerAsAsked == chosen # Absent /\ chosen.result.ok => AsAsked(chosen.opts, chosen.result)

\* All signers the options of several wallets name.
LocalKeys(o) == {o.interactives[i] : i \in DOMAIN o.interactives} \cup {o.keystores[i].key : i \in DOMAIN o.keystores}
PhraseAt(o, i) ==
    [kind |-> "local",
     address |-> <<o.mnemonics[i], AtOr(o.passphrases, i, Absent),
                   IF AtOr(o.hdPaths, i, Absent) # Absent THEN o.hdPaths[i] ELSE AtOr(o.indexes, i, "0")>>]
DeviceSigners(o) ==
    LET at == IF o.hdPaths # <<>> THEN Range(o.hdPaths) ELSE IF o.indexes # <<>> THEN Range(o.indexes) ELSE {"0"}
    IN IF o.device = Absent THEN {} ELSE {[kind |-> o.device, address |-> <<o.device, x>>] : x \in at}
AskedFor(o) ==
    {Local(k) : k \in LocalKeys(o) \cup Range(o.privateKeys)}
    \cup {PhraseAt(o, i) : i \in DOMAIN o.mnemonics} \cup DeviceSigners(o)

\* A key may be given more than once, as a private key too.
Given(o, key) ==
    \/ key \in Range(o.privateKeys)
    \/ \E i \in DOMAIN o.keystores :
          /\ o.keystores[i].key = key
          /\ o.keystores[i].password \in {AtOr(o.passwords, i, Absent), AtOr(o.passwordFiles, i, Absent)}
\* Signer s is unlocked by what is typed, at place n or later.
WaitsFrom(o, s, n) ==
    \E i \in DOMAIN MultiResults(o) :
        i >= n /\ "pending" \in DOMAIN MultiResults(o)[i] /\ s = Local(MultiResults(o)[i].pending.key)

\* The signers a program is given are those its options name, and the one it added; a
\* key store is unlocked with its own password; and what is missing is still to be
\* unlocked or, if a signer could not be unlocked, was to be unlocked after it.  Those
\* are gone: the next call succeeds without them (maybe_unlock_pending drains).
SignersComplete ==
    multi.st = "ready" =>
        LET o == multi.opts IN
        /\ multi.signers \subseteq AskedFor(o) \cup {Added}
        /\ multi.last = "none" =>
              \A k \in LocalKeys(o) : Local(k) \in multi.signers => Given(o, k)
        /\ \A s \in AskedFor(o) \ multi.signers :
              \/ multi.last = "none" /\ WaitsFrom(o, s, 1)
              \/ multi.failed # NoneFailed /\ WaitsFrom(o, s, multi.failed)

\* While programs take turns with a channel, what its row says after they have written
\* it is what they did with it: no payment and no request to close is lost.  Where one
\* writes a copy that another's write has overtaken, the later write wins, and a deleted
\* row may come back (upsert replaces whatever is there).
PaymentsKept ==
    \A c \in ChannelIds :
        channels[c] # Absent /\ ledger[c].turns /\ (\A s \in Sessions : held[s][c] # "unsaved") =>
            channels[c].amount = ledger[c].paid /\ channels[c].state = ledger[c].state

\* The signers of a program are the ones its options ask for: one by precedence
\* (maybe_signer), or all of several and no others (get_multi_wallet, signers), but
\* those that were to be unlocked after one that failed.
WalletsSound == SignerAsAsked /\ SignersComplete
=============================================================================
