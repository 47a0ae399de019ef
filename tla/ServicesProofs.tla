--------------------------- MODULE ServicesProofs ---------------------------
(***************************************************************************)
(* Proofs about Wallets, for any options and for any number of programs    *)
(* that share a channel database, and about Explorer, for any number of    *)
(* processes that share a cache file.                                      *)
(***************************************************************************)
EXTENDS Wallets, Explorer, SequenceTheorems, NaturalsInduction, WellFoundedInduction, TLAPS

-----------------------------------------------------------------------------
(* Wallets: the channel database                                           *)

Rows == [id : ChannelIds, created : Sessions, amount : 0..MaxAmount, state : {"active", "closing"}]

\* Rows of the database and copies of programs, which may be older than the row.
ChannelsTyped ==
    /\ channels \in [ChannelIds -> Rows \cup {Absent}]
    /\ copies \in [Sessions -> [ChannelIds -> Rows \cup {Absent}]]
    /\ held \in [Sessions -> [ChannelIds -> Holds]]
    /\ ledger \in [ChannelIds -> [turns : BOOLEAN, paid : Nat, state : {"active", "closing"}]]

\* A copy, or the row, says what was done with the channel.
Says(row, l) == row.amount = l.paid /\ row.state = l.state
Quiet(c) == \A s \in Sessions : held[s][c] # "unsaved"

\* While programs take turns, one of them at most has something to write, and its copy
\* is what was done; a copy that is current is the row; the row is what was done when
\* nothing is left to write.
TurnsHold(c) ==
    /\ \A s \in Sessions : copies[s][c] # Absent => held[s][c] # "none"
    /\ ledger[c].turns =>
          /\ \A s, t \in Sessions : held[s][c] = "unsaved" /\ held[t][c] = "unsaved" => s = t
          /\ \A s \in Sessions : held[s][c] = "unsaved" => Says(copies[s][c], ledger[c])
          /\ \A s \in Sessions : held[s][c] = "current" =>
                /\ channels[c] # Absent /\ copies[s][c].amount = channels[c].amount
                /\ copies[s][c].state = channels[c].state
          /\ channels[c] # Absent /\ Quiet(c) => Says(channels[c], ledger[c])

PaymentInv == ChannelsTyped /\ \A c \in ChannelIds : TurnsHold(c)

LEMMA UpsertedRow ==
    ASSUME NEW old \in Rows \cup {Absent}, NEW row \in Rows
    PROVE  /\ Upserted(old, row) \in Rows /\ Upserted(old, row) # Absent
           /\ Upserted(old, row).amount = row.amount /\ Upserted(old, row).state = row.state
  <1>1. Upserted(old, row) \in Rows
    BY DEF Upserted, Rows
  <1>2. Upserted(old, row).amount = row.amount /\ Upserted(old, row).state = row.state
    BY DEF Upserted, Rows
  <1> QED BY <1>1, <1>2, RowsAssumption DEF Rows

\* A program's step with one channel: what is left to show is of that channel.
LEMMA OneChannel ==
    ASSUME PaymentInv, NEW c \in ChannelIds, ChannelsTyped', TurnsHold(c)',
           \A d \in ChannelIds \ {c} :
              /\ channels'[d] = channels[d] /\ ledger'[d] = ledger[d]
              /\ \A s \in Sessions : copies'[s][d] = copies[s][d] /\ held'[s][d] = held[s][d]
    PROVE  PaymentInv'
  <1>1. ASSUME NEW d \in ChannelIds \ {c} PROVE TurnsHold(d)'
    <2>1. /\ channels'[d] = channels[d] /\ ledger'[d] = ledger[d]
          /\ \A s \in Sessions : copies'[s][d] = copies[s][d] /\ held'[s][d] = held[s][d]
      OBVIOUS
    <2>2. TurnsHold(d)
      BY DEF PaymentInv
    <2> QED BY <2>1, <2>2 DEF TurnsHold, Quiet, Says
  <1> QED BY <1>1 DEF PaymentInv

LEMMA TurnMeans ==
    ASSUME ChannelsTyped, NEW c \in ChannelIds, NEW kept \in BOOLEAN,
           NEW new \in [turns : BOOLEAN, paid : Nat, state : {"active", "closing"}], ledger' = Turn(c, kept, new)
    PROVE  /\ ledger' \in [ChannelIds -> [turns : BOOLEAN, paid : Nat, state : {"active", "closing"}]]
           /\ \A d \in ChannelIds \ {c} : ledger'[d] = ledger[d]
           /\ ledger'[c].turns => kept /\ ledger[c].turns /\ ledger'[c] = new
  BY DEF ChannelsTyped, Turn, NoTurns

LEMMA RowFound ==
    ASSUME PaymentInv, NEW s \in Sessions, NEW c \in ChannelIds, Find(s, c)
    PROVE  PaymentInv'
  <1>1. /\ channels[c] \in Rows /\ channels[c] # Absent /\ channels' = channels
        /\ copies' = [copies EXCEPT ![s][c] = channels[c]] /\ held' = [held EXCEPT ![s][c] = "current"]
        /\ ledger' = Turn(c, held[s][c] # "unsaved", ledger[c])
    BY DEF Find, PaymentInv, ChannelsTyped
  <1>2. ledger[c] \in [turns : BOOLEAN, paid : Nat, state : {"active", "closing"}]
    BY DEF PaymentInv, ChannelsTyped
  <1>3. /\ ledger' \in [ChannelIds -> [turns : BOOLEAN, paid : Nat, state : {"active", "closing"}]]
        /\ \A d \in ChannelIds \ {c} : ledger'[d] = ledger[d]
        /\ ledger'[c].turns => held[s][c] # "unsaved" /\ ledger[c].turns /\ ledger'[c] = ledger[c]
    BY <1>1, <1>2, TurnMeans DEF PaymentInv
  <1>4. ChannelsTyped'
    BY <1>1, <1>3 DEF PaymentInv, ChannelsTyped, Holds
  <1>5. /\ copies'[s][c] = channels[c] /\ held'[s][c] = "current"
        /\ \A r \in Sessions \ {s} : copies'[r][c] = copies[r][c] /\ held'[r][c] = held[r][c]
        /\ \A d \in ChannelIds \ {c}, r \in Sessions : copies'[r][d] = copies[r][d] /\ held'[r][d] = held[r][d]
    BY <1>1 DEF PaymentInv, ChannelsTyped
  <1>6. TurnsHold(c)
    BY DEF PaymentInv
  <1>7. TurnsHold(c)'
    <2>1. \A r \in Sessions : copies'[r][c] # Absent => held'[r][c] # "none"
      BY <1>5, <1>6 DEF TurnsHold
    <2>2. ASSUME ledger'[c].turns PROVE Quiet(c)' => Quiet(c)
      BY <1>3, <1>5, <2>2 DEF Quiet
    <2> QED BY <1>1, <1>3, <1>5, <1>6, <2>1, <2>2 DEF TurnsHold, Says
  <1> QED BY <1>1, <1>3, <1>4, <1>5, <1>7, OneChannel

LEMMA CopyUsed ==
    ASSUME PaymentInv, NEW s \in Sessions, NEW c \in ChannelIds, UseCopy(s, c)
    PROVE  PaymentInv'
  <1> DEFINE kept == held[s][c] # "overtaken" /\ OthersIn(s, c, Holds \ {"unsaved"})
             Ledgers == [turns : BOOLEAN, paid : Nat, state : {"active", "closing"}]
             old == copies[s][c]
  <1>1. old \in Rows /\ old # Absent /\ channels' = channels /\ ledger[c] \in Ledgers
    BY DEF UseCopy, PaymentInv, ChannelsTyped
  <1>2. held' = [held EXCEPT ![s][c] = IF @ = "overtaken" THEN @ ELSE "unsaved"]
    BY DEF UseCopy
  <1>3. PICK row \in Rows, new \in Ledgers :
            /\ copies' = [copies EXCEPT ![s][c] = row] /\ ledger' = Turn(c, kept, new)
            /\ Says(old, ledger[c]) => Says(row, new)
    <2>1. CASE /\ old.amount < MaxAmount /\ copies' = [copies EXCEPT ![s][c].amount = @ + 1]
               /\ ledger' = Turn(c, kept, [ledger[c] EXCEPT !.paid = @ + 1])
      <3> DEFINE row == [old EXCEPT !.amount = @ + 1]
                 new == [ledger[c] EXCEPT !.paid = @ + 1]
      <3>1. row \in Rows /\ row.amount = old.amount + 1 /\ row.state = old.state
        BY <1>1, <2>1, RowsAssumption DEF Rows
      <3>2. new \in Ledgers /\ new.paid = ledger[c].paid + 1 /\ new.state = ledger[c].state
        BY <1>1
      <3>3. copies' = [copies EXCEPT ![s][c] = row]
        BY <2>1
      <3> HIDE DEF row, new, kept, Ledgers
      <3>4. Says(old, ledger[c]) => Says(row, new)
        BY <3>1, <3>2 DEF Says
      <3>5. ledger' = Turn(c, kept, new)
        BY <2>1 DEF new
      <3> QED BY <3>1, <3>2, <3>3, <3>4, <3>5
    <2>2. CASE /\ copies' = [copies EXCEPT ![s][c].state = "closing"]
               /\ ledger' = Turn(c, kept, [ledger[c] EXCEPT !.state = "closing"])
      <3> DEFINE row == [old EXCEPT !.state = "closing"]
                 new == [ledger[c] EXCEPT !.state = "closing"]
      <3>1. row \in Rows /\ row.amount = old.amount /\ row.state = "closing"
        BY <1>1 DEF Rows
      <3>2. new \in Ledgers /\ new.paid = ledger[c].paid /\ new.state = "closing"
        BY <1>1
      <3>3. copies' = [copies EXCEPT ![s][c] = row]
        BY <2>2
      <3> HIDE DEF row, new, kept, Ledgers
      <3>4. Says(old, ledger[c]) => Says(row, new)
        BY <3>1, <3>2 DEF Says
      <3>5. ledger' = Turn(c, kept, new)
        BY <2>2 DEF new
      <3> QED BY <3>1, <3>2, <3>3, <3>4, <3>5
    <2> QED BY <2>1, <2>2 DEF UseCopy
  <1>4. kept \in BOOLEAN
    OBVIOUS
  <1>5. /\ ledger' \in [ChannelIds -> Ledgers]
        /\ \A d \in ChannelIds \ {c} : ledger'[d] = ledger[d]
        /\ ledger'[c].turns => kept /\ ledger[c].turns /\ ledger'[c] = new
    <2> HIDE DEF kept
    <2> QED BY <1>3, <1>4, TurnMeans DEF PaymentInv
  <1>6. ChannelsTyped'
    BY <1>1, <1>2, <1>3, <1>5 DEF PaymentInv, ChannelsTyped, Holds
  <1>7. /\ copies'[s][c] = row /\ held'[s][c] = IF held[s][c] = "overtaken" THEN "overtaken" ELSE "unsaved"
        /\ \A r \in Sessions \ {s} : copies'[r][c] = copies[r][c] /\ held'[r][c] = held[r][c]
        /\ \A d \in ChannelIds \ {c}, r \in Sessions : copies'[r][d] = copies[r][d] /\ held'[r][d] = held[r][d]
    BY <1>2, <1>3 DEF PaymentInv, ChannelsTyped
  <1>8. TurnsHold(c) /\ held[s][c] \in Holds /\ held[s][c] # "none"
    BY <1>1 DEF PaymentInv, TurnsHold, ChannelsTyped
  <1>9. ASSUME kept PROVE \A r \in Sessions \ {s} : held[r][c] # "unsaved"
    BY <1>9 DEF OthersIn
  <1>10. ASSUME kept, ledger[c].turns PROVE Says(old, ledger[c])
    <2>1. held[s][c] \in {"current", "unsaved"}
      BY <1>8, <1>10 DEF Holds
    <2>2. CASE held[s][c] = "unsaved"
      BY <1>8, <1>10, <2>2 DEF TurnsHold
    <2>3. CASE held[s][c] = "current"
      <3>1. Quiet(c)
        BY <1>9, <1>10, <2>3 DEF Quiet
      <3> QED BY <1>8, <1>10, <2>3, <3>1 DEF TurnsHold, Says
    <2> QED BY <2>1, <2>2, <2>3
  <1>11. TurnsHold(c)'
    <2>1. \A r \in Sessions : copies'[r][c] # Absent => held'[r][c] # "none"
      BY <1>7, <1>8 DEF TurnsHold
    <2>2. ASSUME ledger'[c].turns
          PROVE  /\ held'[s][c] = "unsaved" /\ Says(copies'[s][c], ledger'[c]) /\ ~Quiet(c)'
                 /\ \A r \in Sessions \ {s} : held'[r][c] # "unsaved"
      <3>1. held'[s][c] = "unsaved" /\ \A r \in Sessions \ {s} : held'[r][c] # "unsaved"
        BY <1>5, <1>7, <1>9, <2>2
      <3>2. Says(copies'[s][c], ledger'[c])
        BY <1>3, <1>5, <1>7, <1>10, <2>2
      <3> QED BY <3>1, <3>2 DEF Quiet
    <2> QED BY <1>1, <1>5, <1>7, <1>8, <2>1, <2>2 DEF TurnsHold
  <1> QED BY <1>1, <1>5, <1>6, <1>7, <1>11, OneChannel

LEMMA ChannelOpened ==
    ASSUME PaymentInv, NEW s \in Sessions, NEW c \in ChannelIds, OpenChannel(s, c)
    PROVE  PaymentInv'
  <1> DEFINE row == Row(c, s, 0, "active")
             kept == channels[c] = Absent /\ OthersIn(s, c, {"none"})
  <1>1. /\ copies' = [copies EXCEPT ![s][c] = row] /\ held' = [held EXCEPT ![s][c] = "unsaved"]
        /\ ledger' = Turn(c, kept, NewLedger) /\ channels' = channels
    BY DEF OpenChannel
  <1>2. row \in Rows /\ Says(row, NewLedger)
    BY RowsAssumption DEF Row, Rows, Says, NewLedger
  <1>3. NewLedger \in [turns : BOOLEAN, paid : Nat, state : {"active", "closing"}] /\ kept \in BOOLEAN
    BY DEF NewLedger
  <1> HIDE DEF row
  <1>4. /\ ledger' \in [ChannelIds -> [turns : BOOLEAN, paid : Nat, state : {"active", "closing"}]]
        /\ \A d \in ChannelIds \ {c} : ledger'[d] = ledger[d]
        /\ ledger'[c].turns => kept /\ ledger[c].turns /\ ledger'[c] = NewLedger
    <2> HIDE DEF kept
    <2> QED BY <1>1, <1>3, TurnMeans DEF PaymentInv
  <1>5. ChannelsTyped'
    BY <1>1, <1>2, <1>4 DEF PaymentInv, ChannelsTyped, Holds
  <1>6. /\ copies'[s][c] = row /\ held'[s][c] = "unsaved"
        /\ \A r \in Sessions \ {s} : copies'[r][c] = copies[r][c] /\ held'[r][c] = held[r][c]
        /\ \A d \in ChannelIds \ {c}, r \in Sessions : copies'[r][d] = copies[r][d] /\ held'[r][d] = held[r][d]
    BY <1>1 DEF PaymentInv, ChannelsTyped
  <1>7. TurnsHold(c)'
    <2>1. \A r \in Sessions : copies'[r][c] # Absent => held'[r][c] # "none"
      BY <1>6 DEF PaymentInv, TurnsHold
    <2>2. ASSUME ledger'[c].turns PROVE \A r \in Sessions \ {s} : held'[r][c] = "none"
      BY <1>4, <1>6, <2>2 DEF OthersIn
    <2>3. ~Quiet(c)'
      BY <1>6 DEF Quiet
    <2> QED BY <1>2, <1>4, <1>6, <2>1, <2>2, <2>3 DEF TurnsHold
  <1> QED BY <1>1, <1>4, <1>5, <1>6, <1>7, OneChannel

LEMMA OvertakenMeans ==
    ASSUME ChannelsTyped, NEW s \in Sessions, NEW c \in ChannelIds, NEW own \in Holds,
           held' = Overtaken(s, c, own)
    PROVE  /\ held' \in [Sessions -> [ChannelIds -> Holds]]
           /\ held'[s][c] = own
           /\ \A r \in Sessions \ {s} : held'[r][c] = IF held[r][c] = "none" THEN "none" ELSE "overtaken"
           /\ \A d \in ChannelIds \ {c}, r \in Sessions : held'[r][d] = held[r][d]
  <1> DEFINE new(r) == IF r = s THEN own ELSE IF held[r][c] = "none" THEN "none" ELSE "overtaken"
  <1>1. held' = [r \in Sessions |-> [held[r] EXCEPT ![c] = new(r)]]
    BY DEF Overtaken
  <1>2. \A r \in Sessions : held[r] \in [ChannelIds -> Holds] /\ new(r) \in Holds
    BY DEF ChannelsTyped, Holds
  <1>3. new(s) = own /\ \A r \in Sessions \ {s} : new(r) = IF held[r][c] = "none" THEN "none" ELSE "overtaken"
    OBVIOUS
  <1> HIDE DEF new
  <1>4. ASSUME NEW r \in Sessions
        PROVE  /\ held'[r] \in [ChannelIds -> Holds] /\ held'[r][c] = new(r)
               /\ \A d \in ChannelIds \ {c} : held'[r][d] = held[r][d]
    BY <1>1, <1>2
  <1> QED BY <1>1, <1>3, <1>4

LEMMA RowUpserted ==
    ASSUME PaymentInv, NEW s \in Sessions, NEW c \in ChannelIds, Upsert(s, c)
    PROVE  PaymentInv'
  <1> DEFINE row == Upserted(channels[c], copies[s][c])
             kept == held[s][c] # "overtaken" /\ OthersIn(s, c, Holds \ {"unsaved"})
  <1>1. /\ copies[s][c] # Absent /\ copies' = copies /\ channels' = [channels EXCEPT ![c] = row]
        /\ held' = Overtaken(s, c, "current") /\ ledger' = Turn(c, kept, ledger[c])
    BY DEF Upsert
  <1>2. /\ row \in Rows /\ row # Absent /\ row.amount = copies[s][c].amount /\ row.state = copies[s][c].state
    <2>1. channels[c] \in Rows \cup {Absent} /\ copies[s][c] \in Rows
      BY <1>1 DEF PaymentInv, ChannelsTyped
    <2> QED BY <2>1, UpsertedRow
  <1>3. /\ held' \in [Sessions -> [ChannelIds -> Holds]] /\ held'[s][c] = "current"
        /\ \A r \in Sessions \ {s} : held'[r][c] = IF held[r][c] = "none" THEN "none" ELSE "overtaken"
        /\ \A d \in ChannelIds \ {c}, r \in Sessions : held'[r][d] = held[r][d]
    BY <1>1, OvertakenMeans DEF PaymentInv, Holds
  <1>4. /\ ledger' \in [ChannelIds -> [turns : BOOLEAN, paid : Nat, state : {"active", "closing"}]]
        /\ \A d \in ChannelIds \ {c} : ledger'[d] = ledger[d]
        /\ ledger'[c].turns => kept /\ ledger[c].turns /\ ledger'[c] = ledger[c]
    <2>1. kept \in BOOLEAN /\ ledger[c] \in [turns : BOOLEAN, paid : Nat, state : {"active", "closing"}]
      BY DEF PaymentInv, ChannelsTyped
    <2> HIDE DEF kept
    <2> QED BY <1>1, <2>1, TurnMeans DEF PaymentInv
  <1> HIDE DEF row
  <1>5. channels'[c] = row /\ \A d \in ChannelIds \ {c} : channels'[d] = channels[d]
    BY <1>1 DEF PaymentInv, ChannelsTyped
  <1>6. ChannelsTyped'
    BY <1>1, <1>2, <1>3, <1>4 DEF PaymentInv, ChannelsTyped
  <1>7. TurnsHold(c) /\ held[s][c] \in Holds /\ held[s][c] # "none"
    BY <1>1 DEF PaymentInv, TurnsHold, ChannelsTyped
  <1>8. ASSUME kept, ledger[c].turns PROVE Says(copies[s][c], ledger[c])
    <2>1. held[s][c] \in {"current", "unsaved"} /\ \A r \in Sessions \ {s} : held[r][c] # "unsaved"
      BY <1>7, <1>8 DEF Holds, OthersIn
    <2>2. CASE held[s][c] = "unsaved"
      BY <1>7, <1>8, <2>2 DEF TurnsHold
    <2>3. CASE held[s][c] = "current"
      <3>1. Quiet(c)
        BY <2>1, <2>3 DEF Quiet
      <3> QED BY <1>7, <1>8, <2>3, <3>1 DEF TurnsHold, Says
    <2> QED BY <2>1, <2>2, <2>3
  <1>9. TurnsHold(c)'
    <2>1. \A r \in Sessions : copies'[r][c] # Absent => held'[r][c] # "none"
      BY <1>1, <1>3, <1>7 DEF TurnsHold
    <2>2. \A r \in Sessions : held'[r][c] # "unsaved" /\ (held'[r][c] = "current" => r = s)
      BY <1>3
    <2>3. ASSUME ledger'[c].turns PROVE Says(channels'[c], ledger'[c])
      BY <1>2, <1>4, <1>5, <1>8, <2>3 DEF Says
    <2> QED BY <1>1, <1>2, <1>5, <2>1, <2>2, <2>3 DEF TurnsHold
  <1>10. \A d \in ChannelIds \ {c} :
            /\ channels'[d] = channels[d] /\ ledger'[d] = ledger[d]
            /\ \A r \in Sessions : copies'[r][d] = copies[r][d] /\ held'[r][d] = held[r][d]
    <2> HIDE DEF kept
    <2> QED BY <1>1, <1>3, <1>4, <1>5
  <1> QED BY <1>6, <1>9, <1>10, OneChannel

LEMMA RowDeleted ==
    ASSUME PaymentInv, NEW s \in Sessions, NEW c \in ChannelIds, Delete(s, c)
    PROVE  PaymentInv'
  <1>1. /\ copies' = [copies EXCEPT ![s][c] = Absent] /\ channels' = [channels EXCEPT ![c] = Absent]
        /\ held' = Overtaken(s, c, "none")
        /\ ledger' = [ledger EXCEPT ![c] = IF OthersIn(s, c, {"none"}) THEN NewLedger ELSE NoTurns]
    BY DEF Delete
  <1>2. /\ held' \in [Sessions -> [ChannelIds -> Holds]] /\ held'[s][c] = "none"
        /\ \A r \in Sessions \ {s} : held'[r][c] = IF held[r][c] = "none" THEN "none" ELSE "overtaken"
        /\ \A d \in ChannelIds \ {c}, r \in Sessions : held'[r][d] = held[r][d]
    BY <1>1, OvertakenMeans DEF PaymentInv, Holds
  <1>3. ChannelsTyped'
    BY <1>1, <1>2 DEF PaymentInv, ChannelsTyped, NewLedger, NoTurns
  <1>4. /\ channels'[c] = Absent /\ copies'[s][c] = Absent
        /\ \A r \in Sessions \ {s} : copies'[r][c] = copies[r][c]
        /\ \A d \in ChannelIds \ {c} : /\ channels'[d] = channels[d] /\ ledger'[d] = ledger[d]
                                       /\ \A r \in Sessions : copies'[r][d] = copies[r][d]
    BY <1>1 DEF PaymentInv, ChannelsTyped
  <1>5. TurnsHold(c)'
    <2>1. \A r \in Sessions : copies[r][c] # Absent => held[r][c] # "none"
      BY DEF PaymentInv, TurnsHold
    <2>2. \A r \in Sessions : copies'[r][c] # Absent => held'[r][c] # "none"
      BY <1>2, <1>4, <2>1
    <2>3. \A r \in Sessions : held'[r][c] \in {"none", "overtaken"}
      BY <1>2
    <2> QED BY <1>4, <2>2, <2>3 DEF TurnsHold
  <1> QED BY <1>2, <1>3, <1>4, <1>5, OneChannel

LEMMA PaymentStep ==
    ASSUME PaymentInv, [ChooseNext \/ MultiNext \/ ChannelsNext]_walletVars
    PROVE  PaymentInv'
  <1>1. CASE UNCHANGED channelVars
    BY <1>1 DEF PaymentInv, ChannelsTyped, TurnsHold, Quiet, Says, channelVars
  <1>2. ASSUME ChooseNext \/ MultiNext \/ UNCHANGED walletVars PROVE UNCHANGED channelVars
    <2>1. \A o : ChooseSigner(o) => UNCHANGED channelVars
      BY Zenon DEF ChooseSigner
    <2>2. \A o : GetMultiWallet(o) => UNCHANGED channelVars
      BY Zenon DEF GetMultiWallet
    <2>3. Signers \/ AddSigner => UNCHANGED channelVars
      BY Zenon DEF Signers, AddSigner
    <2>4. UNCHANGED walletVars => UNCHANGED channelVars
      BY DEF walletVars
    <2> QED BY <1>2, <2>1, <2>2, <2>3, <2>4 DEF ChooseNext, MultiNext
  <1>3. CASE ChannelsNext
    BY <1>3, RowFound, CopyUsed, ChannelOpened, RowUpserted, RowDeleted DEF ChannelsNext
  <1> QED BY <1>1, <1>2, <1>3

\* For any number of programs and channels: as long as programs take turns with a
\* channel, the row of ChannelDb says all that was done with the channel once it is
\* written; what is lost by ChannelDb::upsert is lost to a copy that was overtaken.
THEOREM PaymentsRecorded == WalletsSpec => []PaymentsKept
  <1>1. WalletsInit => PaymentInv
    <2> SUFFICES ASSUME WalletsInit PROVE PaymentInv
      OBVIOUS
    <2>1. ChannelsTyped
      BY DEF WalletsInit, ChannelsTyped, Holds, NewLedger
    <2>2. \A c \in ChannelIds :
              channels[c] = Absent /\ \A s \in Sessions : copies[s][c] = Absent /\ held[s][c] = "none"
      BY DEF WalletsInit
    <2>3. ASSUME NEW c \in ChannelIds PROVE TurnsHold(c)
      <3>1. channels[c] = Absent /\ \A s \in Sessions : copies[s][c] = Absent /\ held[s][c] = "none"
        BY <2>2
      <3> QED BY <3>1 DEF TurnsHold
    <2> QED BY <2>1, <2>3 DEF PaymentInv
  <1>2. PaymentInv => PaymentsKept
    BY DEF PaymentInv, TurnsHold, PaymentsKept, Quiet, Says
  <1> QED BY <1>1, <1>2, PaymentStep, PTL DEF WalletsSpec

-----------------------------------------------------------------------------
(* Wallets: the choice of one signer                                       *)

LEMMA KeySigner ==
    ASSUME NEW key, PrivateKeySigner(key).ok
    PROVE  PrivateKeySigner(key) = Ok(Local(key))
  BY DEF PrivateKeySigner, Fail

LEMMA KeystoreSigner ==
    ASSUME NEW store, NEW password, NEW file, CreateKeystoreSigner(store, password, file).ok
    PROVE  \/ /\ CreateKeystoreSigner(store, password, file) = Ok(Local(store.key))
              /\ store.password \in {password, file}
           \/ CreateKeystoreSigner(store, password, file) = [ok |-> TRUE, pending |-> store]
  BY DEF CreateKeystoreSigner, Decrypt, Fail, Ok

LEMMA UnlockedSigner ==
    ASSUME NEW pending, NEW typed, Unlock(pending, typed).ok
    PROVE  Unlock(pending, typed).access = Absent
  BY KeySigner DEF Unlock, Decrypt, Fail, Ok

LEMMA RawSignerMeans ==
    ASSUME NEW o \in SingleOpts, RawSigner(o).ok
    PROVE  /\ RawSigner(o).access = Absent
           /\ o.interactive => RawSigner(o).signer = Local(o.typed)
           /\ ~o.interactive /\ o.privateKey # Absent => RawSigner(o).signer = Local(o.privateKey)
           /\ ~o.interactive /\ o.privateKey = Absent /\ o.mnemonic # Absent =>
                 RawSigner(o).signer = [kind |-> "local", address |-> <<o.mnemonic, Absent, "0">>]
           /\ ~o.interactive /\ o.privateKey = Absent /\ o.mnemonic = Absent => RawSigner(o).signer = Absent
  <1>1. CASE o.interactive
    BY <1>1, KeySigner DEF RawSigner, Ok
  <1>2. CASE ~o.interactive /\ o.privateKey # Absent
    BY <1>2, KeySigner DEF RawSigner, Ok
  <1>3. CASE ~o.interactive /\ o.privateKey = Absent
    BY <1>3 DEF RawSigner, MnemonicSigner, Ok, Fail
  <1> QED BY <1>1, <1>2, <1>3

\* A key store is opened for its key, with the password or with what is typed.
LEMMA FromKeystoreMeans ==
    ASSUME NEW o, FromKeystore(o).ok
    PROVE  FromKeystore(o).access = Absent /\ FromKeystore(o).signer = Local(o.keystore.key)
  <1> DEFINE made == CreateKeystoreSigner(o.keystore, o.password, Absent)
             ready == Ok(Local(o.keystore.key))
  <1>1. "pending" \notin DOMAIN ready /\ ready.access = Absent /\ ready.signer = Local(o.keystore.key)
    BY DEF Ok
  <1>2. CASE made.ok /\ "pending" \in DOMAIN made
    <2>1. made = [ok |-> TRUE, pending |-> o.keystore]
      BY <1>1, <1>2, KeystoreSigner
    <2>2. o.keystore.kind = "file"
      BY <2>1 DEF CreateKeystoreSigner, Fail
    <2>3. FromKeystore(o) = Unlock(o.keystore, o.typed)
      BY <1>2, <2>1 DEF FromKeystore
    <2>4. Unlock(o.keystore, o.typed) = Decrypt(o.keystore, o.typed)
      BY <2>2 DEF Unlock
    <2>5. Decrypt(o.keystore, o.typed) = ready
      BY <2>3, <2>4 DEF Decrypt, Fail
    <2> QED BY <1>1, <2>3, <2>4, <2>5
  <1>3. CASE ~(made.ok /\ "pending" \in DOMAIN made)
    <2>1. FromKeystore(o) = made
      BY <1>3 DEF FromKeystore
    <2>2. made = ready
      BY <1>3, <2>1, KeystoreSigner
    <2> QED BY <1>1, <2>1, <2>2
  <1> QED BY <1>2, <1>3

LEMMA LeastNumber ==
    ASSUME NEW I \in SUBSET Nat, I # {}
    PROVE  \E m \in I : \A k \in I : m <= k
  <1> DEFINE R == OpToRel(<, Nat)
  <1>1. IsWellFoundedOn(R, Nat)
    BY NatLessThanWellFounded, Zenon
  <1>2. \A k, m \in Nat : k < m => <<k, m>> \in R
    BY DEF OpToRel
  <1> HIDE DEF R
  <1>3. PICK m \in I : \A k \in I : <<k, m>> \notin R
    BY <1>1, WFMin
  <1>4. ASSUME NEW k \in I PROVE m <= k
    <2>1. k \in Nat /\ m \in Nat
      OBVIOUS
    <2>2. ~(k < m)
      BY <1>2, <1>3, <2>1
    <2> QED BY <2>1, <2>2
  <1> QED BY <1>4

\* The library's Min is the least number of a set.
LEMMA LeastOf ==
    ASSUME NEW I \in SUBSET Nat, I # {}
    PROVE  Min(I) \in I
  BY LeastNumber DEF Min

\* An entry of the keys file is used only for the sender it is for, and when there is
\* one with a key, one is used.
LEMMA LookedUp ==
    ASSUME NEW entries, NEW from, from # Absent, LookupSigner(entries, from).ok, IsSequence(entries)
    PROVE  FromKeysFile(LookupSigner(entries, from), entries, from)
  <1> DEFINE I == {i \in 1..Len(entries) : entries[i].wallet = from /\ entries[i].key # Absent}
             first == IF I # {} THEN Min(I) ELSE 0
             e == entries[first]
             made == PrivateKeySigner(e.key)
             access == [wallet |-> e.wallet, key |-> e.keyAddress, authorization |-> e.authorization]
             r == LookupSigner(entries, from)
  <1>1. r = IF first = 0 THEN [ok |-> TRUE, signer |-> Absent, access |-> Absent]
            ELSE IF ~made.ok \/ e.keyAddress \in {Absent, e.wallet} THEN made
            ELSE IF e.authorization = "bad" THEN Fail("authorization")
            ELSE [made EXCEPT !.access = access]
    BY Zenon DEF LookupSigner, SelectInSeq
  <1>2. DOMAIN entries = 1..Len(entries) /\ Len(entries) \in Nat
    BY DEF IsSequence
  <1>3. CASE I = {}
    <2>1. r.signer = Absent /\ r.access = Absent
      <3>1. first = 0
        BY <1>3
      <3> HIDE DEF I, first, e, made, access, r
      <3> QED BY <1>1, <3>1
    <2>2. \A x \in Range(entries) : x.wallet = from => x.key = Absent
      BY <1>2, <1>3 DEF Range
    <2> QED BY <2>1, <2>2 DEF FromKeysFile
  <1>4. CASE I # {}
    <2>1. first \in I /\ I \in SUBSET Nat /\ 0 \notin I
      <3>1. I \in SUBSET Nat /\ 0 \notin I
        BY <1>2
      <3> QED BY <1>4, <3>1, LeastOf
    <2>2. e.wallet = from /\ e.key # Absent /\ e \in Range(entries) /\ first # 0
      BY <1>2, <2>1 DEF Range
    <2> HIDE DEF I, first, e
    <2>3. made.ok /\ made = Ok(Local(e.key))
      <3>1. made.ok
        BY <1>1, <2>2 DEF Fail
      <3> QED BY <3>1, KeySigner
    <2> HIDE DEF access
    <2>4. r = IF e.keyAddress \in {Absent, from} THEN Ok(Local(e.key)) ELSE [Ok(Local(e.key)) EXCEPT !.access = access]
      <3>1. ~Fail("authorization").ok
        BY DEF Fail
      <3> HIDE DEF made
      <3> QED BY <1>1, <2>2, <2>3, <3>1
    <2> HIDE DEF r
    <2>5. /\ r.signer = Local(e.key)
          /\ r.access = IF e.keyAddress \in {Absent, from} THEN Absent ELSE access
      BY <2>4 DEF Ok
    <2>6. access = [wallet |-> from, key |-> e.keyAddress, authorization |-> e.authorization]
      BY <2>2 DEF access
    <2>7. FromEntry(r, e, from)
      BY <2>2, <2>5, <2>6 DEF FromEntry
    <2> QED BY <2>2, <2>7 DEF FromKeysFile, r
  <1> QED BY <1>3, <1>4

LEMMA OptionsMean ==
    ASSUME NEW o
    PROVE  /\ DOMAIN Options = 1..6
           /\ GivenOption(o, Options[1]) <=> o.hardware # Absent
           /\ GivenOption(o, Options[2]) <=> o.remote # Absent
           /\ GivenOption(o, Options[3]) <=> o.interactive
           /\ GivenOption(o, Options[4]) <=> o.privateKey # Absent
           /\ GivenOption(o, Options[5]) <=> o.mnemonic # Absent
           /\ GivenOption(o, Options[6]) <=> o.keystore # Absent
  BY DEF Options, GivenOption

LEMMA SignersMean ==
    ASSUME NEW o
    PROVE  /\ SignerOf(o, Options[1]) = [kind |-> o.hardware, address |-> <<o.hardware, "0">>]
           /\ SignerOf(o, Options[2]) = [kind |-> o.remote, address |-> <<o.remote>>]
           /\ SignerOf(o, Options[3]) = Local(o.typed)
           /\ SignerOf(o, Options[4]) = Local(o.privateKey)
           /\ SignerOf(o, Options[5]) = [kind |-> "local", address |-> <<o.mnemonic, Absent, "0">>]
           /\ SignerOf(o, Options[6]) = Local(o.keystore.key)
  BY DEF Options, SignerOf

\* The signer of the first option that is given is the one that was asked for.
LEMMA FirstOption ==
    ASSUME NEW o, o.accessKey = Absent, NEW r, r.access = Absent,
           NEW n \in 1..6, GivenOption(o, Options[n]), \A j \in 1..6 : j < n => ~GivenOption(o, Options[j]),
           r.signer = SignerOf(o, Options[n])
    PROVE  AsAsked(o, r)
  <1> DEFINE given == {i \in DOMAIN Options : GivenOption(o, Options[i])}
  <1>1. given \in SUBSET (1..6) /\ n \in given /\ \A j \in given : ~(j < n)
    BY OptionsMean
  <1>2. ASSUME NEW i \in given, \A j \in given : i <= j PROVE i = n
    <2> HIDE DEF given
    <2> QED BY <1>1, <1>2
  <1> QED BY <1>1, <1>2 DEF AsAsked

LEMMA ChosenAsAsked ==
    ASSUME NEW o \in SingleOpts, MaybeSigner(o).ok
    PROVE  AsAsked(o, MaybeSigner(o))
  <1> DEFINE r == MaybeSigner(o)
             raw == RawSigner(o)
             later == IF ~raw.ok \/ raw.signer # Absent THEN raw
                      ELSE IF o.keystore # Absent THEN FromKeystore(o)
                      ELSE IF o.from # Absent THEN LookupSigner(o.keysFile, o.from)
                      ELSE raw
  <1>1. CASE o.accessKey # Absent
    <2>1. PrivateKeySigner(o.accessKey).ok => PrivateKeySigner(o.accessKey) = Ok(Local(o.accessKey))
      BY KeySigner
    <2>2. r = [Ok(Local(o.accessKey)) EXCEPT !.access = [wallet |-> o.rootAccount, key |-> o.accessKey,
                                                         authorization |-> Absent]]
      BY <1>1, <2>1 DEF MaybeSigner, Fail
    <2>3. /\ r.access = [wallet |-> o.rootAccount, key |-> o.accessKey, authorization |-> Absent]
          /\ r.signer = Local(o.accessKey)
      BY <2>2 DEF Ok
    <2> QED BY <1>1, <2>3 DEF AsAsked
  <1>2. CASE o.accessKey = Absent /\ o.hardware # Absent
    <2>1. r = HardwareSigner(o.hardware, Absent, "0")
      BY <1>2 DEF MaybeSigner
    <2>2. r.access = Absent /\ r.signer = [kind |-> o.hardware, address |-> <<o.hardware, "0">>]
      BY <2>1 DEF HardwareSigner, Ok
    <2>3. r.signer = SignerOf(o, Options[1]) /\ GivenOption(o, Options[1])
      BY <1>2, <2>2, SignersMean, OptionsMean
    <2> QED BY <1>2, <2>2, <2>3, FirstOption
  <1>3. CASE o.accessKey = Absent /\ o.hardware = Absent /\ o.remote # Absent
    <2>1. r = RemoteSigner(o, o.remote)
      BY <1>3 DEF MaybeSigner
    <2>2. r.access = Absent /\ r.signer = [kind |-> o.remote, address |-> <<o.remote>>]
      BY <2>1 DEF RemoteSigner, Ok, Fail
    <2>3. ~GivenOption(o, Options[1]) /\ GivenOption(o, Options[2]) /\ r.signer = SignerOf(o, Options[2])
      BY <1>3, <2>2, SignersMean, OptionsMean
    <2>4. \A j \in 1..6 : j < 2 => ~GivenOption(o, Options[j])
      BY <2>3
    <2> QED BY <1>3, <2>2, <2>3, <2>4, FirstOption
  <1>4. CASE o.accessKey = Absent /\ o.hardware = Absent /\ o.remote = Absent
    <2>1. r = later
      BY <1>4 DEF MaybeSigner
    <2>2. raw.ok
      BY <2>1
    <2>3. ~GivenOption(o, Options[1]) /\ ~GivenOption(o, Options[2])
      BY <1>4, OptionsMean
    <2>4. /\ Local(o.typed) # Absent /\ Local(o.privateKey) # Absent
          /\ [kind |-> "local", address |-> <<o.mnemonic, Absent, "0">>] # Absent
      BY OptionsAssumption
    <2>5. CASE o.interactive
      <3>1. raw.signer = Local(o.typed) /\ raw.access = Absent
        BY <2>2, <2>5, RawSignerMeans
      <3>2. r.access = Absent /\ r.signer = SignerOf(o, Options[3])
        <4> HIDE DEF raw
        <4> QED BY <2>1, <2>4, <3>1, SignersMean
      <3>3. GivenOption(o, Options[3]) /\ \A j \in 1..6 : j < 3 => ~GivenOption(o, Options[j])
        BY <2>3, <2>5, OptionsMean
      <3> QED BY <1>4, <3>2, <3>3, FirstOption
    <2>6. CASE ~o.interactive /\ o.privateKey # Absent
      <3>1. raw.signer = Local(o.privateKey) /\ raw.access = Absent
        BY <2>2, <2>6, RawSignerMeans
      <3>2. r.access = Absent /\ r.signer = SignerOf(o, Options[4])
        <4> HIDE DEF raw
        <4> QED BY <2>1, <2>4, <3>1, SignersMean
      <3>3. GivenOption(o, Options[4]) /\ ~GivenOption(o, Options[3])
        BY <2>6, OptionsMean
      <3>4. \A j \in 1..6 : j < 4 => ~GivenOption(o, Options[j])
        BY <2>3, <3>3
      <3> QED BY <1>4, <3>2, <3>3, <3>4, FirstOption
    <2>7. CASE ~o.interactive /\ o.privateKey = Absent /\ o.mnemonic # Absent
      <3>1. raw.signer = [kind |-> "local", address |-> <<o.mnemonic, Absent, "0">>] /\ raw.access = Absent
        BY <2>2, <2>7, RawSignerMeans
      <3>2. r.access = Absent /\ r.signer = SignerOf(o, Options[5])
        <4> HIDE DEF raw
        <4> QED BY <2>1, <2>4, <3>1, SignersMean
      <3>3. GivenOption(o, Options[5]) /\ ~GivenOption(o, Options[3]) /\ ~GivenOption(o, Options[4])
        BY <2>7, OptionsMean
      <3>4. \A j \in 1..6 : j < 5 => ~GivenOption(o, Options[j])
        BY <2>3, <3>3
      <3> QED BY <1>4, <3>2, <3>3, <3>4, FirstOption
    <2>8. CASE ~o.interactive /\ o.privateKey = Absent /\ o.mnemonic = Absent
      <3>1. raw.signer = Absent /\ raw.access = Absent
        BY <2>2, <2>8, RawSignerMeans
      <3>2. \A j \in 1..6 : j < 6 => ~GivenOption(o, Options[j])
        <4>1. ~GivenOption(o, Options[3]) /\ ~GivenOption(o, Options[4]) /\ ~GivenOption(o, Options[5])
          BY <2>8, OptionsMean
        <4> QED BY <2>3, <4>1
      <3>3. CASE o.keystore # Absent
        <4>1. r = FromKeystore(o)
          BY <2>1, <2>2, <3>1, <3>3
        <4>2. r.access = Absent /\ r.signer = SignerOf(o, Options[6])
          BY <4>1, FromKeystoreMeans, SignersMean
        <4>3. GivenOption(o, Options[6])
          BY <3>3, OptionsMean
        <4> QED BY <1>4, <3>2, <4>2, <4>3, FirstOption
      <3>4. CASE o.keystore = Absent
        <4>1. r = IF o.from # Absent THEN LookupSigner(o.keysFile, o.from) ELSE raw
          BY <2>1, <2>2, <3>1, <3>4
        <4>2. FromKeysFile(r, o.keysFile, o.from)
          <5>1. CASE o.from # Absent
            BY <4>1, <5>1, LookedUp, OptionsAssumption
          <5>2. CASE o.from = Absent
            BY <3>1, <4>1, <5>2 DEF FromKeysFile
          <5> QED BY <5>1, <5>2
        <4>3. {i \in DOMAIN Options : GivenOption(o, Options[i])} = {}
          <5>1. ~GivenOption(o, Options[6])
            BY <3>4, OptionsMean
          <5>2. \A j \in 1..6 : ~GivenOption(o, Options[j])
            BY <3>2, <5>1
          <5> QED BY <5>2, OptionsMean
        <4> QED BY <1>4, <4>2, <4>3 DEF AsAsked
      <3> QED BY <3>3, <3>4
    <2> QED BY <2>5, <2>6, <2>7, <2>8
  <1> QED BY <1>1, <1>2, <1>3, <1>4

-----------------------------------------------------------------------------
(* Wallets: several signers                                                *)

LEMMA SequenceDomain ==
    ASSUME NEW s, IsSequence(s)
    PROVE  DOMAIN s = 1..Len(s) /\ Len(s) \in Nat
  BY DEF IsSequence

LEMMA MappedSequence ==
    ASSUME NEW s, IsSequence(s), NEW f, f = [i \in DOMAIN s |-> f[i]]
    PROVE  IsSequence(f) /\ DOMAIN f = DOMAIN s
  <1>1. f \in Seq(Range(f))
    BY SequenceDomain DEF Range
  <1> QED BY <1>1 DEF IsSequence

LEMMA JoinedSequences ==
    ASSUME NEW s, NEW t, IsSequence(s), IsSequence(t)
    PROVE  IsSequence(s \o t) /\ Range(s \o t) = Range(s) \cup Range(t)
  <1> DEFINE S == Range(s) \cup Range(t)
  <1>1. s \in Seq(S) /\ t \in Seq(S)
    <2>1. S = Range(s) \cup Range(t)
      OBVIOUS
    <2> HIDE DEF S
    <2> QED BY <2>1 DEF IsSequence
  <1>2. s \o t \in Seq(S)
    BY <1>1
  <1>3. /\ DOMAIN s = 1..Len(s) /\ DOMAIN t = 1..Len(t) /\ Len(s) \in Nat /\ Len(t) \in Nat
        /\ Len(s \o t) = Len(s) + Len(t) /\ DOMAIN (s \o t) = 1..(Len(s) + Len(t))
    BY <1>1, <1>2
  <1>4. \A i \in DOMAIN s : i \in DOMAIN (s \o t) /\ (s \o t)[i] = s[i]
    BY <1>1, <1>3
  <1>5. \A i \in DOMAIN t : Len(s) + i \in DOMAIN (s \o t) /\ (s \o t)[Len(s) + i] = t[i]
    BY <1>1, <1>3
  <1>6. \A i \in DOMAIN (s \o t) : \/ i \in DOMAIN s /\ (s \o t)[i] = s[i]
                                   \/ i - Len(s) \in DOMAIN t /\ (s \o t)[i] = t[i - Len(s)]
    BY <1>1, <1>3
  <1>7. Range(s \o t) = S
    BY <1>4, <1>5, <1>6 DEF Range
  <1>8. s \o t \in Seq(Range(s \o t))
    BY <1>2, <1>7
  <1> QED BY <1>7, <1>8 DEF IsSequence

LEMMA ResultsOf ==
    ASSUME NEW o \in MultiOpts
    PROVE  /\ Range(MultiResults(o)) = Range(DeviceResults(o)) \cup Range(KeystoreResults(o)) \cup Range(KeyResults(o))
                                          \cup Range(MnemonicResults(o)) \cup Range(InteractiveResults(o))
           /\ DOMAIN MultiResults(o) = 1..Len(MultiResults(o)) /\ Len(MultiResults(o)) \in Nat
  <1>1. /\ IsSequence(o.hdPaths) /\ IsSequence(o.indexes) /\ IsSequence(o.keystores)
        /\ IsSequence(o.privateKeys) /\ IsSequence(o.mnemonics) /\ IsSequence(o.interactives)
    BY OptionsAssumption
  <1>2. ASSUME NEW x PROVE IsSequence(<<x>>)
    <2>1. x \in Range(<<x>>)
      BY DEF Range
    <2>2. <<x>> \in Seq(Range(<<x>>))
      BY <2>1
    <2> QED BY <2>2 DEF IsSequence
  <1>3. IsSequence(<<>>)
    BY DEF IsSequence
  <1>4. IsSequence([i \in DOMAIN o.hdPaths |-> HardwareSigner(o.device, o.hdPaths[i], "0")])
    BY <1>1, MappedSequence
  <1>5. IsSequence([i \in DOMAIN o.indexes |-> HardwareSigner(o.device, Absent, o.indexes[i])])
    BY <1>1, MappedSequence
  <1>6. IsSequence(DeviceResults(o))
    BY <1>2, <1>3, <1>4, <1>5 DEF DeviceResults
  <1>7. IsSequence(KeystoreResults(o))
    BY <1>1, MappedSequence DEF KeystoreResults
  <1>8. IsSequence(KeyResults(o))
    BY <1>1, MappedSequence DEF KeyResults
  <1>9. IsSequence(MnemonicResults(o))
    BY <1>1, MappedSequence DEF MnemonicResults
  <1>10. IsSequence(InteractiveResults(o))
    BY <1>1, MappedSequence DEF InteractiveResults
  <1> DEFINE a == DeviceResults(o)
             b == a \o KeystoreResults(o)
             c == b \o KeyResults(o)
             d == c \o MnemonicResults(o)
  <1>11. IsSequence(b) /\ Range(b) = Range(a) \cup Range(KeystoreResults(o))
    BY <1>6, <1>7, JoinedSequences
  <1>12. IsSequence(c) /\ Range(c) = Range(b) \cup Range(KeyResults(o))
    <2> HIDE DEF b
    <2> QED BY <1>8, <1>11, JoinedSequences
  <1>13. IsSequence(d) /\ Range(d) = Range(c) \cup Range(MnemonicResults(o))
    <2> HIDE DEF c
    <2> QED BY <1>9, <1>12, JoinedSequences
  <1>14. /\ IsSequence(d \o InteractiveResults(o))
         /\ Range(d \o InteractiveResults(o)) = Range(d) \cup Range(InteractiveResults(o))
    <2> HIDE DEF d
    <2> QED BY <1>10, <1>13, JoinedSequences
  <1>15. MultiResults(o) = d \o InteractiveResults(o)
    BY DEF MultiResults
  <1> HIDE DEF a, b, c, d
  <1> QED BY <1>11, <1>12, <1>13, <1>14, <1>15, SequenceDomain DEF a

\* What a result that is no pending signer is.
LEMMA ResultSigner ==
    ASSUME NEW o \in MultiOpts, NEW r \in Range(MultiResults(o)), r.ok, "pending" \notin DOMAIN r,
           NEW k, r.signer = Local(k)
    PROVE  Given(o, k)
  <1>1. ASSUME NEW x \in Range(DeviceResults(o)), x.ok PROVE x.signer.kind = o.device
    <2>1. CASE x = Fail("one_signer")
      BY <1>1, <2>1 DEF Fail
    <2>2. CASE \E p, i : x = HardwareSigner(o.device, p, i)
      BY <2>2 DEF HardwareSigner, Ok
    <2>3. PICK j \in DOMAIN DeviceResults(o) : x = DeviceResults(o)[j]
      BY <1>1 DEF Range
    <2>4. \/ DeviceResults(o) = <<>>
          \/ DeviceResults(o) = <<Fail("one_signer")>>
          \/ DeviceResults(o) = [n \in DOMAIN o.hdPaths |-> HardwareSigner(o.device, o.hdPaths[n], "0")]
          \/ DeviceResults(o) = [n \in DOMAIN o.indexes |-> HardwareSigner(o.device, Absent, o.indexes[n])]
          \/ DeviceResults(o) = <<HardwareSigner(o.device, Absent, "0")>>
      BY DEF DeviceResults
    <2>5. x = Fail("one_signer") \/ \E p, n : x = HardwareSigner(o.device, p, n)
      BY <2>3, <2>4
    <2> QED BY <2>1, <2>2, <2>5
  <1>2. r \notin Range(DeviceResults(o))
    <2>1. Local(k).kind = "local" /\ o.device # "local"
      BY OptionsAssumption DEF Local
    <2> QED BY <1>1, <2>1
  <1>3. CASE r \in Range(KeystoreResults(o))
    <2>1. PICK i \in DOMAIN o.keystores :
            r = CreateKeystoreSigner(o.keystores[i], AtOr(o.passwords, i, Absent), AtOr(o.passwordFiles, i, Absent))
      BY <1>3 DEF KeystoreResults, Range
    <2>2. /\ r = Ok(Local(o.keystores[i].key))
          /\ o.keystores[i].password \in {AtOr(o.passwords, i, Absent), AtOr(o.passwordFiles, i, Absent)}
      BY <2>1, KeystoreSigner
    <2>3. o.keystores[i].key = k
      BY <2>2 DEF Ok, Local
    <2> QED BY <2>2, <2>3 DEF Given
  <1>4. CASE r \in Range(KeyResults(o))
    <2>1. PICK i \in DOMAIN o.privateKeys : r = PrivateKeySigner(o.privateKeys[i])
      BY <1>4 DEF KeyResults, Range
    <2>2. r = Ok(Local(o.privateKeys[i]))
      BY <2>1, KeySigner
    <2>3. o.privateKeys[i] = k
      BY <2>2 DEF Ok, Local
    <2> QED BY <2>3 DEF Given, Range
  <1>5. r \notin Range(MnemonicResults(o))
    <2> SUFFICES ASSUME NEW i \in DOMAIN o.mnemonics, NEW p, NEW h, NEW x, r = MnemonicSigner(o.mnemonics[i], p, h, x)
                 PROVE  FALSE
      BY DEF MnemonicResults, Range
    <2>1. PICK y : r.signer = [kind |-> "local", address |-> <<o.mnemonics[i], p, y>>]
      BY DEF MnemonicSigner, Ok, Fail
    <2>2. <<o.mnemonics[i], p, y>> = <<k>>
      BY <2>1 DEF Local
    <2> QED BY <2>2
  <1>6. r \notin Range(InteractiveResults(o))
    <2> SUFFICES ASSUME NEW x, r = [ok |-> TRUE, pending |-> x] PROVE FALSE
      BY DEF InteractiveResults, Range
    <2> QED OBVIOUS
  <1> QED BY <1>2, <1>3, <1>4, <1>5, <1>6, ResultsOf

LEMMA HardwareMeans ==
    ASSUME NEW device, NEW path, NEW index
    PROVE  /\ HardwareSigner(device, path, index).ok
           /\ "pending" \notin DOMAIN HardwareSigner(device, path, index)
           /\ HardwareSigner(device, path, index).signer =
                 [kind |-> device, address |-> <<device, IF path # Absent THEN path ELSE index>>]
  <1>1. DOMAIN HardwareSigner(device, path, index) = {"ok", "signer", "access"}
    BY DEF HardwareSigner, Ok
  <1>2. "pending" \notin DOMAIN HardwareSigner(device, path, index)
    BY <1>1
  <1> QED BY <1>2 DEF HardwareSigner, Ok

\* Results that give the signers that were asked for, at once or when they are unlocked.
Gives(r, s) ==
    \/ "pending" \in DOMAIN r /\ s = Local(r.pending.key)
    \/ "pending" \notin DOMAIN r /\ s = r.signer
AreFor(results, asked) ==
    /\ \A r \in Range(results) : \A s : r.ok /\ Gives(r, s) => s \in asked
    /\ (\A r \in Range(results) : r.ok) => \A s \in asked : \E r \in Range(results) : Gives(r, s)

\* One result for each of a sequence.
LEMMA OneEach ==
    ASSUME NEW results, NEW signers, DOMAIN results = DOMAIN signers,
           \A i \in DOMAIN signers : results[i].ok => \A s : Gives(results[i], s) <=> s = signers[i]
    PROVE  AreFor(results, Range(signers))
  <1>1. ASSUME NEW r \in Range(results), NEW s, r.ok, Gives(r, s) PROVE s \in Range(signers)
    <2>1. PICK i \in DOMAIN signers : r = results[i]
      BY DEF Range
    <2>2. s = signers[i]
      BY <1>1, <2>1
    <2> QED BY <2>2 DEF Range
  <1>2. ASSUME \A r \in Range(results) : r.ok, NEW s \in Range(signers)
        PROVE  \E r \in Range(results) : Gives(r, s)
    <2>1. PICK i \in DOMAIN signers : s = signers[i]
      BY DEF Range
    <2>2. results[i] \in Range(results)
      BY DEF Range
    <2> QED BY <1>2, <2>1, <2>2
  <1> QED BY <1>1, <1>2 DEF AreFor

LEMMA OkGives ==
    ASSUME NEW x, NEW s
    PROVE  Gives(Ok(x), s) <=> s = x
  <1>1. DOMAIN Ok(x) = {"ok", "signer", "access"} /\ Ok(x).signer = x
    BY DEF Ok
  <1>2. "pending" \notin DOMAIN Ok(x)
    BY <1>1
  <1> QED BY <1>1, <1>2 DEF Gives

LEMMA PendingGives ==
    ASSUME NEW p, NEW s
    PROVE  Gives([ok |-> TRUE, pending |-> p], s) <=> s = Local(p.key)
  BY DEF Gives

LEMMA DevicesAsked ==
    ASSUME NEW o \in MultiOpts
    PROVE  AreFor(DeviceResults(o), DeviceSigners(o))
  <1> DEFINE Signer(x) == [kind |-> o.device, address |-> <<o.device, x>>]
  <1>0. Absent \notin Range(o.hdPaths)
    BY OptionsAssumption
  <1>1. ASSUME NEW path, NEW index, NEW s
        PROVE  Gives(HardwareSigner(o.device, path, index), s)
                 <=> s = IF path # Absent THEN Signer(path) ELSE Signer(index)
    <2> DEFINE r == HardwareSigner(o.device, path, index)
               x == [kind |-> o.device, address |-> <<o.device, IF path # Absent THEN path ELSE index>>]
    <2>1. "pending" \notin DOMAIN r /\ r.signer = x
      BY HardwareMeans
    <2>2. x = IF path # Absent THEN Signer(path) ELSE Signer(index)
      OBVIOUS
    <2> HIDE DEF r, x, Signer
    <2>3. Gives(r, s) <=> s = x
      BY <2>1 DEF Gives
    <2> QED BY <2>2, <2>3 DEF r
  <1>2. CASE o.device = Absent
    <2>1. DeviceResults(o) = <<>> /\ DeviceSigners(o) = {} /\ Range(<<>>) = {}
      BY <1>2 DEF DeviceResults, DeviceSigners, Range
    <2> QED BY <2>1 DEF AreFor
  <1>3. CASE o.device # Absent /\ o.device = "ledger" /\ Len(o.hdPaths) > 1
    <2>1. DeviceResults(o) = <<Fail("one_signer")>>
      BY <1>3 DEF DeviceResults
    <2>2. (\A x : Range(<<x>>) = {x}) /\ ~Fail("one_signer").ok
      <3>1. \A x : Range(<<x>>) = {x}
        BY DEF Range
      <3> QED BY <3>1 DEF Fail
    <2> QED BY <2>1, <2>2 DEF AreFor
  <1> DEFINE Many == o.device = "ledger" /\ Len(o.hdPaths) > 1
  <1>4. CASE o.device # Absent /\ ~Many /\ o.hdPaths # <<>>
    <2> DEFINE results == [i \in DOMAIN o.hdPaths |-> HardwareSigner(o.device, o.hdPaths[i], "0")]
               signers == [i \in DOMAIN o.hdPaths |-> Signer(o.hdPaths[i])]
    <2>1. DeviceResults(o) = results
      BY <1>4 DEF DeviceResults
    <2>2. DeviceSigners(o) = Range(signers)
      BY <1>4 DEF DeviceSigners, Range
    <2>3. \A i \in DOMAIN o.hdPaths : \A s : Gives(results[i], s) <=> s = signers[i]
      <3>1. \A i \in DOMAIN o.hdPaths : o.hdPaths[i] # Absent
        BY <1>0 DEF Range
      <3> HIDE DEF Signer
      <3> QED BY <1>1, <3>1
    <2>4. DOMAIN results = DOMAIN signers /\ DOMAIN signers = DOMAIN o.hdPaths
      OBVIOUS
    <2> HIDE DEF results, signers
    <2> QED BY <2>1, <2>2, <2>3, <2>4, OneEach
  <1>5. CASE o.device # Absent /\ ~Many /\ o.hdPaths = <<>> /\ o.indexes # <<>>
    <2> DEFINE results == [i \in DOMAIN o.indexes |-> HardwareSigner(o.device, Absent, o.indexes[i])]
               signers == [i \in DOMAIN o.indexes |-> Signer(o.indexes[i])]
    <2>1. DeviceResults(o) = results
      BY <1>5 DEF DeviceResults
    <2>2. DeviceSigners(o) = Range(signers)
      BY <1>5 DEF DeviceSigners, Range
    <2>3. \A i \in DOMAIN o.indexes : \A s : Gives(results[i], s) <=> s = signers[i]
      <3> HIDE DEF Signer
      <3> QED BY <1>1
    <2>4. DOMAIN results = DOMAIN signers /\ DOMAIN signers = DOMAIN o.indexes
      OBVIOUS
    <2> HIDE DEF results, signers
    <2> QED BY <2>1, <2>2, <2>3, <2>4, OneEach
  <1>6. CASE o.device # Absent /\ ~Many /\ o.hdPaths = <<>> /\ o.indexes = <<>>
    <2> DEFINE r == HardwareSigner(o.device, Absent, "0")
    <2>1. DeviceResults(o) = <<r>>
      BY <1>6 DEF DeviceResults
    <2>2. DeviceSigners(o) = {Signer("0")}
      BY <1>6 DEF DeviceSigners
    <2>3. \A s : Gives(r, s) <=> s = Signer("0")
      BY <1>1
    <2> HIDE DEF r, Signer
    <2>4. Range(<<r>>) = {r}
      BY DEF Range
    <2> QED BY <2>1, <2>2, <2>3, <2>4 DEF AreFor
  <1> QED BY <1>2, <1>3, <1>4, <1>5, <1>6

LEMMA KeystoresAsked ==
    ASSUME NEW o
    PROVE  AreFor(KeystoreResults(o), {Local(o.keystores[i].key) : i \in DOMAIN o.keystores})
  <1> DEFINE signers == [i \in DOMAIN o.keystores |-> Local(o.keystores[i].key)]
             results == KeystoreResults(o)
  <1>1. ASSUME NEW i \in DOMAIN o.keystores, results[i].ok, NEW s PROVE Gives(results[i], s) <=> s = signers[i]
    <2>1. results[i] = CreateKeystoreSigner(o.keystores[i], AtOr(o.passwords, i, Absent), AtOr(o.passwordFiles, i, Absent))
      BY DEF KeystoreResults
    <2>2. \/ results[i] = Ok(Local(o.keystores[i].key))
          \/ results[i] = [ok |-> TRUE, pending |-> o.keystores[i]]
      BY <1>1, <2>1, KeystoreSigner
    <2> HIDE DEF results
    <2> QED BY <2>2, OkGives, PendingGives
  <1>2. DOMAIN results = DOMAIN signers /\ DOMAIN signers = DOMAIN o.keystores
    BY DEF KeystoreResults
  <1>3. Range(signers) = {Local(o.keystores[i].key) : i \in DOMAIN o.keystores}
    BY DEF Range
  <1> HIDE DEF results, signers
  <1>4. AreFor(results, Range(signers))
    BY <1>1, <1>2, OneEach
  <1> QED BY <1>3, <1>4 DEF results

LEMMA KeysAsked ==
    ASSUME NEW o
    PROVE  AreFor(KeyResults(o), {Local(k) : k \in Range(o.privateKeys)})
  <1> DEFINE signers == [i \in DOMAIN o.privateKeys |-> Local(o.privateKeys[i])]
             results == KeyResults(o)
  <1>1. ASSUME NEW i \in DOMAIN o.privateKeys, results[i].ok, NEW s PROVE Gives(results[i], s) <=> s = signers[i]
    <2>1. results[i] = PrivateKeySigner(o.privateKeys[i])
      BY DEF KeyResults
    <2>2. results[i] = Ok(Local(o.privateKeys[i]))
      BY <1>1, <2>1, KeySigner
    <2> HIDE DEF results
    <2> QED BY <2>2, OkGives
  <1>2. DOMAIN results = DOMAIN signers /\ DOMAIN signers = DOMAIN o.privateKeys
    BY DEF KeyResults
  <1>3. Range(signers) = {Local(k) : k \in Range(o.privateKeys)}
    BY DEF Range
  <1> HIDE DEF results, signers
  <1>4. AreFor(results, Range(signers))
    BY <1>1, <1>2, OneEach
  <1> QED BY <1>3, <1>4 DEF results

LEMMA MnemonicsAsked ==
    ASSUME NEW o
    PROVE  AreFor(MnemonicResults(o), {PhraseAt(o, i) : i \in DOMAIN o.mnemonics})
  <1> DEFINE signers == [i \in DOMAIN o.mnemonics |-> PhraseAt(o, i)]
             results == MnemonicResults(o)
  <1>1. ASSUME NEW i \in DOMAIN o.mnemonics, results[i].ok, NEW s PROVE Gives(results[i], s) <=> s = signers[i]
    <2> DEFINE path == AtOr(o.hdPaths, i, Absent)
               index == AtOr(o.indexes, i, "0")
               pass == AtOr(o.passphrases, i, Absent)
    <2>1. results[i] = MnemonicSigner(o.mnemonics[i], pass, path, index)
      BY DEF MnemonicResults
    <2>2. path # Absent => path = o.hdPaths[i]
      BY DEF AtOr
    <2>3. signers[i] = [kind |-> "local",
                        address |-> <<o.mnemonics[i], pass, IF path # Absent THEN path ELSE index>>]
      BY <2>2 DEF PhraseAt
    <2> HIDE DEF path, index, pass, results, signers
    <2>4. results[i] = Ok(signers[i])
      BY <1>1, <2>1, <2>3 DEF MnemonicSigner, Fail
    <2> QED BY <2>4, OkGives
  <1>2. DOMAIN results = DOMAIN signers /\ DOMAIN signers = DOMAIN o.mnemonics
    BY DEF MnemonicResults
  <1>3. Range(signers) = {PhraseAt(o, i) : i \in DOMAIN o.mnemonics}
    BY DEF Range
  <1> HIDE DEF results, signers
  <1>4. AreFor(results, Range(signers))
    BY <1>1, <1>2, OneEach
  <1> QED BY <1>3, <1>4 DEF results

LEMMA InteractivesAsked ==
    ASSUME NEW o
    PROVE  AreFor(InteractiveResults(o), {Local(o.interactives[i]) : i \in DOMAIN o.interactives})
  <1> DEFINE signers == [i \in DOMAIN o.interactives |-> Local(o.interactives[i])]
             results == InteractiveResults(o)
  <1>1. ASSUME NEW i \in DOMAIN o.interactives, NEW s PROVE Gives(results[i], s) <=> s = signers[i]
    <2> DEFINE prompt == [kind |-> "interactive", key |-> o.interactives[i]]
    <2>1. results[i] = [ok |-> TRUE, pending |-> prompt] /\ prompt.key = o.interactives[i]
      BY DEF InteractiveResults
    <2> HIDE DEF results, prompt
    <2> QED BY <2>1, PendingGives
  <1>2. DOMAIN results = DOMAIN signers /\ DOMAIN signers = DOMAIN o.interactives
    BY DEF InteractiveResults
  <1>3. Range(signers) = {Local(o.interactives[i]) : i \in DOMAIN o.interactives}
    BY DEF Range
  <1> HIDE DEF results, signers
  <1>4. AreFor(results, Range(signers))
    BY <1>1, <1>2, OneEach
  <1> QED BY <1>3, <1>4 DEF results

\* The results of get_multi_wallet are the signers its options ask for.
LEMMA MadeAsAsked ==
    ASSUME NEW o \in MultiOpts
    PROVE  AreFor(MultiResults(o), AskedFor(o))
  <1> DEFINE A == {Local(o.keystores[i].key) : i \in DOMAIN o.keystores}
             B == {Local(k) : k \in Range(o.privateKeys)}
             C == {PhraseAt(o, i) : i \in DOMAIN o.mnemonics}
             D == {Local(o.interactives[i]) : i \in DOMAIN o.interactives}
  <1>1. AskedFor(o) = DeviceSigners(o) \cup A \cup B \cup C \cup D
    <2>1. {Local(k) : k \in LocalKeys(o) \cup Range(o.privateKeys)} = A \cup B \cup D
      BY DEF LocalKeys
    <2> QED BY <2>1 DEF AskedFor
  <1>2. /\ AreFor(DeviceResults(o), DeviceSigners(o)) /\ AreFor(KeystoreResults(o), A)
        /\ AreFor(KeyResults(o), B) /\ AreFor(MnemonicResults(o), C) /\ AreFor(InteractiveResults(o), D)
    BY DevicesAsked, KeystoresAsked, KeysAsked, MnemonicsAsked, InteractivesAsked
  <1> HIDE DEF A, B, C, D
  <1> QED BY <1>1, <1>2, ResultsOf DEF AreFor

PendingAt(o) == {i \in DOMAIN MultiResults(o) : "pending" \in DOMAIN MultiResults(o)[i]}

\* Nothing is lost before it is unlocked; what is missing afterwards comes after the
\* place of a signer that could not be unlocked.
MultiInv ==
    /\ \/ multi \in {[st |-> "none"], [st |-> "failed"]}
       \/ multi = [st |-> "ready", opts |-> multi.opts, last |-> multi.last, failed |-> multi.failed,
                   pending |-> multi.pending, signers |-> multi.signers]
    /\ multi.st = "ready" =>
          /\ multi.opts \in MultiOpts
          /\ multi.signers \subseteq AskedFor(multi.opts) \cup {Added}
          /\ multi.last = "none" =>
                /\ multi.failed = NoneFailed
                /\ multi.pending = [i \in PendingAt(multi.opts) |-> MultiResults(multi.opts)[i].pending]
                /\ \A i \in PendingAt(multi.opts) : Local(multi.pending[i].key) \in AskedFor(multi.opts)
                /\ \A k \in LocalKeys(multi.opts) : Local(k) \in multi.signers => Given(multi.opts, k)
                /\ \A s \in AskedFor(multi.opts) \ multi.signers : WaitsFrom(multi.opts, s, 1)
          /\ multi.last # "none" =>
                /\ DOMAIN multi.pending = {}
                /\ \A s \in AskedFor(multi.opts) \ multi.signers :
                      multi.failed # NoneFailed /\ WaitsFrom(multi.opts, s, multi.failed)

LEMMA MultiComplete == MultiInv => SignersComplete
  BY DEF MultiInv, SignersComplete

LEMMA NotAdded == \A k : Local(k) # Added
  BY DEF Local, Added

LEMMA MultiWalletMade ==
    ASSUME multi = [st |-> "none"], NEW o \in MultiOpts, GetMultiWallet(o)
    PROVE  MultiInv'
  <1> DEFINE results == MultiResults(o)
             pending == [i \in PendingAt(o) |-> results[i].pending]
             signers == {results[i].signer : i \in DOMAIN results \ PendingAt(o)}
  <1>1. CASE \E i \in DOMAIN results : ~results[i].ok
    <2>1. multi' = [st |-> "failed"]
      BY <1>1 DEF GetMultiWallet
    <2> QED BY <2>1 DEF MultiInv
  <1>2. CASE \A i \in DOMAIN results : results[i].ok
    <2>1. multi' = [st |-> "ready", opts |-> o, last |-> "none", failed |-> NoneFailed,
                    pending |-> pending, signers |-> signers]
      BY <1>2 DEF GetMultiWallet, PendingAt
    <2>2. /\ \A r \in Range(results) : r.ok
          /\ \A i \in DOMAIN results : results[i] \in Range(results)
          /\ \A r \in Range(results) : \E i \in DOMAIN results : r = results[i]
      BY <1>2 DEF Range
    <2>3. ASSUME NEW s \in signers PROVE s \in AskedFor(o)
      <3>1. PICK i \in DOMAIN results : s = results[i].signer /\ "pending" \notin DOMAIN results[i]
        BY <2>3 DEF PendingAt
      <3> QED BY <2>2, <3>1, MadeAsAsked DEF AreFor, Gives
    <2>4. ASSUME NEW i \in PendingAt(o) PROVE Local(pending[i].key) \in AskedFor(o)
      BY <2>2, MadeAsAsked DEF AreFor, Gives, PendingAt
    <2>5. ASSUME NEW k, Local(k) \in signers PROVE Given(o, k)
      <3>1. PICK i \in DOMAIN results \ PendingAt(o) : results[i].signer = Local(k)
        BY <2>5
      <3>2. results[i] \in Range(results) /\ "pending" \notin DOMAIN results[i] /\ results[i].ok
        BY <2>2 DEF PendingAt
      <3> QED BY <3>1, <3>2, ResultSigner
    <2>6. ASSUME NEW s \in AskedFor(o) \ signers PROVE WaitsFrom(o, s, 1)
      <3>1. PICK r \in Range(results) : Gives(r, s)
        BY <2>2, MadeAsAsked DEF AreFor
      <3>2. PICK i \in DOMAIN results : r = results[i]
        BY <2>2
      <3>3. "pending" \in DOMAIN results[i] /\ s = Local(results[i].pending.key)
        BY <2>6, <3>1, <3>2 DEF Gives, PendingAt
      <3>4. i >= 1
        BY ResultsOf
      <3> QED BY <3>3, <3>4 DEF WaitsFrom
    <2> HIDE DEF signers
    <2>7. /\ multi'.st = "ready" /\ multi'.opts = o /\ multi'.last = "none" /\ multi'.failed = NoneFailed
          /\ multi'.pending = pending /\ multi'.signers = signers
          /\ multi' = [st |-> "ready", opts |-> multi'.opts, last |-> multi'.last, failed |-> multi'.failed,
                       pending |-> multi'.pending, signers |-> multi'.signers]
      <3> HIDE DEF pending
      <3> QED BY <2>1
    <2> QED BY <2>3, <2>4, <2>5, <2>6, <2>7 DEF MultiInv
  <1> QED BY <1>1, <1>2

LEMMA SignersUnlocked ==
    ASSUME MultiInv, Signers
    PROVE  MultiInv'
  <1>1. PICK failed \in DOMAIN multi.pending \cup {NoneFailed} :
          multi' = [multi EXCEPT !.pending = <<>>, !.signers = @ \cup UnlockedBefore(failed),
                                 !.last = IF failed = NoneFailed THEN "ok" ELSE "error",
                                 !.failed = IF failed = NoneFailed THEN @ ELSE failed]
    BY Zenon DEF Signers
  <1> DEFINE last == IF failed = NoneFailed THEN "ok" ELSE "error"
             now == IF failed = NoneFailed THEN multi.failed ELSE failed
             signers == multi.signers \cup UnlockedBefore(failed)
             o == multi.opts
  <1>2. multi.st = "ready" /\ multi = [st |-> "ready", opts |-> multi.opts, last |-> multi.last,
          failed |-> multi.failed, pending |-> multi.pending, signers |-> multi.signers]
    BY DEF Signers, MultiInv
  <1>3. multi' = [st |-> "ready", opts |-> o, last |-> last, failed |-> now, pending |-> <<>>, signers |-> signers]
    BY <1>1, <1>2
  <1>4. signers \subseteq AskedFor(o) \cup {Added}
    <2>1. CASE multi.last = "none"
      <3>1. \A i \in DOMAIN multi.pending : Local(multi.pending[i].key) \in AskedFor(o)
        BY <1>2, <2>1 DEF MultiInv
      <3> QED BY <1>2, <3>1 DEF MultiInv, UnlockedBefore, Drained
    <2>2. CASE multi.last # "none"
      BY <1>2, <2>2 DEF MultiInv, UnlockedBefore, Drained
    <2> QED BY <2>1, <2>2
  <1>5. ASSUME NEW s \in AskedFor(o) \ signers PROVE now # NoneFailed /\ WaitsFrom(o, s, now)
    <2>1. CASE multi.last = "none"
      <3>1. /\ multi.pending = [i \in PendingAt(o) |-> MultiResults(o)[i].pending]
            /\ WaitsFrom(o, s, 1) /\ o \in MultiOpts
        BY <1>2, <1>5, <2>1 DEF MultiInv
      <3>2. PICK i \in PendingAt(o) : s = Local(MultiResults(o)[i].pending.key)
        BY <3>1 DEF WaitsFrom, PendingAt
      <3>3. i \in DOMAIN multi.pending /\ s = Local(multi.pending[i].key) /\ i \notin Drained(failed)
        BY <1>5, <3>1, <3>2 DEF UnlockedBefore
      <3>4. failed # NoneFailed /\ ~(i < failed)
        BY <3>3 DEF Drained
      <3>5. i \in Nat /\ failed \in Nat
        BY <3>1, <3>2, <3>4, ResultsOf DEF PendingAt
      <3>6. now = failed /\ i >= now
        BY <3>4, <3>5
      <3> QED BY <3>2, <3>4, <3>6 DEF WaitsFrom, PendingAt
    <2>2. CASE multi.last # "none"
      <3>1. failed = NoneFailed /\ s \in AskedFor(o) \ multi.signers
        BY <1>2, <1>5, <2>2 DEF MultiInv
      <3> QED BY <1>2, <2>2, <3>1 DEF MultiInv
    <2> QED BY <2>1, <2>2
  <1>6. last # "none" /\ DOMAIN <<>> = {} /\ o \in MultiOpts
    BY <1>2 DEF MultiInv
  <1> HIDE DEF last, now, signers, o
  <1> QED BY <1>3, <1>4, <1>5, <1>6 DEF MultiInv

LEMMA SignerAdded ==
    ASSUME MultiInv, AddSigner
    PROVE  MultiInv'
  <1> DEFINE signers == multi.signers \cup {Added}
  <1>1. multi.st = "ready" /\ multi = [st |-> "ready", opts |-> multi.opts, last |-> multi.last,
          failed |-> multi.failed, pending |-> multi.pending, signers |-> multi.signers]
    BY DEF AddSigner, MultiInv
  <1>2. multi' = [st |-> "ready", opts |-> multi.opts, last |-> multi.last, failed |-> multi.failed,
                  pending |-> multi.pending, signers |-> signers]
    BY <1>1 DEF AddSigner
  <1>3. /\ \A k : Local(k) \in signers <=> Local(k) \in multi.signers
        /\ multi.signers \subseteq signers
        /\ multi.signers \subseteq AskedFor(multi.opts) \cup {Added} => signers \subseteq AskedFor(multi.opts) \cup {Added}
    BY NotAdded
  <1> HIDE DEF signers
  <1>4. /\ multi'.st = "ready" /\ multi'.opts = multi.opts /\ multi'.last = multi.last
        /\ multi'.failed = multi.failed /\ multi'.pending = multi.pending /\ multi'.signers = signers
    BY <1>2
  <1> QED BY <1>1, <1>2, <1>3, <1>4 DEF MultiInv

LEMMA SignersStep ==
    ASSUME SignerAsAsked, MultiInv, [ChooseNext \/ MultiNext \/ ChannelsNext]_walletVars
    PROVE  SignerAsAsked' /\ MultiInv'
  <1>1. ASSUME NEW o \in SingleOpts, ChooseSigner(o) PROVE SignerAsAsked' /\ MultiInv'
    <2>1. chosen' = [opts |-> o, result |-> MaybeSigner(o)] /\ multi' = multi
      BY <1>1 DEF ChooseSigner
    <2>2. chosen'.opts = o /\ chosen'.result = MaybeSigner(o)
      BY <2>1
    <2>3. SignerAsAsked'
      BY <2>2, ChosenAsAsked DEF SignerAsAsked
    <2> QED BY <2>1, <2>3 DEF MultiInv
  <1>2. ASSUME chosen' = chosen, MultiInv' PROVE SignerAsAsked' /\ MultiInv'
    BY <1>2 DEF SignerAsAsked
  <1>3. ASSUME multi.st = "none", NEW o \in MultiOpts, GetMultiWallet(o) PROVE SignerAsAsked' /\ MultiInv'
    <2>1. multi = [st |-> "none"]
      BY <1>3 DEF MultiInv
    <2> QED BY <1>2, <1>3, <2>1, MultiWalletMade DEF GetMultiWallet
  <1>4. CASE Signers
    <2>1. chosen' = chosen
      BY <1>4, Zenon DEF Signers
    <2> QED BY <1>2, <1>4, <2>1, SignersUnlocked
  <1>5. CASE AddSigner
    BY <1>2, <1>5, SignerAdded DEF AddSigner
  <1>6. ASSUME UNCHANGED <<chosen, multi>> PROVE SignerAsAsked' /\ MultiInv'
    BY <1>2, <1>6 DEF MultiInv
  <1>7. CASE ChannelsNext
    <2>1. UNCHANGED <<chosen, multi>>
      BY <1>7, Zenon DEF ChannelsNext, Find, UseCopy, OpenChannel, Upsert, Delete
    <2> QED BY <1>6, <2>1
  <1>8. CASE UNCHANGED walletVars
    BY <1>6, <1>8 DEF walletVars
  <1> QED BY <1>1, <1>3, <1>4, <1>5, <1>7, <1>8 DEF ChooseNext, MultiNext

\* For any options a program gets the signers they ask for and no others: one, by the
\* precedence of WalletOpts::maybe_signer, with an access key only for the account that
\* was meant; or several, where those that MultiWalletOpts::get_multi_wallet made but
\* MultiWallet::signers does not hand out are just the ones that were to be unlocked at
\* the place of one that failed, or after it.
THEOREM SignersAsAsked == WalletsSpec => []WalletsSound
  <1>1. WalletsInit => SignerAsAsked /\ MultiInv
    BY DEF WalletsInit, SignerAsAsked, MultiInv
  <1>2. SignerAsAsked /\ MultiInv /\ [ChooseNext \/ MultiNext \/ ChannelsNext]_walletVars
          => SignerAsAsked' /\ MultiInv'
    BY SignersStep
  <1>3. SignerAsAsked /\ MultiInv => WalletsSound
    BY MultiComplete DEF WalletsSound
  <1> QED BY <1>1, <1>2, <1>3, PTL DEF WalletsSpec

-----------------------------------------------------------------------------
(* Explorer: the cache file                                                *)

Items == {"data", "none"}

\* What an item of the cache claims about the contract is true of the time it was
\* asked for, and it is not kept for longer than the time to live.
Claim(item, asked, expiry) ==
    /\ item \in Items /\ asked \in Nat /\ expiry \in Nat
    /\ asked <= expClock /\ expiry <= expClock + Ttl
    /\ item = "data" => verified.is /\ verified.since <= asked
    /\ item = "none" /\ verified.is => asked <= verified.since

\* A block of the file, once it is written, or the hole before one.
SoundBlock(b) == b = Hole \/ (b.of = Size(b.item) /\ Claim(b.item, b.asked, b.expiry))

\* A process that writes is about to write a true item.
SoundCall(k) ==
    \/ k = NotCalling \/ k = [at |-> "ask"]
    \/ /\ k.at \in {"create", "write", "write_more"}
       /\ k = [at |-> k.at, item |-> k.item, asked |-> k.asked, expiry |-> k.expiry]
       /\ Claim(k.item, k.asked, k.expiry)

\* All blocks of the file and all writers are sound, whoever truncated or wrote it
\* in between: the claim is of blocks, since a file is torn at blocks.
CacheInv ==
    /\ expClock \in Nat /\ expKind \in {"abi", "sources"}
    /\ verified = [is |-> verified.is, since |-> verified.since]
    /\ verified.is \in BOOLEAN /\ verified.since \in Nat /\ verified.since <= expClock
    /\ cacheFile = [i \in 1..Len(cacheFile) |-> cacheFile[i]] /\ Len(cacheFile) \in Nat
    /\ \A i \in 1..Len(cacheFile) : SoundBlock(cacheFile[i])
    /\ expCall = [c \in Clients |-> expCall[c]]
    /\ \A c \in Clients : SoundCall(expCall[c])

\* What an answer puts into the cache is what the explorer said: contract_abi and
\* contract_source_code store nothing of an error.
LEMMA StoredTrue ==
    ASSUME NEW a \in Answers, NEW is \in BOOLEAN, Truthful(a, is), expKind \in {"abi", "sources"}
    PROVE  /\ FromAnswer(a).store \in {"nothing", "data", "none"}
           /\ FromAnswer(a).store = "data" => is
           /\ FromAnswer(a).store = "none" => ~is
  <1>1. /\ ContractAbi(a).store \in {"nothing", "data", "none"}
        /\ ContractAbi(a).store = "data" => a.says = "data"
        /\ ContractAbi(a).store = "none" => a.says = "not_verified"
    BY DEF ContractAbi, Failed, NotVerified
  <1>2. a.shape = "data" => a.says \in {"data", "not_verified"}
    BY SMTT(60) DEF Answers
  <1>3. SanitizeResponse("data", a).ok => a.shape = "data"
    BY DEF SanitizeResponse, Fits, Err
  <1>4. /\ ContractSourceCode(a).store \in {"nothing", "data", "none"}
        /\ ContractSourceCode(a).store = "data" => a.says = "data"
        /\ ContractSourceCode(a).store = "none" => a.says \in {"not_verified", "only_address"}
    BY <1>2, <1>3 DEF ContractSourceCode, Failed, NotVerified
  <1> QED BY <1>1, <1>4 DEF FromAnswer, Truthful

LEMMA WrittenAtMeans ==
    ASSUME NEW file, Len(file) \in Nat, NEW i \in {1, 2}, NEW block
    PROVE  LET new == WrittenAt(file, i, block)
           IN /\ Len(new) \in Nat
              /\ new = [j \in 1..Len(new) |-> new[j]]
              /\ \A j \in 1..Len(new) : \/ new[j] \in {block, Hole}
                                        \/ j \in 1..Len(file) /\ new[j] = file[j]
  <1> DEFINE n == IF Len(file) > i THEN Len(file) ELSE i
             new == [j \in 1..n |-> IF j = i THEN block ELSE IF j <= Len(file) THEN file[j] ELSE Hole]
  <1>1. n \in Nat /\ WrittenAt(file, i, block) = new
    BY DEF WrittenAt
  <1> HIDE DEF n
  <1>2. Len(new) = n
    BY <1>1
  <1> QED BY <1>1, <1>2

LEMMA LaterBound ==
    ASSUME NEW x \in Nat, NEW t \in Nat, NEW m \in Nat, NEW n \in Nat, m <= n
    PROVE  (x <= m => x <= n) /\ (x <= m + t => x <= n + t)
  OBVIOUS

\* The clock only makes a claim older.
LEMMA ClaimKept ==
    ASSUME NEW item, NEW asked, NEW expiry, Claim(item, asked, expiry),
           expClock \in Nat, expClock' \in Nat, expClock <= expClock',
           \/ verified' = verified
           \/ ~verified.is /\ verified'.is /\ verified'.since = expClock
    PROVE  Claim(item, asked, expiry)'
  <1>0. asked \in Nat /\ expiry \in Nat /\ asked <= expClock /\ expiry <= expClock + Ttl /\ Ttl \in Nat
    BY TimeAssumption DEF Claim
  <1>1. asked <= expClock' /\ expiry <= expClock' + Ttl
    BY <1>0, LaterBound
  <1>2. CASE verified' = verified
    BY <1>1, <1>2 DEF Claim
  <1>3. CASE ~verified.is /\ verified'.is /\ verified'.since = expClock
    BY <1>1, <1>3 DEF Claim
  <1> QED BY <1>2, <1>3

LEMMA CacheInvInit == ExplorerInit => CacheInv
  <1> SUFFICES ASSUME ExplorerInit PROVE CacheInv
    OBVIOUS
  <1>1. cacheFile = <<>> /\ Len(<<>>) = 0
    BY DEF ExplorerInit, NoFile
  <1> QED BY <1>1 DEF ExplorerInit, CacheInv, SoundCall

\* Time passes, or the contract is verified: no claim becomes false.
LEMMA OlderClaims ==
    ASSUME CacheInv, ExpTick \/ GetsVerified
    PROVE  CacheInv'
  <1>1. /\ expClock' \in Nat /\ expClock <= expClock' /\ cacheFile' = cacheFile
        /\ expCall' = expCall /\ expKind' = expKind
    BY DEF CacheInv, ExpTick, GetsVerified
  <1>2. \/ verified' = verified
        \/ ~verified.is /\ verified' = [is |-> TRUE, since |-> expClock] /\ expClock' = expClock
    BY DEF ExpTick, GetsVerified
  <1>3. \A item, asked, expiry : Claim(item, asked, expiry) => Claim(item, asked, expiry)'
    BY <1>1, <1>2, ClaimKept DEF CacheInv
  <1>4. \A b : SoundBlock(b) => SoundBlock(b)'
    BY <1>3 DEF SoundBlock
  <1>5. \A k : SoundCall(k) => SoundCall(k)'
    BY <1>3 DEF SoundCall
  <1>6. /\ verified' = [is |-> verified'.is, since |-> verified'.since]
        /\ verified'.is \in BOOLEAN /\ verified'.since \in Nat /\ verified'.since <= expClock'
    <2>1. CASE verified' = verified
      BY <1>1, <2>1, LaterBound DEF CacheInv
    <2>2. CASE verified' = [is |-> TRUE, since |-> expClock] /\ expClock' = expClock
      BY <1>1, <2>2 DEF CacheInv
    <2> QED BY <1>2, <2>1, <2>2
  <1> QED BY <1>1, <1>4, <1>5, <1>6 DEF CacheInv

\* One process changes what it does, and perhaps the file.
LEMMA CallKept ==
    ASSUME CacheInv, NEW c \in Clients, NEW k, SoundCall(k),
           expCall' = [expCall EXCEPT ![c] = k], UNCHANGED <<expClock, verified, expKind>>,
           /\ cacheFile' = [i \in 1..Len(cacheFile') |-> cacheFile'[i]] /\ Len(cacheFile') \in Nat
           /\ \A i \in 1..Len(cacheFile') : SoundBlock(cacheFile'[i])
    PROVE  CacheInv'
  <1>1. \A d \in Clients : SoundCall(expCall'[d])
    BY DEF CacheInv
  <1>2. expCall' = [d \in Clients |-> expCall'[d]]
    BY DEF CacheInv
  <1>3. \A i \in 1..Len(cacheFile') : SoundBlock(cacheFile[i])'
    BY DEF SoundBlock, Claim
  <1>4. \A d \in Clients : SoundCall(expCall[d])'
    BY <1>1 DEF SoundCall, Claim
  <1> QED BY <1>2, <1>3, <1>4 DEF CacheInv

LEMMA AnsweredSound ==
    ASSUME CacheInv, NEW c \in Clients, NEW a \in Answers, Answered(c, a)
    PROVE  CacheInv'
  <1> DEFINE r == FromAnswer(a)
             k == IF r.store = "nothing" THEN NotCalling
                  ELSE [at |-> "create", item |-> r.store, asked |-> expClock, expiry |-> 0]
  <1>1. /\ expCall' = [expCall EXCEPT ![c] = k] /\ cacheFile' = cacheFile
        /\ UNCHANGED <<expClock, verified, expKind>> /\ Truthful(a, verified.is)
    BY DEF Answered
  <1>2. /\ r.store \in {"nothing", "data", "none"}
        /\ r.store = "data" => verified.is
        /\ r.store = "none" => ~verified.is
    BY <1>1, StoredTrue DEF CacheInv
  <1> HIDE DEF r
  <1>3. SoundCall(k)
    <2>1. CASE r.store = "nothing"
      BY <2>1 DEF SoundCall
    <2>2. CASE r.store # "nothing"
      <3>1. Claim(r.store, expClock, 0)
        BY <1>2, <2>2, TimeAssumption DEF CacheInv, Claim, Items
      <3> QED BY <2>2, <3>1 DEF SoundCall
    <2> QED BY <2>1, <2>2
  <1> HIDE DEF k
  <1> QED BY <1>1, <1>3, CallKept DEF CacheInv

LEMMA CreateFileSound ==
    ASSUME CacheInv, NEW c \in Clients, CreateFile(c)
    PROVE  CacheInv'
  <1> DEFINE k == [at |-> "write", item |-> expCall[c].item, asked |-> expCall[c].asked,
                   expiry |-> expClock + Ttl]
  <1>1. expCall[c].at = "create" /\ UNCHANGED <<expClock, verified, expKind>>
    BY DEF CreateFile
  <1>2. /\ expCall[c] = [at |-> "create", item |-> expCall[c].item, asked |-> expCall[c].asked,
                         expiry |-> expCall[c].expiry]
        /\ Claim(expCall[c].item, expCall[c].asked, expCall[c].expiry)
    BY <1>1 DEF CacheInv, SoundCall, NotCalling
  <1>3. CASE /\ cacheFile' = Created(cacheFile)
             /\ expCall' = [expCall EXCEPT ![c].at = "write", ![c].expiry = expClock + Ttl]
    <2>1. expCall' = [expCall EXCEPT ![c] = k]
      <3>1. [[expCall[c] EXCEPT !.at = "write"] EXCEPT !.expiry = expClock + Ttl] = k
        <4>1. [expCall[c] EXCEPT !.at = "write"] =
                [at |-> "write", item |-> expCall[c].item, asked |-> expCall[c].asked,
                 expiry |-> expCall[c].expiry]
          BY <1>2
        <4> DEFINE w == [expCall[c] EXCEPT !.at = "write"]
        <4>2. /\ DOMAIN w = {"at", "item", "asked", "expiry"}
              /\ w.at = "write" /\ w.item = expCall[c].item /\ w.asked = expCall[c].asked
          BY <4>1
        <4> HIDE DEF w
        <4>3. [w EXCEPT !.expiry = expClock + Ttl] = k
          BY <4>2
        <4> QED BY <4>3 DEF w
      <3>2. expCall' = [expCall EXCEPT ![c] = [[expCall[c] EXCEPT !.at = "write"]
                                                 EXCEPT !.expiry = expClock + Ttl]]
        BY <1>3 DEF CacheInv
      <3> QED BY <3>1, <3>2
    <2>2. Claim(k.item, k.asked, k.expiry)
      BY <1>2, TimeAssumption DEF CacheInv, Claim
    <2>3. SoundCall(k)
      BY <2>2 DEF SoundCall
    <2>4. Len(<<>>) = 0 /\ <<>> = [i \in 1..0 |-> <<>>[i]]
      OBVIOUS
    <2>5. cacheFile' = <<>>
      BY <1>3 DEF Created, NoFile
    <2> HIDE DEF k
    <2>6. /\ cacheFile' = [i \in 1..Len(cacheFile') |-> cacheFile'[i]] /\ Len(cacheFile') \in Nat
          /\ \A i \in 1..Len(cacheFile') : SoundBlock(cacheFile'[i])
      BY <2>4, <2>5
    <2> QED BY <1>1, <2>1, <2>3, <2>6, CallKept
  <1>4. CASE expCall' = [expCall EXCEPT ![c] = NotCalling] /\ cacheFile' = cacheFile
    <2>1. SoundCall(NotCalling)
      BY DEF SoundCall
    <2> QED BY <1>1, <1>4, <2>1, CallKept DEF CacheInv
  <1> QED BY <1>3, <1>4 DEF CreateFile

LEMMA WriteBlockSound ==
    ASSUME CacheInv, NEW c \in Clients, WriteBlock(c)
    PROVE  CacheInv'
  <1> DEFINE i == IF expCall[c].at = "write" THEN 1 ELSE 2
             k == IF i = Size(expCall[c].item) THEN NotCalling
                  ELSE [at |-> "write_more", item |-> expCall[c].item, asked |-> expCall[c].asked,
                        expiry |-> expCall[c].expiry]
  <1>1. /\ expCall[c].at \in {"write", "write_more"} /\ UNCHANGED <<expClock, verified, expKind>>
        /\ cacheFile' = WrittenAt(cacheFile, i, Block(c, i))
        /\ expCall' = [expCall EXCEPT ![c] = IF i = Size(@.item) THEN NotCalling
                                            ELSE [@ EXCEPT !.at = "write_more"]]
    BY DEF WriteBlock, Writing
  <1>2. /\ expCall[c] = [at |-> expCall[c].at, item |-> expCall[c].item, asked |-> expCall[c].asked,
                         expiry |-> expCall[c].expiry]
        /\ Claim(expCall[c].item, expCall[c].asked, expCall[c].expiry)
    BY <1>1 DEF CacheInv, SoundCall, NotCalling
  <1>3. expCall' = [expCall EXCEPT ![c] = k]
    <2>1. [expCall[c] EXCEPT !.at = "write_more"] =
            [at |-> "write_more", item |-> expCall[c].item, asked |-> expCall[c].asked,
             expiry |-> expCall[c].expiry]
      BY <1>2
    <2> QED BY <1>1, <2>1 DEF CacheInv
  <1>4. SoundCall(k)
    BY <1>2 DEF SoundCall
  <1>5. SoundBlock(Block(c, i)) /\ SoundBlock(Hole)
    BY <1>2 DEF SoundBlock, Block
  <1>6. i \in {1, 2}
    OBVIOUS
  <1> HIDE DEF i, k
  <1>7. /\ Len(cacheFile') \in Nat
        /\ cacheFile' = [j \in 1..Len(cacheFile') |-> cacheFile'[j]]
        /\ \A j \in 1..Len(cacheFile') : \/ cacheFile'[j] \in {Block(c, i), Hole}
                                         \/ j \in 1..Len(cacheFile) /\ cacheFile'[j] = cacheFile[j]
    BY <1>1, <1>6, WrittenAtMeans DEF CacheInv
  <1>8. \A j \in 1..Len(cacheFile') : SoundBlock(cacheFile'[j])
    BY <1>5, <1>7 DEF CacheInv
  <1> QED BY <1>1, <1>3, <1>4, <1>7, <1>8, CallKept

LEMMA CacheInvStep == CacheInv /\ [ExplorerNext \/ PlainCallNext]_expVars => CacheInv'
  <1> SUFFICES ASSUME CacheInv, [ExplorerNext \/ PlainCallNext]_expVars PROVE CacheInv'
    OBVIOUS
  <1>1. ASSUME NEW c \in Clients, LookUp(c) \/ ClientDies(c) PROVE CacheInv'
    <2>1. PICK k \in {NotCalling, [at |-> "ask"]} : expCall' = [expCall EXCEPT ![c] = k]
      BY <1>1 DEF LookUp, ClientDies
    <2>2. SoundCall(k)
      BY DEF SoundCall
    <2>3. UNCHANGED <<expClock, verified, expKind, cacheFile>>
      BY <1>1 DEF LookUp, ClientDies
    <2> QED BY <2>1, <2>2, <2>3, CallKept DEF CacheInv
  <1>2. ASSUME UNCHANGED <<expClock, verified, expKind, cacheFile, expCall>> PROVE CacheInv'
    <2>1. \A i \in 1..Len(cacheFile) : SoundBlock(cacheFile[i])'
      BY <1>2 DEF CacheInv, SoundBlock, Claim
    <2>2. \A c \in Clients : SoundCall(expCall[c])'
      BY <1>2 DEF CacheInv, SoundCall, Claim
    <2> QED BY <1>2, <2>1, <2>2 DEF CacheInv
  <1>3. ASSUME PlainCallNext \/ UNCHANGED expVars
        PROVE  UNCHANGED <<expClock, verified, expKind, cacheFile, expCall>>
    BY <1>3 DEF PlainCallNext, PlainCall, WriteTree, MakeClient, expVars
  <1>4. CASE ExplorerNext
    BY <1>1, <1>4, OlderClaims, AnsweredSound, CreateFileSound, WriteBlockSound DEF ExplorerNext
  <1> QED BY <1>2, <1>3, <1>4

\* A file that was created while no other process was writing has the blocks of one
\* write, of the only process that still writes it.
OneWrite(file) == \A i \in DOMAIN file : file[i] = [file[1] EXCEPT !.part = i]
AloneInv ==
    alone =>
        /\ OneWrite(cacheFile)
        /\ \A c, d \in Clients : Writing(c) /\ Writing(d) => c = d
        /\ \A c \in Clients : expCall[c].at = "write" => cacheFile = <<>>
        /\ \A c \in Clients : expCall[c].at = "write_more" =>
              cacheFile = <<Block(c, 1)>> /\ Size(expCall[c].item) = 2

\* Processes that begin or end nothing but reading.
LEMMA AloneKept ==
    ASSUME AloneInv, cacheFile' = cacheFile, alone' = alone,
           \A c \in Clients : expCall'[c] = expCall[c] \/ expCall'[c].at \notin {"write", "write_more"}
    PROVE  AloneInv'
  BY DEF AloneInv, OneWrite, Writing, Block

LEMMA CreateAlone ==
    ASSUME CacheInv, AloneInv, NEW c \in Clients, CreateFile(c)
    PROVE  AloneInv'
  <1>1. CASE /\ cacheFile' = Created(cacheFile) /\ alone' = (\A d \in Clients \ {c} : ~Writing(d))
             /\ expCall' = [expCall EXCEPT ![c].at = "write", ![c].expiry = expClock + Ttl]
    <2>1. cacheFile' = <<>> /\ \A d \in Clients \ {c} : expCall'[d] = expCall[d]
      BY <1>1 DEF CacheInv, Created, NoFile
    <2>2. expCall'[c].at = "write"
      <3>1. /\ expCall[c] = [at |-> expCall[c].at, item |-> expCall[c].item, asked |-> expCall[c].asked,
                             expiry |-> expCall[c].expiry]
        BY DEF CreateFile, CacheInv, SoundCall, NotCalling
      <3>2. expCall'[c] = [[expCall[c] EXCEPT !.at = "write"] EXCEPT !.expiry = expClock + Ttl]
        BY <1>1 DEF CacheInv
      <3>3. [expCall[c] EXCEPT !.at = "write"] =
              [at |-> "write", item |-> expCall[c].item, asked |-> expCall[c].asked, expiry |-> expCall[c].expiry]
        BY <3>1
      <3> QED BY <3>2, <3>3
    <2>3. OneWrite(<<>>)
      BY DEF OneWrite
    <2>4. ASSUME alone' PROVE \A d \in Clients \ {c} : ~Writing(d)'
      BY <1>1, <2>1, <2>4 DEF Writing
    <2> QED BY <2>1, <2>2, <2>3, <2>4 DEF AloneInv, Writing
  <1>2. CASE expCall' = [expCall EXCEPT ![c] = NotCalling] /\ UNCHANGED <<cacheFile, alone>>
    <2>1. \A d \in Clients : expCall'[d] = expCall[d] \/ expCall'[d].at \notin {"write", "write_more"}
      BY <1>2 DEF CacheInv, NotCalling
    <2> QED BY <1>2, <2>1, AloneKept
  <1> QED BY <1>1, <1>2 DEF CreateFile

LEMMA WriteAlone ==
    ASSUME CacheInv, AloneInv, NEW c \in Clients, WriteBlock(c)
    PROVE  AloneInv'
  <1> DEFINE i == IF expCall[c].at = "write" THEN 1 ELSE 2
             more == [expCall[c] EXCEPT !.at = "write_more"]
             last == i = Size(expCall[c].item)
             first == Block(c, 1)
  <1>1. /\ Writing(c) /\ alone' = alone
        /\ cacheFile' = WrittenAt(cacheFile, i, Block(c, i))
        /\ expCall' = [expCall EXCEPT ![c] = IF last THEN NotCalling ELSE more]
    BY DEF WriteBlock
  <1>2. /\ expCall'[c] = IF last THEN NotCalling ELSE more
        /\ \A d \in Clients \ {c} : expCall'[d] = expCall[d]
    BY <1>1 DEF CacheInv
  <1>3. expCall[c] = [at |-> expCall[c].at, item |-> expCall[c].item, asked |-> expCall[c].asked,
                      expiry |-> expCall[c].expiry]
    BY <1>1 DEF CacheInv, SoundCall, Writing, NotCalling
  <1>4. more = [at |-> "write_more", item |-> expCall[c].item, asked |-> expCall[c].asked, expiry |-> expCall[c].expiry]
    BY <1>3
  <1>5. SUFFICES ASSUME alone PROVE AloneInv'
    BY <1>1 DEF AloneInv
  <1>6. \A d \in Clients \ {c} : ~Writing(d) /\ ~Writing(d)'
    BY <1>1, <1>2, <1>5 DEF AloneInv, Writing
  <1>7. CASE expCall[c].at = "write"
    <2>1. cacheFile = <<>> /\ i = 1
      BY <1>5, <1>7 DEF AloneInv
    <2>2. cacheFile' = <<first>>
      <3> HIDE DEF first
      <3>1. WrittenAt(<<>>, 1, first) = <<first>>
        BY DEF WrittenAt
      <3> QED BY <1>1, <2>1, <3>1 DEF first
    <2>3. OneWrite(<<first>>)
      BY DEF OneWrite, Block
    <2>4. ~last => Block(c, 1)' = first /\ Size(expCall'[c].item) = 2
      BY <1>2, <1>4, <2>1 DEF Block, Size
    <2>5. expCall'[c].at # "write" /\ (expCall'[c].at = "write_more" => ~last)
      BY <1>2, <1>4 DEF NotCalling
    <2> HIDE DEF first, last
    <2> QED BY <1>6, <2>2, <2>3, <2>4, <2>5 DEF AloneInv, Writing
  <1>8. CASE expCall[c].at = "write_more"
    <2> DEFINE second == Block(c, 2)
    <2>1. cacheFile = <<first>> /\ i = 2
      BY <1>5, <1>8 DEF AloneInv
    <2>2. cacheFile' = <<first, second>>
      <3> HIDE DEF first, second
      <3>1. WrittenAt(<<first>>, 2, second) = <<first, second>>
        BY DEF WrittenAt
      <3> QED BY <1>1, <2>1, <3>1 DEF second
    <2>3. OneWrite(<<first, second>>)
      <3>1. first = [first EXCEPT !.part = 1] /\ second = [first EXCEPT !.part = 2]
        BY DEF Block
      <3> HIDE DEF first, second
      <3> QED BY <3>1 DEF OneWrite
    <2>4. expCall'[c].at \notin {"write", "write_more"}
      <3>1. last
        BY <1>5, <1>8, <2>1 DEF AloneInv
      <3> QED BY <1>2, <3>1 DEF NotCalling
    <2> HIDE DEF first, second, last
    <2> QED BY <1>6, <2>2, <2>3, <2>4 DEF AloneInv, Writing
  <1> QED BY <1>1, <1>7, <1>8 DEF Writing

LEMMA AloneStep ==
    ASSUME CacheInv, AloneInv, [ExplorerNext \/ PlainCallNext]_expVars
    PROVE  AloneInv'
  <1>1. ASSUME NEW c \in Clients, LookUp(c) \/ ClientDies(c) \/ \E a \in Answers : Answered(c, a) PROVE AloneInv'
    <2>1. /\ cacheFile' = cacheFile /\ alone' = alone
          /\ \E k : expCall' = [expCall EXCEPT ![c] = k] /\ k.at \notin {"write", "write_more"}
      BY <1>1 DEF LookUp, ClientDies, Answered, NotCalling
    <2>2. \A d \in Clients : expCall'[d] = expCall[d] \/ expCall'[d].at \notin {"write", "write_more"}
      BY <2>1 DEF CacheInv
    <2> QED BY <2>1, <2>2, AloneKept
  <1>2. ASSUME ExpTick \/ GetsVerified PROVE AloneInv'
    <2>1. cacheFile' = cacheFile /\ alone' = alone /\ expCall' = expCall
      BY <1>2 DEF ExpTick, GetsVerified
    <2> QED BY <2>1, AloneKept
  <1>3. ASSUME PlainCallNext \/ UNCHANGED expVars PROVE AloneInv'
    <2>1. cacheFile' = cacheFile /\ alone' = alone /\ expCall' = expCall
      BY <1>3 DEF PlainCallNext, PlainCall, WriteTree, MakeClient, expVars
    <2> QED BY <2>1, AloneKept
  <1>4. ASSUME NEW c \in Clients, CreateFile(c) \/ WriteBlock(c) PROVE AloneInv'
    BY <1>4, CreateAlone, WriteAlone
  <1> QED BY <1>1, <1>2, <1>3, <1>4 DEF ExplorerNext

\* However the writes of any number of processes and their deaths fall, a cache hit
\* (Cache::get after any interleaving of Cache::set) has only blocks that are true of
\* when they were asked for, as many as the item has, and has not expired; and of one
\* write they all are, unless another process was writing when the file was created.
THEOREM CacheHitsTrue == ExplorerSpec => []CacheServesAnswers
  <1>1. CacheInv /\ AloneInv => CacheServesAnswers
    <2> SUFFICES ASSUME CacheInv, AloneInv, CacheHit(cacheFile) PROVE CacheServesAnswers
      BY DEF CacheServesAnswers
    <2> DEFINE first == cacheFile[1]
    <2>1. Len(cacheFile) \in Nat /\ DOMAIN cacheFile = 1..Len(cacheFile)
      BY DEF CacheInv
    <2>2. 1 \in 1..Len(cacheFile)
      <3>1. cacheFile # <<>>
        BY DEF CacheHit, Parses, NoFile
      <3>2. Len(cacheFile) # 0
        BY <3>1 DEF CacheInv
      <3> QED BY <2>1, <3>2
    <2>3. first.of = Len(cacheFile) /\ expClock < first.expiry
      BY <2>1, <2>2 DEF CacheHit, Parses
    <2>4. ASSUME NEW i \in DOMAIN cacheFile
          PROVE  /\ cacheFile[i].of = Size(cacheFile[i].item)
                 /\ Claim(cacheFile[i].item, cacheFile[i].asked, cacheFile[i].expiry)
      <3>1. cacheFile[i].part = i /\ i # 0
        BY <2>1 DEF CacheHit, Parses
      <3>2. cacheFile[i] # Hole
        BY <2>1, <3>1 DEF Hole
      <3> QED BY <2>1, <3>2 DEF CacheInv, SoundBlock
    <2>5. Len(cacheFile) = Size(first.item)
      BY <2>1, <2>2, <2>3, <2>4
    <2>6. \A i \in DOMAIN cacheFile : cacheFile[i].item \in {"data", "none"} /\ TrueBlock(cacheFile[i])
      BY <2>4 DEF Claim, TrueBlock, Items
    <2>7. alone => \A i \in DOMAIN cacheFile : cacheFile[i] = [cacheFile[1] EXCEPT !.part = i]
      BY DEF AloneInv, OneWrite
    <2> QED BY <2>3, <2>5, <2>6, <2>7 DEF CacheServesAnswers
  <1>2. ExplorerInit => AloneInv
    <2>1. DOMAIN <<>> = {}
      OBVIOUS
    <2> QED BY <2>1 DEF ExplorerInit, NoFile, AloneInv, OneWrite, Writing, NotCalling
  <1>3. CacheInv /\ AloneInv /\ [ExplorerNext \/ PlainCallNext]_expVars => AloneInv'
    BY AloneStep
  <1> QED BY <1>1, <1>2, <1>3, CacheInvInit, CacheInvStep, PTL DEF ExplorerSpec

-----------------------------------------------------------------------------
(* Explorer: the calls without a cache                                     *)

ErrorSays == {"rate_limit", "invalid_key", "no_data", "error", "page_not_found", "cloudflare"}

\* How the errors among the answers look: none is a list or contract data.
LEMMA ErrorAnswers ==
    ASSUME NEW a \in Answers, a.says \in ErrorSays
    PROVE  /\ a.shape \in {"string", "null", "text"} /\ a.status # "1"
           /\ a.says \in {"rate_limit", "invalid_key"} => a.shape = "string"
  BY DEF Answers, ErrorSays

LEMMA ErrorsSanitized ==
    ASSUME NEW a \in Answers, a.says \in ErrorSays
    PROVE  /\ \A type \in {"list", "data"} :
                /\ ~SanitizeResponse(type, a).ok
                /\ a.says \in {"rate_limit", "invalid_key"} => SanitizeResponse(type, a).error = a.says
           /\ \A type \in {"string", "list"} : ~ByStatus(type, a).ok
           /\ ~GasEstimate(a).ok
  <1>1. \A type \in {"list", "data"} : ~Fits(type, a)
    BY ErrorAnswers DEF Fits
  <1>2. \A type \in {"list", "data"} :
          /\ ~SanitizeResponse(type, a).ok
          /\ a.says \in {"rate_limit", "invalid_key"} => SanitizeResponse(type, a).error = a.says
    BY <1>1, ErrorAnswers DEF SanitizeResponse, Err
  <1>3. \A type \in {"string", "list"} : ~ByStatus(type, a).ok
    BY ErrorAnswers DEF ByStatus, Err
  <1>4. ~GasEstimate(a).ok
    BY ErrorAnswers DEF GasEstimate, Err
  <1> QED BY <1>2, <1>3, <1>4

\* The calls that are given contract data or an ABI.
LEMMA ErrorsOfContracts ==
    ASSUME NEW a \in Answers, a.says \in ErrorSays
    PROVE  \A r \in {ContractAbi(a), ContractSourceCode(a)} :
             /\ ~r.ok /\ r.store = "nothing"
             /\ a.says \in {"rate_limit", "invalid_key"} => r.error = a.says
  <1>1. /\ ~ContractSourceCode(a).ok /\ ContractSourceCode(a).store = "nothing"
        /\ a.says \in {"rate_limit", "invalid_key"} => ContractSourceCode(a).error = a.says
    BY ErrorsSanitized DEF ContractSourceCode, Failed, ErrorSays
  <1>2. ~ContractAbi(a).ok /\ ContractAbi(a).store = "nothing"
    BY DEF ContractAbi, Failed, NotVerified, ErrorSays
  <1>3. ASSUME a.says \in {"rate_limit", "invalid_key"} PROVE ContractAbi(a).error = a.says
    <2>1. SanitizeResponse("option", a).ok /\ a.shape # "null"
      BY <1>3, ErrorAnswers DEF SanitizeResponse, Fits
    <2> QED BY <1>3, <2>1 DEF ContractAbi, Failed
  <1> QED BY <1>1, <1>2, <1>3

LEMMA CreationErrors ==
    ASSUME NEW a \in Answers, a.says \in ErrorSays
    PROVE  /\ ~ContractCreationData(a).ok
           /\ a.says \in {"rate_limit", "invalid_key"} => ContractCreationData(a).error = a.says
  BY ErrorsSanitized DEF ContractCreationData, Err

PlainCalls == {"abi", "sources", "creation", "balance", "balances", "block", "gas", "list", "verify"}

LEMMA PlainCallErrors ==
    ASSUME NEW a \in Answers, NEW call \in PlainCalls, PlainCall(call, a)
    PROVE  ErrorsAreErrors'
  <1> DEFINE r == plainCall'.result
  <1>1. plainCall'.at = call /\ plainCall'.answer = a
    BY DEF PlainCall
  <1>2. /\ call = "abi" => r = ContractAbi(a)
        /\ call = "sources" => r = ContractSourceCode(a)
        /\ call = "creation" => r = ContractCreationData(a)
        /\ call \in {"balance", "block"} => r = ByStatus("string", a)
        /\ call = "balances" => r = ByStatus("list", a)
        /\ call = "gas" => r = GasEstimate(a)
        /\ call = "list" => r = SanitizeResponse("list", a)
    BY DEF PlainCall, GetEtherBalanceSingle, GetEtherBalanceMulti, GetBlockByTimestamp, Listed
  <1> HIDE DEF r
  <1>3. ASSUME a.says \in ErrorSays
        PROVE  /\ r.ok => call = "verify" /\ a.status # "1"
               /\ call \in {"abi", "sources"} => r.store = "nothing"
               /\ a.says \in {"rate_limit", "invalid_key"} /\ call \in {"abi", "sources", "creation", "list", "balances"}
                     => r.error = a.says
    <2>1. CASE call \in {"abi", "sources"}
      BY <1>2, <1>3, <2>1, ErrorsOfContracts
    <2>2. CASE call = "creation"
      BY <1>2, <1>3, <2>2, CreationErrors
    <2>3. CASE call \in {"balance", "block", "gas", "list"}
      BY <1>2, <1>3, <2>3, ErrorsSanitized
    <2>4. CASE call = "balances"
      BY <1>2, <1>3, <2>4, ErrorsSanitized DEF ByStatus
    <2>5. CASE call = "verify"
      BY <1>3, <2>5, ErrorAnswers
    <2> QED BY <2>1, <2>2, <2>3, <2>4, <2>5 DEF PlainCalls
  <1> QED BY <1>1, <1>3 DEF ErrorsAreErrors, ErrorSays, r

\* A client of every chain and every state of the environment.
LEMMA ClientsStep ==
    ASSUME NEW chain \in ClientChains, NEW env \in {"unset", "empty", "key"}, MakeClient(chain, env)
    PROVE  ClientsMade'
  <1>1. /\ plainCall'.chain = chain /\ plainCall'.env = env
        /\ plainCall'.result = NewFromOptEnv(chain, env)
    BY DEF MakeClient
  <1>2. chain.kind \in {"named", "keyless", "local", "id"} /\ chain.explorer \in BOOLEAN
    BY DEF ClientChains
  <1>3. CASE chain.kind = "keyless"
    BY <1>1, <1>3 DEF ClientsMade, NewFromOptEnv, NewFromEnv, ApiKeyFromChain, Build, Err
  <1>4. CASE chain.kind = "local"
    BY <1>1, <1>4 DEF ClientsMade, NewFromOptEnv, NewFromEnv, ApiKeyFromChain, Build, Err
  <1>5. CASE chain.kind = "id"
    BY <1>1, <1>5 DEF ClientsMade, NewFromOptEnv, NewFromEnv, ApiKeyFromChain, Build, Err
  <1>6. CASE chain.kind = "named"
    BY <1>1, <1>6 DEF ClientsMade, NewFromOptEnv, NewFromEnv, ApiKeyFromChain, Build, Err
  <1> QED BY <1>2, <1>3, <1>4, <1>5, <1>6

-----------------------------------------------------------------------------
(* Explorer: the source tree                                               *)

\* Induction up to a number, stated for a set: the prover cannot instantiate the
\* induction theorems of the library.
LEMMA UpTo ==
    ASSUME NEW n \in Nat, NEW A \in SUBSET (0..n), 0 \in A,
           \A k \in 0..(n - 1) : k \in A => k + 1 \in A
    PROVE  A = 0..n
  <1> SUFFICES ASSUME A # 0..n PROVE FALSE
    OBVIOUS
  <1> DEFINE B == (0..n) \ A
  <1>1. PICK m \in B : \A k \in B : m <= k
    <2>1. B # {} /\ B \in SUBSET (0..n)
      OBVIOUS
    <2> HIDE DEF B
    <2>2. B \in SUBSET Nat
      BY <2>1
    <2> QED BY <2>1, <2>2, LeastNumber
  <1>2. m # 0 /\ m - 1 \in 0..(n - 1) /\ m - 1 \notin B
    BY <1>1
  <1> QED BY <1>2

PathParts == [name : STRING, ext : STRING]
PathStep(path, w, i) ==
    IF i = 0 THEN <<>> ELSE IF path[i] = ParentDir THEN w[i - 1] ELSE Append(w[i - 1], path[i])

LEMMA NextKept ==
    ASSUME NEW path, NEW w, NEW n \in Nat, path[n + 1] # ParentDir
    PROVE  PathStep(path, w, n + 1) = Append(w[n], path[n + 1])
  <1>1. n + 1 # 0 /\ (n + 1) - 1 = n
    OBVIOUS
  <1> QED BY <1>1, Zenon DEF PathStep

\* The components kept so far are defined after each component of the path.
LEMMA KeptDefined ==
    ASSUME NEW path, Len(path) \in Nat
    PROVE  KeptUpTo(path) = [i \in 0..Len(path) |-> PathStep(path, KeptUpTo(path), i)]
  <1> DEFINE A == {n \in 0..Len(path) : \E w : w = [i \in 0..n |-> PathStep(path, w, i)]}
  <1>1. 0 \in A
    <2> DEFINE w == [i \in 0..0 |-> <<>>]
    <2>1. w = [i \in 0..0 |-> PathStep(path, w, i)]
      BY DEF PathStep
    <2> HIDE DEF w
    <2> QED BY <2>1
  <1>2. ASSUME NEW n \in 0..(Len(path) - 1), n \in A PROVE n + 1 \in A
    <2>1. PICK w : w = [i \in 0..n |-> PathStep(path, w, i)]
      BY <1>2
    <2> DEFINE v == [i \in 0..(n + 1) |-> IF i <= n THEN w[i] ELSE PathStep(path, w, n + 1)]
               u == [i \in 0..(n + 1) |-> PathStep(path, v, i)]
    <2>2. ASSUME NEW i \in 0..(n + 1) PROVE v[i] = u[i]
      <3>1. CASE i = 0
        BY <2>1, <3>1 DEF PathStep
      <3>2. CASE i # 0
        <4>1. v[i - 1] = w[i - 1]
          BY <3>2
        <4>2. PathStep(path, v, i) = PathStep(path, w, i)
          <5> HIDE DEF v
          <5> QED BY <3>2, <4>1 DEF PathStep
        <4>3. v[i] = PathStep(path, w, i)
          <5>1. CASE i <= n
            BY <2>1, <5>1
          <5>2. CASE i = n + 1
            BY <5>2
          <5> QED BY <5>1, <5>2
        <4> QED BY <4>2, <4>3
      <3> QED BY <3>1, <3>2
    <2>3. DOMAIN v = 0..(n + 1) /\ DOMAIN u = 0..(n + 1)
      OBVIOUS
    <2>4. v = [i \in DOMAIN v |-> v[i]] /\ u = [i \in DOMAIN u |-> u[i]]
      OBVIOUS
    <2>5. v = u
      <3> HIDE DEF u, v
      <3> QED BY <2>2, <2>3, <2>4
    <2>6. v = [i \in 0..(n + 1) |-> PathStep(path, v, i)]
      <3> HIDE DEF v
      <3> QED BY <2>5
    <2> HIDE DEF v
    <2> QED BY <2>6, n + 1 \in 0..Len(path)
  <1>3. A = 0..Len(path)
    <2>1. A \in SUBSET (0..Len(path))
      OBVIOUS
    <2> HIDE DEF A
    <2> QED BY <1>1, <1>2, <2>1, UpTo
  <1>4. PICK w : w = [i \in 0..Len(path) |-> PathStep(path, w, i)]
    BY <1>3
  <1>5. KeptUpTo(path) = CHOOSE h : h = [i \in 0..Len(path) |-> PathStep(path, h, i)]
    BY Zenon DEF KeptUpTo, PathStep
  <1> QED BY <1>4, <1>5

\* What is kept is components of the path and no parent folder; a root that is kept
\* stays the first.
LEMMA KeptMeans ==
    ASSUME NEW S, NEW path \in Seq(S),
           \A i \in DOMAIN path : path[i] = RootDir => i = 1
    PROVE  \A n \in 0..Len(path) :
              /\ KeptUpTo(path)[n] \in Seq(S \ {ParentDir})
              /\ Len(KeptUpTo(path)[n]) <= n
              /\ \A i \in 1..Len(KeptUpTo(path)[n]) : KeptUpTo(path)[n][i] = RootDir => i = 1
  <1> DEFINE k == KeptUpTo(path)
             HoldsAt(n) == /\ k[n] \in Seq(S \ {ParentDir})
                           /\ Len(k[n]) <= n
                           /\ \A i \in 1..Len(k[n]) : k[n][i] = RootDir => i = 1
             A == {n \in 0..Len(path) : HoldsAt(n)}
  <1>0. Len(path) \in Nat /\ DOMAIN path = 1..Len(path) /\ \A i \in 1..Len(path) : path[i] \in S
    OBVIOUS
  <1>1. \A n \in 0..Len(path) : k[n] = PathStep(path, k, n)
    BY <1>0, KeptDefined
  <1> HIDE DEF k
  <1>2. 0 \in A
    <2>1. k[0] = <<>>
      BY <1>0, <1>1 DEF PathStep
    <2>2. <<>> \in Seq(S \ {ParentDir}) /\ Len(<<>>) = 0
      OBVIOUS
    <2>3. HoldsAt(0)
      BY <2>1, <2>2
    <2> QED BY <1>0, <2>3
  <1>3. ASSUME NEW n \in 0..(Len(path) - 1), n \in A PROVE n + 1 \in A
    <2>1. n + 1 \in 1..Len(path) /\ n + 1 # 0 /\ (n + 1) - 1 = n /\ HoldsAt(n)
      BY <1>0, <1>3
    <2>2. CASE path[n + 1] = ParentDir
      <3>1. k[n + 1] = k[n]
        BY <1>0, <1>1, <2>1, <2>2 DEF PathStep
      <3> QED BY <1>0, <2>1, <3>1
    <2>3. CASE path[n + 1] # ParentDir
      <3>1. k[n + 1] = Append(k[n], path[n + 1])
        <4>1. n \in Nat /\ k[n + 1] = PathStep(path, k, n + 1)
          BY <1>0, <1>1, <2>1
        <4> QED BY <2>3, <4>1, NextKept
      <3>2. path[n + 1] \in S \ {ParentDir}
        BY <1>0, <2>1, <2>3
      <3>3. path[n + 1] = RootDir => n = 0
        BY <1>0, <2>1
      <3>4. HoldsAt(n + 1)
        BY <1>0, <2>1, <3>1, <3>2, <3>3
      <3> QED BY <1>0, <2>1, <3>4
    <2> QED BY <2>2, <2>3
  <1>4. A = 0..Len(path)
    <2>1. A \in SUBSET (0..Len(path))
      OBVIOUS
    <2> HIDE DEF A
    <2> QED BY <1>0, <1>2, <1>3, <2>1, UpTo
  <1> QED BY <1>4 DEF k

\* The last component that is kept is that of the path, when it is a file.
LEMMA LastKept ==
    ASSUME NEW S, NEW path \in Seq(S), path # <<>>, Last(path) # ParentDir,
           \A i \in DOMAIN path : path[i] = RootDir => i = 1
    PROVE  KeptUpTo(path)[Len(path)] # <<>> /\ Last(KeptUpTo(path)[Len(path)]) = Last(path)
  <1> DEFINE n == Len(path)
             k == KeptUpTo(path)
  <1>1. n \in Nat \ {0} /\ n \in 0..Len(path) /\ n - 1 \in 0..Len(path) /\ path[n] # ParentDir /\ path[n] \in S
    BY DEF Last
  <1>2. k[n] = Append(k[n - 1], path[n])
    <2>1. k[n] = PathStep(path, k, n)
      BY <1>1, KeptDefined
    <2> QED BY <1>1, <2>1, Zenon DEF PathStep
  <1>3. k[n - 1] \in Seq(S \ {ParentDir})
    BY <1>1, KeptMeans
  <1> HIDE DEF k
  <1>4. k[n] \in Seq(S) /\ Len(k[n]) \in Nat \ {0} /\ k[n][Len(k[n])] = path[n]
    BY <1>1, <1>2, <1>3
  <1>5. k[n] # <<>>
    BY <1>4
  <1> QED BY <1>4, <1>5 DEF Last, k

\* A path without parent folders is kept as it is.
LEMMA AllKept ==
    ASSUME NEW S, NEW path \in Seq(S), \A i \in DOMAIN path : path[i] # ParentDir
    PROVE  KeptUpTo(path)[Len(path)] = path
  <1> DEFINE k == KeptUpTo(path)
             HoldsAt(n) == k[n] = [i \in 1..n |-> path[i]]
             A == {n \in 0..Len(path) : HoldsAt(n)}
  <1>0. Len(path) \in Nat /\ DOMAIN path = 1..Len(path) /\ path = [i \in 1..Len(path) |-> path[i]]
        /\ \A i \in 1..Len(path) : path[i] \in S
    OBVIOUS
  <1>1. \A n \in 0..Len(path) : k[n] = PathStep(path, k, n)
    BY <1>0, KeptDefined
  <1> HIDE DEF k
  <1>2. 0 \in A
    <2>1. k[0] = <<>>
      BY <1>0, <1>1 DEF PathStep
    <2>2. [i \in 1..0 |-> path[i]] = <<>>
      OBVIOUS
    <2> QED BY <1>0, <2>1, <2>2
  <1>3. ASSUME NEW n \in 0..(Len(path) - 1), n \in A PROVE n + 1 \in A
    <2>1. n + 1 \in 1..Len(path) /\ n + 1 # 0 /\ (n + 1) - 1 = n /\ k[n] = [i \in 1..n |-> path[i]]
      BY <1>0, <1>3
    <2>2. k[n + 1] = Append(k[n], path[n + 1])
      <3>1. n \in Nat /\ k[n + 1] = PathStep(path, k, n + 1) /\ path[n + 1] # ParentDir
        BY <1>0, <1>1, <2>1
      <3> QED BY <3>1, NextKept
    <2>3. k[n] \in Seq(S) /\ Len(k[n]) = n /\ path[n + 1] \in S
      BY <1>0, <2>1
    <2> DEFINE w == [i \in 1..(n + 1) |-> path[i]]
    <2>4. w \in Seq(S) /\ Len(w) = n + 1
      BY <1>0, <2>1
    <2>5. k[n + 1] \in Seq(S) /\ Len(k[n + 1]) = n + 1
      BY <2>2, <2>3
    <2>6. \A i \in 1..(n + 1) : k[n + 1][i] = w[i]
      BY <2>1, <2>2, <2>3
    <2>7. k[n + 1] = w
      <3> HIDE DEF w
      <3> QED BY <2>4, <2>5, <2>6, SeqEqual
    <2> QED BY <1>0, <2>1, <2>7
  <1>4. A = 0..Len(path)
    <2>1. A \in SUBSET (0..Len(path))
      OBVIOUS
    <2> HIDE DEF A
    <2> QED BY <1>0, <1>2, <1>3, <2>1, UpTo
  <1>5. HoldsAt(Len(path))
    BY <1>0, <1>4
  <1> QED BY <1>0, <1>5 DEF k

\* A source path, once clean, is a file somewhere below its folder.
LEMMA CleanPath ==
    ASSUME NEW p \in TreePaths
    PROVE  /\ SanitizePath(p) \in Seq(PathParts \ {RootDir, ParentDir})
           /\ SanitizePath(p) # <<>>
  <1> DEFINE kept == KeptUpTo(p)[Len(p)]
  <1>1. /\ p \in Seq(PathParts) /\ p # <<>> /\ Last(p) \notin {RootDir, ParentDir}
        /\ \A i \in DOMAIN p : p[i] = RootDir => i = 1
    BY TreePathsAssumption DEF PathParts
  <1>2. Len(p) \in 0..Len(p)
    BY <1>1
  <1>3. /\ kept \in Seq(PathParts \ {ParentDir})
        /\ \A i \in 1..Len(kept) : kept[i] = RootDir => i = 1
    BY <1>1, <1>2, KeptMeans
  <1>4. kept # <<>> /\ Last(kept) = Last(p)
    BY <1>1, LastKept
  <1>5. SanitizePath(p) = IF kept # <<>> /\ Head(kept) = RootDir THEN Tail(kept) ELSE kept
    BY DEF SanitizePath
  <1> HIDE DEF kept
  <1>6. CASE Head(kept) = RootDir
    <2>1. SanitizePath(p) = Tail(kept) /\ Len(kept) # 1
      BY <1>1, <1>3, <1>4, <1>5, <1>6 DEF Last
    <2>2. /\ Tail(kept) \in Seq(PathParts \ {ParentDir}) /\ Len(Tail(kept)) = Len(kept) - 1
          /\ \A i \in 1..Len(Tail(kept)) : Tail(kept)[i] = kept[i + 1] /\ i + 1 \in 1..Len(kept) /\ i + 1 # 1
      BY <1>3, <1>4
    <2>3. \A i \in 1..Len(Tail(kept)) : Tail(kept)[i] \in PathParts \ {RootDir, ParentDir}
      BY <1>3, <2>2
    <2>4. Len(kept) \in Nat \ {0, 1}
      BY <1>3, <1>4, <2>1
    <2> DEFINE t == Tail(kept)
    <2> HIDE DEF t
    <2>5. t \in Seq(PathParts \ {ParentDir}) /\ Len(t) \in Nat \ {0}
      BY <2>2, <2>4 DEF t
    <2>6. t = [i \in 1..Len(t) |-> t[i]] /\ t # <<>>
      BY <2>5
    <2>7. t \in Seq(PathParts \ {RootDir, ParentDir})
      <3>1. \A i \in 1..Len(t) : t[i] \in PathParts \ {RootDir, ParentDir}
        BY <2>3 DEF t
      <3> QED BY <2>5, <2>6, <3>1
    <2> QED BY <2>1, <2>6, <2>7 DEF t
  <1>7. CASE Head(kept) # RootDir
    <2>1. SanitizePath(p) = kept
      BY <1>5, <1>7
    <2>2. \A i \in 1..Len(kept) : kept[i] \in PathParts \ {RootDir, ParentDir}
      BY <1>3, <1>4, <1>7
    <2>3. kept = [i \in 1..Len(kept) |-> kept[i]] /\ Len(kept) \in Nat
      BY <1>3
    <2> QED BY <1>4, <2>1, <2>2, <2>3
  <1> QED BY <1>6, <1>7

\* Paths of a source tree: below the folder of the contract, clean, and of a file.
TreePath(p) ==
    /\ p \in Seq((PathParts \ {RootDir, ParentDir}) \cup {Root})
    /\ Len(p) > 1 /\ p[1] = Root /\ p[Len(p)] \in PathParts

LEMMA RootIsName == RootDir # Root /\ ParentDir # Root
  BY DEF RootDir, ParentDir, Root, Named

LEMMA EntriesClean ==
    ASSUME NEW paths \in SUBSET TreePaths, NEW e \in SourceEntries(Root, paths)
    PROVE  TreePath(e) /\ SanitizePath(e) = e
  <1> DEFINE S == (PathParts \ {RootDir, ParentDir}) \cup {Root}
  <1>1. PICK p \in paths : e = <<Root>> \o SanitizePath(p)
    BY DEF SourceEntries
  <1>2. SanitizePath(p) \in Seq(PathParts \ {RootDir, ParentDir}) /\ SanitizePath(p) # <<>>
    BY CleanPath
  <1> DEFINE q == SanitizePath(p)
  <1> HIDE DEF q
  <1>3. q \in Seq(S) /\ Len(q) \in Nat \ {0} /\ q[Len(q)] \in PathParts
    <2>1. q \in Seq(PathParts \ {RootDir, ParentDir}) /\ q # <<>>
      BY <1>2 DEF q
    <2> QED BY <2>1
  <1>4. e \in Seq(S) /\ Len(e) = Len(q) + 1 /\ e[1] = Root /\ e[Len(e)] = q[Len(q)]
    <2>1. e = <<Root>> \o q
      BY <1>1 DEF q
    <2>2. <<Root>> \in Seq(S) /\ Len(<<Root>>) = 1 /\ <<Root>>[1] = Root
      OBVIOUS
    <2> HIDE DEF S
    <2> QED BY <1>3, <2>1, <2>2
  <1>5. TreePath(e)
    BY <1>3, <1>4 DEF TreePath
  <1>6. \A i \in DOMAIN e : e[i] # ParentDir
    BY <1>4, RootIsName
  <1>7. KeptUpTo(e)[Len(e)] = e
    BY <1>4, <1>6, AllKept
  <1>8. Head(e) # RootDir
    BY <1>3, <1>4, RootIsName
  <1> QED BY <1>5, <1>7, <1>8 DEF SanitizePath

WithSol(p) == Front(p) \o <<Named(Last(p).name, "sol")>>

LEMMA WithSolMeans ==
    ASSUME NEW p, TreePath(p)
    PROVE  /\ Len(WithSol(p)) = Len(p) /\ DOMAIN WithSol(p) = 1..Len(p)
           /\ \A i \in 1..(Len(p) - 1) : WithSol(p)[i] = p[i]
           /\ WithSol(p)[Len(p)] = Named(p[Len(p)].name, "sol")
           /\ Head(WithSol(p)) = WithSol(p)[1]
  <1> DEFINE last == Named(p[Len(p)].name, "sol")
             S == PathParts \cup {Root, last}
  <1>1. p \in Seq(S) /\ Len(p) \in Nat /\ Len(p) > 1
    BY DEF TreePath
  <1>2. WithSol(p) = Front(p) \o <<last>>
    BY DEF WithSol, Last
  <1> HIDE DEF last
  <1>3. /\ Front(p) \in Seq(S) /\ Len(Front(p)) = Len(p) - 1
        /\ \A i \in 1..(Len(p) - 1) : Front(p)[i] = p[i]
    <2> HIDE DEF S
    <2> QED BY <1>1 DEF Front
  <1>4. <<last>> \in Seq(S) /\ Len(<<last>>) = 1 /\ <<last>>[1] = last
    OBVIOUS
  <1> HIDE DEF S
  <1>5. WithSol(p) \in Seq(S) /\ Len(WithSol(p)) = Len(p)
    BY <1>1, <1>2, <1>3, <1>4
  <1>6. Head(WithSol(p)) = WithSol(p)[1] /\ DOMAIN WithSol(p) = 1..Len(p)
    BY <1>1, <1>5
  <1>7. WithSol(p)[Len(p)] = last
    BY <1>1, <1>2, <1>3, <1>4
  <1>8. \A i \in 1..(Len(p) - 1) : WithSol(p)[i] = Front(p)[i]
    BY <1>1, <1>2, <1>3, <1>4
  <1> QED BY <1>3, <1>5, <1>6, <1>7, <1>8 DEF last

\* Every file of a tree lies below the folder of the contract, and different entries
\* have different files.
LEMMA TreeFiles ==
    ASSUME NEW paths \in SUBSET TreePaths, NEW entries, entries = SourceEntries(Root, paths),
           NEW p \in entries
    PROVE  /\ {RootDir, ParentDir} \cap Range(TreeFile(entries, p)) = {}
           /\ Head(TreeFile(entries, p)) = Root
           /\ \A q \in entries : TreeFile(entries, p) = TreeFile(entries, q) => p = q
  <1>1. ASSUME NEW q \in entries
        PROVE  /\ TreePath(q)
               /\ \/ TreeFile(entries, q) = q
                  \/ TreeFile(entries, q) = WithSol(q) /\ WithSol(q) \notin entries /\ q[Len(q)].ext = "none"
    BY <1>1, EntriesClean DEF TreeFile, WithSol, Last
  <1>2. ASSUME NEW q, TreePath(q)
        PROVE  /\ Len(q) \in Nat /\ Len(q) > 1 /\ DOMAIN q = 1..Len(q) /\ q[1] = Root
               /\ q = [i \in 1..Len(q) |-> q[i]] /\ q[Len(q)] \in PathParts
               /\ \A i \in 1..Len(q) : q[i] \notin {RootDir, ParentDir}
    BY <1>2, RootIsName DEF TreePath
  <1>3. Named(p[Len(p)].name, "sol") \notin {RootDir, ParentDir}
    BY DEF Named, RootDir, ParentDir
  <1>4. \A i \in DOMAIN TreeFile(entries, p) : TreeFile(entries, p)[i] \notin {RootDir, ParentDir}
    <2>1. CASE TreeFile(entries, p) = p
      BY <1>1, <1>2, <2>1
    <2>2. CASE TreeFile(entries, p) = WithSol(p)
      BY <1>1, <1>2, <1>3, <2>2, WithSolMeans
    <2> QED BY <1>1, <2>1, <2>2
  <1>5. TreeFile(entries, p)[1] = Root
    <2>1. CASE TreeFile(entries, p) = p
      BY <1>1, <1>2, <2>1
    <2>2. CASE TreeFile(entries, p) = WithSol(p)
      <3>1. 1 \in 1..(Len(p) - 1) /\ p[1] = Root
        BY <1>1, <1>2
      <3> QED BY <1>1, <2>2, <3>1, WithSolMeans
    <2> QED BY <1>1, <2>1, <2>2
  <1>6. ASSUME NEW q \in entries, TreeFile(entries, p) = TreeFile(entries, q) PROVE p = q
    <2>1. CASE TreeFile(entries, p) = p \/ TreeFile(entries, q) = q
      BY <1>1, <1>6, <2>1
    <2>2. CASE TreeFile(entries, p) # p /\ TreeFile(entries, q) # q
      <3>1. WithSol(p) = WithSol(q) /\ p[Len(p)].ext = "none" /\ q[Len(q)].ext = "none"
        BY <1>1, <1>6, <2>2
      <3>2. /\ Len(WithSol(p)) = Len(p) /\ WithSol(p)[Len(p)] = Named(p[Len(p)].name, "sol")
            /\ Len(WithSol(q)) = Len(q) /\ WithSol(q)[Len(q)] = Named(q[Len(q)].name, "sol")
        BY <1>1, WithSolMeans
      <3>3. Len(p) = Len(q) /\ p[Len(p)].name = q[Len(q)].name
        BY <3>1, <3>2 DEF Named
      <3>4. p[Len(p)] = q[Len(q)]
        <4>1. p[Len(p)] \in PathParts /\ q[Len(q)] \in PathParts
          BY <1>1, <1>2
        <4> QED BY <3>1, <3>3, <4>1 DEF PathParts
      <3>5. \A i \in 1..(Len(p) - 1) : p[i] = q[i]
        BY <1>1, <3>1, <3>3, WithSolMeans
      <3>6. \A i \in 1..Len(p) : p[i] = q[i]
        BY <1>1, <1>2, <3>3, <3>4, <3>5
      <3> QED BY <1>1, <1>2, <3>3, <3>6
    <2> QED BY <2>1, <2>2
  <1>7. Head(TreeFile(entries, p)) = TreeFile(entries, p)[1]
    <2>1. Head(p) = p[1]
      BY <1>1 DEF TreePath
    <2> QED BY <1>1, <2>1, WithSolMeans
  <1> QED BY <1>4, <1>5, <1>6, <1>7 DEF Range

LEMMA TreeStep ==
    ASSUME NEW paths \in SUBSET TreePaths, WriteTree(paths)
    PROVE  TreeWritten'
  <1> DEFINE entries == SourceEntries(Root, paths)
  <1>1. plainCall'.entries = entries /\ plainCall'.files = [p \in entries |-> TreeFile(entries, p)]
    BY DEF WriteTree
  <1> HIDE DEF entries
  <1>2. \A p \in entries :
            /\ {RootDir, ParentDir} \cap Range(TreeFile(entries, p)) = {}
            /\ Head(TreeFile(entries, p)) = Root
            /\ \A q \in entries : TreeFile(entries, p) = TreeFile(entries, q) => p = q
    BY TreeFiles DEF entries
  <1> QED BY <1>1, <1>2 DEF TreeWritten

\* What the client tells its caller is what the explorer answered: no call returns an
\* explorer's error as its result except those that hand on the status of a
\* verification (sanitize_response and its callers), a client is made exactly for the
\* chains that have an explorer (new_from_opt_env), and the sources of an answer are
\* written below the folder of the contract, each to a file of its own, whatever the
\* paths they come with (sanitize_path, SourceTree::write_to).
THEOREM ExplorerAnswers == ExplorerSpec => []ExplorerSound
  <1> DEFINE P == ClientsMade /\ ErrorsAreErrors /\ TreeWritten
  <1>1. ExplorerInit => P
    BY DEF ExplorerInit, NotCalling, ErrorsAreErrors, ClientsMade, TreeWritten
  <1>2. P /\ [ExplorerNext \/ PlainCallNext]_expVars => P'
    <2> SUFFICES ASSUME P, [ExplorerNext \/ PlainCallNext]_expVars PROVE P'
      OBVIOUS
    <2>1. ASSUME plainCall' = plainCall PROVE P'
      BY <2>1 DEF ErrorsAreErrors, ClientsMade, TreeWritten
    <2>2. ASSUME ExplorerNext \/ UNCHANGED expVars PROVE plainCall' = plainCall
      BY <2>2 DEF ExplorerNext, ExpTick, GetsVerified, LookUp, Answered, CreateFile, WriteBlock,
         ClientDies, expVars
    <2>3. ASSUME NEW a \in Answers, NEW call \in PlainCalls, PlainCall(call, a) PROVE P'
      <3>1. plainCall'.at \notin {"client", "tree"}
        BY <2>3 DEF PlainCall, PlainCalls
      <3> QED BY <2>3, <3>1, PlainCallErrors DEF ClientsMade, TreeWritten
    <2>4. ASSUME NEW paths \in SUBSET TreePaths, WriteTree(paths) PROVE P'
      <3>1. plainCall'.at = "tree"
        BY <2>4 DEF WriteTree
      <3> QED BY <2>4, <3>1, TreeStep DEF ErrorsAreErrors, ClientsMade
    <2>5. ASSUME NEW chain \in ClientChains, NEW env \in {"unset", "empty", "key"}, MakeClient(chain, env)
          PROVE  P'
      <3>1. plainCall'.at = "client"
        BY <2>5 DEF MakeClient
      <3> QED BY <2>5, <3>1, ClientsStep DEF ErrorsAreErrors, TreeWritten
    <2> QED BY <2>1, <2>2, <2>3, <2>4, <2>5 DEF PlainCallNext, PlainCalls
  <1> QED BY <1>1, <1>2, PTL DEF ExplorerSpec, ExplorerSound
=============================================================================
