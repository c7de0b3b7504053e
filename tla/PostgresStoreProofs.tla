------------------------- MODULE PostgresStoreProofs -------------------------
(***************************************************************************)
(* Proofs about PostgresStore, for any publishers, ids, members, bounds    *)
(* and any time of opening.                                                *)
(*                                                                         *)
(* A transaction reads before it has the row lock and writes after it, so  *)
(* what it has read may be old when it commits.  TxInv says what of it     *)
(* cannot have changed: its target still exists, and has the identity the  *)
(* transaction read.                                                       *)
(***************************************************************************)
EXTENDS PostgresStore, TLAPS

-----------------------------------------------------------------------------
(***************************************************************************)
(* The rows.                                                               *)
(***************************************************************************)
\* The bookkeeping rows are well formed: CreateRow and MergeVersion build
\* projection rows from a minted serial.
LEMMA CreateRowType ==
    ASSUME NEW serial \in Nat, NEW i \in Nat, NEW data \in BOOLEAN
    PROVE  CreateRow(serial, i, data) \in Rows
  <1>1. Supplied(serial, data) \in Seq(Nat)
    BY DEF Supplied
  <1>. QED
    BY <1>1 DEF CreateRow, Rows, Idents

\* MergeVersion of a projection row is a projection row.
LEMMA MergeVersionType ==
    ASSUME NEW cur \in Rows, NEW act, NEW data \in BOOLEAN, NEW serial \in Nat
    PROVE  /\ MergeVersion(cur, act, data, serial) \in Rows
           /\ MergeVersion(cur, act, data, serial).ident = cur.ident
  <1>1. Supplied(serial, data) \in Seq(Nat)
    BY DEF Supplied
  <1>2. cur.data \in Seq(Nat)
    BY Zenon DEF Rows
  <1>3. cur.data \o Supplied(serial, data) \in Seq(Nat)
    BY <1>1, <1>2
  <1>. QED
    BY <1>1, <1>2, <1>3, Zenon DEF MergeVersion, Rows

-----------------------------------------------------------------------------
(***************************************************************************)
(* The inductive invariants.                                               *)
(***************************************************************************)
\* What an open transaction holds, rows being the messages there are.
TxHolds(t, rows) ==
    /\ t.n # 0
    /\ t.act = "create" => t.on = NoSubject
    /\ t.act \in Mutations => t.cur.ident = t.on
    /\ t.act \in Mutations \cup {"annotate"} => \E row \in rows : row.ident = t.on
    /\ t.act \in PresenceOps => t.on \in Members

TxInv == \A p \in Publishers : tx[p].open => TxHolds(tx[p], db.latest)

\* The notices still to be consumed name rows of the log.
NoticesNameRows ==
    \A k \in 1..Len(notices) : \E i \in 1..Len(db.log) : db.log[i].serial = notices[k]

\* cm was committed.
InLog(log, cm) == \E k \in 1..Len(log) : log[k] = cm

\* The serials of the log, which the channels row has gone past.
LogInv ==
    /\ TypeOK /\ TxInv
    /\ db.initial <= db.serial
    /\ LogIncreases
    /\ \A i \in 1..Len(db.log) : db.log[i].serial <= db.serial /\ db.log[i].n # 0
    /\ NoticesNameRows

\* Answers and the id index name commits of the log, and no id is there twice.
IdsNameLog(log, ids) ==
    /\ \A r \in ids : \E i \in 1..Len(log) : log[i].id = r.id /\ log[i].serial = r.serial
    /\ \A i \in 1..Len(log) : log[i].id # NoId => \E r \in ids : r.id = log[i].id
    /\ \A i, j \in 1..Len(log) : log[i].id = log[j].id /\ log[i].id # NoId => i = j

IdInv == acks \subseteq db.ids /\ IdsNameLog(db.log, db.ids)

-----------------------------------------------------------------------------
(***************************************************************************)
(* What a commit does.                                                     *)
(***************************************************************************)
\* d has the columns of the database, and no other.
IsRecord(d) ==
    d = [serial |-> d.serial, initial |-> d.initial, log |-> d.log, ids |-> d.ids,
         latest |-> d.latest, versions |-> d.versions, annotations |-> d.annotations,
         members |-> d.members]

\* p's transaction commits cm: the columns every publish writes.
Commits(p, cm) ==
    /\ cm \in CMs /\ cm.serial = db.serial + 1
    /\ cm.act = tx[p].act /\ cm.on = tx[p].on /\ cm.id = tx[p].id /\ cm.n = tx[p].n
    /\ tx[p].open /\ tx[p] \in Txs
    /\ cm.id \notin IdsIndexed
    /\ IsRecord(db')
    /\ db'.serial = cm.serial /\ db'.initial = db.initial
    /\ db'.log = Append(db.log, cm)
    /\ db'.ids = db.ids \cup IdRowsOf(cm)
    /\ acks' = acks \cup IdRowsOf(cm)
    /\ tx' = [tx EXCEPT ![p] = NoTx]
    /\ notices' = IF link THEN Append(notices, cm.serial) ELSE notices
    /\ UNCHANGED <<channelVars, openVars, lastSeen, link, phase, scan, drops, failures>>

\* The log is as it was, and one cm more.
OneMore(cm) ==
    /\ db.log \in Seq(CMs) /\ cm \in CMs
    /\ db'.log = Append(db.log, cm)

\* The tables it writes, by what it publishes.
Creates(cm) ==
    LET new == {CreateRow(cm.serial, i, cm.data) : i \in 0..(cm.n - 1)} IN
    /\ db'.latest = db.latest \cup new
    /\ db'.versions = db.versions \cup new
    /\ db'.annotations = db.annotations /\ db'.members = db.members
Mutates(p, cm) ==
    LET new == MergeVersion(tx[p].cur, cm.act, cm.data, cm.serial) IN
    /\ db'.latest = (db.latest \ {RowOf(cm.on)}) \cup {new}
    /\ db'.versions = db.versions \cup {new}
    /\ db'.annotations = db.annotations /\ db'.members = db.members
Summarises(cm) ==
    /\ db'.latest = (db.latest \ {RowOf(cm.on)}) \cup {FoldSummary(RowOf(cm.on), cm.serial)}
    /\ db'.annotations = db.annotations \cup {[ident |-> cm.on, serial |-> cm.serial]}
    /\ db'.versions = db.versions /\ db'.members = db.members
FoldsPresence(cm) ==
    /\ db'.members = FoldPresence(db.members, cm.on, cm.act, cm.serial)
    /\ db'.latest = db.latest /\ db'.versions = db.versions
    /\ db'.annotations = db.annotations

\* The positions of the longer log are those of the log and its end.
LEMMA OneMoreFacts ==
    ASSUME NEW cm, OneMore(cm)
    PROVE  /\ Len(db.log) \in Nat /\ Len(db'.log) = Len(db.log) + 1
           /\ \A i \in 1..Len(db.log) : db'.log[i] = db.log[i] /\ i \in 1..Len(db'.log)
           /\ db'.log[Len(db.log) + 1] = cm /\ Len(db.log) + 1 \in 1..Len(db'.log)
           /\ \A i \in 1..Len(db'.log) : i \in 1..Len(db.log) \/ i = Len(db.log) + 1
BY DEF OneMore

\* A commit is all that, and nothing else.
LEMMA CommitCommits ==
    ASSUME TypeOK, NEW p \in Publishers, Commit(p), tx[p].n # 0
    PROVE  \E cm :
             /\ Commits(p, cm) /\ cm.n # 0
             /\ \/ cm.act = "create" /\ Creates(cm)
                \/ cm.act \in Mutations /\ Mutates(p, cm)
                \/ cm.act = "annotate" /\ Summarises(cm)
                \/ cm.act \in PresenceOps /\ FoldsPresence(cm)
<1>1. PICK cm : cm = CMOf(tx[p], db.serial + 1)
  OBVIOUS
<1>2. tx[p] \in Txs /\ db \in Databases
  BY Zenon DEF TypeOK
<1>3. PICK d \in BOOLEAN : cm = [serial |-> db.serial + 1, act |-> tx[p].act, on |-> tx[p].on,
                                 id |-> tx[p].id, n |-> tx[p].n, data |-> d]
  BY <1>1, Zenon DEF CMOf
<1>4. /\ cm.serial = db.serial + 1 /\ cm.act = tx[p].act /\ cm.on = tx[p].on
      /\ cm.id = tx[p].id /\ cm.n = tx[p].n
  BY <1>3, Zenon
<1>5. cm \in CMs
  BY <1>2, <1>3 DEF Txs, CMs, Databases
<1>6. PICK T : T = Tables(tx[p], cm)
  OBVIOUS
<1>7. /\ tx[p].open /\ tx[p].id \notin IdsIndexed
      /\ db' = [T EXCEPT !.serial = cm.serial, !.log = Append(@, cm), !.ids = @ \cup IdRowsOf(cm)]
      /\ acks' = acks \cup IdRowsOf(cm)
      /\ tx' = [tx EXCEPT ![p] = NoTx]
      /\ notices' = IF link THEN Append(notices, cm.serial) ELSE notices
      /\ UNCHANGED <<channelVars, openVars, lastSeen, link, phase, scan, drops, failures>>
  BY <1>1, <1>6, Zenon DEF Commit, Write
<1>8. cm.act \in Acts
  BY <1>5, Zenon DEF CMs
<1> DEFINE
      New == {CreateRow(cm.serial, i, cm.data) : i \in 0..(cm.n - 1)}
      Merged == MergeVersion(tx[p].cur, cm.act, cm.data, cm.serial)
<1>c. CASE cm.act = "create"
  <2>1. T = [db EXCEPT !.latest = (@ \ {}) \cup New, !.versions = @ \cup New]
    BY <1>c, <1>4, <1>6, Zenon DEF Tables, PutRows, Mutations, PresenceOps
  <2>2. Commits(p, cm) /\ Creates(cm)
    BY <1>2, <1>4, <1>5, <1>7, <2>1, Zenon DEF Commits, IsRecord, Creates, Databases
  <2> QED
    BY <1>c, <1>4, <2>2, Zenon
<1>m. CASE cm.act \in Mutations
  <2>1. T = [db EXCEPT !.latest = (@ \ {RowOf(cm.on)}) \cup {Merged}, !.versions = @ \cup {Merged}]
    BY <1>m, <1>4, <1>6, Zenon DEF Tables, PutRows, Mutations, PresenceOps
  <2>2. Commits(p, cm) /\ Mutates(p, cm)
    BY <1>2, <1>4, <1>5, <1>7, <2>1, Zenon DEF Commits, IsRecord, Mutates, Databases
  <2> QED
    BY <1>m, <1>4, <2>2, Zenon
<1>a. CASE cm.act = "annotate"
  <2>1. T = [db EXCEPT !.latest = (@ \ {RowOf(cm.on)}) \cup {FoldSummary(RowOf(cm.on), cm.serial)},
                       !.annotations = @ \cup {[ident |-> cm.on, serial |-> cm.serial]}]
    BY <1>a, <1>4, <1>6, Zenon DEF Tables, Mutations, PresenceOps
  <2>2. Commits(p, cm) /\ Summarises(cm)
    BY <1>2, <1>4, <1>5, <1>7, <2>1, Zenon DEF Commits, IsRecord, Summarises, Databases
  <2> QED
    BY <1>a, <1>4, <2>2, Zenon
<1>p. CASE cm.act \in PresenceOps
  <2>1. T = [db EXCEPT !.members = FoldPresence(@, cm.on, cm.act, cm.serial)]
    BY <1>p, <1>4, <1>6, Zenon DEF Tables, Mutations, PresenceOps
  <2>2. Commits(p, cm) /\ FoldsPresence(cm)
    BY <1>2, <1>4, <1>5, <1>7, <2>1, Zenon DEF Commits, IsRecord, FoldsPresence, Databases
  <2> QED
    BY <1>p, <1>4, <2>2, Zenon
<1> QED
  BY <1>8, <1>c, <1>m, <1>a, <1>p, Zenon DEF Acts

\* A publish up to its row lock is one more open transaction, and nothing else.
LEMMA PublishBegins ==
    ASSUME TypeOK, NEW p \in Publishers, Publish(p)
    PROVE  /\ \E t \in Txs : TxHolds(t, db.latest) /\ tx' = [tx EXCEPT ![p] = t]
           /\ UNCHANGED <<channelVars, db, acks, openVars, listenVars>>
<1>1. NoRow \in Rows /\ 1 \in 1..MaxBatch
  BY CreateRowType, ChannelAssumption DEF NoRow, CreateRow, Supplied, Rows, Idents
<1>2. db.latest \subseteq Rows
  BY Zenon DEF TypeOK, Databases
<1>3. ASSUME NEW act \in Acts, NEW on \in Idents \cup Members \cup {NoSubject},
             NEW id \in Ids \cup {NoId}, NEW n \in 1..MaxBatch, NEW cur \in Rows,
             act = "create" => on = NoSubject,
             act \in Mutations => cur.ident = on,
             act \in Mutations \cup {"annotate"} => \E row \in db.latest : row.ident = on,
             act \in PresenceOps => on \in Members,
             Begin(p, act, on, id, n, cur)
      PROVE  /\ \E t \in Txs : TxHolds(t, db.latest) /\ tx' = [tx EXCEPT ![p] = t]
             /\ UNCHANGED <<channelVars, db, acks, openVars, listenVars>>
  <2>1. PICK t : t = [open |-> TRUE, act |-> act, on |-> on, id |-> id, n |-> n, cur |-> cur]
    BY Zenon
  <2>2. t \in Txs
    BY <2>1 DEF Txs
  <2>3. t.act = act /\ t.on = on /\ t.n = n /\ t.cur = cur
    BY <2>1, Zenon
  <2>4. TxHolds(t, db.latest)
    BY <1>3, <2>3 DEF TxHolds
  <2> QED
    BY <1>3, <2>1, <2>2, <2>4, Zenon DEF Begin
<1>4. PICK id \in Ids \cup {NoId} :
        \/ \E n \in 1..MaxBatch : Store(p, id, n)
        \/ \E cur \in db.latest, act \in Mutations : Mutate(p, act, id, cur)
        \/ \E cur \in db.latest : StoreAnnotation(p, id, cur)
        \/ \E m \in Members, act \in PresenceOps : StorePresence(p, act, id, m)
  BY Zenon DEF Publish
<1>5. CASE \E n \in 1..MaxBatch : Store(p, id, n)
  <2>1. PICK n \in 1..MaxBatch : Begin(p, "create", NoSubject, id, n, NoRow)
    BY <1>5, Zenon DEF Store
  <2> QED
    BY <1>1, <1>3, <2>1, Zenon DEF Acts, Mutations, PresenceOps
<1>6. CASE \E cur \in db.latest, act \in Mutations : Mutate(p, act, id, cur)
  <2>1. PICK cur \in db.latest, act \in Mutations : Begin(p, act, cur.ident, id, 1, cur)
    BY <1>6, Zenon DEF Mutate
  <2>2. cur \in Rows /\ cur.ident \in Idents /\ act \in Acts /\ act # "create" /\ act \notin PresenceOps
    BY <1>2, Zenon DEF Rows, Acts, Mutations, PresenceOps
  <2> QED
    BY <1>1, <1>3, <2>1, <2>2, Zenon
<1>7. CASE \E cur \in db.latest : StoreAnnotation(p, id, cur)
  <2>1. PICK cur \in db.latest : Begin(p, "annotate", cur.ident, id, 1, NoRow)
    BY <1>7, Zenon DEF StoreAnnotation
  <2>2. cur \in Rows /\ cur.ident \in Idents
    BY <1>2, Zenon DEF Rows
  <2> QED
    BY <1>1, <1>3, <2>1, <2>2, Zenon DEF Acts, Mutations, PresenceOps
<1>8. CASE \E m \in Members, act \in PresenceOps : StorePresence(p, act, id, m)
  <2>1. PICK m \in Members, act \in PresenceOps : Begin(p, act, m, id, 1, NoRow)
    BY <1>8, Zenon DEF StorePresence
  <2> QED
    BY <1>1, <1>3, <2>1, Zenon DEF Acts, Mutations, PresenceOps
<1> QED
  BY <1>4, <1>5, <1>6, <1>7, <1>8, Zenon

\* The row of a message there is.
LEMMA RowOfRow ==
    ASSUME NEW ident, \E row \in db.latest : row.ident = ident
    PROVE  RowOf(ident) \in db.latest /\ RowOf(ident).ident = ident
BY Zenon DEF RowOf

\* A transaction that commits leaves the tables typed.
LEMMA CommitTyped ==
    ASSUME TypeOK, TxInv, NEW p \in Publishers, Commit(p)
    PROVE  db' \in Databases /\ acks' \subseteq IdRows /\ notices' \in Seq(Nat)
<1>1. tx[p].n # 0 /\ TxHolds(tx[p], db.latest)
  BY Zenon DEF TxInv, TxHolds, Commit, Write
<1>2. PICK cm :
        /\ Commits(p, cm) /\ cm.n # 0
        /\ \/ cm.act = "create" /\ Creates(cm)
           \/ cm.act \in Mutations /\ Mutates(p, cm)
           \/ cm.act = "annotate" /\ Summarises(cm)
           \/ cm.act \in PresenceOps /\ FoldsPresence(cm)
  BY <1>1, CommitCommits, Zenon
<1>3. /\ cm \in CMs /\ cm.serial \in Nat /\ db \in Databases /\ cm.n \in Nat
      /\ cm.data \in BOOLEAN /\ cm.id \in Ids \cup {NoId} /\ tx[p].cur \in Rows
  BY <1>2, SMTT(30) DEF Commits, CMs, Txs, TypeOK
<1>4. IdRowsOf(cm) \subseteq IdRows
  BY <1>3 DEF IdRowsOf, IdRows
<1>5. Append(db.log, cm) \in Seq(CMs)
  BY <1>3 DEF Databases
<1>6. /\ IsRecord(db') /\ db'.serial \in Nat /\ db'.initial \in Nat /\ db'.log \in Seq(CMs)
      /\ db'.ids \subseteq IdRows /\ acks' \subseteq IdRows /\ notices' \in Seq(Nat)
  BY <1>2, <1>3, <1>4, <1>5, SMTT(30) DEF Commits, Databases, TypeOK
<1>7. /\ db'.latest \subseteq Rows /\ db'.versions \subseteq Rows
      /\ db'.annotations \subseteq Notes /\ db'.members \subseteq Present
  <2>0. /\ db.latest \subseteq Rows /\ db.versions \subseteq Rows
        /\ db.annotations \subseteq Notes /\ db.members \subseteq Present
    BY <1>3, Zenon DEF Databases
  <2>c. CASE cm.act = "create" /\ Creates(cm)
    <3>1. \A i \in 0..(cm.n - 1) : CreateRow(cm.serial, i, cm.data) \in Rows
      BY <1>3, CreateRowType
    <3> QED
      BY <2>0, <2>c, <3>1, Zenon DEF Creates
  <2>m. CASE cm.act \in Mutations /\ Mutates(p, cm)
    <3>1. MergeVersion(tx[p].cur, cm.act, cm.data, cm.serial) \in Rows
      BY <1>3, MergeVersionType, Zenon
    <3> QED
      BY <2>0, <2>m, <3>1, Zenon DEF Mutates
  <2>a. CASE cm.act = "annotate" /\ Summarises(cm)
    <3>1. RowOf(cm.on) \in Rows /\ RowOf(cm.on).ident = cm.on
      BY <1>1, <1>2, <2>0, <2>a, RowOfRow DEF TxHolds, Commits
    <3>2. PICK row \in Rows : row = RowOf(cm.on) /\ row.ident = cm.on
      BY <3>1, Zenon
    <3>3. Append(row.summary, cm.serial) \in Seq(Nat)
      BY <1>3 DEF Rows
    <3>4. FoldSummary(row, cm.serial) \in Rows
      BY <3>3, Zenon DEF FoldSummary, Rows
    <3>5. [ident |-> cm.on, serial |-> cm.serial] \in Notes
      BY <1>3, <3>2, Zenon DEF Notes, Rows
    <3> QED
      BY <2>0, <2>a, <3>2, <3>4, <3>5, Zenon DEF Summarises
  <2>p. CASE cm.act \in PresenceOps /\ FoldsPresence(cm)
    <3>1. cm.on \in Members /\ [member |-> cm.on, serial |-> cm.serial] \in Present
      BY <1>1, <1>2, <1>3, <2>p, Zenon DEF TxHolds, Commits, Present
    <3> QED
      BY <2>0, <2>p, <3>1, Zenon DEF FoldsPresence, FoldPresence
  <2> QED
    BY <1>2, <2>c, <2>m, <2>a, <2>p, Zenon
<1> QED
  BY <1>6, <1>7, Zenon DEF IsRecord, Databases

-----------------------------------------------------------------------------
(***************************************************************************)
(* Types, transactions and the log.                                        *)
(***************************************************************************)
\* The steps of Storage.Channel and of listenLoop: they write no row, and start
\* and end no transaction.
Elsewhere ==
    \/ OpenElsewhere \/ Register \/ EnsureChannel \/ EnsureFails \/ Opened
    \/ Consume \/ ConsumeLoadFails \/ DropLink \/ Redial
    \/ Reconcile \/ ReconcileFails

\* What becomes of the database in them.
LEMMA ElsewhereTables ==
    ASSUME TypeOK, Elsewhere
    PROVE  /\ tx' = tx /\ acks' = acks
           /\ db' \in Databases
           /\ db' = db \/ (db.serial = 0 /\ db' = [db EXCEPT !.serial = 1, !.initial = 1])
<1>1. tx' = tx /\ acks' = acks
  BY Zenon DEF Elsewhere, OpenElsewhere, Register, EnsureChannel, EnsureFails, Opened, Consume,
         ConsumeLoadFails, DropLink, Redial, Reconcile, ReadMessages, ReadPresence, Replay,
         Replayed, ReconcileFails, tableVars
<1>2. db' = db \/ (db.serial = 0 /\ db' = [db EXCEPT !.serial = 1, !.initial = 1])
  BY Zenon DEF Elsewhere, OpenElsewhere, Register, EnsureChannel, EnsureFails, Opened, Consume,
         ConsumeLoadFails, DropLink, Redial, Reconcile, ReadMessages, ReadPresence, Replay,
         Replayed, ReconcileFails, tableVars, EnsureRow
<1>3. db' \in Databases
  <2>1. db \in Databases
    BY Zenon DEF TypeOK
  <2>2. CASE db' = [db EXCEPT !.serial = 1, !.initial = 1]
    BY <2>1, <2>2, Zenon DEF Databases
  <2> QED
    BY <1>2, <2>1, <2>2, Zenon
<1> QED
  BY <1>1, <1>2, <1>3, Zenon

\* A watermark is a cm.
LEMMA WatermarkType == \A s \in Nat : Watermark(s) \in CMs
BY ChannelAssumption DEF Watermark, CMs, Acts

\* The row of a serial that is in the log.
LEMMA RowOfSerial ==
    ASSUME NEW s, \E i \in 1..Len(db.log) : db.log[i].serial = s
    PROVE  Row(s) \in 1..Len(db.log) /\ db.log[Row(s)].serial = s
BY Zenon DEF Row

\* deliver appends the cm or drops it.
LEMMA DeliverTyped ==
    ASSUME TypeOK, NEW cm \in CMs, Deliver(cm)
    PROVE  /\ list' \in Seq(CMs) /\ Len(list') > 0 /\ lastSeen' \in Nat
           /\ UNCHANGED <<ready, initialSerial>>
<1>1. cm.serial \in Nat
  BY Zenon DEF CMs
<1>2. list \in Seq(CMs) /\ Len(list) > 0 /\ lastSeen \in Nat
  BY Zenon DEF TypeOK
<1>3. CASE cm.serial <= lastSeen
  BY <1>2, <1>3, Zenon DEF Deliver, channelVars
<1>4. CASE ~(cm.serial <= lastSeen)
  <2>1. /\ list' = IF cm.n = 0 THEN list ELSE Append(list, cm)
        /\ lastSeen' = cm.serial /\ UNCHANGED <<ready, initialSerial>>
    BY <1>4, Zenon DEF Deliver, AppendCM
  <2> QED
    BY <1>1, <1>2, <2>1
<1> QED
  BY <1>3, <1>4, Zenon

\* What consume loads is a cm of the log.
LEMMA HeadInLog ==
    ASSUME TypeOK, NoticesNameRows, notices # <<>>
    PROVE  /\ db.log[Row(Head(notices))] \in CMs
           /\ InLog(db.log, db.log[Row(Head(notices))])
           /\ Tail(notices) \in Seq(Nat)
           /\ \A k \in 1..Len(Tail(notices)) : \E i \in 1..Len(notices) : Tail(notices)[k] = notices[i]
<1>1. notices \in Seq(Nat) /\ db.log \in Seq(CMs)
  BY Zenon DEF TypeOK, Databases
<1>2. 1 \in 1..Len(notices) /\ Head(notices) = notices[1]
  BY <1>1
<1>3. Row(Head(notices)) \in 1..Len(db.log)
  BY <1>2, RowOfSerial, Zenon DEF NoticesNameRows
<1>4. db.log[Row(Head(notices))] \in CMs /\ InLog(db.log, db.log[Row(Head(notices))])
  BY <1>1, <1>3 DEF InLog
<1>5. /\ Tail(notices) \in Seq(Nat)
      /\ \A k \in 1..Len(Tail(notices)) : k + 1 \in 1..Len(notices) /\ Tail(notices)[k] = notices[k + 1]
  BY <1>1
<1> QED
  BY <1>4, <1>5, Zenon

\* Every step elsewhere keeps the types.
LEMMA ElsewhereTyped ==
    ASSUME TypeOK, NoticesNameRows, Elsewhere
    PROVE  TypeOK'
<1>0. /\ tx' \in [Publishers -> Txs] /\ acks' \subseteq IdRows /\ db' \in Databases
      /\ db.serial \in Nat /\ db.initial \in Nat /\ db.log \in Seq(CMs) /\ db'.serial \in Nat
  BY ElsewhereTables, Zenon DEF TypeOK, Databases
<1>1. CASE OpenElsewhere
  BY <1>0, <1>1, Zenon DEF OpenElsewhere, TypeOK, channelVars, openVars, listenVars
<1>2. CASE Register
  BY <1>0, <1>2, Zenon DEF Register, TypeOK, channelVars, listenVars
<1>3. CASE EnsureChannel
  BY <1>0, <1>3, Zenon DEF EnsureChannel, TypeOK, channelVars, listenVars
<1>4. CASE EnsureFails
  <2>1. <<Watermark(0)>> \in Seq(CMs) /\ Len(<<Watermark(0)>>) > 0
    BY WatermarkType
  <2> QED
    BY <1>0, <1>4, <2>1 DEF EnsureFails, TypeOK
<1>5. CASE Opened
  <2>1. list' \in Seq(CMs) /\ Len(list') > 0 /\ ready' \in BOOLEAN /\ initialSerial' \in Nat
    <3>1. Watermark(ensured) \in CMs
      BY WatermarkType, Zenon DEF TypeOK
    <3>2. [list EXCEPT ![Len(list)] = Watermark(ensured)] \in Seq(CMs)
      BY <3>1 DEF TypeOK
    <3>3. CASE ready
      BY <1>5, <3>3, Zenon DEF Opened, Initialize, TypeOK
    <3>4. CASE ~ready
      <4>1. /\ list' = [list EXCEPT ![Len(list)] = Watermark(ensured)]
            /\ ready' = TRUE /\ initialSerial' = db.initial
        BY <1>5, <3>4, Zenon DEF Opened, Initialize
      <4>2. Len(list') = Len(list)
        BY <4>1 DEF TypeOK
      <4> QED
        BY <1>0, <3>2, <4>1, <4>2, Zenon DEF TypeOK
    <3> QED
      BY <3>3, <3>4, Zenon
  <2> QED
    BY <1>0, <1>5, <2>1, Zenon DEF Opened, TypeOK, tableVars, listenVars
<1>6. CASE Consume
  <2>1. notices # <<>> /\ notices' = Tail(notices)
        /\ UNCHANGED <<openVars, link, phase, scan, drops, failures>>
    BY <1>6, Zenon DEF Consume
  <2>2. list' \in Seq(CMs) /\ Len(list') > 0 /\ lastSeen' \in Nat /\ UNCHANGED <<ready, initialSerial>>
    <3>1. CASE opening = "none"
      BY <1>6, <3>1, Zenon DEF Consume, TypeOK, channelVars
    <3>2. CASE opening # "none"
      BY <1>6, <2>1, <3>2, HeadInLog, DeliverTyped, Zenon DEF Consume
    <3> QED
      BY <3>1, <3>2, Zenon
  <2>3. notices' \in Seq(Nat)
    BY <2>1, HeadInLog, Zenon
  <2> QED
    BY <1>0, <2>1, <2>2, <2>3, Zenon DEF TypeOK, openVars
<1>7. CASE ConsumeLoadFails
  <2>1. notices' \in Seq(Nat)
    BY <1>7, HeadInLog, Zenon DEF ConsumeLoadFails
  <2> QED
    BY <1>0, <1>7, <2>1, SMTT(30) DEF ConsumeLoadFails, TypeOK, channelVars, openVars
<1>8. CASE DropLink
  <2>1. link' \in BOOLEAN /\ notices' \in Seq(Nat) /\ drops' \in Nat
    <3>1. link' \in BOOLEAN
      BY <1>8, Zenon DEF DropLink
    <3>2. notices' = <<>> /\ drops' = drops + 1
      BY <1>8, Zenon DEF DropLink
    <3>3. drops \in Nat
      BY Zenon DEF TypeOK
    <3>4. notices' \in Seq(Nat) /\ drops' \in Nat
      BY <3>2, <3>3
    <3> QED
      BY <3>1, <3>4, Zenon
  <2>2. UNCHANGED <<channelVars, openVars, lastSeen, phase, scan, failures>>
    BY <1>8, Zenon DEF DropLink
  <2> QED
    BY <1>0, <2>1, <2>2, Zenon DEF TypeOK, channelVars, openVars
<1>9. CASE Redial
  BY <1>0, <1>9, Zenon DEF Redial, TypeOK, channelVars, openVars
<1>10. CASE ReadMessages \/ ReadPresence
  <2>1. Missed("message") \subseteq CMs /\ Missed("presence") \subseteq CMs
    BY <1>0 DEF Missed
  <2> QED
    BY <1>0, <1>10, <2>1, Zenon DEF ReadMessages, ReadPresence, TypeOK, channelVars, openVars
<1>11. CASE Replay
  <2>1. PICK cm \in scan : Deliver(cm) /\ scan' = scan \ {cm}
    BY <1>11, Zenon DEF Replay
  <2>2. cm \in CMs
    BY <2>1, Zenon DEF TypeOK
  <2> QED
    BY <1>0, <1>11, <2>1, <2>2, DeliverTyped, Zenon DEF Replay, TypeOK, openVars
<1>12. CASE Replayed
  BY <1>0, <1>12, Zenon DEF Replayed, TypeOK, channelVars, openVars
<1>13. CASE ReconcileFails
  BY <1>0, <1>13 DEF ReconcileFails, TypeOK, channelVars, openVars
<1> QED
  BY <1>1, <1>2, <1>3, <1>4, <1>5, <1>6, <1>7, <1>8, <1>9, <1>10, <1>11, <1>12, <1>13, Zenon
  DEF Elsewhere, Reconcile

\* The serials of a log are numbers.
LEMMA SerialsTyped ==
    ASSUME NEW log \in Seq(CMs)
    PROVE  \A i \in 1..Len(log) : log[i] \in CMs /\ log[i].serial \in Nat
<1>1. \A i \in 1..Len(log) : log[i] \in CMs
  OBVIOUS
<1>2. \A cm \in CMs : cm.serial \in Nat
  BY Zenon DEF CMs
<1> QED
  BY <1>1, <1>2, Zenon

\* A commit keeps the log in order, and the other transactions as they are: no
\* message goes away under them.
LEMMA CommitKeepsLog ==
    ASSUME LogInv, NEW p \in Publishers, Commit(p)
    PROVE  LogInv'
<1>1. TypeOK /\ TxInv /\ TxHolds(tx[p], db.latest) /\ tx[p].n # 0
  BY Zenon DEF LogInv, TxInv, TxHolds, Commit, Write
<1>2. PICK cm :
        /\ Commits(p, cm) /\ cm.n # 0
        /\ \/ cm.act = "create" /\ Creates(cm)
           \/ cm.act \in Mutations /\ Mutates(p, cm)
           \/ cm.act = "annotate" /\ Summarises(cm)
           \/ cm.act \in PresenceOps /\ FoldsPresence(cm)
  BY <1>1, CommitCommits, Zenon
<1>3. /\ cm \in CMs /\ db.log \in Seq(CMs) /\ db.serial \in Nat /\ db.initial \in Nat
      /\ cm.serial = db.serial + 1 /\ db'.serial = db.serial + 1 /\ db'.initial = db.initial
      /\ db'.log = Append(db.log, cm) /\ tx \in [Publishers -> Txs]
      /\ \A i \in 1..Len(db.log) : db.log[i].serial \in Nat
  <2>1. db \in Databases /\ tx \in [Publishers -> Txs]
    BY <1>1, Zenon DEF TypeOK
  <2>2. db.log \in Seq(CMs) /\ db.serial \in Nat /\ db.initial \in Nat
    BY <2>1, Zenon DEF Databases
  <2> QED
    BY <1>2, <2>1, <2>2, SerialsTyped, Zenon DEF Commits
<1>4. OneMore(cm)
  BY <1>3, Zenon DEF OneMore
<1>5. /\ Len(db.log) \in Nat /\ Len(db'.log) = Len(db.log) + 1
      /\ \A i \in 1..Len(db.log) : db'.log[i] = db.log[i] /\ i \in 1..Len(db'.log)
      /\ db'.log[Len(db.log) + 1] = cm
      /\ \A i \in 1..Len(db'.log) : i \in 1..Len(db.log) \/ i = Len(db.log) + 1
  BY <1>4, OneMoreFacts, Zenon
<1>6. TypeOK'
  <2>1. NoTx \in Txs
    BY CreateRowType, ChannelAssumption
    DEF NoTx, Txs, NoRow, CreateRow, Supplied, Rows, Idents, Acts
  <2>2. tx' \in [Publishers -> Txs]
    BY <1>2, <1>3, <2>1, Zenon DEF Commits
  <2>3. db' \in Databases /\ acks' \subseteq IdRows /\ notices' \in Seq(Nat)
    BY <1>1, CommitTyped, Zenon
  <2>4. UNCHANGED <<channelVars, openVars, lastSeen, link, phase, scan, drops, failures>>
    BY <1>2, Zenon DEF Commits
  <2> QED
    BY <1>1, <2>2, <2>3, <2>4, Zenon DEF TypeOK, channelVars, openVars
<1>7. \A row \in db.latest : \E other \in db'.latest : other.ident = row.ident
  <2>1. CASE cm.act = "create" /\ Creates(cm)
    BY <2>1, Zenon DEF Creates
  <2>2. CASE cm.act \in Mutations /\ Mutates(p, cm)
    <3>1. RowOf(cm.on).ident = cm.on /\ tx[p].cur.ident = cm.on /\ tx[p].cur \in Rows
      BY <1>1, <1>2, <2>2, RowOfRow DEF TxHolds, Commits, Txs
    <3>2. PICK new : new = MergeVersion(tx[p].cur, cm.act, cm.data, cm.serial)
      OBVIOUS
    <3>3. new.ident = cm.on
      BY <1>3, <3>1, <3>2, MergeVersionType DEF CMs
    <3> QED
      BY <2>2, <3>1, <3>2, <3>3, Zenon DEF Mutates
  <2>3. CASE cm.act = "annotate" /\ Summarises(cm)
    <3>0. (\E row \in db.latest : row.ident = cm.on) /\ db.latest \subseteq Rows
      <4>1. TxHolds(tx[p], db.latest) /\ tx[p].act = cm.act /\ tx[p].on = cm.on
        BY <1>1, <1>2, Zenon DEF Commits
      <4>2. db.latest \subseteq Rows
        BY <1>1, Zenon DEF TypeOK, Databases
      <4> QED
        BY <2>3, <4>1, <4>2, Zenon DEF TxHolds
    <3>1. RowOf(cm.on).ident = cm.on /\ RowOf(cm.on) \in Rows
      BY <3>0, RowOfRow, Zenon
    <3>2. PICK row \in Rows : row = RowOf(cm.on) /\ row.ident = cm.on
      BY <3>1, Zenon
    <3>3. FoldSummary(row, cm.serial).ident = cm.on
      BY <3>2, Zenon DEF FoldSummary, Rows
    <3> QED
      BY <2>3, <3>2, <3>3, Zenon DEF Summarises
  <2>4. CASE cm.act \in PresenceOps /\ FoldsPresence(cm)
    BY <2>4, Zenon DEF FoldsPresence
  <2> QED
    BY <1>2, <2>1, <2>2, <2>3, <2>4, Zenon
<1>8. TxInv'
  <2> SUFFICES ASSUME NEW q \in Publishers, tx'[q].open PROVE TxHolds(tx'[q], db'.latest)
    BY Zenon DEF TxInv
  <2>1. q # p
    BY <1>2, <1>3, Zenon DEF Commits, NoTx
  <2>2. tx'[q] = tx[q]
    BY <1>2, <1>3, <2>1, Zenon DEF Commits
  <2>3. TxHolds(tx[q], db.latest)
    BY <1>1, <2>2, Zenon DEF TxInv
  <2> QED
    BY <1>7, <2>2, <2>3, Zenon DEF TxHolds
<1>9. LogIncreases'
  <2> SUFFICES ASSUME NEW i \in 1..Len(db'.log)
               PROVE  /\ db'.initial < db'.log[i].serial
                      /\ \A j \in 1..(i - 1) : db'.log[j].serial < db'.log[i].serial
    BY Zenon DEF LogIncreases
  <2>1. \A k \in 1..Len(db.log) :
            /\ db.initial < db.log[k].serial
            /\ \A j \in 1..(k - 1) : db.log[j].serial < db.log[k].serial
    BY Zenon DEF LogInv, LogIncreases
  <2> QED
    BY <1>3, <1>5, <2>1, SMTT(30) DEF LogInv
<1>10. /\ db'.initial <= db'.serial
       /\ \A i \in 1..Len(db'.log) : db'.log[i].serial <= db'.serial /\ db'.log[i].n # 0
  BY <1>2, <1>3, <1>5, SMTT(30) DEF LogInv
<1>11. NoticesNameRows'
  <2>1. \A k \in 1..Len(notices) : \E i \in 1..Len(db'.log) : db'.log[i].serial = notices[k]
    BY <1>5, Zenon DEF LogInv, NoticesNameRows
  <2>2. \E i \in 1..Len(db'.log) : db'.log[i].serial = cm.serial
    BY <1>5, SMTT(30)
  <2>3. \A k \in 1..Len(notices') :
            notices'[k] = cm.serial \/ (k \in 1..Len(notices) /\ notices'[k] = notices[k])
    <3>1. notices \in Seq(Nat) /\ cm.serial \in Nat
      BY <1>1, <1>3, SMTT(30) DEF TypeOK
    <3> QED
      BY <1>2, <3>1 DEF Commits
  <2> QED
    BY <2>1, <2>2, <2>3, Zenon DEF NoticesNameRows
<1> QED
  BY <1>6, <1>8, <1>9, <1>10, <1>11, Zenon DEF LogInv

\* And every other step.
LEMMA LogInvStep == LogInv /\ [Next]_vars => LogInv'
<1> SUFFICES ASSUME LogInv, [Next]_vars PROVE LogInv'
  OBVIOUS
<1>0. /\ TypeOK /\ TxInv /\ NoticesNameRows
      /\ db \in Databases /\ tx \in [Publishers -> Txs]
      /\ db.serial \in Nat /\ db.initial \in Nat /\ db.log \in Seq(CMs)
  BY Zenon DEF LogInv, TypeOK, Databases
<1>1. ASSUME NEW p \in Publishers, Publish(p) PROVE LogInv'
  <2>1. PICK t \in Txs : TxHolds(t, db.latest) /\ tx' = [tx EXCEPT ![p] = t]
    BY <1>0, <1>1, PublishBegins, Zenon
  <2>2. UNCHANGED <<channelVars, db, acks, openVars, listenVars>>
    BY <1>0, <1>1, PublishBegins, Zenon
  <2>3. tx' \in [Publishers -> Txs] /\ \A q \in Publishers : tx'[q] = tx[q] \/ tx'[q] = t
    BY <1>0, <2>1, Zenon
  <2>4. TypeOK'
    BY <1>0, <2>2, <2>3, Zenon DEF TypeOK, channelVars, openVars, listenVars
  <2>5. TxInv'
    BY <1>0, <2>1, <2>2, <2>3, Zenon DEF TxInv
  <2> QED
    BY <2>2, <2>4, <2>5, Zenon DEF LogInv, LogIncreases, NoticesNameRows, listenVars
<1>2. ASSUME NEW p \in Publishers, Abort(p) PROVE LogInv'
  <2>1. tx' = [tx EXCEPT ![p] = NoTx] /\ UNCHANGED <<channelVars, db, acks, openVars, listenVars>>
    BY <1>2, Zenon DEF Abort
  <2>2. NoTx \in Txs /\ ~NoTx.open
    BY CreateRowType, ChannelAssumption
    DEF NoTx, Txs, NoRow, CreateRow, Supplied, Rows, Idents, Acts
  <2>3. /\ tx' \in [Publishers -> Txs]
        /\ \A q \in Publishers : tx'[q] = tx[q] \/ tx'[q] = NoTx
    BY <1>0, <2>1, <2>2, Zenon
  <2>4. TypeOK'
    BY <1>0, <2>1, <2>3, Zenon DEF TypeOK, channelVars, openVars, listenVars
  <2>5. TxInv'
    BY <1>0, <2>1, <2>2, <2>3, Zenon DEF TxInv
  <2> QED
    BY <2>1, <2>4, <2>5, Zenon DEF LogInv, LogIncreases, NoticesNameRows, listenVars
<1>3. ASSUME NEW p \in Publishers, NEW r \in db.ids, Duplicate(p, r) PROVE LogInv'
  <2>1. acks' = acks \cup {r} /\ UNCHANGED <<channelVars, db, tx, openVars, listenVars>>
    BY <1>3, Zenon DEF Duplicate
  <2>2. acks' \subseteq IdRows
    BY <1>0, <2>1, Zenon DEF TypeOK, Databases
  <2>3. TypeOK'
    BY <1>0, <2>1, <2>2, Zenon DEF TypeOK, channelVars, openVars, listenVars
  <2> QED
    BY <1>0, <2>1, <2>3, Zenon DEF LogInv, TxInv, LogIncreases, NoticesNameRows, listenVars
<1>4. CASE Elsewhere
  <2>1. /\ tx' = tx
        /\ db' = db \/ (db.serial = 0 /\ db' = [db EXCEPT !.serial = 1, !.initial = 1])
    BY <1>0, <1>4, ElsewhereTables, Zenon
  <2>2. /\ db'.log = db.log /\ db'.latest = db.latest
        /\ db'.serial \in Nat /\ db'.initial \in Nat
        /\ db'.initial <= db'.serial /\ db.serial <= db'.serial
        /\ db'.initial = db.initial \/ db.serial = 0
    <3>1. db.initial <= db.serial
      BY Zenon DEF LogInv
    <3>2. CASE db' = db
      BY <1>0, <3>1, <3>2
    <3>3. CASE db.serial = 0 /\ db' = [db EXCEPT !.serial = 1, !.initial = 1]
      <4>1. db'.log = db.log /\ db'.latest = db.latest /\ db'.serial = 1 /\ db'.initial = 1
        BY <1>0, <3>3, Zenon DEF Databases
      <4> QED
        BY <3>3, <4>1
    <3> QED
      BY <2>1, <3>2, <3>3, Zenon
  <2>3. \A i \in 1..Len(db.log) : db.log[i].serial \in Nat
    BY <1>0, SerialsTyped, Zenon
  <2>4. db.serial = 0 => Len(db.log) = 0
    <3> SUFFICES ASSUME db.serial = 0, Len(db.log) # 0 PROVE FALSE
      OBVIOUS
    <3>1. 1 \in 1..Len(db.log)
      BY <1>0
    <3>2. db.initial < db.log[1].serial /\ db.log[1].serial <= db.serial
      BY <3>1, Zenon DEF LogInv, LogIncreases
    <3> QED
      BY <1>0, <2>3, <3>1, <3>2
  <2>5. LogIncreases'
    BY <1>0, <2>2, <2>3, <2>4, SMTT(30) DEF LogInv, LogIncreases
  <2>6. \A i \in 1..Len(db'.log) : db'.log[i].serial <= db'.serial /\ db'.log[i].n # 0
    BY <1>0, <2>2, <2>3, SMTT(30) DEF LogInv
  <2>7. TypeOK'
    BY <1>0, <1>4, ElsewhereTyped, Zenon
  <2>8. TxInv'
    BY <1>0, <2>1, <2>2, Zenon DEF TxInv
  <2>9. NoticesNameRows'
    <3>1. CASE notices' = notices \/ notices' = <<>>
      <4>1. \A k \in 1..Len(notices') : k \in 1..Len(notices) /\ notices'[k] = notices[k]
        BY <3>1
      <4> QED
        BY <1>0, <2>2, <4>1, Zenon DEF LogInv, NoticesNameRows
    <3>2. CASE notices # <<>> /\ notices' = Tail(notices)
      BY <1>0, <2>2, <3>2, HeadInLog DEF NoticesNameRows
    <3>3. \/ notices' = notices \/ notices' = <<>>
          \/ notices # <<>> /\ notices' = Tail(notices)
      BY <1>4, Zenon DEF Elsewhere, OpenElsewhere, Register, EnsureChannel, EnsureFails, Opened, Consume,
         ConsumeLoadFails, DropLink, Redial, Reconcile, ReadMessages, ReadPresence, Replay,
         Replayed, ReconcileFails, listenVars
    <3> QED
      BY <3>1, <3>2, <3>3, Zenon
  <2> QED
    BY <2>2, <2>5, <2>6, <2>7, <2>8, <2>9, Zenon DEF LogInv
<1>5. CASE UNCHANGED vars
  BY <1>5, Zenon DEF LogInv, TypeOK, TxInv, LogIncreases, NoticesNameRows,
              vars, channelVars, tableVars, openVars, listenVars
<1> QED
  BY <1>1, <1>2, <1>3, <1>4, <1>5, CommitKeepsLog, Zenon DEF Next, Elsewhere

LEMMA LogInvHolds == Spec => []LogInv
<1>1. Init => LogInv
  <2> SUFFICES ASSUME Init PROVE LogInv
    OBVIOUS
  <2>1. NoTx \in Txs /\ ~NoTx.open
    BY CreateRowType, ChannelAssumption
    DEF NoTx, Txs, NoRow, CreateRow, Supplied, Rows, Idents, Acts
  <2>2. <<Watermark(0)>> \in Seq(CMs) /\ Len(<<Watermark(0)>>) > 0
    BY WatermarkType
  <2>3. db \in Databases /\ db.log = <<>> /\ db.serial = 0 /\ db.initial = 0
    BY DEF Init, EmptyTables, Databases
  <2>4. TypeOK
    <3>1. tx \in [Publishers -> Txs] /\ acks \subseteq IdRows
      BY <2>1, Zenon DEF Init
    <3>2. /\ opening \in {"none", "registered", "ensured", "open"} /\ ensured \in Nat
          /\ lastSeen \in Nat /\ phase \in {"consume", "messages", "presence", "replay"}
          /\ scan \subseteq CMs /\ drops \in Nat /\ failures \in Nat
      BY Zenon DEF Init
    <3>3. notices \in Seq(Nat)
      BY DEF Init
    <3>4. link \in BOOLEAN /\ ready \in BOOLEAN
      BY Zenon DEF Init, NewChannel
    <3>5. list \in Seq(CMs) /\ Len(list) > 0 /\ initialSerial \in Nat
      BY <2>2, Zenon DEF Init, NewChannel
    <3> QED
      BY <2>3, <3>1, <3>2, <3>3, <3>4, <3>5, Zenon DEF TypeOK
  <2>5. TxInv
    BY <2>1, Zenon DEF Init, TxInv
  <2> QED
    <3>1. db.log = << >> /\ notices = << >> /\ db.initial = 0 /\ db.serial = 0
      BY Zenon DEF Init, EmptyTables
    <3> QED
      BY <2>4, <2>5, <3>1 DEF LogInv, LogIncreases, NoticesNameRows
<1> QED
  BY <1>1, LogInvStep, PTL DEF Spec

\* Every variable of PostgresStore keeps its type.
THEOREM TablesTyped == Spec => []TypeOK
BY LogInvHolds, PTL DEF LogInv

\* Publishes of any number of nodes form one sequence: though transactions overlap, the
\* log grows in strictly increasing serial order, because the serial is taken under the
\* lock of the channels row that the commit releases.
THEOREM LogInOrder == Spec => []LogIncreases
BY LogInvHolds, PTL DEF LogInv

-----------------------------------------------------------------------------
(***************************************************************************)
(* One commit per id.                                                      *)
(***************************************************************************)
\* The log with one commit more.
LEMMA CommitGrows ==
    ASSUME LogInv, NEW p \in Publishers, Commit(p)
    PROVE  \E cm :
             /\ Commits(p, cm) /\ TxHolds(tx[p], db.latest)
             /\ cm.n # 0 /\ cm.n \in Nat /\ cm.serial \in Nat /\ cm.data \in BOOLEAN
             /\ OneMore(cm)
             /\ db.serial \in Nat /\ cm.serial = db.serial + 1 /\ db'.serial = db.serial + 1
             /\ \A i \in 1..Len(db.log) : db.log[i].serial # cm.serial
             /\ \/ cm.act = "create" /\ Creates(cm)
                \/ cm.act \in Mutations /\ Mutates(p, cm)
                \/ cm.act = "annotate" /\ Summarises(cm)
                \/ cm.act \in PresenceOps /\ FoldsPresence(cm)
<1>1. TypeOK /\ TxHolds(tx[p], db.latest) /\ tx[p].n # 0
  BY Zenon DEF LogInv, TxInv, TxHolds, Commit, Write
<1>2. PICK cm :
        /\ Commits(p, cm) /\ cm.n # 0
        /\ \/ cm.act = "create" /\ Creates(cm)
           \/ cm.act \in Mutations /\ Mutates(p, cm)
           \/ cm.act = "annotate" /\ Summarises(cm)
           \/ cm.act \in PresenceOps /\ FoldsPresence(cm)
  BY <1>1, CommitCommits, Zenon
<1>3. cm \in CMs /\ cm.n \in Nat /\ cm.serial \in Nat /\ cm.data \in BOOLEAN
  <2>1. cm \in CMs
    BY <1>2, Zenon DEF Commits
  <2>2. \A c \in CMs : c.n \in Nat /\ c.serial \in Nat /\ c.data \in BOOLEAN
    BY DEF CMs
  <2> QED
    BY <2>1, <2>2, Zenon
<1>4. db.log \in Seq(CMs) /\ db.serial \in Nat
  BY <1>1, Zenon DEF TypeOK, Databases
<1>5. OneMore(cm) /\ cm.serial = db.serial + 1 /\ db'.serial = db.serial + 1
  BY <1>2, <1>3, <1>4, Zenon DEF OneMore, Commits
<1>6. \A i \in 1..Len(db.log) : db.log[i].serial # cm.serial
  BY <1>4, <1>5, SerialsTyped DEF LogInv
<1> QED
  BY <1>1, <1>2, <1>3, <1>4, <1>5, <1>6, Zenon

\* The unique index keeps a second commit of an id out, however long ago the look-up
\* that did not find it.
LEMMA CommitKeepsIds ==
    ASSUME LogInv, IdInv, NEW p \in Publishers, Commit(p)
    PROVE  IdInv'
<1>1. PICK cm : Commits(p, cm) /\ OneMore(cm) /\ cm.n # 0
  BY CommitGrows, Zenon
<1>2. /\ Len(db.log) \in Nat /\ Len(db'.log) = Len(db.log) + 1
      /\ \A i \in 1..Len(db.log) : db'.log[i] = db.log[i] /\ i \in 1..Len(db'.log)
      /\ db'.log[Len(db.log) + 1] = cm /\ Len(db.log) + 1 \in 1..Len(db'.log)
      /\ \A i \in 1..Len(db'.log) : i \in 1..Len(db.log) \/ i = Len(db.log) + 1
  BY <1>1, OneMoreFacts, Zenon
<1>3. PICK row : row = [id |-> cm.id, serial |-> cm.serial]
  BY Zenon
<1>4. /\ db'.ids = db.ids \cup IdRowsOf(cm) /\ acks' = acks \cup IdRowsOf(cm)
      /\ cm.id # NoId => row \in IdRowsOf(cm)
      /\ \A r \in IdRowsOf(cm) : r = row
      /\ cm.id \notin IdsIndexed
  BY <1>1, <1>3, Zenon DEF Commits, IdRowsOf
<1>5. acks' \subseteq db'.ids
  BY <1>4, Zenon DEF IdInv
<1>6. \A r \in db'.ids : \E i \in 1..Len(db'.log) :
          db'.log[i].id = r.id /\ db'.log[i].serial = r.serial
  <2> SUFFICES ASSUME NEW r \in db'.ids
               PROVE  \E i \in 1..Len(db'.log) : db'.log[i].id = r.id /\ db'.log[i].serial = r.serial
    OBVIOUS
  <2>1. CASE r \in db.ids
    BY <1>2, <2>1, SMTT(30) DEF IdInv, IdsNameLog
  <2>2. CASE r = row
    BY <1>2, <1>3, <2>2, Zenon
  <2> QED
    BY <1>4, <2>1, <2>2, Zenon
<1>7. \A i \in 1..Len(db'.log) : db'.log[i].id # NoId => \E r \in db'.ids : r.id = db'.log[i].id
  <2> SUFFICES ASSUME NEW i \in 1..Len(db'.log), db'.log[i].id # NoId
               PROVE  \E r \in db'.ids : r.id = db'.log[i].id
    OBVIOUS
  <2>1. CASE i \in 1..Len(db.log)
    BY <1>2, <1>4, <2>1, SMTT(30) DEF IdInv, IdsNameLog
  <2>2. CASE i = Len(db.log) + 1
    BY <1>2, <1>3, <1>4, <2>2, Zenon
  <2> QED
    BY <1>2, <2>1, <2>2, Zenon
<1>8. \A i \in 1..Len(db.log) : db.log[i].id # NoId => db.log[i].id # cm.id
  BY <1>4 DEF IdInv, IdsNameLog, IdsIndexed
<1>9. \A i, j \in 1..Len(db'.log) :
          db'.log[i].id = db'.log[j].id /\ db'.log[i].id # NoId => i = j
  <2> SUFFICES ASSUME NEW i \in 1..Len(db'.log), NEW j \in 1..Len(db'.log),
                      db'.log[i].id = db'.log[j].id, db'.log[i].id # NoId
               PROVE  i = j
    OBVIOUS
  <2>1. CASE i \in 1..Len(db.log) /\ j \in 1..Len(db.log)
    BY <1>2, <2>1, ZenonT(30) DEF IdInv, IdsNameLog
  <2>2. CASE i \notin 1..Len(db.log) \/ j \notin 1..Len(db.log)
    BY <1>2, <1>8, <2>2, Zenon
  <2> QED
    BY <2>1, <2>2, Zenon
<1> QED
  BY <1>5, <1>6, <1>7, <1>9, Zenon DEF IdInv, IdsNameLog

\* Steps that are not commits leave every table but the serials alone.
LEMMA OtherSteps ==
    ASSUME LogInv, [Next]_vars, ~(\E p \in Publishers : Commit(p))
    PROVE  /\ db'.log = db.log /\ db'.ids = db.ids /\ db'.latest = db.latest
           /\ db'.versions = db.versions /\ db'.members = db.members
           /\ db.serial \in Nat /\ db'.serial \in Nat /\ db.serial <= db'.serial
           /\ acks' = acks \/ \E r \in db.ids : acks' = acks \cup {r}
<1>0. TypeOK /\ db \in Databases /\ db.serial \in Nat
  BY Zenon DEF LogInv, TypeOK, Databases
<1>1. CASE \E p \in Publishers : Publish(p)
  BY <1>0, <1>1, PublishBegins
<1>2. CASE \E p \in Publishers : Abort(p)
  BY <1>0, <1>2 DEF Abort
<1>3. CASE \E p \in Publishers : \E r \in db.ids : Duplicate(p, r)
  BY <1>0, <1>3 DEF Duplicate
<1>4. CASE Elsewhere
  <2>1. /\ acks' = acks
        /\ db' = db \/ (db.serial = 0 /\ db' = [db EXCEPT !.serial = 1, !.initial = 1])
    BY <1>0, <1>4, ElsewhereTables, Zenon
  <2>2. CASE db' = db
    BY <1>0, <2>1, <2>2
  <2>3. CASE db.serial = 0 /\ db' = [db EXCEPT !.serial = 1, !.initial = 1]
    <3>1. /\ db'.log = db.log /\ db'.ids = db.ids /\ db'.latest = db.latest
          /\ db'.versions = db.versions /\ db'.members = db.members /\ db'.serial = 1
      BY <1>0, <2>3, Zenon DEF Databases
    <3> QED
      BY <2>1, <2>3, <3>1
  <2> QED
    BY <2>1, <2>2, <2>3, Zenon
<1>5. CASE UNCHANGED vars
  BY <1>0, <1>5 DEF vars, tableVars
<1> QED
  BY <1>1, <1>2, <1>3, <1>4, <1>5, Zenon DEF Next, Elsewhere

\* Idempotency across nodes, for any number of publishers and retries: a client id is
\* committed at most once though the look-up precedes the lock, and every answer names
\* that commit.
THEOREM RetriesCommitOnce == Spec => []RetriesAgree
<1>1. Init => IdInv
  BY DEF Init, EmptyTables, IdInv, IdsNameLog
<1>2. LogInv /\ IdInv /\ [Next]_vars => IdInv'
  <2> SUFFICES ASSUME LogInv, IdInv, [Next]_vars PROVE IdInv'
    OBVIOUS
  <2>1. CASE ~(\E p \in Publishers : Commit(p))
    <3>1. /\ db'.log = db.log /\ db'.ids = db.ids
          /\ acks' = acks \/ \E r \in db.ids : acks' = acks \cup {r}
      BY <2>1, OtherSteps, Zenon
    <3>2. acks' \subseteq db'.ids
      BY <3>1, Zenon DEF IdInv
    <3> QED
      BY <3>1, <3>2, Zenon DEF IdInv
  <2> QED
    BY <2>1, CommitKeepsIds, Zenon
<1>3. IdInv => RetriesAgree
  BY Zenon DEF IdInv, IdsNameLog, RetriesAgree
<1> QED
  BY <1>1, <1>2, <1>3, LogInvHolds, PTL DEF Spec
=============================================================================
