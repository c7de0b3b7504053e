---------------------------- MODULE PostgresStore ----------------------------
(***************************************************************************)
(* storage/postgres: one channel of the cluster backend.  Publishers on    *)
(* any node run transactions against one database; a LISTEN goroutine on   *)
(* each node turns NOTIFYs into Appends.  Nodes share nothing but the      *)
(* database, so one node's goroutine and core.Channel stand for any.       *)
(*                                                                         *)
(* A transaction reads (id index, target message), then takes the row lock *)
(* of the channel in advance_channel_serial and holds it to the commit.    *)
(* Nothing another session can see or do comes between lock and commit, so *)
(* a publish is two steps: Begin and Commit.  The serial is the number of  *)
(* the channels row, which next_channel_serial increases by the rule of    *)
(* Generator.Mint.  db.log is channel_messages in commit order.            *)
(***************************************************************************)
EXTENDS Projection

CONSTANTS
    Publishers,     \* goroutines inside a ChannelStore call, on any node
    Published,      \* bound: the acts that are published
    OpenWhen,       \* when the node opens the channel: "first", "quiet" or "any"
    MaxSerial,      \* bound: serials minted
    MaxDrops,       \* bound: losses of the LISTEN connection
    MaxFailures     \* bound: failing database calls of the node's goroutines

PostgresAssumption ==
    /\ Published \subseteq Acts
    /\ OpenWhen \in {"first", "quiet", "any"}
    /\ MaxSerial \in Nat /\ MaxDrops \in Nat /\ MaxFailures \in Nat

VARIABLES
    db,             \* the tables of the database
    tx,             \* tx[p]: what p's open transaction is to write, and has read
    acks,           \* every [id, serial] a publish under a client id was answered with
    opening,        \* how far Storage.Channel has come
    ensured,        \* the current serial ensure_channel returned
    lastSeen,       \* the channelStore's high-water mark
    link,           \* the LISTEN connection is alive
    notices,        \* serials of the NOTIFYs buffered for the connection
    phase,          \* where listenLoop is
    scan,           \* the cms reconcile has read and not yet delivered
    drops, failures

tableVars == <<db, tx, acks>>
openVars == <<opening, ensured>>
listenVars == <<lastSeen, link, notices, phase, scan, drops, failures>>
vars == <<channelVars, tableVars, openVars, listenVars>>

NoRow == CreateRow(0, 0, FALSE)
NoTx == [open |-> FALSE, act |-> "create", on |-> NoSubject, id |-> NoId, n |-> 0, cur |-> NoRow]
Txs == [open : BOOLEAN, act : Acts, on : Idents \cup Members \cup {NoSubject},
        id : Ids \cup {NoId}, n : 0..MaxBatch, cur : Rows]

Databases ==
    [serial : Nat, initial : Nat, log : Seq(CMs), ids : SUBSET IdRows, latest : SUBSET Rows,
     versions : SUBSET Rows, annotations : SUBSET Notes, members : SUBSET Present]
EmptyTables ==
    [serial |-> 0, initial |-> 0, log |-> <<>>, ids |-> {}, latest |-> {},
     versions |-> {}, annotations |-> {}, members |-> {}]

Init ==
    /\ NewChannel
    /\ db = EmptyTables /\ tx = [p \in Publishers |-> NoTx] /\ acks = {}
    /\ opening = "none" /\ ensured = 0
    /\ lastSeen = 0 /\ link = TRUE /\ notices = <<>> /\ phase = "consume" /\ scan = {}
    /\ drops = 0 /\ failures = 0

IdsIndexed == {r.id : r \in db.ids}

-----------------------------------------------------------------------------
(***************************************************************************)
(* Publishes.                                                              *)
(***************************************************************************)
\* A publisher's own node has opened the channel.
CanPublish(act) == act \in Published /\ db.serial # 0 /\ (OpenWhen = "first" => ready)

\* Every publish up to its row lock: the id look-up, and what it reads of
\* its target.
Begin(p, act, on, id, n, cur) ==
    /\ ~tx[p].open
    /\ CanPublish(act)
    /\ id \notin IdsIndexed
    /\ tx' = [tx EXCEPT ![p] = [open |-> TRUE, act |-> act, on |-> on, id |-> id,
                                n |-> n, cur |-> cur]]
    /\ UNCHANGED <<channelVars, db, acks, openVars, listenVars>>

\* channelStore.Store: a batch of n messages.
Store(p, id, n) == Begin(p, "create", NoSubject, id, n, NoRow)

\* channelStore.Mutate: the target's latest version is read before the lock.
Mutate(p, act, id, cur) == Begin(p, act, cur.ident, id, 1, cur)

\* channelStore.StoreAnnotation: the target exists.
StoreAnnotation(p, id, target) == Begin(p, "annotate", target.ident, id, 1, NoRow)

\* channelStore.StorePresence.
StorePresence(p, act, id, m) == Begin(p, act, m, id, 1, NoRow)

\* Any publish under an id in the index is answered with the original.
Duplicate(p, r) ==
    /\ ~tx[p].open
    /\ acks' = acks \cup {r}
    /\ UNCHANGED <<channelVars, db, tx, openVars, listenVars>>

\* Faulty PutRows: the version index is not written.
PutRows_LatestOnly(old, new) == [db EXCEPT !.latest = (@ \ old) \cup new]

\* What the transaction writes besides log, ids and serial.  Mutate merges
\* into the version it read; foldSummaryTx reads under the lock.
PutRows(old, new) == [db EXCEPT !.latest = (@ \ old) \cup new, !.versions = @ \cup new]
RowOf(ident) == CHOOSE row \in db.latest : row.ident = ident

Tables(t, cm) ==
    CASE t.act = "create" ->
            PutRows({}, {CreateRow(cm.serial, i, cm.data) : i \in 0..(t.n - 1)})
      [] t.act \in Mutations ->
            PutRows({RowOf(t.on)}, {MergeVersion(t.cur, t.act, cm.data, cm.serial)})
      [] t.act = "annotate" ->
            [db EXCEPT !.latest = (@ \ {RowOf(t.on)}) \cup {FoldSummary(RowOf(t.on), cm.serial)},
                       !.annotations = @ \cup {[ident |-> t.on, serial |-> cm.serial]}]
      [] t.act \in PresenceOps ->
            [db EXCEPT !.members = FoldPresence(@, t.on, t.act, cm.serial)]

\* The cm a transaction commits, and its row of the id index.
CMOf(t, serial) ==
    [serial |-> serial, act |-> t.act, on |-> t.on, id |-> t.id, n |-> t.n,
     data |-> t.act # "delete"]
IdRowsOf(cm) == IF cm.id = NoId THEN {} ELSE {[id |-> cm.id, serial |-> cm.serial]}

\* The lines every publish ends with: the inserts, the NOTIFY, the commit.
Write(p, cm) ==
    /\ tx[p].open
    /\ cm.serial <= MaxSerial
    /\ db' = [Tables(tx[p], cm) EXCEPT !.serial = cm.serial, !.log = Append(@, cm),
                                       !.ids = @ \cup IdRowsOf(cm)]
    /\ notices' = IF link THEN Append(notices, cm.serial) ELSE notices
    /\ acks' = acks \cup IdRowsOf(cm)
    /\ tx' = [tx EXCEPT ![p] = NoTx]
    /\ UNCHANGED <<channelVars, openVars, lastSeen, link, phase, scan, drops, failures>>

\* Faulty Commit: channel_messages without its unique index on ids.
Commit_NoUniqueIndex(p) == Write(p, CMOf(tx[p], db.serial + 1))

\* advance_channel_serial and the rest of the transaction; the id goes in
\* under its unique index.
Commit(p) ==
    /\ tx[p].id \notin IdsIndexed
    /\ Write(p, CMOf(tx[p], db.serial + 1))

\* The transaction fails (a conflict on the id index, incompatible data, a
\* lost connection, a crash): nothing is written, the serial included.
Abort(p) ==
    /\ tx[p].open
    /\ tx' = [tx EXCEPT ![p] = NoTx]
    /\ UNCHANGED <<channelVars, db, acks, openVars, listenVars>>

-----------------------------------------------------------------------------
(***************************************************************************)
(* Storage.Channel, first call on the node: the store is registered, then  *)
(* ensure_channel reads the serials, then Initialize runs.                 *)
(***************************************************************************)
NothingOnTheWay == notices = <<>> /\ \A p \in Publishers : ~tx[p].open

Register ==
    /\ opening = "none"
    /\ OpenWhen # "any" => NothingOnTheWay
    /\ opening' = "registered"
    /\ UNCHANGED <<channelVars, tableVars, ensured, listenVars>>

\* ensure_channel: inserts the row with a fresh seed, or leaves it.
EnsureRow ==
    IF db.serial # 0 THEN UNCHANGED db
    ELSE db' = [db EXCEPT !.serial = 1, !.initial = 1]

\* Another node opens the channel.
OpenElsewhere ==
    /\ db.serial = 0
    /\ EnsureRow
    /\ UNCHANGED <<channelVars, tx, acks, openVars, listenVars>>

EnsureChannel ==
    /\ opening = "registered"
    /\ EnsureRow
    /\ ensured' = db'.serial
    /\ opening' = "ensured"
    /\ UNCHANGED <<channelVars, tx, acks, listenVars>>

\* ensure_channel fails: the store, and the Channel bound to it, go away.
EnsureFails ==
    /\ opening = "registered"
    /\ failures < MaxFailures
    /\ failures' = failures + 1
    /\ opening' = "none"
    /\ list' = <<Watermark(0)>>
    /\ lastSeen' = 0
    /\ UNCHANGED <<ready, initialSerial, cursor, delivered, tableVars, ensured,
                   link, notices, phase, scan, drops>>

Opened ==
    /\ opening = "ensured"
    /\ OpenWhen # "any" => NothingOnTheWay
    /\ Initialize(ensured, db.initial)
    /\ opening' = "open"
    /\ UNCHANGED <<tableVars, ensured, listenVars>>

-----------------------------------------------------------------------------
(***************************************************************************)
(* listenLoop.                                                             *)
(***************************************************************************)
Row(s) == CHOOSE i \in 1..Len(db.log) : db.log[i].serial = s

\* Faulty deliver: does not compare with the high-water mark.
Deliver_Twice(cm) ==
    /\ lastSeen' = cm.serial
    /\ AppendCM(cm)

\* channelStore.deliver.
Deliver(cm) ==
    IF cm.serial <= lastSeen THEN UNCHANGED <<channelVars, lastSeen>>
    ELSE /\ lastSeen' = cm.serial
         /\ AppendCM(cm)

\* consume: one notification is taken, its cm loaded and delivered.  One for
\* a channel without a store is dropped.
Consume ==
    /\ phase = "consume" /\ link
    /\ notices # <<>>
    /\ notices' = Tail(notices)
    /\ IF opening = "none" THEN UNCHANGED <<channelVars, lastSeen>>
       ELSE Deliver(db.log[Row(Head(notices))])
    /\ UNCHANGED <<tableVars, openVars, link, phase, scan, drops, failures>>

\* consume, when loadChannelMessage fails: the notification is skipped.
ConsumeLoadFails ==
    /\ phase = "consume" /\ link
    /\ notices # <<>> /\ opening # "none"
    /\ failures < MaxFailures
    /\ failures' = failures + 1
    /\ notices' = Tail(notices)
    /\ UNCHANGED <<channelVars, tableVars, openVars, lastSeen, link, phase, scan, drops>>

\* The LISTEN connection drops, with what was buffered on it.
DropLink ==
    /\ link
    /\ drops < MaxDrops
    /\ drops' = drops + 1
    /\ link' = FALSE
    /\ notices' = <<>>
    /\ UNCHANGED <<channelVars, tableVars, openVars, lastSeen, phase, scan, failures>>

\* Faulty redial: the listen loop ends when the connection is lost again.
Redial_Once ==
    /\ phase = "consume" /\ ~link /\ drops <= 1
    /\ link' = TRUE
    /\ phase' = IF opening = "none" THEN "consume" ELSE "messages"
    /\ UNCHANGED <<channelVars, tableVars, openVars, lastSeen, notices, scan, drops, failures>>

\* WaitForNotification fails; redial dials and LISTENs; reconcile collects
\* the registered stores.
Redial ==
    /\ phase = "consume" /\ ~link
    /\ link' = TRUE
    /\ phase' = IF opening = "none" THEN "consume" ELSE "messages"
    /\ UNCHANGED <<channelVars, tableVars, openVars, lastSeen, notices, scan, drops, failures>>

\* History(Kind, AfterChannelSerial: lastSeen), forwards and unlimited: a
\* set, since all that is done with the result is to go through it in
\* serial order.
Missed(kind) ==
    {db.log[i] : i \in {j \in 1..Len(db.log) :
                            KindOf(db.log[j].act) = kind /\ db.log[j].serial > lastSeen}}

\* reconcileFromHistory reads the messages, then the presence.
ReadMessages ==
    /\ phase = "messages"
    /\ scan' = Missed("message")
    /\ phase' = "presence"
    /\ UNCHANGED <<channelVars, tableVars, openVars, lastSeen, link, notices, drops, failures>>

ReadPresence ==
    /\ phase = "presence"
    /\ scan' = scan \cup Missed("presence")
    /\ phase' = "replay"
    /\ UNCHANGED <<channelVars, tableVars, openVars, lastSeen, link, notices, drops, failures>>

\* A failed read ends the reconcile of the channel; listenLoop goes on.
ReconcileFails ==
    /\ phase \in {"messages", "presence"}
    /\ failures < MaxFailures
    /\ failures' = failures + 1
    /\ scan' = {}
    /\ phase' = "consume"
    /\ UNCHANGED <<channelVars, tableVars, openVars, lastSeen, link, notices, drops>>

\* mergeByChannelSerial, and the loop over what it returns.
Replay ==
    /\ phase = "replay"
    /\ \E cm \in scan :
        /\ \A other \in scan : cm.serial <= other.serial
        /\ Deliver(cm)
        /\ scan' = scan \ {cm}
    /\ UNCHANGED <<tableVars, openVars, link, notices, phase, drops, failures>>

\* The loop is through: back to consume.
Replayed ==
    /\ phase = "replay" /\ scan = {}
    /\ phase' = "consume"
    /\ UNCHANGED <<channelVars, tableVars, openVars, lastSeen, link, notices, scan, drops, failures>>

Reconcile == ReadMessages \/ ReadPresence \/ Replay \/ Replayed

-----------------------------------------------------------------------------
Publish(p) ==
    \E id \in Ids \cup {NoId} :
        \/ \E n \in 1..MaxBatch : Store(p, id, n)
        \/ \E cur \in db.latest, act \in Mutations : Mutate(p, act, id, cur)
        \/ \E cur \in db.latest : StoreAnnotation(p, id, cur)
        \/ \E m \in Members, act \in PresenceOps : StorePresence(p, act, id, m)

Next ==
    \/ \E p \in Publishers : Publish(p) \/ Commit(p) \/ Abort(p)
    \/ \E p \in Publishers : \E r \in db.ids : Duplicate(p, r)
    \/ OpenElsewhere \/ Register \/ EnsureChannel \/ EnsureFails \/ Opened
    \/ Consume \/ ConsumeLoadFails \/ DropLink \/ Redial
    \/ Reconcile \/ ReconcileFails

\* The LISTEN goroutine runs until Close: it takes what is buffered, and
\* redials until it succeeds.
Fairness == WF_vars(Consume) /\ WF_vars(Redial) /\ WF_vars(Reconcile)

Spec == Init /\ [][Next]_vars
FairSpec == Spec /\ Fairness

-----------------------------------------------------------------------------
\* Every variable has its type.
TypeOK ==
    /\ list \in Seq(CMs) /\ Len(list) > 0
    /\ ready \in BOOLEAN /\ initialSerial \in Nat
    /\ db \in Databases
    /\ tx \in [Publishers -> Txs] /\ acks \subseteq IdRows
    /\ opening \in {"none", "registered", "ensured", "open"} /\ ensured \in Nat
    /\ lastSeen \in Nat /\ link \in BOOLEAN /\ notices \in Seq(Nat)
    /\ phase \in {"consume", "messages", "presence", "replay"} /\ scan \subseteq CMs
    /\ drops \in Nat /\ failures \in Nat

\* Publishes of all nodes form one sequence: the log is in strictly
\* increasing serial order, above the seed, though transactions of several
\* nodes overlap.
LogIncreases ==
    \A i \in 1..Len(db.log) :
        /\ db.initial < db.log[i].serial
        /\ \A j \in 1..(i - 1) : db.log[j].serial < db.log[i].serial

\* A client id is committed at most once though the look-up precedes the
\* lock, and every answer names that commit.
RetriesAgree ==
    /\ \A i, j \in 1..Len(db.log) :
            db.log[i].id = db.log[j].id /\ db.log[i].id # NoId => i = j
    /\ \A a \in acks : \E i \in 1..Len(db.log) :
            db.log[i].id = a.id /\ db.log[i].serial = a.serial

\* Concurrent operations never take a message back to an older version: the
\* projection holds the newest version of the log, one row per message, and
\* every version is indexed.
LatestIsNewest ==
    \A row \in db.latest :
        LET vs == VersionsOf(db.log, row.ident) IN
        /\ row.version = db.log[Newest(vs)].serial
        /\ {v.version : v \in {w \in db.versions : w.ident = row.ident}} =
                {db.log[i].serial : i \in vs}
        /\ \A other \in db.latest : other.ident = row.ident => other = row

\* The presence table is the fold of the log, whichever nodes published.
MembersAreFoldOfLog == MembersFoldOf(db.log, db.members)

\* The cms the log holds above serial s.
LogAbove(s) == SelectSeq(db.log, LAMBDA cm : cm.serial > s)

\* Whatever fails, and whenever the channel is opened: a stream, which starts
\* at or after the entry Initialize seeded, is handed committed cms in
\* serial order, each at most once.
AppendedInOrder ==
    LET seeded == Newest({i \in 1..Len(list) : list[i].n = 0}) IN
    \A i \in (seeded + 1)..Len(list) :
        /\ \E k \in 1..Len(db.log) : db.log[k] = list[i]
        /\ \A j \in (seeded + 1)..(i - 1) : list[j].serial < list[i].serial

\* The node gets every committed cm in the end, lost connections or not.
NodeCatchesUp == []<>(ready => Len(list) - 1 = Len(LogAbove(list[1].serial)))

\* Each transaction leaves the projection equal to the fold of the log.
ProjectionIsFoldOfLog == IsFoldOf(db.log, db.latest, db.versions, db.annotations)
=============================================================================
