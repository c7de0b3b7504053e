------------------------- MODULE PostgresTableProofs -------------------------
(***************************************************************************)
(* Proofs about the tables of PostgresStore, for any publishers, ids,      *)
(* members, bounds and any time of opening: a node appends what was        *)
(* committed, in order; the messages row has the newest version of each    *)
(* message, and the presence table is the fold of the log, though a        *)
(* transaction writes what it read before it had the lock.                 *)
(***************************************************************************)
EXTENDS PostgresStoreProofs, ProjectionProofs

\* One row of the projection: a message that has a newest version, the row's.
RowIsNewest(log, row, table) ==
    /\ HasLast(VersionsOf(log, row.ident))
    /\ row.version = log[Newest(VersionsOf(log, row.ident))].serial
    /\ VersionSerials(table, row.ident) = SerialsAt(log, VersionsOf(log, row.ident))

\* The rows are the newest versions, and a serial yet to be minted is in no table.
VersionInv ==
    /\ \A row \in db.latest : RowIsNewest(db.log, row, db.versions) /\ row.ident[1] <= db.serial
    /\ \A row, other \in db.latest : row.ident = other.ident => row = other
    /\ \A v \in db.versions : v.ident[1] <= db.serial
    /\ \A i \in 1..Len(db.log) :
        db.log[i].act \in Mutations =>
            db.log[i].on \in Idents /\ db.log[i].on[1] <= db.serial

PresenceInv == \A m \in Members : MemberStands(db.log, db.members, m)

\* Entry i of the list is a seed of Initialize, or stands for a commit.
Seeds == {i \in 1..Len(list) : list[i].n = 0}

\* What the LISTEN goroutine holds or has appended was committed, and all that it has
\* appended is at or below its high-water mark, in order.
ListenInv ==
    /\ HasLast(Seeds)
    /\ \A i \in 1..Len(list) : list[i].n # 0 => InLog(db.log, list[i]) /\ list[i].serial <= lastSeen
    /\ \A i, j \in 1..Len(list) :
            list[i].n # 0 /\ list[j].n # 0 /\ j < i => list[j].serial < list[i].serial
    /\ \A cm \in scan : InLog(db.log, cm)

-----------------------------------------------------------------------------
(***************************************************************************)
(* What a node appends.                                                    *)
(***************************************************************************)
\* What is in the log stays in it.
LEMMA InLogStays ==
    ASSUME LogInv, [Next]_vars
    PROVE  \A cm : InLog(db.log, cm) => InLog(db'.log, cm)
<1>1. CASE ~(\E p \in Publishers : Commit(p))
  <2>1. db'.log = db.log
    BY <1>1, OtherSteps, Zenon
  <2> QED
    BY <2>1, Zenon DEF InLog
<1>2. ASSUME NEW p \in Publishers, Commit(p) PROVE \A cm : InLog(db.log, cm) => InLog(db'.log, cm)
  <2>1. PICK c : OneMore(c)
    BY <1>2, CommitGrows, Zenon
  <2> QED
    BY <2>1, OneMoreFacts, Zenon DEF InLog
<1> QED
  BY <1>1, <1>2, Zenon

\* The list as it is, while the log may grow.
LEMMA ListUnchanged ==
    ASSUME LogInv, ListenInv, [Next]_vars, list' = list, lastSeen' = lastSeen,
           \A cm \in scan' : InLog(db.log, cm)
    PROVE  ListenInv'
<1>1. Seeds' = Seeds
  BY Zenon DEF Seeds
<1>2. HasLast(Seeds)
  BY Zenon DEF ListenInv
<1>3. HasLast(Seeds')
  BY <1>1, <1>2, Zenon
<1>4. \A i \in 1..Len(list') : list'[i].n # 0 => InLog(db'.log, list'[i]) /\ list'[i].serial <= lastSeen'
  BY InLogStays, Zenon DEF ListenInv
<1>5. \A cm \in scan' : InLog(db'.log, cm)
  BY InLogStays, Zenon
<1> QED
  BY <1>3, <1>4, <1>5, Zenon DEF ListenInv

\* deliver appends what is above the high-water mark, and raises the mark to it.
LEMMA DeliverKeeps ==
    ASSUME LogInv, ListenInv, [Next]_vars, NEW cm, InLog(db.log, cm), Deliver(cm),
           \A c \in scan' : InLog(db.log, c)
    PROVE  ListenInv'
<1>0. list \in Seq(CMs) /\ lastSeen \in Nat /\ db.log \in Seq(CMs)
  BY Zenon DEF LogInv, TypeOK, Databases
<1>1. cm \in CMs /\ cm.serial \in Nat /\ cm.n # 0
  BY <1>0, SerialsTyped, Zenon DEF InLog, LogInv
<1>2. CASE cm.serial <= lastSeen
  <2>1. list' = list /\ lastSeen' = lastSeen
    BY <1>2, Zenon DEF Deliver, channelVars
  <2> QED
    BY <2>1, ListUnchanged, Zenon
<1>3. CASE ~(cm.serial <= lastSeen)
  <2>1. list' = Append(list, cm) /\ lastSeen' = cm.serial
    BY <1>1, <1>3, Zenon DEF Deliver, AppendCM
  <2>2. /\ Len(list) \in Nat /\ Len(list') = Len(list) + 1
        /\ \A i \in 1..Len(list) : list'[i] = list[i] /\ list[i].serial \in Nat
        /\ list'[Len(list) + 1] = cm
        /\ \A i \in 1..Len(list') : i \in 1..Len(list) \/ i = Len(list) + 1
        /\ \A i \in 1..Len(list) : i \in 1..Len(list') /\ i # Len(list) + 1
    BY <1>0, <1>1, <2>1, SerialsTyped
  <2>3. /\ HasLast(Seeds)
        /\ \A i \in 1..Len(list) : list[i].n # 0 => InLog(db.log, list[i]) /\ list[i].serial <= lastSeen
        /\ \A i, j \in 1..Len(list) :
              list[i].n # 0 /\ list[j].n # 0 /\ j < i => list[j].serial < list[i].serial
    BY Zenon DEF ListenInv
  <2>4. Seeds' = Seeds
    BY <1>1, <2>2, Zenon DEF Seeds
  <2>5. HasLast(Seeds')
    BY <2>3, <2>4, Zenon
  <2>6. \A i \in 1..Len(list') : list'[i].n # 0 => InLog(db'.log, list'[i])
    BY <2>2, <2>3, InLogStays, Zenon
  <2>7. \A i \in 1..Len(list') : list'[i].n # 0 => list'[i].serial <= lastSeen'
    BY <1>0, <1>1, <1>3, <2>1, <2>2, <2>3, SMTT(30)
  <2>8. ASSUME NEW i \in 1..Len(list'), NEW j \in 1..Len(list'),
               list'[i].n # 0, list'[j].n # 0, j < i
        PROVE  list'[j].serial < list'[i].serial
    <3>1. j \in 1..Len(list) /\ list'[j] = list[j]
      BY <2>2, <2>8
    <3>2. CASE i \in 1..Len(list)
      BY <2>2, <2>3, <2>8, <3>1, <3>2
    <3>3. CASE i = Len(list) + 1
      BY <1>0, <1>1, <1>3, <2>2, <2>3, <2>8, <3>1, <3>3
    <3> QED
      BY <2>2, <3>2, <3>3, Zenon
  <2>9. \A c \in scan' : InLog(db'.log, c)
    BY InLogStays, Zenon
  <2> QED
    BY <2>5, <2>6, <2>7, <2>8, <2>9 DEF ListenInv
<1> QED
  BY <1>2, <1>3, Zenon

\* Initialize seeds the tail; what it overwrites is no longer there to be out of order.
LEMMA OpenedKeeps ==
    ASSUME LogInv, ListenInv, [Next]_vars, Opened
    PROVE  ListenInv'
<1>1. lastSeen' = lastSeen /\ scan' = scan
  BY Zenon DEF Opened, listenVars
<1>2. \A c \in scan' : InLog(db.log, c)
  BY <1>1, Zenon DEF ListenInv
<1>3. CASE ready
  <2>1. list' = list
    BY <1>3, Zenon DEF Opened, Initialize
  <2> QED
    BY <1>1, <1>2, <2>1, ListUnchanged, Zenon
<1>4. CASE ~ready
  <2>1. list' = [list EXCEPT ![Len(list)] = Watermark(ensured)]
    BY <1>4, Zenon DEF Opened, Initialize
  <2>2. list \in Seq(CMs) /\ Len(list) > 0 /\ Watermark(ensured) \in CMs /\ Watermark(ensured).n = 0
    BY WatermarkType, Zenon DEF LogInv, TypeOK, Watermark
  <2>3. /\ Len(list) \in Nat /\ Len(list') = Len(list) /\ Len(list) \in 1..Len(list)
        /\ list'[Len(list)] = Watermark(ensured)
        /\ \A i \in 1..Len(list) : i # Len(list) => list'[i] = list[i]
    BY <2>1, <2>2
  <2>4. HasLast(Seeds')
    BY <2>2, <2>3 DEF HasLast, Seeds
  <2>5. \A i \in 1..Len(list') : list'[i].n # 0 => i \in 1..Len(list) /\ list'[i] = list[i]
    BY <2>2, <2>3, Zenon
  <2>6. \A i \in 1..Len(list') : list'[i].n # 0 => InLog(db'.log, list'[i]) /\ list'[i].serial <= lastSeen'
    BY <1>1, <2>5, InLogStays, Zenon DEF ListenInv
  <2>7. \A i, j \in 1..Len(list') :
            list'[i].n # 0 /\ list'[j].n # 0 /\ j < i => list'[j].serial < list'[i].serial
    BY <2>5, Zenon DEF ListenInv
  <2>8. \A c \in scan' : InLog(db'.log, c)
    BY <1>2, InLogStays, Zenon
  <2> QED
    BY <2>4, <2>6, <2>7, <2>8, Zenon DEF ListenInv
<1> QED
  BY <1>3, <1>4, Zenon

\* A store that goes away takes its list and its mark with it.
LEMMA FailsKeeps ==
    ASSUME LogInv, ListenInv, [Next]_vars, EnsureFails
    PROVE  ListenInv'
<1>1. list' = <<Watermark(0)>> /\ scan' = scan
  BY Zenon DEF EnsureFails
<1>2. Len(list') = 1 /\ list'[1].n = 0
  BY <1>1, Zenon DEF Watermark
<1>3. HasLast(Seeds')
  BY <1>2 DEF HasLast, Seeds
<1>4. \A i \in 1..Len(list') : list'[i].n = 0
  BY <1>2
<1>5. \A c \in scan' : InLog(db'.log, c)
  BY <1>1, InLogStays, Zenon DEF ListenInv
<1> QED
  BY <1>3, <1>4, <1>5, Zenon DEF ListenInv

LEMMA ListenInvStep == LogInv /\ ListenInv /\ [Next]_vars => ListenInv'
<1> SUFFICES ASSUME LogInv, ListenInv, [Next]_vars PROVE ListenInv'
  OBVIOUS
<1>0. \A c \in scan : InLog(db.log, c)
  BY Zenon DEF ListenInv
<1>1. CASE list' = list /\ lastSeen' = lastSeen /\ scan' \subseteq scan
  BY <1>0, <1>1, ListUnchanged, Zenon
<1>2. CASE \E p \in Publishers : Publish(p) \/ Abort(p) \/ (\E r \in db.ids : Duplicate(p, r))
  <2>1. UNCHANGED <<channelVars, listenVars>>
    BY <1>2, PublishBegins, Zenon DEF Abort, Duplicate, LogInv
  <2> QED
    BY <1>1, <2>1, Zenon DEF channelVars, listenVars
<1>3. CASE \E p \in Publishers : Commit(p)
  BY <1>1, <1>3, Zenon DEF Commit, Write, channelVars
<1>4. CASE OpenElsewhere \/ Register \/ EnsureChannel
  BY <1>1, <1>4, Zenon DEF OpenElsewhere, Register, EnsureChannel, channelVars, listenVars
<1>5. CASE Consume
  <2>1. scan' = scan
    BY <1>5, Zenon DEF Consume
  <2>2. CASE opening = "none"
    BY <1>1, <1>5, <2>1, <2>2 DEF Consume, channelVars
  <2>3. CASE opening # "none"
    <3>1. InLog(db.log, db.log[Row(Head(notices))]) /\ Deliver(db.log[Row(Head(notices))])
      BY <1>5, <2>3, HeadInLog DEF Consume, LogInv
    <3> QED
      BY <1>0, <2>1, <3>1, DeliverKeeps
  <2> QED
    BY <2>2, <2>3, Zenon
<1>6. CASE ConsumeLoadFails \/ DropLink \/ Redial \/ Replayed
  BY <1>1, <1>6, Zenon DEF ConsumeLoadFails, DropLink, Redial, Replayed, channelVars
<1>7. CASE ReadMessages \/ ReadPresence
  <2>1. \A c \in Missed("message") \cup Missed("presence") : InLog(db.log, c)
    BY Zenon DEF Missed, InLog
  <2>2. list' = list /\ lastSeen' = lastSeen
    BY <1>7, Zenon DEF ReadMessages, ReadPresence, channelVars
  <2>3. \A c \in scan' : InLog(db.log, c)
    BY <1>0, <1>7, <2>1 DEF ReadMessages, ReadPresence
  <2> QED
    BY <2>2, <2>3, ListUnchanged, Zenon
<1>8. CASE Replay
  <2>1. PICK cm \in scan : Deliver(cm) /\ scan' = scan \ {cm}
    BY <1>8, Zenon DEF Replay
  <2> QED
    BY <1>0, <2>1, DeliverKeeps
<1>9. CASE ReconcileFails
  BY <1>1, <1>9, Zenon DEF ReconcileFails, channelVars
<1>10. CASE UNCHANGED vars
  BY <1>1, <1>10, Zenon DEF vars, channelVars, listenVars
<1> QED
  BY <1>2, <1>3, <1>4, <1>5, <1>6, <1>7, <1>8, <1>9, <1>10, OpenedKeeps, FailsKeeps
  DEF Next, Reconcile

\* Whatever fails, however often the LISTEN connection is lost and whenever the channel is
\* opened: a stream, which starts at or after the entry Initialize seeded, is handed
\* committed cms in serial order, each at most once.
THEOREM AppendsInOrder == Spec => []AppendedInOrder
<1>1. Init => ListenInv
  <2> SUFFICES ASSUME Init PROVE ListenInv
    OBVIOUS
  <2>1. list = <<Watermark(0)>> /\ scan = {}
    BY Zenon DEF Init, NewChannel
  <2>2. Len(list) = 1 /\ list[1].n = 0
    BY <2>1, Zenon DEF Watermark
  <2>3. HasLast(Seeds)
    BY <2>2 DEF HasLast, Seeds
  <2>4. \A i \in 1..Len(list) : list[i].n = 0
    BY <2>2
  <2> QED
    BY <2>1, <2>3, <2>4 DEF ListenInv
<1>2. LogInv /\ ListenInv => AppendedInOrder
  <2> SUFFICES ASSUME LogInv, ListenInv PROVE AppendedInOrder
    OBVIOUS
  <2>1. PICK s : s = Newest(Seeds)
    OBVIOUS
  <2>2. PICK l \in Seeds : \A j \in Seeds : j <= l
    BY Zenon DEF ListenInv, HasLast
  <2>3. Seeds \in SUBSET Nat /\ list \in Seq(CMs) /\ Len(list) \in Nat
    BY DEF Seeds, LogInv, TypeOK
  <2>4. s \in Seeds /\ \A j \in Seeds : j <= s
    BY <2>1, <2>2, Zenon DEF Newest
  <2>5. s \in Nat /\ s >= 1
    BY <2>4 DEF Seeds
  <2>6. \A i \in (s + 1)..Len(list) : i \in 1..Len(list) /\ list[i].n # 0
    BY <2>3, <2>4, <2>5 DEF Seeds
  <2>7. \A i \in (s + 1)..Len(list) :
          /\ \E k \in 1..Len(db.log) : db.log[k] = list[i]
          /\ \A j \in (s + 1)..(i - 1) : list[j].serial < list[i].serial
    <3> SUFFICES ASSUME NEW i \in (s + 1)..Len(list)
                 PROVE  /\ \E k \in 1..Len(db.log) : db.log[k] = list[i]
                        /\ \A j \in (s + 1)..(i - 1) : list[j].serial < list[i].serial
      OBVIOUS
    <3>1. \A j \in (s + 1)..(i - 1) : j \in (s + 1)..Len(list) /\ j < i
      BY <2>3, <2>5
    <3> QED
      BY <2>6, <3>1, Zenon DEF ListenInv, InLog
  <2>8. s = Newest({i \in 1..Len(list) : list[i].n = 0})
    BY <2>1, Zenon DEF Seeds
  <2> QED
    BY <2>7, <2>8, Zenon DEF AppendedInOrder
<1> QED
  BY <1>1, <1>2, ListenInvStep, LogInvHolds, PTL DEF Spec

-----------------------------------------------------------------------------
(***************************************************************************)
(* The newest version of each message.                                     *)
(***************************************************************************)
\* A cm that makes no version of the message leaves its row the newest.
LEMMA NewestKept ==
    ASSUME NEW log, NEW cm, NEW log2, Grown(log, cm, log2), NEW row, NEW new, NEW table, NEW table2,
           RowIsNewest(log, row, table), ~Makes(cm, row.ident),
           new.ident = row.ident, new.version = row.version,
           VersionSerials(table2, row.ident) = VersionSerials(table, row.ident)
    PROVE  RowIsNewest(log2, new, table2)
<1> PICK vs : vs = VersionsOf(log, row.ident)
  OBVIOUS
<1>1. VersionsOf(log2, row.ident) = vs /\ vs \in SUBSET (1..Len(log))
  BY GrownSets
<1>2. HasLast(vs) /\ row.version = log[Newest(vs)].serial
      /\ VersionSerials(table, row.ident) = SerialsAt(log, vs)
  BY Zenon DEF RowIsNewest
<1>3. Newest(vs) \in vs
  BY <1>1, <1>2, NewestIn
<1>4. \A i \in vs : log2[i] = log[i]
  BY <1>1, GrownFacts
<1>5. SerialsAt(log2, vs) = SerialsAt(log, vs)
  BY <1>4, Zenon DEF SerialsAt
<1> QED
  BY <1>1, <1>2, <1>3, <1>4, <1>5, Zenon DEF RowIsNewest

\* A cm that makes one is the newest.
LEMMA NewestMade ==
    ASSUME NEW log, NEW cm, NEW log2, Grown(log, cm, log2), NEW row, NEW table2,
           Makes(cm, row.ident), row.version = cm.serial,
           VersionSerials(table2, row.ident) =
                SerialsAt(log, VersionsOf(log, row.ident)) \cup {cm.serial}
    PROVE  RowIsNewest(log2, row, table2)
<1> PICK vs, n : vs = VersionsOf(log, row.ident) /\ n = Len(log)
  BY Zenon
<1>1. VersionsOf(log2, row.ident) = vs \cup {n + 1} /\ vs \in SUBSET (1..n) /\ n \in Nat
  BY GrownSets, GrownFacts
<1>2. Newest(vs \cup {n + 1}) = n + 1 /\ HasLast(vs \cup {n + 1})
  BY <1>1, NewestGrown, Zenon
<1>3. log2[n + 1] = cm /\ \A i \in vs : log2[i] = log[i]
  BY <1>1, GrownFacts
<1>4. SerialsAt(log2, vs \cup {n + 1}) = SerialsAt(log, vs) \cup {cm.serial}
  BY <1>3 DEF SerialsAt
<1> QED
  BY <1>1, <1>2, <1>3, <1>4, Zenon DEF RowIsNewest

\* The identities of rows and versions are of serials already minted.
LEMMA IdentsKnown ==
    ASSUME LogInv, VersionInv
    PROVE  /\ \A row \in db.latest : row \in Rows /\ row.ident \in Idents /\ row.ident[1] \in Nat
           /\ \A v \in db.versions : v.ident \in Idents /\ v.ident[1] \in Nat
<1>1. db.latest \subseteq Rows /\ db.versions \subseteq Rows
  BY Zenon DEF LogInv, TypeOK, Databases
<1>2. \A row \in Rows : row.ident \in Idents
  BY Zenon DEF Rows
<1>3. \A m \in Idents : m[1] \in Nat
  BY Zenon DEF Idents
<1> QED
  BY <1>1, <1>2, <1>3, Zenon

\* The invariant after a commit, from what becomes of the rows.
LEMMA VersionsReassembled ==
    ASSUME LogInv, VersionInv, NEW cm, Grown(db.log, cm, db'.log), db'.serial = db.serial + 1,
           \A row \in db'.latest : RowIsNewest(db'.log, row, db'.versions),
           \A row, other \in db'.latest : row.ident = other.ident => row = other,
           \A row \in db'.latest :
                row.ident[1] = db.serial + 1 \/ \E old \in db.latest : old.ident = row.ident,
           \A v \in db'.versions :
                \/ v \in db.versions \/ v.ident[1] = db.serial + 1
                \/ \E old \in db.latest : old.ident = v.ident,
           cm.act \in Mutations => \E old \in db.latest : old.ident = cm.on
    PROVE  VersionInv'
<1>1. db.serial \in Nat
  BY Zenon DEF LogInv, TypeOK, Databases
<1>2. \A old \in db.latest : old.ident \in Idents /\ old.ident[1] \in Nat /\ old.ident[1] <= db.serial
  BY IdentsKnown, Zenon DEF VersionInv
<1>3. \A v \in db.versions : v.ident[1] \in Nat /\ v.ident[1] <= db.serial
  BY IdentsKnown, Zenon DEF VersionInv
<1>4. \A row \in db'.latest : row.ident[1] <= db'.serial
  BY <1>1, <1>2
<1>5. \A v \in db'.versions : v.ident[1] <= db'.serial
  BY <1>1, <1>2, <1>3
<1>6. \A i \in 1..Len(db'.log) :
        db'.log[i].act \in Mutations =>
            db'.log[i].on \in Idents /\ db'.log[i].on[1] <= db'.serial
  <2> SUFFICES ASSUME NEW i \in 1..Len(db'.log), db'.log[i].act \in Mutations
               PROVE  db'.log[i].on \in Idents /\ db'.log[i].on[1] <= db'.serial
    OBVIOUS
  <2>1. CASE i \in 1..Len(db.log) /\ db'.log[i] = db.log[i]
    <3>1. db.log[i].on \in Idents /\ db.log[i].on[1] <= db.serial
      BY <2>1, Zenon DEF VersionInv
    <3>2. db.log[i].on[1] \in Nat
      BY <3>1, Zenon DEF Idents
    <3> QED
      BY <1>1, <2>1, <3>1, <3>2
  <2>2. CASE db'.log[i] = cm
    BY <1>1, <1>2, <2>2
  <2> QED
    BY <2>1, <2>2, GrownFacts
<1> QED
  BY <1>4, <1>5, <1>6, Zenon DEF VersionInv

\* A publish of messages: their rows are new, the others stay.
LEMMA CreateKeepsVersions ==
    ASSUME LogInv, VersionInv, NEW cm, Grown(db.log, cm, db'.log),
           cm.n \in Nat, db.serial \in Nat,
           cm.serial = db.serial + 1, db'.serial = db.serial + 1,
           \A i \in 1..Len(db.log) : db.log[i].serial # cm.serial,
           cm.act = "create", Creates(cm)
    PROVE  VersionInv'
<1>1. PICK new : new = {CreateRow(cm.serial, i, cm.data) : i \in 0..(cm.n - 1)}
  BY Zenon
<1>2. db'.latest = db.latest \cup new /\ db'.versions = db.versions \cup new
  BY <1>1, Zenon DEF Creates
<1>3. \A row \in new : \E i \in 0..(cm.n - 1) :
          row.ident = <<cm.serial, i>> /\ row.version = cm.serial /\ row = CreateRow(cm.serial, i, cm.data)
  BY <1>1 DEF CreateRow
<1>4. \A row \in new : row.ident[1] = cm.serial
  BY <1>3
<1>5. /\ \A row \in db.latest : row.ident[1] # cm.serial
      /\ \A v \in db.versions : v.ident[1] # cm.serial
  BY IdentsKnown DEF VersionInv
<1>6. ASSUME NEW row \in db.latest PROVE RowIsNewest(db'.log, row, db'.versions)
  <2>1. ~Makes(cm, row.ident)
    BY <1>5, Zenon DEF Makes, Mutations
  <2>2. {w \in db'.versions : w.ident = row.ident} = {w \in db.versions : w.ident = row.ident}
    BY <1>2, <1>4, <1>5, Zenon
  <2>3. VersionSerials(db'.versions, row.ident) = VersionSerials(db.versions, row.ident)
    BY <2>2, Zenon DEF VersionSerials
  <2>4. RowIsNewest(db.log, row, db.versions)
    BY Zenon DEF VersionInv
  <2> QED
    BY <2>1, <2>3, <2>4, NewestKept
<1>7. ASSUME NEW row \in new PROVE RowIsNewest(db'.log, row, db'.versions)
  <2>1. PICK i \in 0..(cm.n - 1) : row.ident = <<cm.serial, i>> /\ row.version = cm.serial
    BY <1>3, Zenon
  <2>2. row.ident[1] = cm.serial /\ row.ident[2] = i
    BY <2>1
  <2>3. Makes(cm, row.ident)
    BY <2>2 DEF Makes
  <2>4. VersionsOf(db.log, row.ident) = {}
    <3>1. ASSUME NEW k \in 1..Len(db.log) PROVE ~Makes(db.log[k], row.ident)
      <4>1. db.log[k].act \in Mutations => db.log[k].on # row.ident
        <5> SUFFICES ASSUME db.log[k].act \in Mutations, db.log[k].on = row.ident PROVE FALSE
          OBVIOUS
        <5>1. row.ident[1] <= db.serial
          BY Zenon DEF VersionInv
        <5> QED
          BY <2>2, <5>1
      <4> QED
        BY <2>2, <4>1, Zenon DEF Makes
    <3> QED
      BY <3>1, Zenon DEF VersionsOf, Makes
  <2>5. SerialsAt(db.log, {}) = {}
    BY Zenon DEF SerialsAt
  <2>6. VersionSerials(db'.versions, row.ident) = {cm.serial}
    <3>1. row \in {w \in db'.versions : w.ident = row.ident}
      BY <1>2, Zenon
    <3>2. \A w \in {x \in db'.versions : x.ident = row.ident} : w.version = cm.serial
      BY <1>2, <1>3, <1>5, <2>2
    <3> QED
      BY <2>1, <3>1, <3>2, Zenon DEF VersionSerials
  <2>7. VersionSerials(db'.versions, row.ident) =
            SerialsAt(db.log, VersionsOf(db.log, row.ident)) \cup {cm.serial}
    BY <2>4, <2>5, <2>6
  <2> QED
    BY <2>1, <2>3, <2>7, NewestMade, Zenon
<1>8. \A row, other \in db'.latest : row.ident = other.ident => row = other
  <2>1. ASSUME NEW row \in new, NEW other \in new, row.ident = other.ident PROVE row = other
    <3>1. PICK i \in 0..(cm.n - 1) :
             row.ident = <<cm.serial, i>> /\ row = CreateRow(cm.serial, i, cm.data)
      BY <1>3, Zenon
    <3>2. PICK j \in 0..(cm.n - 1) :
             other.ident = <<cm.serial, j>> /\ other = CreateRow(cm.serial, j, cm.data)
      BY <1>3, Zenon
    <3>3. row.ident[2] = i /\ other.ident[2] = j
      BY <3>1, <3>2
    <3> QED
      BY <2>1, <3>1, <3>2, <3>3
  <2>2. \A row \in db.latest, other \in new : row.ident # other.ident
    BY <1>4, <1>5, Zenon
  <2>3. \A row, other \in db.latest : row.ident = other.ident => row = other
    BY Zenon DEF VersionInv
  <2> QED
    BY <1>2, <2>1, <2>2, <2>3, Zenon
<1>9. \A row \in db'.latest : RowIsNewest(db'.log, row, db'.versions)
  BY <1>2, <1>6, <1>7, Zenon
<1>10. \A row \in db'.latest :
          row.ident[1] = db.serial + 1 \/ \E old \in db.latest : old.ident = row.ident
  BY <1>2, <1>4, Zenon
<1>11. \A v \in db'.versions : v \in db.versions \/ v.ident[1] = db.serial + 1
  BY <1>2, <1>4, Zenon
<1>12. cm.act \notin Mutations
  BY Zenon DEF Mutations
<1> QED
  BY <1>8, <1>9, <1>10, <1>11, <1>12, VersionsReassembled, Zenon

\* A mutation merges into the version it read, which others may have replaced since;
\* what it writes is a version of the same message, and the newest.
LEMMA MutationKeepsVersions ==
    ASSUME LogInv, VersionInv, NEW p \in Publishers, NEW cm, Grown(db.log, cm, db'.log),
           Commits(p, cm), TxHolds(tx[p], db.latest),
           db.serial \in Nat, cm.serial = db.serial + 1, db'.serial = db.serial + 1,
           cm.act \in Mutations, Mutates(p, cm)
    PROVE  VersionInv'
<1>1. PICK new : new = MergeVersion(tx[p].cur, cm.act, cm.data, cm.serial)
  OBVIOUS
<1>2. PICK old : old = RowOf(cm.on)
  OBVIOUS
<1>3. old \in db.latest /\ old.ident = cm.on /\ tx[p].cur.ident = cm.on /\ tx[p].cur \in Rows
  BY <1>2, RowOfRow DEF TxHolds, Commits, Txs
<1>4. new.ident = cm.on /\ new.version = cm.serial
  BY <1>1, <1>3, Zenon DEF MergeVersion, Rows
<1>5. db'.latest = (db.latest \ {old}) \cup {new} /\ db'.versions = db.versions \cup {new}
  BY <1>1, <1>2, Zenon DEF Mutates
<1>6. \A row, other \in db.latest : row.ident = other.ident => row = other
  BY Zenon DEF VersionInv
<1>7. ASSUME NEW row \in db.latest \ {old} PROVE RowIsNewest(db'.log, row, db'.versions)
  <2>1. row.ident # cm.on
    BY <1>3, <1>6, Zenon
  <2>2. ~Makes(cm, row.ident)
    BY <2>1, Zenon DEF Makes, Mutations
  <2>3. {w \in db'.versions : w.ident = row.ident} = {w \in db.versions : w.ident = row.ident}
    BY <1>4, <1>5, <2>1, Zenon
  <2>4. VersionSerials(db'.versions, row.ident) = VersionSerials(db.versions, row.ident)
    BY <2>3, Zenon DEF VersionSerials
  <2>5. RowIsNewest(db.log, row, db.versions)
    BY Zenon DEF VersionInv
  <2> QED
    BY <2>2, <2>4, <2>5, NewestKept, Zenon
<1>8. RowIsNewest(db'.log, new, db'.versions)
  <2>1. Makes(cm, new.ident)
    BY <1>4, Zenon DEF Makes
  <2>2. VersionSerials(db'.versions, cm.on) = VersionSerials(db.versions, cm.on) \cup {cm.serial}
    BY <1>4, <1>5, Zenon DEF VersionSerials
  <2>3. VersionSerials(db.versions, cm.on) = SerialsAt(db.log, VersionsOf(db.log, cm.on))
    BY <1>3, Zenon DEF VersionInv, RowIsNewest
  <2> QED
    BY <1>4, <2>1, <2>2, <2>3, NewestMade, Zenon
<1>9. \A row \in db'.latest : RowIsNewest(db'.log, row, db'.versions)
  BY <1>5, <1>7, <1>8, Zenon
<1>10. \A row, other \in db'.latest : row.ident = other.ident => row = other
  BY <1>3, <1>4, <1>5, <1>6
<1>11. /\ \A row \in db'.latest : \E o \in db.latest : o.ident = row.ident
       /\ \A v \in db'.versions : v \in db.versions \/ \E o \in db.latest : o.ident = v.ident
       /\ \E o \in db.latest : o.ident = cm.on
  BY <1>3, <1>4, <1>5, Zenon
<1> QED
  BY <1>9, <1>10, <1>11, VersionsReassembled, Zenon

\* An annotation folds into the row as it is under the lock.
LEMMA AnnotationKeepsVersions ==
    ASSUME LogInv, VersionInv, NEW p \in Publishers, NEW cm, Grown(db.log, cm, db'.log),
           Commits(p, cm), TxHolds(tx[p], db.latest),
           db.serial \in Nat, cm.serial = db.serial + 1, db'.serial = db.serial + 1,
           cm.act = "annotate", Summarises(cm)
    PROVE  VersionInv'
<1>1. PICK old : old = RowOf(cm.on)
  OBVIOUS
<1>2. PICK new : new = FoldSummary(old, cm.serial)
  OBVIOUS
<1>3. old \in db.latest /\ old.ident = cm.on /\ old \in Rows
  BY <1>1, RowOfRow, IdentsKnown, Zenon DEF TxHolds, Commits
<1>4. new.ident = cm.on /\ new.version = old.version
  BY <1>2, <1>3, Zenon DEF FoldSummary, Rows
<1>5. db'.latest = (db.latest \ {old}) \cup {new} /\ db'.versions = db.versions
  BY <1>1, <1>2, Zenon DEF Summarises
<1>6. \A row, other \in db.latest : row.ident = other.ident => row = other
  BY Zenon DEF VersionInv
<1>7. \A m : ~Makes(cm, m)
  BY Zenon DEF Makes, Mutations
<1>8. \A row \in db'.latest : RowIsNewest(db'.log, row, db'.versions)
  <2> SUFFICES ASSUME NEW row \in db'.latest PROVE RowIsNewest(db'.log, row, db'.versions)
    BY Zenon
  <2>1. PICK o \in db.latest : row.ident = o.ident /\ row.version = o.version
    BY <1>3, <1>4, <1>5, Zenon
  <2>2. RowIsNewest(db.log, o, db.versions) /\ ~Makes(cm, o.ident)
    BY <1>7, Zenon DEF VersionInv
  <2>3. VersionSerials(db'.versions, o.ident) = VersionSerials(db.versions, o.ident)
    BY <1>5, Zenon
  <2> QED
    BY <2>1, <2>2, <2>3, NewestKept
<1>9. \A row, other \in db'.latest : row.ident = other.ident => row = other
  BY <1>3, <1>4, <1>5, <1>6, Zenon
<1>10. /\ \A row \in db'.latest : \E o \in db.latest : o.ident = row.ident
       /\ \A v \in db'.versions : v \in db.versions
       /\ cm.act \notin Mutations
  BY <1>3, <1>4, <1>5, Zenon DEF Mutations
<1> QED
  BY <1>8, <1>9, <1>10, VersionsReassembled, Zenon

\* A presence operation has no part in it.
LEMMA PresenceKeepsVersions ==
    ASSUME LogInv, VersionInv, NEW cm, Grown(db.log, cm, db'.log),
           db'.serial = db.serial + 1, cm.act \in PresenceOps, FoldsPresence(cm)
    PROVE  VersionInv'
<1>1. db'.latest = db.latest /\ db'.versions = db.versions
  BY Zenon DEF FoldsPresence
<1>2. cm.act \notin Mutations /\ \A m : ~Makes(cm, m)
  BY Zenon DEF Makes, Mutations, PresenceOps
<1>3. \A row \in db'.latest : RowIsNewest(db'.log, row, db'.versions)
  <2> SUFFICES ASSUME NEW row \in db.latest PROVE RowIsNewest(db'.log, row, db'.versions)
    BY <1>1, Zenon
  <2>1. RowIsNewest(db.log, row, db.versions)
    BY Zenon DEF VersionInv
  <2> QED
    BY <1>1, <1>2, <2>1, NewestKept
<1> QED
  BY <1>1, <1>2, <1>3, VersionsReassembled, Zenon DEF VersionInv

\* Concurrent operations never take a message back to an older version: for any number
\* of publishers, the projection holds the newest version of the log, one row per message,
\* and every version is indexed, though Mutate reads its target before it has the lock.
THEOREM VersionsAdvance == Spec => []LatestIsNewest
<1>1. Init => VersionInv
  BY DEF Init, EmptyTables, VersionInv
<1>2. LogInv /\ VersionInv /\ [Next]_vars => VersionInv'
  <2> SUFFICES ASSUME LogInv, VersionInv, [Next]_vars PROVE VersionInv'
    OBVIOUS
  <2>1. CASE ~(\E p \in Publishers : Commit(p))
    <3>1. /\ db'.log = db.log /\ db'.latest = db.latest /\ db'.versions = db.versions
          /\ db.serial \in Nat /\ db'.serial \in Nat /\ db.serial <= db'.serial
      BY <2>1, OtherSteps, Zenon
    <3>2. /\ \A row \in db.latest : row.ident[1] <= db'.serial
          /\ \A v \in db.versions : v.ident[1] <= db'.serial
      BY <3>1, IdentsKnown DEF VersionInv
    <3>3. ASSUME NEW i \in 1..Len(db.log), db.log[i].act \in Mutations
          PROVE  db.log[i].on \in Idents /\ db.log[i].on[1] <= db'.serial
      <4>1. db.log[i].on \in Idents /\ db.log[i].on[1] <= db.serial
        BY <3>3, Zenon DEF VersionInv
      <4>2. db.log[i].on[1] \in Nat
        BY <4>1, Zenon DEF Idents
      <4> QED
        BY <3>1, <4>1, <4>2
    <3> QED
      BY <3>1, <3>2, <3>3, Zenon DEF VersionInv
  <2>2. ASSUME NEW p \in Publishers, Commit(p) PROVE VersionInv'
    <3>1. PICK cm :
             /\ Commits(p, cm) /\ TxHolds(tx[p], db.latest)
             /\ cm.n # 0 /\ cm.n \in Nat /\ cm.serial \in Nat /\ cm.data \in BOOLEAN
             /\ Grown(db.log, cm, db'.log)
             /\ db.serial \in Nat /\ cm.serial = db.serial + 1 /\ db'.serial = db.serial + 1
             /\ \A i \in 1..Len(db.log) : db.log[i].serial # cm.serial
             /\ \/ cm.act = "create" /\ Creates(cm)
                \/ cm.act \in Mutations /\ Mutates(p, cm)
                \/ cm.act = "annotate" /\ Summarises(cm)
                \/ cm.act \in PresenceOps /\ FoldsPresence(cm)
      BY <2>2, CommitGrows, Zenon DEF OneMore, Grown
    <3> QED
      BY <3>1, CreateKeepsVersions, MutationKeepsVersions, AnnotationKeepsVersions,
         PresenceKeepsVersions, Zenon
  <2> QED
    BY <2>1, <2>2, Zenon
<1>3. VersionInv => LatestIsNewest
  BY Zenon DEF VersionInv, LatestIsNewest, RowIsNewest, VersionSerials, SerialsAt
<1> QED
  BY <1>1, <1>2, <1>3, LogInvHolds, PTL DEF Spec

-----------------------------------------------------------------------------
(***************************************************************************)
(* The presence table.                                                     *)
(***************************************************************************)
\* The presence table is the fold of the log, whichever nodes published and however
\* their transactions overlap: each writes its own member's row and its cm together.
THEOREM PresenceTableFolds == Spec => []MembersAreFoldOfLog
<1>1. Init => PresenceInv
  <2> SUFFICES ASSUME Init, NEW m \in Members PROVE MemberStands(db.log, db.members, m)
    BY Zenon DEF PresenceInv
  <2>0. db.log = << >> /\ db.members = {}
    BY Zenon DEF Init, EmptyTables
  <2>1. SaidOf(db.log, m) = {} /\ RowsOf(db.members, m) = {}
    BY <2>0 DEF SaidOf, RowsOf
  <2> QED
    BY <2>1, Zenon DEF MemberStands
<1>2. LogInv /\ PresenceInv /\ [Next]_vars => PresenceInv'
  <2> SUFFICES ASSUME LogInv, PresenceInv, [Next]_vars PROVE PresenceInv'
    OBVIOUS
  <2>1. CASE ~(\E p \in Publishers : Commit(p))
    <3>1. db'.log = db.log /\ db'.members = db.members
      BY <2>1, OtherSteps, Zenon
    <3> QED
      BY <3>1, Zenon DEF PresenceInv
  <2>2. ASSUME NEW p \in Publishers, Commit(p) PROVE PresenceInv'
    <3>1. PICK cm :
             /\ Commits(p, cm) /\ TxHolds(tx[p], db.latest)
             /\ Grown(db.log, cm, db'.log)
             /\ \/ cm.act = "create" /\ Creates(cm)
                \/ cm.act \in Mutations /\ Mutates(p, cm)
                \/ cm.act = "annotate" /\ Summarises(cm)
                \/ cm.act \in PresenceOps /\ FoldsPresence(cm)
      BY <2>2, CommitGrows, Zenon DEF OneMore, Grown
    <3>2. db.latest \subseteq Rows /\ db.members \in SUBSET Present
      BY Zenon DEF LogInv, TypeOK, Databases
    <3>a. Grown(db.log, cm, db'.log)
      BY <3>1, Zenon
    <3>b. TxHolds(tx[p], db.latest) /\ tx[p].act = cm.act /\ tx[p].on = cm.on
      BY <3>1, Zenon DEF Commits
    <3>c. \/ cm.act = "create"
          \/ cm.act \in Mutations \cup {"annotate"}
          \/ cm.act \in PresenceOps /\ FoldsPresence(cm)
      BY <3>1, Zenon
    <3>d. cm.act \in PresenceOps \/ db'.members = db.members
      BY <3>1, Zenon DEF Creates, Mutates, Summarises
    <3>3. CASE cm.act \notin PresenceOps
      <4>1. db'.members = db.members
        BY <3>3, <3>d, Zenon
      <4>2. cm.on \notin Members
        <5>1. CASE cm.act = "create"
          <6>1. cm.on = NoSubject
            BY <3>b, <5>1, Zenon DEF TxHolds
          <6> QED
            BY <6>1, ChannelAssumption, Zenon
        <5>2. CASE cm.act \in Mutations \cup {"annotate"}
          <6>1. PICK row \in db.latest : row.ident = cm.on
            BY <3>b, <5>2, Zenon DEF TxHolds
          <6>2. cm.on \in Idents
            BY <3>2, <6>1, Zenon DEF Rows
          <6> QED
            BY <6>2, ChannelAssumption, Zenon DEF Idents
        <5> QED
          BY <3>3, <3>c, <5>1, <5>2, Zenon
      <4> SUFFICES ASSUME NEW m \in Members PROVE MemberStands(db'.log, db'.members, m)
        BY Zenon DEF PresenceInv
      <4>3. MemberStands(db.log, db.members, m) /\ cm.on # m
        BY <4>2, Zenon DEF PresenceInv
      <4> QED
        BY <3>a, <4>1, <4>3, MemberKept
    <3>4. CASE cm.act \in PresenceOps
      <4>0. cm.act # "create" /\ cm.act \notin Mutations \cup {"annotate"}
        BY <3>4, Zenon DEF PresenceOps, Mutations
      <4>1. /\ db'.members = FoldPresence(db.members, cm.on, cm.act, cm.serial)
            /\ cm.on \in Members
        BY <3>b, <3>c, <3>4, <4>0, Zenon DEF FoldsPresence, TxHolds
      <4>2. MemberStands(db'.log, db'.members, cm.on)
        BY <3>a, <3>2, <4>1, MemberFolded
      <4>3. ASSUME NEW o \in Members, o # cm.on PROVE MemberStands(db'.log, db'.members, o)
        <5>1. RowsOf(db'.members, o) = RowsOf(db.members, o)
          BY <3>2, <4>1, <4>3 DEF RowsOf, FoldPresence
        <5>2. MemberStands(db.log, db.members, o)
          BY Zenon DEF PresenceInv
        <5> QED
          BY <3>a, <4>3, <5>1, <5>2, MemberKept
      <4> QED
        BY <4>2, <4>3, Zenon DEF PresenceInv
    <3> QED
      BY <3>3, <3>4, Zenon
  <2> QED
    BY <2>1, <2>2, Zenon
<1>3. PresenceInv => MembersAreFoldOfLog
  BY StandsIsFold, Zenon DEF PresenceInv, MembersAreFoldOfLog
<1> QED
  BY <1>1, <1>2, <1>3, LogInvHolds, PTL DEF Spec
=============================================================================
