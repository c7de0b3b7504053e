-------------------------- MODULE MemoryStoreProofs --------------------------
(***************************************************************************)
(* Proofs about MemoryStore, for any streams, ids, members and bounds.     *)
(*                                                                         *)
(* Every publish, whatever its kind, extends the log and the live list by  *)
(* the same cm under a fresh serial; Commits states that, and the log      *)
(* theorems need nothing else about the publish.                           *)
(***************************************************************************)
EXTENDS MemoryStore, TLAPS

-----------------------------------------------------------------------------
(***************************************************************************)
(* The rows.                                                               *)
(***************************************************************************)
\* The bookkeeping rows are well formed: CreateRow and MergeVersion build
\* projection rows from a minted serial.
LEMMA CreateRowType ==
    ASSUME NEW serial \in Nat, NEW i \in Nat, NEW data \in BOOLEAN
    PROVE  CreateRow(serial, i, data) \in Rows
  <1>1. Supplied(serial, data) \in Seq(Nat)
    BY DEF Supplied
  <1>. QED
    BY <1>1 DEF CreateRow, Rows, Idents

\* MergeVersion of a projection row is a projection row.
LEMMA MergeVersionType ==
    ASSUME NEW cur \in Rows, NEW act, NEW data \in BOOLEAN, NEW serial \in Nat
    PROVE  /\ MergeVersion(cur, act, data, serial) \in Rows
           /\ MergeVersion(cur, act, data, serial).ident = cur.ident
  <1>1. Supplied(serial, data) \in Seq(Nat)
    BY DEF Supplied
  <1>2. cur.data \in Seq(Nat)
    BY Zenon DEF Rows
  <1>3. cur.data \o Supplied(serial, data) \in Seq(Nat)
    BY <1>1, <1>2
  <1>. QED
    BY <1>1, <1>2, <1>3, Zenon DEF MergeVersion, Rows

-----------------------------------------------------------------------------
\* What every publish does to the log, the list and the generator.
Commits(cm) ==
    /\ ready
    /\ cm \in CMs
    /\ cm.n # 0
    /\ gen' = gen + 1
    /\ cm.serial = gen'
    /\ order' = Append(order, cm)
    /\ list' = Append(list, cm)
    /\ UNCHANGED <<ready, initialSerial, cursor, delivered>>

\* Commit of a new cm is exactly that.
LEMMA CommitCommits ==
    ASSUME gen \in Nat, ready, Mint,
           NEW act \in Acts, NEW on \in Idents \cup Members \cup {NoSubject},
           NEW id \in Ids \cup {NoId}, NEW n \in 1..MaxBatch, NEW data \in BOOLEAN,
           Commit(NewCM(act, on, id, n, data))
    PROVE  Commits(NewCM(act, on, id, n, data))
  <1>1. NewCM(act, on, id, n, data) \in CMs
    BY ChannelAssumption DEF NewCM, CMs, Mint
  <1>2. NewCM(act, on, id, n, data).n # 0
    BY DEF NewCM
  <1>3. NewCM(act, on, id, n, data).serial = gen'
    BY Zenon DEF NewCM
  <1>. QED
    BY <1>1, <1>2, <1>3, Zenon DEF Commits, Commit, AppendCM, Mint

\* A Store commits one cm and keeps the tables typed.
LEMMA StoreStep ==
    ASSUME TypeOK, NEW id \in Ids \cup {NoId}, NEW n \in 1..MaxBatch, NEW data \in BOOLEAN,
           Store(id, n, data)
    PROVE  /\ latest' \subseteq Rows /\ versions' \subseteq Rows
           /\ UNCHANGED <<annotations, members>>
           /\ IndexId(id, gen')
           /\ Commits(NewCM("create", NoSubject, id, n, data))
  <1>1. gen' \in Nat
    BY DEF TypeOK, Store, Mint
  <1>2. \A i \in 0..(n - 1) : CreateRow(gen', i, data) \in Rows
    BY <1>1, CreateRowType, ChannelAssumption
  <1>3. Commits(NewCM("create", NoSubject, id, n, data))
    BY CommitCommits, Zenon DEF TypeOK, Store, Acts
  <1>. QED
    BY <1>2, <1>3, Zenon DEF TypeOK, Store

\* Likewise for a mutation.
LEMMA MutateStep ==
    ASSUME TypeOK, NEW id \in Ids \cup {NoId}, NEW cur \in latest, NEW act \in Mutations,
           NEW data \in BOOLEAN, Mutate(cur, act, id, data)
    PROVE  /\ latest' \subseteq Rows /\ versions' \subseteq Rows
           /\ UNCHANGED <<annotations, members>>
           /\ IndexId(id, gen')
           /\ Commits(NewCM(act, cur.ident, id, 1, data))
  <1>1. gen' \in Nat
    BY DEF TypeOK, Mutate, Mint
  <1>2. cur \in Rows /\ cur.ident \in Idents
    BY Zenon DEF TypeOK, Rows
  <1>3. MergeVersion(cur, act, data, gen') \in Rows
    BY <1>1, <1>2, MergeVersionType, Zenon
  <1>4. 1 \in 1..MaxBatch /\ act \in Acts
    BY ChannelAssumption DEF Acts
  <1>5. Commits(NewCM(act, cur.ident, id, 1, data))
    BY <1>2, <1>4, CommitCommits, Zenon DEF TypeOK, Mutate
  <1>. QED
    BY <1>3, <1>5, Zenon DEF TypeOK, Mutate

\* Likewise for an annotation.
LEMMA AnnotationStep ==
    ASSUME TypeOK, NEW id \in Ids \cup {NoId}, NEW cur \in latest, StoreAnnotation(cur, id)
    PROVE  /\ latest' \subseteq Rows /\ annotations' \subseteq Notes
           /\ UNCHANGED <<versions, members>>
           /\ IndexId(id, gen')
           /\ Commits(NewCM("annotate", cur.ident, id, 1, TRUE))
  <1>1. gen' \in Nat
    BY DEF TypeOK, StoreAnnotation, Mint
  <1>2. cur \in Rows /\ cur.ident \in Idents /\ cur.summary \in Seq(Nat)
    BY Zenon DEF TypeOK, Rows
  <1>3. FoldSummary(cur, gen') \in Rows
    <2>1. Append(cur.summary, gen') \in Seq(Nat)
      BY <1>1, <1>2
    <2>. QED
      BY <1>2, <2>1, Zenon DEF FoldSummary, Rows
  <1>4. 1 \in 1..MaxBatch /\ "annotate" \in Acts
    BY ChannelAssumption DEF Acts
  <1>5. Commits(NewCM("annotate", cur.ident, id, 1, TRUE))
    BY <1>2, <1>4, CommitCommits, Zenon DEF TypeOK, StoreAnnotation
  <1>6. [ident |-> cur.ident, serial |-> gen'] \in Notes
    BY <1>1, <1>2, Zenon DEF Notes
  <1>. QED
    BY <1>3, <1>5, <1>6, Zenon DEF TypeOK, StoreAnnotation

\* Likewise for a presence operation.
LEMMA PresenceStep ==
    ASSUME TypeOK, NEW id \in Ids \cup {NoId}, NEW m \in Members, NEW act \in PresenceOps,
           StorePresence(m, act, id)
    PROVE  /\ members' \subseteq Present
           /\ UNCHANGED <<latest, versions, annotations>>
           /\ IndexId(id, gen')
           /\ Commits(NewCM(act, m, id, 1, TRUE))
  <1>1. gen' \in Nat
    BY DEF TypeOK, StorePresence, Mint
  <1>2. [member |-> m, serial |-> gen'] \in Present
    BY <1>1, Zenon DEF Present
  <1>3. 1 \in 1..MaxBatch /\ act \in Acts
    BY ChannelAssumption DEF Acts
  <1>4. Commits(NewCM(act, m, id, 1, TRUE))
    BY <1>3, CommitCommits, Zenon DEF TypeOK, StorePresence
  <1>. QED
    BY <1>2, <1>4, Zenon DEF TypeOK, StorePresence, FoldPresence

\* Every publish commits some cm under the id it indexes.
LEMMA PublishStep ==
    ASSUME TypeOK, Publish
    PROVE  \E cm \in CMs :
             /\ Commits(cm)
             /\ IndexId(cm.id, cm.serial)
             /\ latest' \subseteq Rows /\ versions' \subseteq Rows
             /\ annotations' \subseteq Notes /\ members' \subseteq Present
  <1>. PICK id \in Ids \cup {NoId} :
        \/ \E n \in 1..MaxBatch, data \in BOOLEAN : Store(id, n, data)
        \/ \E cur \in latest, act \in Mutations, data \in BOOLEAN : Mutate(cur, act, id, data)
        \/ \E cur \in latest : StoreAnnotation(cur, id)
        \/ \E m \in Members, act \in PresenceOps : StorePresence(m, act, id)
    BY Zenon DEF Publish
  <1>0. \A act, on, n, data :
          NewCM(act, on, id, n, data).id = id /\ NewCM(act, on, id, n, data).serial = gen'
    BY Zenon DEF NewCM
  <1>1. CASE \E n \in 1..MaxBatch, data \in BOOLEAN : Store(id, n, data)
    <2>. PICK n \in 1..MaxBatch, data \in BOOLEAN : Store(id, n, data)
      BY <1>1, Zenon
    <2>. DEFINE cm == NewCM("create", NoSubject, id, n, data)
    <2>1. Commits(cm) /\ IndexId(cm.id, cm.serial)
      BY <1>0, StoreStep, Zenon
    <2>2. cm \in CMs
      BY <2>1, Zenon DEF Commits
    <2>. QED
      BY <2>1, <2>2, StoreStep, Zenon DEF TypeOK
  <1>2. CASE \E cur \in latest, act \in Mutations, data \in BOOLEAN : Mutate(cur, act, id, data)
    <2>. PICK cur \in latest, act \in Mutations, data \in BOOLEAN : Mutate(cur, act, id, data)
      BY <1>2, Zenon
    <2>. DEFINE cm == NewCM(act, cur.ident, id, 1, data)
    <2>1. Commits(cm) /\ IndexId(cm.id, cm.serial)
      BY <1>0, MutateStep, Zenon
    <2>2. cm \in CMs
      BY <2>1, Zenon DEF Commits
    <2>. QED
      BY <2>1, <2>2, MutateStep, ZenonT(30) DEF TypeOK
  <1>3. CASE \E cur \in latest : StoreAnnotation(cur, id)
    <2>. PICK cur \in latest : StoreAnnotation(cur, id)
      BY <1>3, Zenon
    <2>. DEFINE cm == NewCM("annotate", cur.ident, id, 1, TRUE)
    <2>1. Commits(cm) /\ IndexId(cm.id, cm.serial)
      BY <1>0, AnnotationStep, Zenon
    <2>2. cm \in CMs
      BY <2>1, Zenon DEF Commits
    <2>. QED
      BY <2>1, <2>2, AnnotationStep, Zenon DEF TypeOK
  <1>4. CASE \E m \in Members, act \in PresenceOps : StorePresence(m, act, id)
    <2>. PICK m \in Members, act \in PresenceOps : StorePresence(m, act, id)
      BY <1>4, Zenon
    <2>. DEFINE cm == NewCM(act, m, id, 1, TRUE)
    <2>1. Commits(cm) /\ IndexId(cm.id, cm.serial)
      BY <1>0, PresenceStep, Zenon
    <2>2. cm \in CMs
      BY <2>1, Zenon DEF Commits
    <2>. QED
      BY <2>1, <2>2, PresenceStep, Zenon DEF TypeOK
  <1>. QED
    BY <1>1, <1>2, <1>3, <1>4, Zenon

-----------------------------------------------------------------------------
\* Every variable of MemoryStore keeps its type.
THEOREM TypeCorrect == Spec => []TypeOK
  <1>1. Init => TypeOK
    <2>. SUFFICES ASSUME Init PROVE TypeOK
      OBVIOUS
    <2>1. Watermark(0) \in CMs
      BY ChannelAssumption DEF Watermark, CMs, Acts
    <2>2. list \in Seq(CMs) /\ Len(list) > 0
      BY <2>1 DEF Init, NewChannel
    <2>3. <<>> \in Seq(CMs)
      OBVIOUS
    <2>4. order \in Seq(CMs) /\ delivered \in [Streams -> Seq(CMs)]
      BY <2>3, Zenon DEF Init, NewChannel
    <2>. QED
      BY <2>2, <2>4, Zenon DEF Init, NewChannel, TypeOK
  <1>2. TypeOK /\ [Next]_vars => TypeOK'
    <2>. SUFFICES ASSUME TypeOK, [Next]_vars PROVE TypeOK'
      OBVIOUS
    <2>1. CASE OpenChannel
      <3>1. gen' \in Nat
        BY <2>1 DEF OpenChannel, Mint, TypeOK
      <3>2. Watermark(gen') \in CMs
        BY <3>1, ChannelAssumption DEF Watermark, CMs, Acts
      <3>3. list' = [list EXCEPT ![Len(list)] = Watermark(gen')]
        BY <2>1, Zenon DEF OpenChannel, Initialize
      <3>4. list' \in Seq(CMs) /\ Len(list') > 0
        BY <3>2, <3>3 DEF TypeOK
      <3>. QED
        BY <2>1, <3>1, <3>4, Zenon DEF OpenChannel, Initialize, TypeOK
    <2>2. CASE Publish
      <3>. PICK cm \in CMs : /\ Commits(cm)
                             /\ IndexId(cm.id, cm.serial)
                             /\ latest' \subseteq Rows /\ versions' \subseteq Rows
                             /\ annotations' \subseteq Notes /\ members' \subseteq Present
        BY <2>2, PublishStep, Zenon
      <3>1. cm.id # NoId => [id |-> cm.id, serial |-> cm.serial] \in IdRows
        BY Zenon DEF CMs, IdRows
      <3>2. ids' \subseteq IdRows /\ acks' \subseteq IdRows
        BY <3>1, Zenon DEF IndexId, TypeOK
      <3>3. list' \in Seq(CMs) /\ Len(list') > 0
        BY DEF Commits, TypeOK
      <3>4. order' \in Seq(CMs) /\ gen' \in Nat
        BY DEF Commits, TypeOK
      <3>. QED
        BY <3>2, <3>3, <3>4, Zenon DEF Commits, TypeOK
    <2>3. CASE \E cur \in latest : MutateIncompatible(cur)
      BY <2>3 DEF MutateIncompatible, Mint, TypeOK, channelVars
    <2>4. CASE \E r \in ids : Duplicate(r)
      <3>. PICK r \in ids : Duplicate(r)
        BY <2>4, Zenon
      <3>1. [id |-> r.id, serial |-> r.serial] \in IdRows
        BY Zenon DEF TypeOK, IdRows
      <3>. QED
        BY <3>1, Zenon DEF Duplicate, TypeOK, channelVars
    <2>5. CASE \E s \in Streams : StreamStep(s)
      <3>. PICK s \in Streams : StreamStep(s)
        BY <2>5, Zenon
      <3>1. CASE Attach(s)
        BY <3>1 DEF StreamStep, Attach, storeVars, TypeOK
      <3>2. CASE NextCM(s)
        <4>1. list[cursor[s] + 1] \in CMs
          BY <3>2 DEF NextCM, TypeOK
        <4>2. Append(delivered[s], list[cursor[s] + 1]) \in Seq(CMs)
          BY <4>1 DEF TypeOK
        <4>3. cursor' \in [Streams -> Nat]
          BY <3>2 DEF NextCM, TypeOK
        <4>4. delivered' \in [Streams -> Seq(CMs)]
          BY <3>2, <4>2, Zenon DEF NextCM, TypeOK
        <4>. QED
          BY <3>2, <4>3, <4>4, Zenon DEF StreamStep, NextCM, storeVars, TypeOK
      <3>3. CASE DropStream(s)
        BY <3>3 DEF StreamStep, DropStream, storeVars, TypeOK
      <3>. QED
        BY <3>1, <3>2, <3>3, Zenon DEF StreamStep
    <2>6. CASE UNCHANGED vars
      BY <2>6, Zenon DEF vars, channelVars, storeVars, TypeOK
    <2>. QED
      BY <2>1, <2>2, <2>3, <2>4, <2>5, <2>6, Zenon DEF Next
  <1>. QED
    BY <1>1, <1>2, PTL DEF Spec

-----------------------------------------------------------------------------
\* The log theorems rest on this invariant: the contract, serials bounded by
\* the generator (so a minted one is fresh), and nothing happening before
\* Initialize.
LogInv ==
    /\ TypeOK
    /\ AppendsMatchLog
    /\ \A i \in 1..Len(list) : list[i].serial <= gen
    /\ ~ready => Len(list) = 1 /\ \A s \in Streams : cursor[s] = 0

\* The entries of a sequence of cms have serials.
LEMMA SerialsTyped ==
    ASSUME NEW l \in Seq(CMs), NEW i \in 1..Len(l)
    PROVE  l[i].serial \in Nat
  <1>1. l[i] \in CMs
    OBVIOUS
  <1>. QED
    BY <1>1, Zenon DEF CMs

\* A commit extends the list and the log alike and keeps the contract.
LEMMA CommitKeepsContract ==
    ASSUME LogInv, NEW cm \in CMs, Commits(cm)
    PROVE  AppendsMatchLog' /\ \A i \in 1..Len(list') : list'[i].serial <= gen'
  <1>1. /\ list \in Seq(CMs) /\ order \in Seq(CMs) /\ gen \in Nat
        /\ Len(list) = Len(order) + 1
        /\ list' = Append(list, cm) /\ order' = Append(order, cm)
        /\ cm.serial = gen + 1 /\ gen' = gen + 1 /\ initialSerial' = initialSerial
    BY Zenon DEF LogInv, TypeOK, AppendsMatchLog, Commits
  <1>2. /\ Len(list') = Len(list) + 1 /\ Len(order') = Len(order) + 1
        /\ \A i \in 1..Len(list) : list'[i] = list[i]
        /\ \A i \in 1..Len(order) : order'[i] = order[i]
        /\ list'[Len(list) + 1] = cm /\ order'[Len(order) + 1] = cm
    BY <1>1
  <1>3. \A i \in 1..Len(list) : list[i].serial \in Nat /\ list[i].serial <= gen
    BY <1>1, SerialsTyped, Zenon DEF LogInv
  <1>4. \A i \in 1..Len(list') : list'[i].serial <= gen'
    BY <1>1, <1>2, <1>3
  <1>5. \A i, j \in 1..Len(list') : i < j => list'[i].serial < list'[j].serial
    <2>. SUFFICES ASSUME NEW i \in 1..Len(list'), NEW j \in 1..Len(list'), i < j
                  PROVE  list'[i].serial < list'[j].serial
      OBVIOUS
    <2>1. CASE j \in 1..Len(list)
      BY <2>1, <1>1, <1>2 DEF LogInv, AppendsMatchLog
    <2>2. CASE j = Len(list) + 1
      BY <2>2, <1>1, <1>2, <1>3
    <2>. QED
      BY <2>1, <2>2, <1>1, <1>2
  <1>6. initialSerial' = list'[1].serial
    BY <1>1, <1>2 DEF LogInv, AppendsMatchLog
  <1>7. \A i \in 1..Len(order') : list'[i + 1] = order'[i]
    <2>. SUFFICES ASSUME NEW i \in 1..Len(order') PROVE list'[i + 1] = order'[i]
      OBVIOUS
    <2>1. CASE i \in 1..Len(order)
      BY <2>1, <1>1, <1>2 DEF LogInv, AppendsMatchLog
    <2>2. CASE i = Len(order) + 1
      BY <2>2, <1>1, <1>2, Zenon
    <2>. QED
      BY <2>1, <2>2, <1>1, <1>2
  <1>. QED
    BY <1>1, <1>2, <1>4, <1>5, <1>6, <1>7, Zenon DEF AppendsMatchLog

\* LogInv is inductive.
LEMMA LogInvStep ==
    ASSUME LogInv, TypeOK', [Next]_vars
    PROVE  LogInv'
  <1>1. CASE OpenChannel
    <2>1. /\ list \in Seq(CMs) /\ Len(list) = 1 /\ Len(order) = 0
          /\ gen \in Nat /\ gen' = gen + 1 /\ order' = order /\ ready' = TRUE
          /\ list' = [list EXCEPT ![Len(list)] = Watermark(gen')] /\ initialSerial' = gen'
      BY <1>1 DEF LogInv, TypeOK, AppendsMatchLog, OpenChannel, Mint, Initialize
    <2>2. Len(list') = 1 /\ list'[1] = Watermark(gen')
      BY <2>1
    <2>3. list'[1].serial = gen' /\ gen' \in Nat
      BY <2>1, <2>2 DEF Watermark
    <2>4. \A i \in 1..Len(list') : i = 1
      BY <2>2
    <2>5. \A i \in 1..Len(list') : list'[i].serial <= gen'
      BY <2>3, <2>4
    <2>6. AppendsMatchLog'
      BY <2>1, <2>2, <2>3, <2>4 DEF AppendsMatchLog
    <2>. QED
      BY <2>1, <2>5, <2>6, Zenon DEF LogInv
  <1>2. CASE Publish
    <2>. PICK cm \in CMs : Commits(cm)
      BY <1>2, PublishStep, Zenon DEF LogInv
    <2>. QED
      BY CommitKeepsContract, Zenon DEF LogInv, Commits
  <1>3. CASE \E cur \in latest : MutateIncompatible(cur)
    <2>1. UNCHANGED <<list, ready, initialSerial, cursor, order>> /\ gen' = gen + 1 /\ gen \in Nat
      BY <1>3, Zenon DEF MutateIncompatible, Mint, channelVars, LogInv, TypeOK
    <2>2. \A i \in 1..Len(list) : list[i].serial \in Nat
      BY SerialsTyped, Zenon DEF LogInv, TypeOK
    <2>3. \A i \in 1..Len(list') : list'[i].serial <= gen'
      BY <2>1, <2>2 DEF LogInv
    <2>. QED
      BY <2>1, <2>3, Zenon DEF LogInv, AppendsMatchLog
  <1>4. CASE \E r \in ids : Duplicate(r)
    BY <1>4, SMTT(30) DEF Duplicate, channelVars, LogInv, AppendsMatchLog
  <1>5. CASE \E s \in Streams : StreamStep(s)
    <2>1. UNCHANGED <<list, ready, initialSerial, order, gen>> /\ (ready \/ UNCHANGED cursor)
      BY <1>5, Zenon DEF StreamStep, Attach, NextCM, DropStream, storeVars, LogInv
    <2>. QED
      BY <2>1, Zenon DEF LogInv, AppendsMatchLog
  <1>6. CASE UNCHANGED vars
    BY <1>6, Zenon DEF vars, channelVars, storeVars, LogInv, AppendsMatchLog
  <1>. QED
    BY <1>1, <1>2, <1>3, <1>4, <1>5, <1>6, Zenon DEF Next

\* LogInv holds throughout.
LEMMA LogInvHolds == Spec => []LogInv
  <1>1. Init /\ TypeOK => LogInv
    BY DEF Init, NewChannel, LogInv, AppendsMatchLog, Watermark
  <1>2. LogInv /\ TypeOK' /\ [Next]_vars => LogInv'
    BY LogInvStep, Zenon
  <1>. QED
    BY <1>1, <1>2, TypeCorrect, PTL DEF Spec

\* The Appender contract of storage.go, for the memory backend: the live
\* list is strictly increasing and equals the persisted log.
THEOREM ContractHolds == Spec => []AppendsMatchLog
  <1>1. LogInv => AppendsMatchLog
    BY Zenon DEF LogInv
  <1>. QED
    BY <1>1, LogInvHolds, PTL

-----------------------------------------------------------------------------
\* What the id index knows: exactly the client ids in the log, each with
\* the serial it was committed under; publishers are answered from it.
IdInv ==
    /\ acks \subseteq ids
    /\ \A r \in ids : \E i \in 1..Len(order) :
            order[i].id = r.id /\ order[i].serial = r.serial
    /\ \A i \in 1..Len(order) : order[i].id # NoId => order[i].id \in KnownIds
    /\ \A i, j \in 1..Len(order) :
            order[i].id = order[j].id /\ order[i].id # NoId => i = j

\* Committing under an id the index does not know preserves it.
LEMMA CommitKeepsIds ==
    ASSUME TypeOK, IdInv, NEW cm \in CMs, Commits(cm), IndexId(cm.id, cm.serial)
    PROVE  IdInv'
  <1>1. /\ order \in Seq(CMs) /\ order' = Append(order, cm) /\ Len(order') = Len(order) + 1
        /\ \A i \in 1..Len(order) : order'[i] = order[i]
        /\ order'[Len(order) + 1] = cm
    BY DEF Commits, TypeOK
  <1>2. cm.id \notin KnownIds
    BY Zenon DEF IndexId
  <1>. DEFINE row == [id |-> cm.id, serial |-> cm.serial]
  <1>3. ids \subseteq ids' /\ (cm.id # NoId => row \in ids')
        /\ \A r \in ids' : r \in ids \/ r = row
    BY Zenon DEF IndexId
  <1>4. acks' \subseteq ids'
    BY Zenon DEF IndexId, IdInv
  <1>5. \A r \in ids' : \E i \in 1..Len(order') :
            order'[i].id = r.id /\ order'[i].serial = r.serial
    <2>. SUFFICES ASSUME NEW r \in ids'
                  PROVE  \E i \in 1..Len(order') : order'[i].id = r.id /\ order'[i].serial = r.serial
      OBVIOUS
    <2>1. CASE r \in ids
      BY <2>1, <1>1 DEF IdInv
    <2>2. CASE r = row
      BY <2>2, <1>1
    <2>. QED
      BY <1>3, <2>1, <2>2, Zenon
  <1>6. \A i \in 1..Len(order') : order'[i].id # NoId => \E r \in ids' : r.id = order'[i].id
    <2>. SUFFICES ASSUME NEW i \in 1..Len(order'), order'[i].id # NoId
                  PROVE  \E r \in ids' : r.id = order'[i].id
      OBVIOUS
    <2>1. CASE i \in 1..Len(order)
      BY <2>1, <1>1, <1>3, SMTT(30) DEF IdInv, KnownIds
    <2>2. CASE i = Len(order) + 1
      BY <2>2, <1>1, <1>3, Zenon
    <2>. QED
      BY <1>1, <2>1, <2>2
  <1>7. \A i \in 1..Len(order) : order[i].id # NoId => order[i].id # cm.id
    BY <1>2, Zenon DEF IdInv
  <1>8. \A i, j \in 1..Len(order') :
            order'[i].id = order'[j].id /\ order'[i].id # NoId => i = j
    BY <1>1, <1>7 DEF IdInv
  <1>. QED
    BY <1>4, <1>5, <1>6, <1>8, ZenonT(30) DEF IdInv, KnownIds

\* Idempotency for any number of retries: a client id is committed once, and
\* every answer for it names that commit.
THEOREM RetriesAgreeHolds == Spec => []RetriesAgree
  <1>1. Init => IdInv
    BY DEF Init, IdInv
  <1>2. TypeOK /\ IdInv /\ [Next]_vars => IdInv'
    <2>. SUFFICES ASSUME TypeOK, IdInv, [Next]_vars PROVE IdInv'
      OBVIOUS
    <2>1. CASE Publish
      BY <2>1, PublishStep, CommitKeepsIds, Zenon
    <2>2. CASE \E r \in ids : Duplicate(r)
      <3>. PICK r \in ids : Duplicate(r)
        BY <2>2, Zenon
      <3>1. r = [id |-> r.id, serial |-> r.serial]
        BY Zenon DEF TypeOK, IdRows
      <3>. QED
        BY <3>1 DEF Duplicate, IdInv, KnownIds
    <2>3. CASE UNCHANGED <<order, ids, acks>>
      BY <2>3, Zenon DEF IdInv, KnownIds
    <2>4. CASE OpenChannel \/ UNCHANGED vars
      BY <2>3, <2>4, Zenon DEF OpenChannel, vars, storeVars
    <2>5. CASE \E cur \in latest : MutateIncompatible(cur)
      BY <2>3, <2>5, Zenon DEF MutateIncompatible
    <2>6. CASE \E s \in Streams : StreamStep(s)
      BY <2>3, <2>6, Zenon DEF StreamStep, storeVars
    <2>. QED
      BY <2>1, <2>2, <2>4, <2>5, <2>6, Zenon DEF Next
  <1>3. IdInv => RetriesAgree
    BY Zenon DEF IdInv, RetriesAgree
  <1>. QED
    BY <1>1, <1>2, <1>3, TypeCorrect, PTL DEF Spec

-----------------------------------------------------------------------------
\* A stream's cursor stays within the list, as far past the tail it attached
\* at as it has had deliveries.
StreamInv ==
    \A s \in Streams :
        /\ cursor[s] <= Len(list)
        /\ cursor[s] = 0 => delivered[s] = <<>>
        /\ cursor[s] # 0 => Len(delivered[s]) < cursor[s]

\* StreamInv holds throughout.
LEMMA StreamInvHolds == Spec => []StreamInv
  <1>1. Init => StreamInv
    <2>. SUFFICES ASSUME Init PROVE StreamInv
      OBVIOUS
    <2>1. Len(list) = 1
      BY Zenon DEF Init, NewChannel
    <2>2. \A s \in Streams : cursor[s] = 0 /\ delivered[s] = <<>>
      BY Zenon DEF Init, NewChannel
    <2>3. \A s \in Streams : cursor[s] <= Len(list)
      <3>1. cursor = [s \in Streams |-> 0]
        BY Zenon DEF Init, NewChannel
      <3>2. 0 <= Len(list)
        BY <2>1
      <3>. QED
        BY <3>1, <3>2, Zenon
    <2>. QED
      BY <2>2, <2>3, Zenon DEF StreamInv
  <1>2. LogInv /\ StreamInv /\ [Next]_vars => StreamInv'
    <2>. SUFFICES ASSUME LogInv, StreamInv, [Next]_vars PROVE StreamInv'
      OBVIOUS
    <2>0. list \in Seq(CMs) /\ cursor \in [Streams -> Nat] /\ delivered \in [Streams -> Seq(CMs)]
      BY Zenon DEF LogInv, TypeOK
    <2>1. CASE UNCHANGED <<cursor, delivered>> /\ Len(list') \in Nat /\ Len(list) <= Len(list')
      BY <2>0, <2>1 DEF StreamInv
    <2>2. CASE OpenChannel
      BY <2>0, <2>1, <2>2 DEF OpenChannel, Initialize
    <2>3. CASE Publish
      <3>. PICK cm \in CMs : Commits(cm)
        BY <2>3, PublishStep, Zenon DEF LogInv
      <3>. QED
        BY <2>0, <2>1 DEF Commits
    <2>4. CASE (\E cur \in latest : MutateIncompatible(cur)) \/ (\E r \in ids : Duplicate(r))
               \/ UNCHANGED vars
      BY <2>0, <2>1, <2>4 DEF MutateIncompatible, Duplicate, vars, channelVars
    <2>5. CASE \E s \in Streams : StreamStep(s)
      <3>. PICK s \in Streams : StreamStep(s)
        BY <2>5, Zenon
      <3>1. CASE Attach(s)
        BY <2>0, <3>1 DEF Attach, StreamInv, LogInv, TypeOK
      <3>2. CASE NextCM(s)
        <4>1. Len(Append(delivered[s], list[cursor[s] + 1])) = Len(delivered[s]) + 1
          BY <2>0, <3>2 DEF NextCM
        <4>. QED
          BY <2>0, <3>2, <4>1 DEF NextCM, StreamInv
      <3>3. CASE DropStream(s)
        BY <2>0, <3>3 DEF DropStream, StreamInv
      <3>. QED
        BY <3>1, <3>2, <3>3, Zenon DEF StreamStep
    <2>. QED
      BY <2>2, <2>3, <2>4, <2>5, Zenon DEF Next
  <1>. QED
    BY <1>1, <1>2, TypeCorrect, LogInvHolds, PTL DEF Spec

-----------------------------------------------------------------------------
\* The reader a stream implements, by the refinement mapping of Feed.
FeedOpen == {s \in Streams : cursor[s] # 0}
FeedFrom == [s \in Streams |-> IF cursor[s] = 0 THEN 0 ELSE cursor[s] - 1 - Len(delivered[s])]

\* A publish is the feed's Commit.
LEMMA CommitIsFeedCommit ==
    ASSUME LogInv, NEW cm \in CMs, Commits(cm)
    PROVE  Feed!Commit
  <1>1. /\ list \in Seq(CMs) /\ order \in Seq(CMs) /\ gen \in Nat
        /\ order' = Append(order, cm) /\ Len(order') = Len(order) + 1
        /\ order'[Len(order')] = cm /\ Len(list) = Len(order) + 1
        /\ cm.serial = gen + 1
    BY DEF LogInv, TypeOK, AppendsMatchLog, Commits
  <1>2. \A i \in 1..Len(order) : order[i].serial < cm.serial
    <2>. SUFFICES ASSUME NEW i \in 1..Len(order) PROVE order[i].serial < cm.serial
      OBVIOUS
    <2>1. i + 1 \in 1..Len(list) /\ list[i + 1] = order[i]
      BY <1>1 DEF LogInv, AppendsMatchLog
    <2>2. order[i].serial \in Nat /\ order[i].serial <= gen
      BY <1>1, <2>1, SerialsTyped, Zenon DEF LogInv
    <2>. QED
      BY <1>1, <2>2
  <1>3. UNCHANGED <<cursor, delivered>>
    BY Zenon DEF Commits
  <1>. QED
    BY <1>1, <1>2, <1>3, Zenon DEF Feed!Commit

\* A stream's step is the same reader's step.
LEMMA StreamStepIsFeedStep ==
    ASSUME LogInv, StreamInv, NEW s \in Streams, StreamStep(s)
    PROVE  Feed!Open(s) \/ Feed!Deliver(s) \/ Feed!Close(s)
  <1>1. /\ list \in Seq(CMs) /\ order \in Seq(CMs) /\ Len(list) = Len(order) + 1
        /\ cursor \in [Streams -> Nat] /\ delivered \in [Streams -> Seq(CMs)]
        /\ order' = order
    BY Zenon DEF LogInv, TypeOK, AppendsMatchLog, StreamStep, storeVars
  <1>2. CASE Attach(s)
    <2>1. /\ cursor[s] = 0 /\ cursor' = [cursor EXCEPT ![s] = Len(list)] /\ delivered' = delivered
          /\ Len(delivered[s]) = 0 /\ Len(list) # 0
      BY <1>1, <1>2 DEF Attach, StreamInv
    <2>2. FeedOpen' = FeedOpen \cup {s} /\ s \notin FeedOpen
      BY <1>1, <2>1, Zenon DEF FeedOpen
    <2>3. FeedFrom' = [FeedFrom EXCEPT ![s] = Len(order)]
      <3>1. Len(list) - 1 - Len(delivered[s]) = Len(order)
        BY <1>1, <2>1
      <3>2. cursor'[s] = Len(list) /\ \A t \in Streams \ {s} : cursor'[t] = cursor[t]
        BY <1>1, <2>1, Zenon
      <3>3. FeedFrom'[s] = Len(order)
        BY <1>1, <2>1, <3>1, <3>2, Zenon DEF FeedFrom
      <3>4. \A t \in Streams \ {s} : FeedFrom'[t] = FeedFrom[t]
        BY <2>1, <3>2 DEF FeedFrom
      <3>5. FeedFrom' = [t \in Streams |-> FeedFrom'[t]]
        BY Zenon DEF FeedFrom
      <3>6. FeedFrom = [t \in Streams |-> FeedFrom[t]]
        BY Zenon DEF FeedFrom
      <3>. HIDE DEF FeedFrom
      <3>. QED
        BY <3>3, <3>4, <3>5, <3>6, Zenon
    <2>. QED
      BY <1>1, <2>1, <2>2, <2>3, Zenon DEF Feed!Open, FeedOpen, FeedFrom
  <1>3. CASE NextCM(s)
    <2>. DEFINE next == list[cursor[s] + 1]
    <2>1. /\ cursor[s] # 0 /\ cursor[s] < Len(list)
          /\ cursor' = [cursor EXCEPT ![s] = cursor[s] + 1]
          /\ delivered' = [delivered EXCEPT ![s] = Append(delivered[s], next)]
          /\ Len(delivered[s]) < cursor[s] /\ Len(delivered[s]) \in Nat
      BY <1>1, <1>3 DEF NextCM, StreamInv
    <2>2. next = order[cursor[s]] /\ cursor[s] \in 1..Len(order) /\ next \in CMs
      BY <1>1, <2>1 DEF LogInv, AppendsMatchLog
    <2>3. Len(Append(delivered[s], next)) = Len(delivered[s]) + 1
      BY <1>1, <2>2
    <2>4. FeedOpen' = FeedOpen /\ s \in FeedOpen
      BY <1>1, <2>1 DEF FeedOpen
    <2>5. FeedFrom' = FeedFrom /\ FeedFrom[s] + Len(delivered[s]) + 1 = cursor[s]
          /\ FeedFrom[s] + Len(delivered[s]) < Len(order)
      BY <1>1, <2>1, <2>2, <2>3, SMTT(30) DEF FeedFrom
    <2>6. delivered' = [delivered EXCEPT ![s] =
                            Append(delivered[s], order[FeedFrom[s] + Len(delivered[s]) + 1])]
      BY <2>1, <2>2, <2>5, Zenon
    <2>. QED
      BY <1>1, <2>4, <2>5, <2>6, Zenon DEF Feed!Deliver, FeedOpen, FeedFrom
  <1>4. CASE DropStream(s)
    <2>1. /\ cursor[s] # 0 /\ cursor' = [cursor EXCEPT ![s] = 0]
          /\ delivered' = [delivered EXCEPT ![s] = <<>>]
      BY <1>4, Zenon DEF DropStream
    <2>2. FeedOpen' = FeedOpen \ {s} /\ s \in FeedOpen
      BY <1>1, <2>1, Zenon DEF FeedOpen
    <2>3. FeedFrom' = [FeedFrom EXCEPT ![s] = 0]
      BY <1>1, <2>1, Zenon DEF FeedFrom
    <2>. QED
      BY <1>1, <2>1, <2>2, <2>3, Zenon DEF Feed!Close, FeedOpen, FeedFrom
  <1>. QED
    BY <1>2, <1>3, <1>4, Zenon DEF StreamStep

\* The memory backend with core.Channel implements the abstract feed: an
\* attached stream is handed exactly the cms committed after it attached,
\* in order, without gaps or repeats.
THEOREM FeedRefinement == Spec => ImplementsFeed
  <1>1. Init => Feed!Init
    BY Zenon DEF Init, NewChannel, Feed!Init
  <1>2. LogInv /\ StreamInv /\ [Next]_vars => [Feed!Next]_(Feed!feedVars)
    <2>. SUFFICES ASSUME LogInv, StreamInv, [Next]_vars PROVE [Feed!Next]_(Feed!feedVars)
      OBVIOUS
    <2>1. CASE Publish
      <3>. PICK cm \in CMs : Commits(cm)
        BY <2>1, PublishStep, Zenon DEF LogInv
      <3>. QED
        BY CommitIsFeedCommit, Zenon DEF Feed!Next
    <2>2. CASE \E s \in Streams : StreamStep(s)
      BY <2>2, StreamStepIsFeedStep, Zenon DEF Feed!Next
    <2>3. CASE UNCHANGED <<order, cursor, delivered>>
      BY <2>3, Zenon DEF Feed!feedVars
    <2>4. CASE OpenChannel
      BY <2>3, <2>4, Zenon DEF OpenChannel, Initialize
    <2>5. CASE (\E cur \in latest : MutateIncompatible(cur)) \/ (\E r \in ids : Duplicate(r))
               \/ UNCHANGED vars
      BY <2>3, <2>5, Zenon DEF MutateIncompatible, Duplicate, vars, channelVars, storeVars
    <2>. QED
      BY <2>1, <2>2, <2>4, <2>5, Zenon DEF Next
  <1>. QED
    BY <1>1, <1>2, LogInvHolds, StreamInvHolds, PTL DEF Spec, ImplementsFeed, Feed!Spec
==============================================================================
