-------------------------- MODULE MemoryTableProofs --------------------------
(***************************************************************************)
(* Proofs about the tables of MemoryStore, for any streams, ids, members and *)
(* bounds: the message projection and the presence set are the folds of the *)
(* log that built them.                                                    *)
(***************************************************************************)
EXTENDS MemoryStoreProofs, ProjectionProofs

-----------------------------------------------------------------------------
\* The tables are the fold of the log, and speak only of messages that were created:
\* a serial yet to be minted is in none of them.
ProjInv ==
    /\ ProjectionIsFoldOfLog
    /\ \A row \in latest : RowFolds(order, row) /\ row.ident[1] <= gen
    /\ \A v \in versions : v.ident[1] <= gen
    /\ \A a \in annotations : a.ident[1] <= gen
    /\ \A i \in 1..Len(order) :
        order[i].act \in Mutations \cup {"annotate"} =>
            order[i].on \in Idents /\ order[i].on[1] <= gen

\* The projection's invariant, row by row.
LEMMA ProjRows ==
    /\ ProjInv => \A row \in latest : RowStands(order, row, versions, annotations)
    /\ ProjectionIsFoldOfLog <=>
        /\ \A k \in 1..Len(order) : order[k].act = "create" =>
              \A i \in 0..(order[k].n - 1) : \E row \in latest : row.ident = <<order[k].serial, i>>
        /\ \A row, other \in latest : row.ident = other.ident => row = other
        /\ \A row \in latest :
              /\ CreatedIn(order, row.ident)
              /\ RowMatches(order, row)
              /\ VersionSerials(versions, row.ident) = SerialsAt(order, VersionsOf(order, row.ident))
              /\ NoteSerials(annotations, row.ident) = SerialsAt(order, NotesOn(order, row.ident))
<1>1. ProjectionIsFoldOfLog <=>
        /\ \A k \in 1..Len(order) : order[k].act = "create" =>
              \A i \in 0..(order[k].n - 1) : \E row \in latest : row.ident = <<order[k].serial, i>>
        /\ \A row, other \in latest : row.ident = other.ident => row = other
        /\ \A row \in latest :
              /\ CreatedIn(order, row.ident)
              /\ RowMatches(order, row)
              /\ VersionSerials(versions, row.ident) = SerialsAt(order, VersionsOf(order, row.ident))
              /\ NoteSerials(annotations, row.ident) = SerialsAt(order, NotesOn(order, row.ident))
  BY Zenon DEF ProjectionIsFoldOfLog, IsFoldOf, CreatedIn, VersionSerials, NoteSerials
<1> QED
  BY <1>1, Zenon DEF ProjInv, RowStands

\* The log and its serials, which the generator has gone past; a commit takes a new one.
LEMMA OrderFacts ==
    ASSUME LogInv
    PROVE  /\ order \in Seq(CMs) /\ gen \in Nat
           /\ \A i \in 1..Len(order) : order[i] \in CMs /\ order[i].serial \in Nat /\ order[i].serial <= gen
           /\ \A cm : Commits(cm) =>
                /\ Grown(order, cm, order')
                /\ cm.serial = gen + 1 /\ gen' = gen + 1
                /\ \A i \in 1..Len(order) : order[i].serial # cm.serial
<1>1. order \in Seq(CMs) /\ list \in Seq(CMs) /\ gen \in Nat /\ Len(list) = Len(order) + 1
  BY Zenon DEF LogInv, TypeOK, AppendsMatchLog
<1>2. ASSUME NEW i \in 1..Len(order)
      PROVE  order[i] \in CMs /\ order[i].serial \in Nat /\ order[i].serial <= gen
  <2>1. i + 1 \in 1..Len(list) /\ list[i + 1] = order[i]
    BY <1>1 DEF LogInv, AppendsMatchLog
  <2>2. order[i] \in CMs
    BY <1>1
  <2> QED
    BY <1>1, <2>1, <2>2, SerialsTyped, Zenon DEF LogInv
<1>3. ASSUME NEW cm, Commits(cm)
      PROVE  Grown(order, cm, order') /\ cm.serial = gen + 1 /\ gen' = gen + 1
  BY <1>1, <1>3, Zenon DEF Commits, Grown
<1>4. ASSUME NEW cm, Commits(cm), NEW i \in 1..Len(order) PROVE order[i].serial # cm.serial
  BY <1>1, <1>2, <1>3, <1>4
<1> QED
  BY <1>1, <1>2, <1>3, <1>4, Zenon

\* A row that the cm does not speak of stands.
LEMMA RowKept ==
    ASSUME LogInv, ProjInv, NEW cm, Commits(cm), NEW row \in latest,
           ~Makes(cm, row.ident), ~Annotates(cm, row.ident),
           VersionSerials(versions', row.ident) = VersionSerials(versions, row.ident),
           NoteSerials(annotations', row.ident) = NoteSerials(annotations, row.ident)
    PROVE  RowStands(order', row, versions', annotations')
<1>1. Grown(order, cm, order')
  BY OrderFacts, Zenon
<1>2. RowStands(order, row, versions, annotations)
  BY ProjRows, Zenon
<1>3. RowFolds(order', row)
  BY <1>1, <1>2, RowStays, Zenon DEF RowStands
<1>4. /\ VersionsOf(order', row.ident) = VersionsOf(order, row.ident)
      /\ NotesOn(order', row.ident) = NotesOn(order, row.ident)
      /\ VersionsOf(order, row.ident) \in SUBSET (1..Len(order))
      /\ NotesOn(order, row.ident) \in SUBSET (1..Len(order))
  BY <1>1, GrownSets
<1>5. /\ SerialsAt(order', VersionsOf(order, row.ident)) = SerialsAt(order, VersionsOf(order, row.ident))
      /\ SerialsAt(order', NotesOn(order, row.ident)) = SerialsAt(order, NotesOn(order, row.ident))
  <2>1. \A i \in 1..Len(order) : order'[i].serial = order[i].serial
    BY <1>1, GrownFacts
  <2> QED
    BY <1>4, <2>1, Zenon DEF SerialsAt
<1>6. CreatedIn(order', row.ident)
  BY <1>1, <1>2, CreatedGrown, Zenon DEF RowStands
<1> QED
  BY <1>2, <1>3, <1>4, <1>5, <1>6, Zenon DEF RowStands

\* The invariant after a commit: it is enough to look at the rows, at what the cm
\* created and at its subject.
LEMMA Reassembled ==
    ASSUME LogInv, ProjInv, NEW cm, Commits(cm),
           \A row \in latest' : RowStands(order', row, versions', annotations') /\ row.ident[1] <= gen',
           \A row, other \in latest' : row.ident = other.ident => row = other,
           \A row \in latest : \E other \in latest' : other.ident = row.ident,
           cm.act = "create" =>
                \A i \in 0..(cm.n - 1) : \E row \in latest' : row.ident = <<cm.serial, i>>,
           \A v \in versions' : v.ident[1] <= gen',
           \A a \in annotations' : a.ident[1] <= gen',
           cm.act \in Mutations \cup {"annotate"} => cm.on \in Idents /\ cm.on[1] <= gen
    PROVE  ProjInv'
<1>1. Grown(order, cm, order') /\ gen' = gen + 1 /\ gen \in Nat
  BY OrderFacts, Zenon
<1>2. \A k \in 1..Len(order') : order'[k].act = "create" =>
         \A i \in 0..(order'[k].n - 1) : \E row \in latest' : row.ident = <<order'[k].serial, i>>
  <2> SUFFICES ASSUME NEW k \in 1..Len(order'), order'[k].act = "create",
                      NEW i \in 0..(order'[k].n - 1)
               PROVE  \E row \in latest' : row.ident = <<order'[k].serial, i>>
    BY Zenon
  <2>1. CASE k \in 1..Len(order) /\ order'[k] = order[k]
    <3>1. PICK row \in latest : row.ident = <<order[k].serial, i>>
      BY <2>1, ProjRows, Zenon DEF ProjInv
    <3> QED
      BY <2>1, <3>1
  <2>2. CASE order'[k] = cm
    BY <2>2, Zenon
  <2> QED
    BY <1>1, <2>1, <2>2, GrownFacts
<1>3. ProjectionIsFoldOfLog'
  <2>1. \A row \in latest' :
            /\ CreatedIn(order', row.ident)
            /\ RowMatches(order', row)
            /\ VersionSerials(versions', row.ident) = SerialsAt(order', VersionsOf(order', row.ident))
            /\ NoteSerials(annotations', row.ident) = SerialsAt(order', NotesOn(order', row.ident))
    BY Zenon DEF RowStands, RowFolds
  <2> QED
    BY <1>2, <2>1, Zenon
    DEF ProjectionIsFoldOfLog, IsFoldOf, CreatedIn, VersionSerials, NoteSerials
<1>4. \A i \in 1..Len(order') :
        order'[i].act \in Mutations \cup {"annotate"} =>
            order'[i].on \in Idents /\ order'[i].on[1] <= gen'
  <2> SUFFICES ASSUME NEW i \in 1..Len(order'), order'[i].act \in Mutations \cup {"annotate"}
               PROVE  order'[i].on \in Idents /\ order'[i].on[1] <= gen'
    OBVIOUS
  <2>1. order'[i].on \in Idents /\ order'[i].on[1] <= gen
    BY <1>1, GrownFacts DEF ProjInv
  <2> QED
    BY <1>1, <2>1 DEF Idents
<1> QED
  BY <1>3, <1>4, Zenon DEF ProjInv, RowStands

\* The identities in the tables are of serials already minted.
LEMMA IdentsKnown ==
    ASSUME LogInv, ProjInv
    PROVE  /\ gen \in Nat
           /\ \A row \in latest : row.ident \in Idents /\ row.ident[1] \in Nat /\ row.ident[1] <= gen
           /\ \A v \in versions : v.ident \in Idents /\ v.ident[1] \in Nat /\ v.ident[1] <= gen
           /\ \A a \in annotations : a.ident \in Idents /\ a.ident[1] \in Nat /\ a.ident[1] <= gen
<1>1. gen \in Nat /\ latest \subseteq Rows /\ versions \subseteq Rows /\ annotations \subseteq Notes
  BY Zenon DEF LogInv, TypeOK
<1>2. (\A row \in Rows : row.ident \in Idents) /\ \A a \in Notes : a.ident \in Idents
  BY Zenon DEF Rows, Notes
<1>3. \A m \in Idents : m[1] \in Nat
  BY Zenon DEF Idents
<1> QED
  BY <1>1, <1>2, <1>3, Zenon DEF ProjInv

\* A publish of messages adds their rows.
LEMMA StoreFolds ==
    ASSUME LogInv, ProjInv, NEW id \in Ids \cup {NoId}, NEW n \in 1..MaxBatch, NEW data \in BOOLEAN,
           Store(id, n, data)
    PROVE  ProjInv'
<1> PICK cm : cm = NewCM("create", NoSubject, id, n, data)
  OBVIOUS
<1> PICK new : new = {CreateRow(gen', i, data) : i \in 0..(n - 1)}
  BY Zenon
<1>0. Commits(cm)
  BY StoreStep, Zenon DEF LogInv
<1>1. /\ Grown(order, cm, order') /\ cm.serial = gen' /\ gen' = gen + 1 /\ gen \in Nat
      /\ cm.act = "create" /\ cm.n = n /\ cm.data = data
  BY <1>0, OrderFacts, Zenon DEF NewCM
<1>2. latest' = latest \cup new /\ versions' = versions \cup new /\ annotations' = annotations
  BY Zenon DEF Store
<1>3. \A row \in new : row.ident \in Idents /\ row.ident[1] = gen' /\ row.version = gen'
  BY <1>1 DEF CreateRow, Idents
<1>4. \A row \in latest : row.ident \in Idents /\ row.ident[1] \in Nat /\ row.ident[1] <= gen
  BY IdentsKnown, Zenon
<1>5. ASSUME NEW row \in latest PROVE RowStands(order', row, versions', annotations')
  <2>1. row.ident[1] # gen'
    BY <1>1, <1>4
  <2>2. ~Makes(cm, row.ident) /\ ~Annotates(cm, row.ident)
    BY <1>1, <2>1, Zenon DEF Makes, Annotates, Mutations
  <2>3. {w \in versions' : w.ident = row.ident} = {w \in versions : w.ident = row.ident}
    BY <1>2, <1>3, <2>1
  <2> QED
    BY <1>0, <1>2, <2>2, <2>3, RowKept, Zenon DEF VersionSerials, NoteSerials
<1>6. ASSUME NEW i \in 0..(n - 1)
      PROVE  RowStands(order', CreateRow(gen', i, data), versions', annotations')
  <2> PICK m : m = <<gen', i>>
    BY Zenon
  <2>0. m[1] = gen' /\ m[2] = i /\ CreateRow(gen', i, data).ident = m
        /\ CreateRow(gen', i, data).version = gen' /\ CreateRow(gen', i, data) \in new
    BY Zenon DEF CreateRow
  <2>1. VersionsOf(order, m) = {} /\ NotesOn(order, m) = {}
    <3>1. ASSUME NEW k \in 1..Len(order) PROVE ~Makes(order[k], m) /\ ~Annotates(order[k], m)
      <4>1. order[k].serial # gen'
        BY <1>1, OrderFacts
      <4>2. order[k].act \in Mutations \cup {"annotate"} => order[k].on # m
        BY <1>1, <2>0 DEF ProjInv, Idents
      <4> QED
        BY <2>0, <4>1, <4>2, Zenon DEF Makes, Annotates
    <3> QED
      BY <3>1, Zenon DEF VersionsOf, NotesOn, Makes, Annotates
  <2>2. RowFolds(order', CreateRow(gen', i, data))
    BY <1>1, <2>1, RowCreated, Zenon
  <2>3. Makes(cm, m) /\ ~Annotates(cm, m)
    BY <1>1, <2>0 DEF Makes, Annotates
  <2>4. VersionsOf(order', m) = {} \cup {Len(order) + 1} /\ NotesOn(order', m) = {}
    BY <1>1, <2>1, <2>3, GrownSets
  <2>5. SerialsAt(order', VersionsOf(order', m)) = {gen'} /\ SerialsAt(order', NotesOn(order', m)) = {}
    <3>1. \A k : SerialsAt(order', {k}) = {order'[k].serial}
      BY Zenon DEF SerialsAt
    <3>2. SerialsAt(order', {}) = {}
      BY Zenon DEF SerialsAt
    <3>3. order'[Len(order) + 1].serial = gen'
      BY <1>1, GrownFacts
    <3> QED
      BY <2>4, <3>1, <3>2, <3>3, Zenon
  <2>6. VersionSerials(versions', m) = {gen'}
    <3>1. \A w \in versions : w.ident # m
      BY <1>1, <2>0, IdentsKnown
    <3>2. CreateRow(gen', i, data) \in {w \in versions' : w.ident = m}
      BY <1>2, <2>0, Zenon
    <3>3. \A w \in {x \in versions' : x.ident = m} : w.version = gen'
      BY <1>2, <1>3, <3>1, Zenon
    <3> QED
      BY <2>0, <3>2, <3>3, Zenon DEF VersionSerials
  <2>7. NoteSerials(annotations', m) = {}
    <3>1. \A w \in annotations : w.ident # m
      BY <1>1, <2>0, IdentsKnown
    <3> QED
      BY <1>2, <3>1, Zenon DEF NoteSerials
  <2>8. CreatedIn(order', m)
    BY <1>1, <2>0, GrownFacts DEF CreatedIn
  <2> QED
    BY <2>0, <2>2, <2>5, <2>6, <2>7, <2>8, Zenon DEF RowStands
<1>7. \A row \in latest' : RowStands(order', row, versions', annotations') /\ row.ident[1] <= gen'
  <2> SUFFICES ASSUME NEW row \in latest'
               PROVE  RowStands(order', row, versions', annotations') /\ row.ident[1] <= gen'
    OBVIOUS
  <2>1. CASE row \in latest
    BY <1>1, <1>4, <1>5, <2>1 DEF Idents
  <2>2. CASE row \in new
    BY <1>1, <1>3, <1>6, <2>2
  <2> QED
    BY <1>2, <2>1, <2>2, Zenon
<1>8. \A row, other \in latest' : row.ident = other.ident => row = other
  <2>1. ASSUME NEW row \in new, NEW other \in new, row.ident = other.ident PROVE row = other
    <3>1. PICK i \in 0..(n - 1) : row = CreateRow(gen', i, data)
      OBVIOUS
    <3>2. PICK j \in 0..(n - 1) : other = CreateRow(gen', j, data)
      OBVIOUS
    <3>3. i = j
      BY <2>1, <3>1, <3>2, Zenon DEF CreateRow
    <3> QED
      BY <3>1, <3>2, <3>3, Zenon
  <2>2. \A row \in latest, other \in new : row.ident # other.ident
    BY <1>1, <1>3, <1>4 DEF Idents
  <2>3. \A row, other \in latest : row.ident = other.ident => row = other
    BY ProjRows, Zenon DEF ProjInv
  <2> QED
    BY <1>2, <2>1, <2>2, <2>3
<1>9. ASSUME NEW i \in 0..(cm.n - 1) PROVE \E row \in latest' : row.ident = <<cm.serial, i>>
  <2>1. CreateRow(gen', i, data) \in latest'
    BY <1>1, <1>2, Zenon
  <2>2. CreateRow(gen', i, data).ident = <<cm.serial, i>>
    BY <1>1, Zenon DEF CreateRow
  <2> QED
    BY <2>1, <2>2, Zenon
<1>10. \A row \in latest : \E other \in latest' : other.ident = row.ident
  BY <1>2, Zenon
<1>11. \A v \in versions' : v.ident[1] <= gen'
  BY <1>1, <1>2, <1>3, IdentsKnown
<1>12. \A a \in annotations' : a.ident[1] <= gen'
  BY <1>1, <1>2, IdentsKnown
<1>13. cm.act \notin Mutations \cup {"annotate"}
  BY <1>1, Zenon DEF Mutations
<1> QED
  BY <1>0, <1>7, <1>8, <1>9, <1>10, <1>11, <1>12, <1>13, Reassembled, Zenon
\* A mutation replaces the row of its message by the merged one.
LEMMA MutateFolds ==
    ASSUME LogInv, ProjInv, NEW id \in Ids \cup {NoId}, NEW cur \in latest, NEW act \in Mutations,
           NEW data \in BOOLEAN, Mutate(cur, act, id, data)
    PROVE  ProjInv'
<1> PICK cm : cm = NewCM(act, cur.ident, id, 1, data)
  OBVIOUS
<1> PICK r2 : r2 = MergeVersion(cur, act, data, gen')
  OBVIOUS
<1> PICK m : m = cur.ident
  OBVIOUS
<1>0. Commits(cm)
  BY MutateStep, Zenon DEF LogInv
<1>1. /\ Grown(order, cm, order') /\ cm.serial = gen' /\ gen' = gen + 1 /\ gen \in Nat
      /\ \A i \in 1..Len(order) : order[i].serial # cm.serial
      /\ cm.act = act /\ cm.on = m /\ cm.data = data
  BY <1>0, OrderFacts, Zenon DEF NewCM
<1>2. /\ latest' = (latest \ {cur}) \cup {r2} /\ versions' = versions \cup {r2}
      /\ annotations' = annotations
  BY Zenon DEF Mutate
<1>3. cur \in Rows /\ m \in Idents /\ r2.ident = m /\ r2.version = gen' /\ m[1] <= gen
  BY Zenon DEF LogInv, TypeOK, ProjInv, Rows, MergeVersion
<1>4. \A row, other \in latest : row.ident = other.ident => row = other
  BY ProjRows, Zenon DEF ProjInv
<1>5. ASSUME NEW row \in latest \ {cur} PROVE RowStands(order', row, versions', annotations')
  <2>1. row.ident # m
    BY <1>4, Zenon
  <2>2. ~Makes(cm, row.ident) /\ ~Annotates(cm, row.ident)
    BY <1>1, <2>1, Zenon DEF Makes, Annotates, Mutations
  <2>3. {w \in versions' : w.ident = row.ident} = {w \in versions : w.ident = row.ident}
    BY <1>2, <1>3, <2>1, Zenon
  <2> QED
    BY <1>0, <1>2, <2>2, <2>3, RowKept, Zenon DEF VersionSerials, NoteSerials
<1>6. RowStands(order', r2, versions', annotations')
  <2>1. RowStands(order, cur, versions, annotations)
    BY ProjRows, Zenon
  <2>2. RowFolds(order', r2)
    BY <1>1, <1>3, <2>1, RowMerged, Zenon DEF RowStands
  <2>3. Makes(cm, m) /\ ~Annotates(cm, m)
    BY <1>1, Zenon DEF Makes, Annotates, Mutations
  <2>4. /\ VersionsOf(order', m) = VersionsOf(order, m) \cup {Len(order) + 1}
        /\ NotesOn(order', m) = NotesOn(order, m)
        /\ VersionsOf(order, m) \in SUBSET (1..Len(order))
        /\ NotesOn(order, m) \in SUBSET (1..Len(order))
    BY <1>1, <2>3, GrownSets
  <2>5. /\ SerialsAt(order', VersionsOf(order', m)) = SerialsAt(order, VersionsOf(order, m)) \cup {gen'}
        /\ SerialsAt(order', NotesOn(order', m)) = SerialsAt(order, NotesOn(order, m))
    <3>1. \A i \in 1..Len(order) : order'[i].serial = order[i].serial
      BY <1>1, GrownFacts
    <3>2. order'[Len(order) + 1].serial = gen'
      BY <1>1, GrownFacts
    <3> QED
      BY <2>4, <3>1, <3>2 DEF SerialsAt
  <2>6. VersionSerials(versions', m) = VersionSerials(versions, m) \cup {gen'}
    BY <1>2, <1>3, Zenon DEF VersionSerials
  <2>7. CreatedIn(order', m)
    BY <1>1, <2>1, CreatedGrown, Zenon DEF RowStands
  <2> QED
    BY <1>2, <1>3, <2>1, <2>2, <2>5, <2>6, <2>7 DEF RowStands
<1>7. \A row \in latest' : RowStands(order', row, versions', annotations') /\ row.ident[1] <= gen'
  <2> SUFFICES ASSUME NEW row \in latest'
               PROVE  RowStands(order', row, versions', annotations') /\ row.ident[1] <= gen'
    OBVIOUS
  <2>1. CASE row \in latest \ {cur}
    BY <1>1, <1>5, <2>1, IdentsKnown
  <2>2. CASE row = r2
    BY <1>1, <1>3, <1>6, <2>2 DEF Idents
  <2> QED
    BY <1>2, <2>1, <2>2, Zenon
<1>8. \A row, other \in latest' : row.ident = other.ident => row = other
  BY <1>2, <1>3, <1>4
<1>9. cm.act # "create"
  BY <1>1, Zenon DEF Mutations
<1>10. \A row \in latest : \E other \in latest' : other.ident = row.ident
  BY <1>2, <1>3, Zenon
<1>11. \A v \in versions' : v.ident[1] <= gen'
  BY <1>1, <1>2, <1>3, IdentsKnown
<1>12. \A a \in annotations' : a.ident[1] <= gen'
  BY <1>1, <1>2, IdentsKnown
<1> QED
  BY <1>0, <1>1, <1>3, <1>7, <1>8, <1>9, <1>10, <1>11, <1>12, Reassembled

\* An annotation folds into the row of its message.
LEMMA AnnotationFolds ==
    ASSUME LogInv, ProjInv, NEW id \in Ids \cup {NoId}, NEW cur \in latest, StoreAnnotation(cur, id)
    PROVE  ProjInv'
<1>cm. PICK cm : cm = NewCM("annotate", cur.ident, id, 1, TRUE)
  BY Zenon
<1> PICK r2 : r2 = FoldSummary(cur, gen')
  OBVIOUS
<1> PICK m : m = cur.ident
  OBVIOUS
<1>0. Commits(cm)
  BY <1>cm, AnnotationStep, Zenon DEF LogInv
<1>1. /\ Grown(order, cm, order') /\ cm.serial = gen' /\ gen' = gen + 1 /\ gen \in Nat
      /\ \A i \in 1..Len(order) : order[i].serial # cm.serial
      /\ cm.act = "annotate" /\ cm.on = m
  BY <1>0, <1>cm, OrderFacts, Zenon DEF NewCM
<1>2. /\ latest' = (latest \ {cur}) \cup {r2} /\ versions' = versions
      /\ annotations' = annotations \cup {[ident |-> m, serial |-> gen']}
  BY Zenon DEF StoreAnnotation
<1>3. cur \in Rows /\ m \in Idents /\ r2.ident = m /\ m[1] <= gen
  BY Zenon DEF LogInv, TypeOK, ProjInv, Rows, FoldSummary
<1>4. \A row, other \in latest : row.ident = other.ident => row = other
  BY ProjRows, Zenon DEF ProjInv
<1>5. ASSUME NEW row \in latest \ {cur} PROVE RowStands(order', row, versions', annotations')
  <2>1. row.ident # m
    BY <1>4, Zenon
  <2>2. ~Makes(cm, row.ident) /\ ~Annotates(cm, row.ident)
    BY <1>1, <2>1, Zenon DEF Makes, Annotates, Mutations
  <2>3. {a \in annotations' : a.ident = row.ident} = {a \in annotations : a.ident = row.ident}
    BY <1>2, <2>1
  <2> QED
    BY <1>0, <1>2, <2>2, <2>3, RowKept, Zenon DEF VersionSerials, NoteSerials
<1>6. RowStands(order', r2, versions', annotations')
  <2>1. RowStands(order, cur, versions, annotations)
    BY ProjRows, Zenon
  <2>2. Annotates(cm, m) /\ ~Makes(cm, m)
    BY <1>1, Zenon DEF Makes, Annotates, Mutations
  <2>3. RowFolds(order', r2)
    BY <1>1, <1>3, <2>1, <2>2, RowNoted, Zenon DEF RowStands
  <2>4. /\ NotesOn(order', m) = NotesOn(order, m) \cup {Len(order) + 1}
        /\ VersionsOf(order', m) = VersionsOf(order, m)
        /\ VersionsOf(order, m) \in SUBSET (1..Len(order))
        /\ NotesOn(order, m) \in SUBSET (1..Len(order))
    <3>1. NotesOn(order', m) = NotesOn(order, m) \cup {Len(order) + 1}
      BY <1>1, <2>2, GrownSets
    <3>2. VersionsOf(order', m) = VersionsOf(order, m)
      BY <1>1, <2>2, GrownSets
    <3>3. VersionsOf(order, m) \in SUBSET (1..Len(order)) /\ NotesOn(order, m) \in SUBSET (1..Len(order))
      BY <1>1, GrownSets, Zenon
    <3> QED
      BY <3>1, <3>2, <3>3, Zenon
  <2>5. /\ SerialsAt(order', NotesOn(order', m)) = SerialsAt(order, NotesOn(order, m)) \cup {gen'}
        /\ SerialsAt(order', VersionsOf(order', m)) = SerialsAt(order, VersionsOf(order, m))
    <3>1. \A i \in 1..Len(order) : order'[i].serial = order[i].serial
      BY <1>1, GrownFacts
    <3>2. order'[Len(order) + 1].serial = gen'
      BY <1>1, GrownFacts
    <3> QED
      BY <2>4, <3>1, <3>2 DEF SerialsAt
  <2>6. NoteSerials(annotations', m) = NoteSerials(annotations, m) \cup {gen'}
    <3>1. PICK note : note = [ident |-> m, serial |-> gen']
      BY Zenon
    <3>2. note.serial = gen' /\ note.ident = m
      BY <3>1, Zenon
    <3>3. {a \in annotations' : a.ident = m} = {a \in annotations : a.ident = m} \cup {note}
      BY <1>2, <3>1, <3>2, Zenon
    <3> QED
      BY <3>2, <3>3 DEF NoteSerials
  <2>7. CreatedIn(order', m)
    BY <1>1, <2>1, CreatedGrown, Zenon DEF RowStands
  <2> QED
    BY <1>2, <1>3, <2>1, <2>3, <2>5, <2>6, <2>7, Zenon DEF RowStands
<1>7. \A row \in latest' : RowStands(order', row, versions', annotations') /\ row.ident[1] <= gen'
  <2> SUFFICES ASSUME NEW row \in latest'
               PROVE  RowStands(order', row, versions', annotations') /\ row.ident[1] <= gen'
    OBVIOUS
  <2>1. CASE row \in latest \ {cur}
    BY <1>1, <1>5, <2>1, IdentsKnown
  <2>2. CASE row = r2
    BY <1>1, <1>3, <1>6, <2>2 DEF Idents
  <2> QED
    BY <1>2, <2>1, <2>2, Zenon
<1>8. \A row, other \in latest' : row.ident = other.ident => row = other
  BY <1>2, <1>3, <1>4
<1>9. cm.act # "create"
  BY <1>1, Zenon
<1>10. \A row \in latest : \E other \in latest' : other.ident = row.ident
  BY <1>2, <1>3, Zenon
<1>11. \A v \in versions' : v.ident[1] <= gen'
  BY <1>1, <1>2, IdentsKnown
<1>12. \A a \in annotations' : a.ident[1] <= gen'
  BY <1>1, <1>2, <1>3, IdentsKnown
<1> QED
  BY <1>0, <1>1, <1>3, <1>7, <1>8, <1>9, <1>10, <1>11, <1>12, Reassembled, Zenon
\* A presence operation speaks of no message.
LEMMA PresenceFolds ==
    ASSUME LogInv, ProjInv, NEW id \in Ids \cup {NoId}, NEW m \in Members, NEW act \in PresenceOps,
           StorePresence(m, act, id)
    PROVE  ProjInv'
<1>cm. PICK cm : cm = NewCM(act, m, id, 1, TRUE)
  BY Zenon
<1>0. Commits(cm)
  BY <1>cm, PresenceStep, Zenon DEF LogInv
<1>1. cm.act \in PresenceOps /\ gen' = gen + 1 /\ gen \in Nat
  BY <1>0, <1>cm, OrderFacts, Zenon DEF NewCM
<1>2. latest' = latest /\ versions' = versions /\ annotations' = annotations
  BY Zenon DEF StorePresence
<1>3. ASSUME NEW row \in latest PROVE RowStands(order', row, versions', annotations')
  <2>1. ~Makes(cm, row.ident) /\ ~Annotates(cm, row.ident)
    BY <1>1, Zenon DEF Makes, Annotates, Mutations, PresenceOps
  <2> QED
    BY <1>0, <1>2, <2>1, RowKept, Zenon
<1>4. \A row \in latest' : row.ident[1] <= gen'
  BY <1>1, <1>2, IdentsKnown
<1>5. \A row, other \in latest' : row.ident = other.ident => row = other
  BY <1>2, ProjRows, Zenon DEF ProjInv
<1>6. \A v \in versions' : v.ident[1] <= gen'
  BY <1>1, <1>2, IdentsKnown
<1>7. \A a \in annotations' : a.ident[1] <= gen'
  BY <1>1, <1>2, IdentsKnown
<1>8. cm.act \notin Mutations \cup {"annotate", "create"}
  BY <1>1, Zenon DEF Mutations, PresenceOps
<1> QED
  BY <1>0, <1>2, <1>3, <1>4, <1>5, <1>6, <1>7, <1>8, Reassembled, Zenon

\* The materialised projection of the memory backend is the fold of its log after any
\* number of publishes, mutations and annotations: one row for each message created,
\* its newest version, the data since its last replacement, all its annotations.
THEOREM ProjectionFolds == Spec => []ProjectionIsFoldOfLog
<1>1. Init => ProjInv
  <2> SUFFICES ASSUME Init PROVE ProjInv
    OBVIOUS
  <2>1. Len(order) = 0 /\ latest = {} /\ versions = {} /\ annotations = {}
    BY Zenon DEF Init
  <2>2. \A i \in 1..Len(order) : FALSE
    BY <2>1
  <2> QED
    BY <2>1, <2>2, Zenon DEF ProjInv, ProjectionIsFoldOfLog, IsFoldOf
<1>2. LogInv /\ ProjInv /\ [Next]_vars => ProjInv'
  <2> SUFFICES ASSUME LogInv, ProjInv, [Next]_vars PROVE ProjInv'
    OBVIOUS
  <2>1. CASE Publish
    BY <2>1, StoreFolds, MutateFolds, AnnotationFolds, PresenceFolds, Zenon DEF Publish
  <2>2. ASSUME UNCHANGED <<order, latest, versions, annotations>>, gen' \in Nat, gen <= gen'
        PROVE  ProjInv'
    <3>1. ProjectionIsFoldOfLog' <=> ProjectionIsFoldOfLog
      BY <2>2, Zenon DEF ProjectionIsFoldOfLog
    <3>2. gen \in Nat
      BY OrderFacts, Zenon
    <3>3. \A m \in Idents : m[1] <= gen => m[1] <= gen'
      BY <2>2, <3>2 DEF Idents
    <3>4. /\ \A row \in latest \cup versions : row.ident \in Idents
          /\ \A a \in annotations : a.ident \in Idents
      BY Zenon DEF LogInv, TypeOK, Rows, Notes
    <3> QED
      BY <2>2, <3>1, <3>3, <3>4, Zenon DEF ProjInv
  <2>3. gen \in Nat
    BY OrderFacts, Zenon
  <2>4. CASE OpenChannel
    BY <2>2, <2>3, <2>4 DEF OpenChannel, Mint
  <2>5. CASE \E cur \in latest : MutateIncompatible(cur)
    BY <2>2, <2>3, <2>5 DEF MutateIncompatible, Mint
  <2>6. CASE \E r \in ids : Duplicate(r)
    BY <2>2, <2>3, <2>6 DEF Duplicate
  <2>7. CASE \E s \in Streams : StreamStep(s)
    BY <2>2, <2>3, <2>7 DEF StreamStep, storeVars
  <2>8. CASE UNCHANGED vars
    BY <2>2, <2>3, <2>8 DEF vars, storeVars
  <2> QED
    BY <2>1, <2>4, <2>5, <2>6, <2>7, <2>8, Zenon DEF Next
<1>3. ProjInv => ProjectionIsFoldOfLog
  BY Zenon DEF ProjInv
<1> QED
  BY <1>1, <1>2, <1>3, LogInvHolds, PTL DEF Spec

-----------------------------------------------------------------------------
(***************************************************************************)
(* The presence set is the fold of the log.                                *)
(***************************************************************************)
PresenceInv == \A m \in Members : MemberStands(order, members, m)

\* The presence set of the memory backend is the fold of its log: a member is present
\* exactly when the last thing said of it is not a leave, under that serial.
THEOREM MembersFold == Spec => []MembersAreFoldOfLog
<1>1. Init => PresenceInv
  <2> SUFFICES ASSUME Init, NEW m \in Members PROVE MemberStands(order, members, m)
    BY Zenon DEF PresenceInv
  <2>1. SaidOf(order, m) = {} /\ RowsOf(members, m) = {}
    BY DEF Init, SaidOf, RowsOf
  <2> QED
    BY <2>1, Zenon DEF MemberStands
<1>2. LogInv /\ PresenceInv /\ [Next]_vars => PresenceInv'
  <2> SUFFICES ASSUME LogInv, PresenceInv, [Next]_vars PROVE PresenceInv'
    OBVIOUS
  <2>1. ASSUME NEW cm, Commits(cm), cm.on \notin Members, members' = members
        PROVE  PresenceInv'
    <3> SUFFICES ASSUME NEW m \in Members PROVE MemberStands(order', members', m)
      BY Zenon DEF PresenceInv
    <3>1. Grown(order, cm, order') /\ MemberStands(order, members, m) /\ cm.on # m
      BY <2>1, OrderFacts, Zenon DEF PresenceInv
    <3> QED
      BY <2>1, <3>1, MemberKept, Zenon
  <2>2. ASSUME NEW id \in Ids \cup {NoId}, NEW n \in 1..MaxBatch, NEW data \in BOOLEAN,
               Store(id, n, data)
        PROVE  PresenceInv'
    <3>1. Commits(NewCM("create", NoSubject, id, n, data)) /\ members' = members
      BY <2>2, StoreStep, Zenon DEF LogInv
    <3>2. NewCM("create", NoSubject, id, n, data).on \notin Members
      BY ChannelAssumption, Zenon DEF NewCM
    <3> QED
      BY <2>1, <3>1, <3>2, Zenon
  <2>3. ASSUME NEW id \in Ids \cup {NoId}, NEW cur \in latest, NEW act \in Mutations,
               NEW data \in BOOLEAN, Mutate(cur, act, id, data)
        PROVE  PresenceInv'
    <3>1. Commits(NewCM(act, cur.ident, id, 1, data)) /\ members' = members
      BY <2>3, MutateStep, Zenon DEF LogInv
    <3>2. cur.ident \notin Members
      BY ChannelAssumption, Zenon DEF LogInv, TypeOK, Rows, Idents
    <3>3. NewCM(act, cur.ident, id, 1, data).on \notin Members
      BY <3>2, Zenon DEF NewCM
    <3> QED
      BY <2>1, <3>1, <3>3, Zenon
  <2>4. ASSUME NEW id \in Ids \cup {NoId}, NEW cur \in latest, StoreAnnotation(cur, id)
        PROVE  PresenceInv'
    <3>1. PICK cm : cm = NewCM("annotate", cur.ident, id, 1, TRUE)
      BY Zenon
    <3>2. Commits(cm) /\ members' = members
      BY <2>4, <3>1, AnnotationStep, Zenon DEF LogInv
    <3>3. cur.ident \notin Members
      BY ChannelAssumption, Zenon DEF LogInv, TypeOK, Rows, Idents
    <3>4. cm.on \notin Members
      BY <3>1, <3>3, Zenon DEF NewCM
    <3> QED
      BY <2>1, <3>2, <3>4, Zenon
  <2>5. ASSUME NEW id \in Ids \cup {NoId}, NEW m \in Members, NEW act \in PresenceOps,
               StorePresence(m, act, id)
        PROVE  PresenceInv'
    <3>1. PICK cm : cm = NewCM(act, m, id, 1, TRUE)
      BY Zenon
    <3>2. Commits(cm) /\ cm.on = m /\ cm.act = act /\ cm.serial = gen'
      BY <2>5, <3>1, PresenceStep, Zenon DEF LogInv, NewCM
    <3>3. members' = FoldPresence(members, cm.on, cm.act, cm.serial) /\ members \in SUBSET Present
      BY <2>5, <3>2, Zenon DEF StorePresence, LogInv, TypeOK
    <3>4. Grown(order, cm, order')
      BY <3>2, OrderFacts, Zenon
    <3>5. MemberStands(order', members', m)
      BY <3>2, <3>3, <3>4, MemberFolded, Zenon
    <3>6. ASSUME NEW o \in Members, o # m PROVE MemberStands(order', members', o)
      <4>1. RowsOf(members', o) = RowsOf(members, o)
        BY <3>2, <3>3, <3>6 DEF RowsOf, FoldPresence
      <4>2. MemberStands(order, members, o)
        BY Zenon DEF PresenceInv
      <4> QED
        BY <3>2, <3>4, <3>6, <4>1, <4>2, MemberKept
    <3> QED
      BY <3>5, <3>6, Zenon DEF PresenceInv
  <2>6. CASE UNCHANGED <<order, members>>
    BY <2>6, Zenon DEF PresenceInv
  <2>7. CASE OpenChannel \/ (\E cur \in latest : MutateIncompatible(cur)) \/ (\E r \in ids : Duplicate(r))
             \/ (\E s \in Streams : StreamStep(s)) \/ UNCHANGED vars
    BY <2>6, <2>7, Zenon DEF OpenChannel, MutateIncompatible, Duplicate, StreamStep, vars, storeVars
  <2> QED
    BY <2>2, <2>3, <2>4, <2>5, <2>7, Zenon DEF Next, Publish
<1>3. PresenceInv => MembersAreFoldOfLog
  BY StandsIsFold, Zenon DEF PresenceInv, MembersAreFoldOfLog
<1> QED
  BY <1>1, <1>2, <1>3, LogInvHolds, PTL DEF Spec
==============================================================================
