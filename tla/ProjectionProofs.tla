--------------------------- MODULE ProjectionProofs ---------------------------
(***************************************************************************)
(* What one more cm does to the tables of a backend and to the reference   *)
(* definitions they are compared with, for any log.                        *)
(*                                                                         *)
(* That a set of positions has a newest one is carried by the facts: it is *)
(* true of one position, and stays true when a later one is added.         *)
(***************************************************************************)
EXTENDS Projection, TLAPS

-----------------------------------------------------------------------------
(***************************************************************************)
(* One cm more.                                                            *)
(***************************************************************************)
HasLast(S) == \E i \in S : \A j \in S : j <= i

\* A row as the log has it, of a message that has a newest version and a newest
\* replacement of its data.
RowFolds(log, row) ==
    /\ RowMatches(log, row)
    /\ HasLast(VersionsOf(log, row.ident))
    /\ HasLast(Replacing(log, row.ident))

\* Newest finds the last position, wherever there is one.
LEMMA NewestIsLast ==
    ASSUME NEW S \in SUBSET Nat, NEW i \in S, \A j \in S : j <= i
    PROVE  Newest(S) = i
<1>1. Newest(S) \in S /\ \A j \in S : j <= Newest(S)
  BY Zenon DEF Newest
<1>2. Newest(S) \in Nat /\ i \in Nat
  BY <1>1, Zenon
<1>3. i <= Newest(S) /\ Newest(S) <= i
  BY <1>1, Zenon
<1> QED
  BY <1>2, <1>3

\* So Newest of a set that has a last position is a position of it.
LEMMA NewestIn ==
    ASSUME NEW S \in SUBSET Nat, HasLast(S)
    PROVE  Newest(S) \in S
BY NewestIsLast, Zenon DEF HasLast

\* A later position is the newest one.
LEMMA NewestGrown ==
    ASSUME NEW n \in Nat, NEW S \in SUBSET (1..n)
    PROVE  Newest(S \cup {n + 1}) = n + 1 /\ HasLast(S \cup {n + 1})
<1>1. S \cup {n + 1} \in SUBSET Nat /\ n + 1 \in S \cup {n + 1}
  OBVIOUS
<1>2. \A j \in S \cup {n + 1} : j <= n + 1
  OBVIOUS
<1> QED
  BY <1>1, <1>2, NewestIsLast, Zenon DEF HasLast

\* What one cm says of message m.
Makes(cm, m) ==
    \/ cm.act = "create" /\ cm.serial = m[1] /\ m[2] < cm.n
    \/ cm.act \in Mutations /\ cm.on = m
Replaces(cm) == cm.act = "create" \/ (cm.act \in {"update", "delete"} /\ cm.data)
Annotates(cm, m) == cm.act = "annotate" /\ cm.on = m

\* log2 is log and one cm more.
Grown(log, cm, log2) ==
    /\ log \in Seq(CMs) /\ cm \in CMs
    /\ log2 = Append(log, cm)

\* The positions of the longer log are those of the log and its end.
LEMMA GrownFacts ==
    ASSUME NEW log, NEW cm, NEW log2, Grown(log, cm, log2)
    PROVE  /\ Len(log) \in Nat /\ Len(log2) = Len(log) + 1
           /\ \A i \in 1..Len(log) : log2[i] = log[i] /\ i \in 1..Len(log2) /\ i # Len(log) + 1
           /\ log2[Len(log) + 1] = cm /\ Len(log) + 1 \in 1..Len(log2)
           /\ \A i \in 1..Len(log2) : i \in 1..Len(log) \/ i = Len(log) + 1
BY DEF Grown

\* The positions that make a version of a message, replace its data or annotate it
\* are those before, and the end of the log if the cm does so.
LEMMA GrownSets ==
    ASSUME NEW log, NEW cm, NEW log2, Grown(log, cm, log2), NEW m
    PROVE  /\ Makes(cm, m) => VersionsOf(log2, m) = VersionsOf(log, m) \cup {Len(log) + 1}
           /\ ~Makes(cm, m) => VersionsOf(log2, m) = VersionsOf(log, m)
           /\ Makes(cm, m) /\ Replaces(cm) =>
                Replacing(log2, m) = Replacing(log, m) \cup {Len(log) + 1}
           /\ ~Makes(cm, m) \/ ~Replaces(cm) => Replacing(log2, m) = Replacing(log, m)
           /\ Annotates(cm, m) => NotesOn(log2, m) = NotesOn(log, m) \cup {Len(log) + 1}
           /\ ~Annotates(cm, m) => NotesOn(log2, m) = NotesOn(log, m)
           /\ VersionsOf(log, m) \subseteq 1..Len(log)
           /\ Replacing(log, m) \subseteq VersionsOf(log, m)
           /\ NotesOn(log, m) \subseteq 1..Len(log)
<1>1. /\ \A i \in 1..Len(log) : log2[i] = log[i] /\ i \in 1..Len(log2)
      /\ log2[Len(log) + 1] = cm /\ Len(log) + 1 \in 1..Len(log2)
      /\ \A i \in 1..Len(log2) : i \in 1..Len(log) \/ i = Len(log) + 1
  BY GrownFacts
<1>2. /\ VersionsOf(log, m) = {i \in 1..Len(log) : Makes(log[i], m)}
      /\ VersionsOf(log2, m) = {i \in 1..Len(log2) : Makes(log2[i], m)}
  BY Zenon DEF VersionsOf, Makes
<1>3. /\ Replacing(log, m) = {i \in VersionsOf(log, m) : Replaces(log[i])}
      /\ Replacing(log2, m) = {i \in VersionsOf(log2, m) : Replaces(log2[i])}
  BY Zenon DEF Replacing, Replaces
<1>4. /\ NotesOn(log, m) = {i \in 1..Len(log) : Annotates(log[i], m)}
      /\ NotesOn(log2, m) = {i \in 1..Len(log2) : Annotates(log2[i], m)}
  BY Zenon DEF NotesOn, Annotates
<1>5. /\ Makes(cm, m) => VersionsOf(log2, m) = VersionsOf(log, m) \cup {Len(log) + 1}
      /\ ~Makes(cm, m) => VersionsOf(log2, m) = VersionsOf(log, m)
  BY <1>1, <1>2, Zenon
<1>6. Makes(cm, m) /\ Replaces(cm) => Replacing(log2, m) = Replacing(log, m) \cup {Len(log) + 1}
  BY <1>1, <1>2, <1>3, <1>5, Zenon
<1>7. ~Makes(cm, m) \/ ~Replaces(cm) => Replacing(log2, m) = Replacing(log, m)
  BY <1>1, <1>2, <1>3, <1>5, Zenon
<1>8. /\ Annotates(cm, m) => NotesOn(log2, m) = NotesOn(log, m) \cup {Len(log) + 1}
      /\ ~Annotates(cm, m) => NotesOn(log2, m) = NotesOn(log, m)
  BY <1>1, <1>4, Zenon
<1>9. /\ VersionsOf(log, m) \subseteq 1..Len(log)
      /\ Replacing(log, m) \subseteq VersionsOf(log, m)
      /\ NotesOn(log, m) \subseteq 1..Len(log)
  BY <1>2, <1>3, <1>4, Zenon
<1> QED
  BY <1>5, <1>6, <1>7, <1>8, <1>9, Zenon

\* A listing of earlier positions stays one.
LEMMA ListsStay ==
    ASSUME NEW log, NEW cm, NEW log2, Grown(log, cm, log2),
           NEW S \in SUBSET (1..Len(log)), NEW s, Lists(s, log, S)
    PROVE  Lists(s, log2, S)
<1>1. \A i \in S : log2[i].serial = log[i].serial
  BY GrownFacts
<1> QED
  BY <1>1, SMTT(30) DEF Lists

\* The end of the log is listed last, under a serial that is nowhere before it.
LEMMA ListsGrow ==
    ASSUME NEW log, NEW cm, NEW log2, Grown(log, cm, log2),
           NEW S \in SUBSET (1..Len(log)), NEW s \in Seq(Nat), Lists(s, log, S),
           \A i \in 1..Len(log) : log[i].serial # cm.serial
    PROVE  Lists(Append(s, cm.serial), log2, S \cup {Len(log) + 1})
<1> PICK n : n = Len(log)
  OBVIOUS
<1> PICK t : t = Append(s, cm.serial)
  BY Zenon
<1>1. /\ n \in Nat
      /\ \A i \in S : log2[i].serial = log[i].serial /\ log[i].serial # cm.serial /\ i < n + 1
      /\ log2[n + 1].serial = cm.serial
  BY GrownFacts, SMTT(30)
<1>2. cm.serial \in Nat
  BY Zenon DEF Grown, CMs
<1>3. /\ DOMAIN s = 1..Len(s) /\ Len(s) \in Nat /\ DOMAIN t = 1..(Len(s) + 1)
      /\ \A k \in DOMAIN s : t[k] = s[k]
      /\ t[Len(s) + 1] = cm.serial
  BY <1>2
<1>4. \A k \in DOMAIN t : (k \in DOMAIN s /\ t[k] = s[k]) \/ (k = Len(s) + 1 /\ t[k] = cm.serial)
  BY <1>3
<1>5. \A k \in DOMAIN s : \E i \in S : s[k] = log[i].serial
  BY Zenon DEF Lists
<1>6. \A i \in S : \E k \in DOMAIN s : s[k] = log[i].serial
  BY Zenon DEF Lists
<1>7. /\ \A k \in DOMAIN t : \E i \in S \cup {n + 1} : t[k] = log2[i].serial
      /\ \A i \in S \cup {n + 1} : \E k \in DOMAIN t : t[k] = log2[i].serial
  <2>1. ASSUME NEW k \in DOMAIN t PROVE \E i \in S \cup {n + 1} : t[k] = log2[i].serial
    <3>1. CASE k \in DOMAIN s /\ t[k] = s[k]
      BY <1>1, <1>5, <3>1, Zenon
    <3>2. CASE t[k] = cm.serial
      BY <1>1, <3>2, Zenon
    <3> QED
      BY <1>4, <3>1, <3>2, Zenon
  <2>2. ASSUME NEW i \in S \cup {n + 1} PROVE \E k \in DOMAIN t : t[k] = log2[i].serial
    <3>1. CASE i \in S
      <4>1. PICK k \in DOMAIN s : s[k] = log[i].serial
        BY <1>6, <3>1, Zenon
      <4>2. k \in DOMAIN t
        BY <1>3
      <4> QED
        BY <1>1, <1>3, <3>1, <4>1, <4>2, Zenon
    <3>2. CASE i = n + 1
      BY <1>1, <1>3, <3>2, SMTT(30)
    <3> QED
      BY <3>1, <3>2, Zenon
  <2> QED
    BY <2>1, <2>2, Zenon
<1>8. \A k \in DOMAIN t : \A i \in S \cup {n + 1} : t[k] = log2[i].serial =>
          \/ k \in DOMAIN s /\ i \in S /\ s[k] = log[i].serial
          \/ k = Len(s) + 1 /\ i = n + 1
  <2> SUFFICES ASSUME NEW k \in DOMAIN t, NEW i \in S \cup {n + 1}, t[k] = log2[i].serial
               PROVE  \/ k \in DOMAIN s /\ i \in S /\ s[k] = log[i].serial
                      \/ k = Len(s) + 1 /\ i = n + 1
    OBVIOUS
  <2>1. CASE k \in DOMAIN s /\ t[k] = s[k]
    <3>1. PICK h \in S : s[k] = log[h].serial
      BY <1>5, <2>1, Zenon
    <3>2. s[k] # cm.serial
      BY <1>1, <3>1, Zenon
    <3> QED
      BY <1>1, <2>1, <3>2, Zenon
  <2>2. CASE k = Len(s) + 1 /\ t[k] = cm.serial
    BY <1>1, <2>2, Zenon
  <2> QED
    BY <1>4, <2>1, <2>2, Zenon
<1>9. \A j, k \in DOMAIN t : \A h, i \in S \cup {n + 1} :
          t[j] = log2[h].serial /\ t[k] = log2[i].serial => (j < k <=> h < i)
  <2> SUFFICES ASSUME NEW j \in DOMAIN t, NEW k \in DOMAIN t,
                      NEW h \in S \cup {n + 1}, NEW i \in S \cup {n + 1},
                      t[j] = log2[h].serial, t[k] = log2[i].serial
               PROVE  j < k <=> h < i
    BY SMTT(30)
  <2>1. /\ j \in DOMAIN s => j \in 1..Len(s)
        /\ k \in DOMAIN s => k \in 1..Len(s)
        /\ h \in S => h \in 1..n
        /\ i \in S => i \in 1..n
    BY <1>3, Zenon
  <2>2. CASE j \in DOMAIN s /\ h \in S /\ s[j] = log[h].serial
    <3>1. CASE k \in DOMAIN s /\ i \in S /\ s[k] = log[i].serial
      BY <2>2, <3>1, Zenon DEF Lists
    <3>2. CASE k = Len(s) + 1 /\ i = n + 1
      BY <1>1, <1>3, <2>1, <2>2, <3>2
    <3> QED
      BY <1>8, <3>1, <3>2, Zenon
  <2>3. CASE j = Len(s) + 1 /\ h = n + 1
    <3>1. CASE k \in DOMAIN s /\ i \in S /\ s[k] = log[i].serial
      BY <1>1, <1>3, <2>1, <2>3, <3>1
    <3>2. CASE k = Len(s) + 1 /\ i = n + 1
      BY <1>1, <1>3, <2>3, <3>2
    <3> QED
      BY <1>8, <3>1, <3>2, Zenon
  <2> QED
    BY <1>8, <2>2, <2>3, Zenon
<1>10. Lists(t, log2, S \cup {n + 1})
  BY <1>7, <1>9, Zenon DEF Lists
<1> QED
  BY <1>10, Zenon

\* A cm that says nothing of a message leaves its row as the log has it.
LEMMA RowStays ==
    ASSUME NEW log, NEW cm, NEW log2, Grown(log, cm, log2), NEW row,
           ~Makes(cm, row.ident), ~Annotates(cm, row.ident), RowFolds(log, row)
    PROVE  RowFolds(log2, row)
<1> PICK vs, rs, ns : vs = VersionsOf(log, row.ident) /\ rs = Replacing(log, row.ident)
                      /\ ns = NotesOn(log, row.ident)
  OBVIOUS
<1>1. /\ VersionsOf(log2, row.ident) = vs /\ Replacing(log2, row.ident) = rs
      /\ NotesOn(log2, row.ident) = ns
      /\ vs \subseteq 1..Len(log) /\ rs \subseteq vs /\ ns \subseteq 1..Len(log)
  BY GrownSets
<1>2. HasLast(vs) /\ HasLast(rs) /\ RowMatches(log, row)
  BY Zenon DEF RowFolds
<1>3. Newest(vs) \in vs
  BY <1>1, <1>2, NewestIn
<1>4. \A i \in vs : log2[i] = log[i]
  BY <1>1, GrownFacts
<1>5. PICK D : D = {i \in vs : i >= Newest(rs) /\ log[i].data}
  BY Zenon
<1>6. D = {i \in vs : i >= Newest(rs) /\ log2[i].data} /\ D \subseteq 1..Len(log)
  BY <1>1, <1>4, <1>5, Zenon
<1>7. Lists(row.data, log, D) /\ Lists(row.summary, log, ns)
  BY <1>2, <1>5, Zenon DEF RowMatches
<1>8. Lists(row.data, log2, D) /\ Lists(row.summary, log2, ns)
  BY <1>1, <1>6, <1>7, ListsStay, Zenon
<1>9. RowMatches(log2, row)
  BY <1>1, <1>2, <1>3, <1>4, <1>6, <1>8, Zenon DEF RowMatches
<1> QED
  BY <1>1, <1>2, <1>9, Zenon DEF RowFolds

\* What an annotation does to the row of its message.
LEMMA RowNoted ==
    ASSUME NEW log, NEW cm, NEW log2, Grown(log, cm, log2), NEW row \in Rows,
           Annotates(cm, row.ident), RowFolds(log, row),
           \A i \in 1..Len(log) : log[i].serial # cm.serial
    PROVE  RowFolds(log2, FoldSummary(row, cm.serial))
<1> PICK r2 : r2 = FoldSummary(row, cm.serial)
  OBVIOUS
<1>0. /\ r2.ident = row.ident /\ r2.version = row.version /\ r2.action = row.action
      /\ r2.delta = row.delta /\ r2.data = row.data
      /\ r2.summary = Append(row.summary, cm.serial) /\ row.summary \in Seq(Nat)
  BY Zenon DEF FoldSummary, Rows
<1> PICK vs, rs, ns : vs = VersionsOf(log, row.ident) /\ rs = Replacing(log, row.ident)
                      /\ ns = NotesOn(log, row.ident)
  OBVIOUS
<1>1. /\ VersionsOf(log2, row.ident) = vs /\ Replacing(log2, row.ident) = rs
      /\ NotesOn(log2, row.ident) = ns \cup {Len(log) + 1}
      /\ vs \subseteq 1..Len(log) /\ rs \subseteq vs /\ ns \subseteq 1..Len(log)
  <2>1. ~Makes(cm, row.ident)
    BY Zenon DEF Annotates, Makes, Mutations
  <2> QED
    BY <2>1, GrownSets
<1>2. HasLast(vs) /\ HasLast(rs) /\ RowMatches(log, row)
  BY Zenon DEF RowFolds
<1>3. Newest(vs) \in vs
  BY <1>1, <1>2, NewestIn
<1>4. \A i \in vs : log2[i] = log[i]
  BY <1>1, GrownFacts
<1>5. PICK D : D = {i \in vs : i >= Newest(rs) /\ log[i].data}
  BY Zenon
<1>6. D = {i \in vs : i >= Newest(rs) /\ log2[i].data} /\ D \subseteq 1..Len(log)
  BY <1>1, <1>4, <1>5, Zenon
<1>7. Lists(row.data, log, D) /\ Lists(row.summary, log, ns)
  BY <1>2, <1>5, Zenon DEF RowMatches
<1>8. Lists(row.data, log2, D)
  BY <1>6, <1>7, ListsStay, Zenon
<1>9. Lists(r2.summary, log2, ns \cup {Len(log) + 1})
  <2>1. ns \in SUBSET (1..Len(log)) /\ Lists(row.summary, log, ns)
    BY <1>1, <1>7, Zenon
  <2>2. Lists(Append(row.summary, cm.serial), log2, ns \cup {Len(log) + 1})
    BY <1>0, <2>1, ListsGrow, Zenon
  <2> QED
    BY <1>0, <2>2, Zenon
<1>10. RowMatches(log2, r2)
  BY <1>0, <1>1, <1>2, <1>3, <1>4, <1>6, <1>8, <1>9 DEF RowMatches
<1> QED
  BY <1>0, <1>1, <1>2, <1>10, Zenon DEF RowFolds
\* No position is listed by the empty data, and the end of the log by its serial.
LEMMA ListsEnd ==
    ASSUME NEW log, NEW cm, NEW log2, Grown(log, cm, log2)
    PROVE  /\ Lists(<<>>, log2, {})
           /\ Lists(<<cm.serial>>, log2, {Len(log) + 1})
<1>1. Lists(<<>>, log2, {})
  BY DEF Lists
<1>2. log2[Len(log) + 1].serial = cm.serial
  BY GrownFacts
<1>3. DOMAIN <<cm.serial>> = {1} /\ <<cm.serial>>[1] = cm.serial
  OBVIOUS
<1> QED
  BY <1>1, <1>2, <1>3 DEF Lists

\* What a publish does to the row of a message it creates.
LEMMA RowCreated ==
    ASSUME NEW log, NEW cm, NEW log2, Grown(log, cm, log2),
           cm.act = "create", NEW i \in 0..(cm.n - 1),
           VersionsOf(log, <<cm.serial, i>>) = {}, NotesOn(log, <<cm.serial, i>>) = {}
    PROVE  RowFolds(log2, CreateRow(cm.serial, i, cm.data))
<1> PICK m : m = <<cm.serial, i>>
  OBVIOUS
<1> PICK row : row = CreateRow(cm.serial, i, cm.data)
  OBVIOUS
<1> PICK n : n = Len(log)
  BY Zenon
<1>0. /\ row.ident = m /\ row.version = cm.serial /\ row.action = "create"
      /\ row.delta = FALSE /\ row.data = Supplied(cm.serial, cm.data) /\ row.summary = <<>>
  BY Zenon DEF CreateRow
<1>1. cm.n \in Nat /\ i < cm.n /\ cm.data \in BOOLEAN /\ n \in Nat
  BY GrownFacts, ChannelAssumption DEF Grown, CMs
<1>2. Makes(cm, m) /\ Replaces(cm) /\ ~Annotates(cm, m)
  BY <1>1, Zenon DEF Makes, Replaces, Annotates
<1>3. Replacing(log, m) = {}
  BY GrownSets, Zenon
<1>4. /\ VersionsOf(log2, m) = {n + 1} /\ Replacing(log2, m) = {n + 1} /\ NotesOn(log2, m) = {}
  BY <1>2, <1>3, GrownSets, SMTT(30)
<1>5. Newest({n + 1}) = n + 1 /\ HasLast({n + 1})
  BY <1>1, NewestIsLast DEF HasLast
<1>6. log2[n + 1] = cm
  BY GrownFacts, Zenon
<1>7. Lists(row.data, log2, {k \in {n + 1} : k >= n + 1 /\ log2[k].data})
  <2>1. CASE cm.data
    <3>1. {k \in {n + 1} : k >= n + 1 /\ log2[k].data} = {n + 1}
      BY <1>1, <1>6, <2>1
    <3> QED
      BY <1>0, <2>1, <3>1, ListsEnd DEF Supplied
  <2>2. CASE ~cm.data
    <3>1. {k \in {n + 1} : k >= n + 1 /\ log2[k].data} = {}
      BY <1>1, <1>6, <2>2, Zenon
    <3> QED
      BY <1>0, <2>2, <3>1, ListsEnd, Zenon DEF Supplied
  <2> QED
    BY <2>1, <2>2, Zenon
<1>8. Lists(row.summary, log2, {})
  BY <1>0, ListsEnd, Zenon
<1>9. RowMatches(log2, row)
  <2>1. /\ row.version = log2[Newest({n + 1})].serial
        /\ (row.action = "delete") <=> (log2[Newest({n + 1})].act = "delete")
        /\ row.delta <=> (log2[Newest({n + 1})].act = "append")
    BY <1>0, <1>5, <1>6, Zenon
  <2>2. Lists(row.data, log2, {k \in {n + 1} : k >= Newest({n + 1}) /\ log2[k].data})
    BY <1>5, <1>7, Zenon
  <2> QED
    BY <1>0, <1>4, <1>8, <2>1, <2>2, Zenon DEF RowMatches
<1> QED
  BY <1>0, <1>4, <1>5, <1>9, Zenon DEF RowFolds

\* What a mutation does to the row of its message: MergeVersion starts from the data so
\* far exactly when the cm does not replace it.
LEMMA RowMerged ==
    ASSUME NEW log, NEW cm, NEW log2, Grown(log, cm, log2), NEW row \in Rows,
           cm.act \in Mutations, cm.on = row.ident, RowFolds(log, row),
           \A i \in 1..Len(log) : log[i].serial # cm.serial
    PROVE  RowFolds(log2, MergeVersion(row, cm.act, cm.data, cm.serial))
<1> PICK r2 : r2 = MergeVersion(row, cm.act, cm.data, cm.serial)
  BY Zenon
<1> PICK n : n = Len(log)
  OBVIOUS
<1>0. /\ r2.ident = row.ident /\ r2.version = cm.serial
      /\ r2.action = (IF cm.act = "delete" THEN "delete" ELSE "update")
      /\ r2.delta = (cm.act = "append")
      /\ r2.data = (IF cm.act = "append" THEN row.data \o Supplied(cm.serial, cm.data)
                    ELSE IF cm.data THEN Supplied(cm.serial, cm.data) ELSE row.data)
      /\ r2.summary = row.summary /\ row.data \in Seq(Nat)
  BY Zenon DEF MergeVersion, Rows
<1>1. cm.data \in BOOLEAN /\ n \in Nat /\ cm.serial \in Nat
  BY GrownFacts, Zenon DEF Grown, CMs
<1> PICK vs, rs, ns : vs = VersionsOf(log, row.ident) /\ rs = Replacing(log, row.ident)
                      /\ ns = NotesOn(log, row.ident)
  OBVIOUS
<1>2. Makes(cm, row.ident) /\ ~Annotates(cm, row.ident)
      /\ (Replaces(cm) <=> cm.act # "append" /\ cm.data)
  BY Zenon DEF Makes, Annotates, Replaces, Mutations
<1>3. /\ VersionsOf(log2, row.ident) = vs \cup {n + 1}
      /\ NotesOn(log2, row.ident) = ns
      /\ Replaces(cm) => Replacing(log2, row.ident) = rs \cup {n + 1}
      /\ ~Replaces(cm) => Replacing(log2, row.ident) = rs
      /\ vs \subseteq 1..n /\ rs \subseteq vs /\ ns \subseteq 1..n
  BY <1>2, GrownSets
<1>4. HasLast(vs) /\ HasLast(rs) /\ RowMatches(log, row)
  BY Zenon DEF RowFolds
<1>5. Newest(vs \cup {n + 1}) = n + 1 /\ HasLast(vs \cup {n + 1})
  BY <1>1, <1>3, NewestGrown, Zenon
<1>6. log2[n + 1] = cm /\ \A i \in vs : log2[i] = log[i] /\ i \in 1..n
  BY <1>3, GrownFacts
<1>7. Lists(r2.summary, log2, ns)
  <2>1. Lists(row.summary, log, ns)
    BY <1>4, Zenon DEF RowMatches
  <2> QED
    BY <1>0, <1>3, <2>1, ListsStay, Zenon
<1>8. ASSUME Lists(r2.data, log2, {i \in VersionsOf(log2, r2.ident) :
                                      i >= Newest(Replacing(log2, r2.ident)) /\ log2[i].data})
      PROVE  RowMatches(log2, r2)
  <2>1. log2[Newest(VersionsOf(log2, r2.ident))] = cm /\ VersionsOf(log2, r2.ident) # {}
    BY <1>0, <1>3, <1>5, <1>6
  <2>2. r2.version = cm.serial /\ (r2.action = "delete" <=> cm.act = "delete")
    BY <1>0, Zenon
  <2>3. r2.delta <=> cm.act = "append"
    BY <1>0, Zenon
  <2>4. Lists(r2.summary, log2, NotesOn(log2, r2.ident))
    BY <1>0, <1>3, <1>7, Zenon
  <2> QED
    BY <1>8, <2>1, <2>2, <2>3, <2>4, Zenon DEF RowMatches
<1>9. CASE Replaces(cm)
  <2>1. rs \in SUBSET (1..n)
    BY <1>3, Zenon
  <2>2. Newest(rs \cup {n + 1}) = n + 1 /\ HasLast(rs \cup {n + 1})
    BY <1>1, <2>1, NewestGrown, Zenon
  <2>3. {i \in vs \cup {n + 1} : i >= n + 1 /\ log2[i].data} = {n + 1}
    BY <1>1, <1>2, <1>6, <1>9
  <2>4. r2.data = <<cm.serial>>
    BY <1>0, <1>2, <1>9, Zenon DEF Supplied
  <2>5. Lists(r2.data, log2, {n + 1})
    BY <2>4, ListsEnd, Zenon
  <2>6. RowMatches(log2, r2)
    <3>1. Lists(r2.data, log2, {i \in vs \cup {n + 1} : i >= Newest(rs \cup {n + 1}) /\ log2[i].data})
      BY <2>2, <2>3, <2>5, Zenon
    <3>2. Replacing(log2, r2.ident) = rs \cup {n + 1} /\ VersionsOf(log2, r2.ident) = vs \cup {n + 1}
      BY <1>0, <1>3, <1>9, Zenon
    <3> QED
      BY <1>8, <3>1, <3>2, Zenon
  <2> QED
    BY <1>0, <1>3, <1>5, <1>9, <2>2, <2>6, Zenon DEF RowFolds
<1>10. CASE ~Replaces(cm)
  <2> PICK b : b = Newest(rs)
    OBVIOUS
  <2> PICK D : D = {i \in vs : i >= b /\ log[i].data}
    BY Zenon
  <2>1. b \in 1..n
    <3>1. rs \in SUBSET Nat
      BY <1>3
    <3>2. b \in rs
      BY <1>4, <3>1, NewestIn, Zenon
    <3> QED
      BY <1>3, <3>2, Zenon
  <2>2. Lists(row.data, log, D) /\ D \in SUBSET (1..n)
    BY <1>3, <1>4, Zenon DEF RowMatches
  <2> PICK D2 : D2 = {i \in vs \cup {n + 1} : i >= b /\ log2[i].data}
    BY Zenon
  <2>3. Lists(r2.data, log2, D2)
    <3>1. CASE cm.data
      <4>1. r2.data = Append(row.data, cm.serial)
        <5>1. row.data \o <<cm.serial>> = Append(row.data, cm.serial)
          BY <1>0, <1>1
        <5> QED
          BY <1>0, <1>2, <1>10, <3>1, <5>1, Zenon DEF Supplied
      <4>2. D2 = D \cup {n + 1}
        BY <1>1, <1>6, <2>1, <3>1
      <4>3. Lists(Append(row.data, cm.serial), log2, D \cup {n + 1})
        BY <1>0, <2>2, ListsGrow, Zenon
      <4> QED
        BY <4>1, <4>2, <4>3, Zenon
    <3>2. CASE ~cm.data
      <4>1. r2.data = row.data
        <5>1. row.data \o <<>> = row.data
          BY <1>0
        <5> QED
          BY <1>0, <3>2, <5>1, Zenon DEF Supplied
      <4>2. D2 = D
        BY <1>6, <3>2, Zenon
      <4> QED
        <5>1. D \in SUBSET (1..Len(log)) /\ Lists(row.data, log, D)
          BY <2>2, Zenon
        <5>2. Lists(row.data, log2, D)
          BY <5>1, ListsStay, Zenon
        <5> QED
          BY <4>1, <4>2, <5>2, Zenon
    <3> QED
      BY <3>1, <3>2, Zenon
  <2>4. RowMatches(log2, r2)
    <3>1. Lists(r2.data, log2, {i \in vs \cup {n + 1} : i >= Newest(rs) /\ log2[i].data})
      BY <2>3, Zenon
    <3>2. Replacing(log2, r2.ident) = rs /\ VersionsOf(log2, r2.ident) = vs \cup {n + 1}
      BY <1>0, <1>3, <1>10, Zenon
    <3> QED
      BY <1>8, <3>1, <3>2, Zenon
  <2> QED
    BY <1>0, <1>3, <1>4, <1>5, <1>10, <2>4, Zenon DEF RowFolds
<1> QED
  BY <1>9, <1>10, Zenon
-----------------------------------------------------------------------------
(***************************************************************************)
(* All that is said of one message.                                        *)
(***************************************************************************)
VersionSerials(table, m) == {v.version : v \in {w \in table : w.ident = m}}
NoteSerials(table, m) == {a.serial : a \in {b \in table : b.ident = m}}
CreatedIn(log, m) ==
    \E k \in 1..Len(log) : log[k].act = "create" /\ log[k].serial = m[1] /\ m[2] < log[k].n

\* All that IsFoldOf says of one row.
RowStands(log, row, vers, notes) ==
    /\ RowFolds(log, row)
    /\ CreatedIn(log, row.ident)
    /\ VersionSerials(vers, row.ident) = SerialsAt(log, VersionsOf(log, row.ident))
    /\ NoteSerials(notes, row.ident) = SerialsAt(log, NotesOn(log, row.ident))

\* What was created stays created.
LEMMA CreatedGrown ==
    ASSUME NEW log, NEW cm, NEW log2, Grown(log, cm, log2), NEW m, CreatedIn(log, m)
    PROVE  CreatedIn(log2, m)
<1>1. PICK k \in 1..Len(log) : log[k].act = "create" /\ log[k].serial = m[1] /\ m[2] < log[k].n
  BY Zenon DEF CreatedIn
<1>2. k \in 1..Len(log2) /\ log2[k] = log[k]
  BY GrownFacts, Zenon
<1> QED
  BY <1>1, <1>2, Zenon DEF CreatedIn

-----------------------------------------------------------------------------
(***************************************************************************)
(* The presence set.                                                       *)
(***************************************************************************)
SaidOf(log, m) == {i \in 1..Len(log) : log[i].on = m}
RowsOf(table, m) == {p \in table : p.member = m}

\* One member's rows are what was last said of it.
MemberStands(log, table, m) ==
    /\ SaidOf(log, m) = {} => RowsOf(table, m) = {}
    /\ SaidOf(log, m) # {} =>
        /\ HasLast(SaidOf(log, m))
        /\ log[Newest(SaidOf(log, m))].act = "leave" => RowsOf(table, m) = {}
        /\ log[Newest(SaidOf(log, m))].act # "leave" =>
            RowsOf(table, m) = {[member |-> m, serial |-> log[Newest(SaidOf(log, m))].serial]}

\* If every member's rows are, the table is the fold of the log.
LEMMA StandsIsFold ==
    ASSUME NEW log, NEW table, \A m \in Members : MemberStands(log, table, m)
    PROVE  MembersFoldOf(log, table)
<1> SUFFICES ASSUME NEW m \in Members
             PROVE  RowsOf(table, m) =
                        IF SaidOf(log, m) = {} \/ log[Newest(SaidOf(log, m))].act = "leave" THEN {}
                        ELSE {[member |-> m, serial |-> log[Newest(SaidOf(log, m))].serial]}
  BY Zenon DEF MembersFoldOf, RowsOf, SaidOf
<1>1. MemberStands(log, table, m)
  OBVIOUS
<1> QED
  BY <1>1, Zenon DEF MemberStands

\* A cm that is not about the member leaves it as it was.
LEMMA MemberKept ==
    ASSUME NEW log, NEW cm, NEW log2, Grown(log, cm, log2), NEW table, NEW table2, NEW m,
           cm.on # m, RowsOf(table2, m) = RowsOf(table, m), MemberStands(log, table, m)
    PROVE  MemberStands(log2, table2, m)
<1>1. SaidOf(log2, m) = SaidOf(log, m) /\ SaidOf(log, m) \in SUBSET Nat
  BY GrownFacts DEF SaidOf
<1>2. \A i \in SaidOf(log, m) : log2[i] = log[i]
  BY GrownFacts DEF SaidOf
<1>3. SaidOf(log, m) # {} => Newest(SaidOf(log, m)) \in SaidOf(log, m)
  BY <1>1, NewestIn, Zenon DEF MemberStands
<1> QED
  BY <1>1, <1>2, <1>3, Zenon DEF MemberStands

\* A presence operation is what is last said of its member.
LEMMA MemberFolded ==
    ASSUME NEW log, NEW cm, NEW log2, Grown(log, cm, log2), NEW table \in SUBSET Present,
           cm.on \in Members
    PROVE  MemberStands(log2, FoldPresence(table, cm.on, cm.act, cm.serial), cm.on)
<1> PICK m, n, t2 : m = cm.on /\ n = Len(log) /\ t2 = FoldPresence(table, cm.on, cm.act, cm.serial)
  BY Zenon
<1>1. SaidOf(log2, m) = SaidOf(log, m) \cup {n + 1} /\ SaidOf(log, m) \in SUBSET (1..n) /\ n \in Nat
  BY GrownFacts DEF SaidOf
<1>2. Newest(SaidOf(log2, m)) = n + 1 /\ HasLast(SaidOf(log2, m))
  BY <1>1, NewestGrown, Zenon
<1>3. log2[n + 1] = cm
  BY GrownFacts, Zenon
<1>4. cm.act = "leave" => RowsOf(t2, m) = {}
  BY Zenon DEF FoldPresence, RowsOf
<1>5. cm.act # "leave" => RowsOf(t2, m) = {[member |-> m, serial |-> cm.serial]}
  <2> SUFFICES ASSUME cm.act # "leave" PROVE RowsOf(t2, m) = {[member |-> m, serial |-> cm.serial]}
    OBVIOUS
  <2> PICK row : row = [member |-> m, serial |-> cm.serial]
    BY Zenon
  <2>1. t2 = {p \in table : p.member # m} \cup {row} /\ row.member = m
    BY Zenon DEF FoldPresence
  <2> QED
    BY <2>1, Zenon DEF RowsOf
<1> QED
  BY <1>1, <1>2, <1>3, <1>4, <1>5, Zenon DEF MemberStands
===============================================================================
