------------------------------ MODULE BoltStore ------------------------------
(***************************************************************************)
(* storage/bbolt: one channel of the disk backend, composed with the       *)
(* core.Channel it feeds, across process restarts.                         *)
(*                                                                         *)
(* A publish is two steps: one bolt write transaction that checks the id   *)
(* index, mints, and writes the log and its tables; then, outside the      *)
(* transaction, Append.  Between them other publishers run, or the process *)
(* dies.  db is the file, the only state that outlives a crash: the        *)
(* buckets channel_messages (a set, read in key order), ids, initials,     *)
(* latest, versions and annotations.  The presence set lives in memory.    *)
(*                                                                         *)
(* The serial <ts>-<ctr>@<series> is one number with the order of the      *)
(* string: series, drawn afresh by every process, breaks ties only.        *)
(***************************************************************************)
EXTENDS Projection, Integers
LOCAL INSTANCE SequencesExt

CONSTANTS
    Publishers,     \* goroutines inside a ChannelStore call
    MaxCounter,     \* maxCounter of package serial
    MaxSeries,      \* bound: seriesIds
    MaxClock,       \* bound: the largest time the clock shows
    MaxMints,       \* bound: serials minted
    MaxCrashes,     \* bound: restarts of the process
    ClockAdvances   \* the clock never steps back and passes the last serial before a restart

BoltAssumption ==
    /\ MaxCounter \in Nat /\ MaxSeries \in Nat \ {0} /\ MaxClock \in Nat
    /\ MaxMints \in Nat /\ MaxCrashes \in Nat /\ ClockAdvances \in BOOLEAN

VARIABLES
    db,             \* the bolt file
    clock,          \* wall-clock time
    gen,            \* the generator: [ts, ctr]
    series,         \* the process's seriesId
    mints,          \* how many serials have been minted
    crashes,        \* how many times the process has restarted
    inflight,       \* inflight[p]: the cm p has committed and not yet appended
    members,        \* the in-memory presence set
    acks            \* every [id, serial] a publish under a client id was answered with

boltVars == <<db, clock, gen, series, mints, crashes, inflight, members, acks>>
vars == <<channelVars, boltVars>>

\* Generator.Mint of package serial, on this process's generator.
Generator == INSTANCE Serial WITH latestClock <- clock, minted <- <<>>

\* The number of a serial: its fields in the order the string has them.
SerialNumber(g) == (g.ts * (MaxCounter + 1) + g.ctr) * MaxSeries + series

NoCM == Watermark(0)
Idle(p) == inflight[p] = NoCM

\* The keys of the channel's range, and the last of them.
Keys == {cm.serial : cm \in db.log}
LastKey == CHOOSE k \in Keys : \A j \in Keys : j <= k

-----------------------------------------------------------------------------
EmptyFile ==
    [log |-> {}, ids |-> {}, initial |-> 0, latest |-> {}, versions |-> {}, annotations |-> {}]

Init ==
    /\ NewChannel
    /\ db = EmptyFile
    /\ clock = 1
    /\ gen = Generator!NewGenerator
    /\ series = 0
    /\ mints = 0
    /\ crashes = 0
    /\ inflight = [p \in Publishers |-> NoCM]
    /\ members = {}
    /\ acks = {}

ClockMoves(t) ==
    /\ t # clock
    /\ ClockAdvances => t > clock
    /\ clock' = t
    /\ UNCHANGED <<channelVars, db, gen, series, mints, crashes, inflight, members, acks>>

\* Generator.Mint.
Mint ==
    /\ mints < MaxMints
    /\ mints' = mints + 1
    /\ gen' = Generator!MintFrom(gen, clock)

\* Faulty OpenChannel: hands the seed to Initialize as the current serial.
OpenChannel_FromSeed ==
    /\ ~ready
    /\ IF db.initial # 0
       THEN UNCHANGED <<db, gen, mints>>
       ELSE Mint /\ db' = [db EXCEPT !.initial = SerialNumber(gen')]
    /\ Initialize(db'.initial, db'.initial)
    /\ UNCHANGED <<clock, series, crashes, inflight, members, acks>>

\* Storage.Channel with loadOrMintInitial.  A new channel's seed is minted
\* and written; current is the last key of the channel's range, or the seed.
OpenChannel ==
    /\ ~ready
    /\ IF db.initial # 0
       THEN UNCHANGED <<db, gen, mints>>
       ELSE Mint /\ db' = [db EXCEPT !.initial = SerialNumber(gen')]
    /\ Initialize(IF db.log = {} THEN db'.initial ELSE LastKey, db'.initial)
    /\ UNCHANGED <<clock, series, crashes, inflight, members, acks>>

\* putVersion: the rows replace the old ones in the projection and are added
\* to the version index.
PutVersions(file, old, rows) ==
    [file EXCEPT !.latest = (@ \ old) \cup rows, !.versions = @ \cup rows]

\* The write transaction of a publish under a fresh id: the cm, its id and
\* the tables in file are written together.
Transact(p, cm, file) ==
    /\ ready
    /\ Idle(p)
    /\ cm.id \notin {r.id : r \in db.ids}
    /\ db' = [file EXCEPT
                !.log = @ \cup {cm},
                !.ids = IF cm.id = NoId THEN @ ELSE @ \cup {[id |-> cm.id, serial |-> cm.serial]}]
    /\ inflight' = [inflight EXCEPT ![p] = cm]
    /\ UNCHANGED <<channelVars, clock, series, crashes, acks>>

\* A cm under the serial just minted.
NewCM(act, on, id, n) ==
    [serial |-> SerialNumber(gen'), act |-> act, on |-> on, id |-> id, n |-> n,
     data |-> act # "delete"]

\* channelStore.Store, up to the end of its transaction.
Store(p, id, n) ==
    /\ Mint
    /\ LET cm == NewCM("create", NoSubject, id, n)
           rows == {CreateRow(cm.serial, i, TRUE) : i \in 0..(n - 1)} IN
        Transact(p, cm, PutVersions(db, {}, rows))
    /\ UNCHANGED members

\* channelStore.Mutate, up to the end of its transaction.
Mutate(p, cur, act, id) ==
    /\ Mint
    /\ LET cm == NewCM(act, cur.ident, id, 1) IN
        Transact(p, cm, PutVersions(db, {cur}, {MergeVersion(cur, act, cm.data, cm.serial)}))
    /\ UNCHANGED members

\* Mutate whose MergeVersion fails: the transaction rolls back, the serial
\* is spent.
MutateIncompatible(p, cur) ==
    /\ ready
    /\ Idle(p)
    /\ cur.data # <<>>
    /\ Mint
    /\ UNCHANGED <<channelVars, db, clock, series, crashes, inflight, members, acks>>

\* channelStore.StoreAnnotation with foldSummaryTx, likewise.
StoreAnnotation(p, cur, id) ==
    /\ Mint
    /\ LET cm == NewCM("annotate", cur.ident, id, 1) IN
        Transact(p, cm, [db EXCEPT
            !.latest = (@ \ {cur}) \cup {FoldSummary(cur, cm.serial)},
            !.annotations = @ \cup {[ident |-> cur.ident, serial |-> cm.serial]}])
    /\ UNCHANGED members

\* channelStore.StorePresence: cs.mu is held from before the transaction
\* until the set is folded, so nothing comes between them.
StorePresence(p, m, act, id) ==
    /\ Mint
    /\ LET cm == NewCM(act, m, id, 1) IN
        /\ Transact(p, cm, db)
        /\ members' = FoldPresence(members, m, act, cm.serial)

\* Any publish under an id in the ids bucket is answered with the original;
\* the appender does not fire.
Duplicate(p, r) ==
    /\ ready
    /\ Idle(p)
    /\ acks' = acks \cup {r}
    /\ UNCHANGED <<channelVars, db, clock, gen, series, mints, crashes, inflight, members>>

\* The tail of every publish, after its transaction: Append, and return.
AppendAndReturn(p) ==
    /\ ~Idle(p)
    /\ AppendCM(inflight[p])
    /\ acks' = IF inflight[p].id = NoId THEN acks
               ELSE acks \cup {[id |-> inflight[p].id, serial |-> inflight[p].serial]}
    /\ inflight' = [inflight EXCEPT ![p] = NoCM]
    /\ UNCHANGED <<db, clock, gen, series, mints, crashes, members>>

\* What a new process starts with: the file, and an empty memory.
FreshMemory ==
    /\ list' = <<Watermark(0)>>
    /\ ready' = FALSE
    /\ initialSerial' = 0
    /\ cursor' = [s \in Streams |-> 0]
    /\ delivered' = [s \in Streams |-> <<>>]
    /\ gen' = Generator!NewGenerator
    /\ inflight' = [p \in Publishers |-> NoCM]

\* The process dies and Open starts a new one.  The generator starts from
\* nothing under a fresh seriesId, the presence set is empty, and a publish
\* between its transaction and its Append is never answered.
Restart(newSeries) ==
    /\ crashes < MaxCrashes
    /\ ClockAdvances => clock > gen.ts
    /\ newSeries # series
    /\ crashes' = crashes + 1
    /\ series' = newSeries
    /\ members' = {}
    /\ FreshMemory
    /\ UNCHANGED <<db, clock, mints, acks>>

Publish(p) ==
    \E id \in Ids \cup {NoId} :
        \/ \E n \in 1..MaxBatch : Store(p, id, n)
        \/ \E cur \in db.latest, act \in Mutations : Mutate(p, cur, act, id)
        \/ \E cur \in db.latest : StoreAnnotation(p, cur, id)
        \/ \E m \in Members, act \in PresenceOps : StorePresence(p, m, act, id)

Next ==
    \/ OpenChannel
    \/ \E p \in Publishers :
        \/ Publish(p)
        \/ \E cur \in db.latest : MutateIncompatible(p, cur)
        \/ \E r \in db.ids : Duplicate(p, r)
        \/ AppendAndReturn(p)
    \/ \E t \in 1..MaxClock : ClockMoves(t)
    \/ \E newSeries \in 0..(MaxSeries - 1) : Restart(newSeries)

Spec == Init /\ [][Next]_vars

-----------------------------------------------------------------------------
\* Every variable has its type.
TypeOK ==
    /\ list \in Seq(CMs) /\ Len(list) > 0
    /\ ready \in BOOLEAN
    /\ initialSerial \in Nat
    /\ cursor \in [Streams -> Nat] /\ delivered \in [Streams -> Seq(CMs)]
    /\ db.log \subseteq CMs /\ db.ids \subseteq IdRows /\ db.initial \in Nat
    /\ db.latest \subseteq Rows /\ db.versions \subseteq Rows /\ db.annotations \subseteq Notes
    /\ clock \in 1..MaxClock /\ gen \in Generator!Generators
    /\ series \in 0..(MaxSeries - 1)
    /\ mints \in 0..MaxMints /\ crashes \in 0..MaxCrashes
    /\ inflight \in [Publishers -> CMs]
    /\ members \subseteq Present /\ acks \subseteq IdRows

Committed == {inflight[p] : p \in Publishers} \ {NoCM}
Live == {list[i] : i \in 2..Len(list)}

\* The live list and the publishes on their way to it hold exactly the cms
\* committed since the channel was opened, each once: a crash between
\* commit and Append loses nothing that the watermark does not cover, and
\* nothing is delivered twice.
LiveListComplete ==
    ready =>
        /\ Live \cup Committed = {cm \in db.log : cm.serial > list[1].serial}
        /\ Live \cap Committed = {}
        /\ Cardinality(Live) = Len(list) - 1

\* Idempotency outlives the process: a client id is committed at most once,
\* and every answer, before or after a crash, names that commit.
RetriesAgree ==
    /\ \A c, d \in db.log : c.id = d.id /\ c.id # NoId => c = d
    /\ \A a \in acks : \E c \in db.log : c.id = a.id /\ c.serial = a.serial

\* channel_messages in key order, from key k on.
LogAfter(k) ==
    SetToSortSeq({cm \in db.log : cm.serial > k}, LAMBDA c, d : c.serial < d.serial)

\* Each transaction keeps the tables of the file equal to the fold of its
\* log, whatever crashes in between.
ProjectionIsFoldOfLog == IsFoldOf(LogAfter(0), db.latest, db.versions, db.annotations)

\* The presence set is the fold of the presence cms committed by this
\* process, in their commit order, also while their Appends are pending.
MembersAreFoldOfProcess ==
    IF ready THEN MembersFoldOf(LogAfter(list[1].serial), members) ELSE members = {}

\* The millisecond a serial was minted in.
Millisecond(n) == n \div ((MaxCounter + 1) * MaxSeries)

\* "wall clock advances between restarts, so a post-restart Mint sorts after
\* all prior serials. The same-millisecond restart ... is the only edge case
\* we don't guarantee" (DESIGN.md 6.2): commits of different milliseconds
\* are in order.
RestartKeepsOrder ==
    [][\A cm \in db'.log \ db.log, c \in db.log :
            Millisecond(c.serial) # Millisecond(cm.serial) => c.serial < cm.serial]_vars

\* "Backends guarantee monotonicity: every Append's serial is strictly
\* greater than every prior Append's serial" (storage.Appender).
AppendsIncrease ==
    \A i, j \in 1..Len(list) : i < j => list[i].serial < list[j].serial
=============================================================================
