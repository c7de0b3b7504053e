----------------------------- MODULE MemoryStore -----------------------------
(***************************************************************************)
(* storage/memory: one channel of the in-memory backend, composed with the *)
(* core.Channel it feeds.                                                  *)
(*                                                                         *)
(* Every operation runs under the channelStore's mutex from its            *)
(* idempotency check to Append, so each is one step.  order and byCS are   *)
(* the sequence of cms; the maps are tables, sets of rows:                 *)
(*   ids          byID:     client id -> channelSerial                     *)
(*   latest       latest:   message -> its newest version                  *)
(*   versions     versions: message -> all its versions                    *)
(*   annotations  annotations: message -> the annotations on it            *)
(*   members      members:  the presence set                               *)
(*                                                                         *)
(* Other channels share the generator; they only leave gaps between this   *)
(* channel's serials.                                                      *)
(***************************************************************************)
EXTENDS Projection

CONSTANT
    MaxSerial       \* bound: serials the generator hands out

ASSUME MemoryAssumption == MaxSerial \in Nat

VARIABLES
    gen,            \* the last serial minted
    order,          \* the cms, oldest first
    ids, latest, versions, annotations, members,
    acks            \* every [id, serial] a publish under a client id was answered with

storeVars == <<gen, order, ids, latest, versions, annotations, members, acks>>
vars == <<channelVars, storeVars>>

KnownIds == {r.id : r \in ids}

-----------------------------------------------------------------------------
\* Generator.Mint, as far as this channel can tell.
Mint ==
    /\ gen < MaxSerial
    /\ gen' = gen + 1

\* The id index and the answer of a fresh publish.
IndexId(id, serial) ==
    /\ id \notin KnownIds
    /\ ids' = IF id = NoId THEN ids ELSE ids \cup {[id |-> id, serial |-> serial]}
    /\ acks' = IF id = NoId THEN acks ELSE acks \cup {[id |-> id, serial |-> serial]}

\* A cm under a freshly minted serial.
NewCM(act, on, id, n, data) ==
    [serial |-> gen', act |-> act, on |-> on, id |-> id, n |-> n, data |-> data]

\* Persist a cm and hand it to the appender.
Commit(cm) ==
    /\ order' = Append(order, cm)
    /\ AppendCM(cm)

-----------------------------------------------------------------------------
Init ==
    /\ NewChannel
    /\ gen = 0
    /\ order = <<>>
    /\ ids = {}
    /\ latest = {}
    /\ versions = {}
    /\ annotations = {}
    /\ members = {}
    /\ acks = {}

\* Storage.Channel: mints the seed and initialises the appender with it.
OpenChannel ==
    /\ ~ready
    /\ Mint
    /\ Initialize(gen', gen')
    /\ UNCHANGED <<order, ids, latest, versions, annotations, members, acks>>

\* channelStore.Store: a batch of n messages.
Store(id, n, data) ==
    /\ ready
    /\ Mint
    /\ IndexId(id, gen')
    /\ LET rows == {CreateRow(gen', i, data) : i \in 0..(n - 1)} IN
        /\ latest' = latest \cup rows
        /\ versions' = versions \cup rows
    /\ Commit(NewCM("create", NoSubject, id, n, data))
    /\ UNCHANGED <<annotations, members>>

\* Faulty Mutate: merges against the version the message was created with.
Mutate_MergesCreate(cur, act, id, data) ==
    /\ ready
    /\ Mint
    /\ IndexId(id, gen')
    /\ LET created == CHOOSE v \in versions : v.ident = cur.ident /\ v.action = "create"
           row == MergeVersion(created, act, data, gen') IN
        /\ latest' = (latest \ {cur}) \cup {row}
        /\ versions' = versions \cup {row}
    /\ Commit(NewCM(act, cur.ident, id, 1, data))
    /\ UNCHANGED <<annotations, members>>

\* channelStore.Mutate: merges against the current version of the target.
Mutate(cur, act, id, data) ==
    /\ ready
    /\ Mint
    /\ IndexId(id, gen')
    /\ LET row == MergeVersion(cur, act, data, gen') IN
        /\ latest' = (latest \ {cur}) \cup {row}
        /\ versions' = versions \cup {row}
    /\ Commit(NewCM(act, cur.ident, id, 1, data))
    /\ UNCHANGED <<annotations, members>>

\* Mutate with an append whose data does not concatenate: the serial is
\* already minted when MergeVersion fails, and nothing else has changed.
MutateIncompatible(cur) ==
    /\ ready
    /\ cur.data # <<>>
    /\ Mint
    /\ UNCHANGED <<channelVars, order, ids, latest, versions, annotations, members, acks>>

\* channelStore.StoreAnnotation with foldSummary: the summary is kept on
\* the latest row only, not on the version it came from.
StoreAnnotation(cur, id) ==
    /\ ready
    /\ Mint
    /\ IndexId(id, gen')
    /\ latest' = (latest \ {cur}) \cup {FoldSummary(cur, gen')}
    /\ annotations' = annotations \cup {[ident |-> cur.ident, serial |-> gen']}
    /\ Commit(NewCM("annotate", cur.ident, id, 1, TRUE))
    /\ UNCHANGED <<versions, members>>

\* channelStore.StorePresence: an enter or update replaces the member's
\* row, a leave removes it.
StorePresence(m, act, id) ==
    /\ ready
    /\ Mint
    /\ IndexId(id, gen')
    /\ members' = FoldPresence(members, m, act, gen')
    /\ Commit(NewCM(act, m, id, 1, TRUE))
    /\ UNCHANGED <<latest, versions, annotations>>

\* Faulty duplicate handling: answers with the newest cm, not the original.
Duplicate_AnswersNewest(r) ==
    /\ acks' = acks \cup {[id |-> r.id, serial |-> order[Len(order)].serial]}
    /\ UNCHANGED <<channelVars, gen, order, ids, latest, versions, annotations, members>>

\* Any publish under an id already indexed is answered with the original
\* cm; nothing is minted, stored or appended.
Duplicate(r) ==
    /\ acks' = acks \cup {[id |-> r.id, serial |-> r.serial]}
    /\ UNCHANGED <<channelVars, gen, order, ids, latest, versions, annotations, members>>

Publish ==
    \E id \in Ids \cup {NoId} :
        \/ \E n \in 1..MaxBatch, data \in BOOLEAN : Store(id, n, data)
        \/ \E cur \in latest, act \in Mutations, data \in BOOLEAN : Mutate(cur, act, id, data)
        \/ \E cur \in latest : StoreAnnotation(cur, id)
        \/ \E m \in Members, act \in PresenceOps : StorePresence(m, act, id)

StreamStep(s) == (Attach(s) \/ NextCM(s) \/ DropStream(s)) /\ UNCHANGED storeVars

Next ==
    \/ OpenChannel
    \/ Publish
    \/ \E cur \in latest : MutateIncompatible(cur)
    \/ \E r \in ids : Duplicate(r)
    \/ \E s \in Streams : StreamStep(s)

Spec == Init /\ [][Next]_vars

-----------------------------------------------------------------------------
\* Every variable has its type.
TypeOK ==
    /\ list \in Seq(CMs) /\ Len(list) > 0
    /\ ready \in BOOLEAN
    /\ initialSerial \in Nat
    /\ cursor \in [Streams -> Nat]
    /\ delivered \in [Streams -> Seq(CMs)]
    /\ gen \in Nat
    /\ order \in Seq(CMs)
    /\ ids \subseteq IdRows
    /\ latest \subseteq Rows
    /\ versions \subseteq Rows
    /\ annotations \subseteq Notes
    /\ members \subseteq Present
    /\ acks \subseteq IdRows

\* The Appender contract: "every Append's serial is strictly greater than
\* every prior Append's serial and strictly greater than the Initialize
\* current/initial serials"; and what was appended is exactly what was
\* persisted, so the live list and history never disagree.
AppendsMatchLog ==
    /\ \A i, j \in 1..Len(list) : i < j => list[i].serial < list[j].serial
    /\ initialSerial = list[1].serial
    /\ Len(list) = Len(order) + 1
    /\ \A i \in 1..Len(order) : list[i + 1] = order[i]

\* Idempotency: a client id is committed at most once, and every answer a
\* publisher gets for it, retries included, names that one commit.
RetriesAgree ==
    /\ \A i, j \in 1..Len(order) :
            order[i].id = order[j].id /\ order[i].id # NoId => i = j
    /\ \A a \in acks : \E i \in 1..Len(order) :
            order[i].id = a.id /\ order[i].serial = a.serial

\* The materialised projection agrees with the log it summarises: every
\* message ever created has exactly one latest row, which is its newest
\* version; its data is what the last replacement and the appends after it
\* supplied; its summary folds every annotation on it, across mutations; and
\* the version and annotation indexes list what the log holds, no more.
ProjectionIsFoldOfLog == IsFoldOf(order, latest, versions, annotations)

\* The presence set is the fold of the presence cms: a member is present
\* exactly when the last thing said about it is not a leave, at that serial.
MembersAreFoldOfLog == MembersFoldOf(order, members)

\* The memory backend and core.Channel together implement ChannelFeed: the
\* log is order, and a stream's reader has been handed what Next returned.
Feed == INSTANCE ChannelFeed WITH
    Readers <- Streams,
    Entries <- CMs,
    log <- order,
    open <- {s \in Streams : cursor[s] # 0},
    from <- [s \in Streams |-> IF cursor[s] = 0 THEN 0
                               ELSE cursor[s] - 1 - Len(delivered[s])],
    got <- delivered

\* Every attachment sees exactly the cms committed after it attached, in
\* order and once each.
ImplementsFeed == Feed!Spec
=============================================================================
