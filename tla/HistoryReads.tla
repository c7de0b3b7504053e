---------------------------- MODULE HistoryReads ----------------------------
(***************************************************************************)
(* How the three backends answer a history query: the memory backend by    *)
(* index over its order, bbolt with a cursor over one bucket that all      *)
(* channels share, Postgres in SQL.  Everything is a function of the log   *)
(* of the channel; that the tables agree with the log is shown for each    *)
(* backend in its own module.                                              *)
(*                                                                         *)
(* A channelSerial is a number, 0 the empty string; PerMs of them share a  *)
(* millisecond.  An item's serial is the pair <<channelSerial, idx>>.      *)
(***************************************************************************)
EXTENDS Naturals, FiniteSets, SequencesExt

CONSTANTS
    PerMs,          \* channelSerials minted in one millisecond
    Radix,          \* digits an idx is written with
    IdxWidth,       \* idxWidth: digits an idx is padded to
    Neighbours      \* on which sides of this channel the bbolt file holds another

ReadsAssumption ==
    /\ PerMs \in Nat \ {0} /\ IdxWidth \in Nat \ {0} /\ Radix \in Nat \ {0, 1}
    /\ Neighbours \subseteq {"before", "after"}

Kinds == {"message", "presence", "annotation"}
NoSerial == 0
NoCursor == <<0, 0>>

(***************************************************************************)
(* Serials.                                                                *)
(***************************************************************************)
\* An idx as MessageSerial writes it: its digits, zero-padded.
Digits(i) ==
    LET len == CHOOSE l \in IdxWidth..(IdxWidth + i) :
                    i < Radix^l /\ \A k \in IdxWidth..(l - 1) : i >= Radix^k
    IN [k \in 1..len |-> (i \div Radix^(len - k)) % Radix]

LexLess(a, b) ==
    \E k \in 1..Len(b) :
        /\ k - 1 <= Len(a) /\ \A j \in 1..(k - 1) : a[j] = b[j]
        /\ k > Len(a) \/ a[k] < b[k]

\* Item serials compared as strings, and as (channel_serial, idx) rows.
Less(a, b) == a[1] < b[1] \/ (a[1] = b[1] /\ LexLess(Digits(a[2]), Digits(b[2])))
RowLess(a, b) == a[1] < b[1] \/ (a[1] = b[1] /\ a[2] < b[2])

\* TimestampBounds: the smallest channelSerial of millisecond t.
FirstOf(t) == (t - 1) * PerMs + 1
Lower(q) == IF q.start > 0 THEN FirstOf(q.start) ELSE NoSerial
Upper(q) == IF q.end > 0 THEN FirstOf(q.end + 1) ELSE NoSerial

CreateChannelSerial(ident) == ident[1]

(***************************************************************************)
(* The log: cms [serial, kind, items].  An item is [serial, version, on,   *)
(* act]: a message's serial is that of its creation and its version that   *)
(* of the cm that wrote it; on is the message an annotation is about or    *)
(* the member of a presence message.                                       *)
(***************************************************************************)
\* CMItems, each with the channelSerial and idx of its cm.
CMItems(cm, kind) ==
    IF cm.kind # kind THEN <<>>
    ELSE [i \in 1..Len(cm.items) |-> [at |-> cm.serial, idx |-> i - 1, item |-> cm.items[i]]]

ItemsOf(cms, kind) == FlattenSeq([i \in 1..Len(cms) |-> CMItems(cms[i], kind)])

Messages(log) == ItemsOf(log, "message")
VersionsOf(log, id) == SelectSeq(Messages(log), LAMBDA p : p.item.serial = id)
LatestVersion(log, id) == Last(VersionsOf(log, id)).item
AnnotationsOf(log, id) == SelectSeq(ItemsOf(log, "annotation"), LAMBDA p : p.item.on = id)

\* The identities in the latest-version projection, in string order.
SortedIds(log) ==
    LET created == SelectSeq(Messages(log), LAMBDA p : p.item.act = "create")
    IN SortSeq([i \in 1..Len(created) |-> created[i].item.serial], Less)

(***************************************************************************)
(* Queries and pages.                                                      *)
(***************************************************************************)
HistoryQuery(kind, dir, start, end, cursor, after, upto, limit, collapse) ==
    [kind |-> kind, dir |-> dir, start |-> start, end |-> end, cursor |-> cursor,
     after |-> after, upto |-> upto, limit |-> limit, collapse |-> collapse]

HistoryPage(cms, more) == [cms |-> cms, more |-> more, missing |-> FALSE]
TargetNotFound == [cms |-> <<>>, more |-> FALSE, missing |-> TRUE]

Directed(q, s) == IF q.dir = "forwards" THEN s ELSE Reverse(s)

\* The cursor, excluded strictly in the direction of the scan.
PastCursor(q, s) ==
    q.cursor = NoCursor
        \/ (IF q.dir = "forwards" THEN Less(q.cursor, s) ELSE Less(s, q.cursor))

\* An item goes on the trailing cm of the page when it is of the same cm.
Put(cms, p) ==
    IF cms # <<>> /\ Last(cms).serial = p.at
    THEN [cms EXCEPT ![Len(cms)].items = Append(@, p.item)]
    ELSE Append(cms, [serial |-> p.at, items |-> <<p.item>>])

PutAlone(cms, p) == Append(cms, [serial |-> p.at, items |-> <<p.item>>])

\* emit: items are taken until one comes after the limit is reached.
Cut(found, limit) ==
    [kept |-> IF limit > 0 /\ Len(found) > limit THEN SubSeq(found, 1, limit) ELSE found,
     more |-> limit > 0 /\ Len(found) > limit]

Emit(found, limit) ==
    LET c == Cut(found, limit) IN HistoryPage(FoldLeft(Put, <<>>, c.kept), c.more)

\* flattenHistory, flattenPresence, flattenAnnotations.
Flatten(page) == FlattenSeq([i \in 1..Len(page.cms) |-> page.cms[i].items])

-----------------------------------------------------------------------------
(***************************************************************************)
(* The memory backend.  Positions are compared in half steps: 2 * s is     *)
(* serial s, 2 * s + 1 the string that follows it (a NUL appended).        *)
(***************************************************************************)
\* sort.SearchStrings over cs.order.
Search(log, bound) == 1 + Cardinality({i \in 1..Len(log) : 2 * log[i].serial < bound})

\* channelStore.History.
MemoryHistory(log, q) ==
    LET lo == {1} \cup (IF Lower(q) # NoSerial THEN {Search(log, 2 * Lower(q))} ELSE {})
                  \cup (IF q.after # NoSerial THEN {Search(log, 2 * q.after + 1)} ELSE {})
        hi == {Len(log) + 1} \cup (IF Upper(q) # NoSerial THEN {Search(log, 2 * Upper(q))} ELSE {})
                  \cup (IF q.upto # NoSerial THEN {Search(log, 2 * q.upto + 1)} ELSE {})
        span == SubSeq(log, Max(lo), Min(hi) - 1)
    IN Emit(SelectSeq(Directed(q, ItemsOf(span, q.kind)),
                      LAMBDA p : PastCursor(q, p.item.serial)), q.limit)

\* inBounds of collapsedHistory: by the position of the message's creation.
InBounds(q, id) ==
    /\ Lower(q) = NoSerial \/ id[1] >= Lower(q)
    /\ Upper(q) = NoSerial \/ id[1] < Upper(q)
    /\ q.upto = NoSerial \/ CreateChannelSerial(id) <= q.upto

\* A message at the position of its creation, with its latest content.
Entry(log, id) == [at |-> CreateChannelSerial(id), idx |-> id[2], item |-> LatestVersion(log, id)]
Entries(log, ids) == [i \in 1..Len(ids) |-> Entry(log, ids[i])]

\* Faulty MemoryCollapsed: an edited message moves to the position of its edit.
MemoryCollapsed_AtVersion(log, q) ==
    LET moved == SortSeq(Entries(log, SortedIds(log)), LAMBDA a, b : Less(a.item.version, b.item.version))
        found == SelectSeq(Directed(q, moved),
                           LAMBDA p : InBounds(q, p.item.version) /\ PastCursor(q, p.item.version))
    IN Emit(found, q.limit)

\* channelStore.collapsedHistory.
MemoryCollapsed(log, q) ==
    LET found == SelectSeq(Directed(q, SortedIds(log)),
                           LAMBDA id : InBounds(q, id) /\ PastCursor(q, id))
    IN Emit(Entries(log, found), q.limit)

-----------------------------------------------------------------------------
(***************************************************************************)
(* bbolt.  A key is <<channel, half step>>: this channel is 1, its         *)
(* neighbours in the bucket 0 and 2.  A cursor is a position, Len + 1 when *)
(* Seek finds nothing.                                                     *)
(***************************************************************************)
ThisChannel == 1
KeyLess(a, b) == a[1] < b[1] \/ (a[1] = b[1] /\ a[2] < b[2])
channelPrefix == <<ThisChannel, 0>>
nextPrefix == <<ThisChannel + 1, 0>>
channelKey(s) == <<ThisChannel, 2 * s>>
LaterKey(a, b) == IF KeyLess(a, b) THEN b ELSE a
EarlierKey(a, b) == IF KeyLess(b, a) THEN b ELSE a

\* A bucket with this channel's rows between those of its neighbours.
Foreign(side, ch) ==
    IF side \in Neighbours
    THEN <<[key |-> <<ch, 2>>, row |-> [serial |-> 1, kind |-> "message", items |-> <<"foreign">>]]>>
    ELSE <<>>
Bucket(rows, keys) ==
    Foreign("before", 0) \o [i \in 1..Len(rows) |-> [key |-> keys[i], row |-> rows[i]]] \o Foreign("after", 2)

Seek(b, key) == 1 + Cardinality({i \in 1..Len(b) : KeyLess(b[i].key, key)})

\* The rows from lower to below upper, as the loops over the cursor meet
\* them: Next from Seek(lower), or Prev from the last key below upper.
ScanForwards(b, lower, upper) ==
    LET from == Seek(b, lower)
        met == {p \in from..Len(b) :
                    \A r \in from..p : b[r].key[1] = ThisChannel /\ KeyLess(b[r].key, upper)}
    IN [i \in 1..Cardinality(met) |-> b[from + i - 1].row]

\* Faulty ScanBackwards: starts at the last key of the bucket when the bound
\* is that of the channel, whichever channel comes after.
ScanBackwards_FromEnd(b, lower, upper) ==
    LET from == IF upper = nextPrefix THEN Len(b) ELSE Seek(b, upper) - 1
        met == {p \in 1..from :
                    \A r \in p..from : b[r].key[1] = ThisChannel /\ ~KeyLess(b[r].key, lower)}
    IN [i \in 1..Cardinality(met) |-> b[from - i + 1].row]

ScanBackwards(b, lower, upper) ==
    LET from == IF Seek(b, upper) > Len(b) THEN Len(b) ELSE Seek(b, upper) - 1
        met == {p \in 1..from :
                    \A r \in p..from : b[r].key[1] = ThisChannel /\ ~KeyLess(b[r].key, lower)}
    IN [i \in 1..Cardinality(met) |-> b[from - i + 1].row]

Scan(q, b, lower, upper) ==
    IF q.dir = "forwards" THEN ScanForwards(b, lower, upper) ELSE ScanBackwards(b, lower, upper)

\* channelStore.History.
BoltHistory(log, q) ==
    LET timeLower == IF Lower(q) # NoSerial THEN channelKey(Lower(q)) ELSE channelPrefix
        timeUpper == IF Upper(q) # NoSerial THEN channelKey(Upper(q)) ELSE nextPrefix
        lower == IF q.after = NoSerial THEN timeLower
                 ELSE LaterKey(<<ThisChannel, 2 * q.after + 1>>, timeLower)
        upper == IF q.upto = NoSerial THEN timeUpper
                 ELSE EarlierKey(<<ThisChannel, 2 * q.upto + 1>>, timeUpper)
        cms == Scan(q, Bucket(log, [i \in DOMAIN log |-> channelKey(log[i].serial)]), lower, upper)
        items == FlattenSeq([i \in 1..Len(cms) |-> Directed(q, CMItems(cms[i], q.kind))])
    IN Emit(SelectSeq(items, LAMBDA p : PastCursor(q, p.item.serial)), q.limit)

\* channelStore.collapsedHistory: the whole of the channel's projection.
BoltCollapsed(log, q) ==
    LET ids == SortedIds(log)
        met == Scan(q, Bucket(ids, [i \in DOMAIN ids |-> <<ThisChannel, i>>]), channelPrefix, nextPrefix)
        found == SelectSeq(met, LAMBDA id : InBounds(q, id) /\ PastCursor(q, id))
    IN Emit(Entries(log, found), q.limit)

-----------------------------------------------------------------------------
(***************************************************************************)
(* Postgres: WHERE, ORDER BY and LIMIT limit + 1 in SQL; the rows are then *)
(* grouped and the extra one trimmed.                                      *)
(***************************************************************************)
Limited(rows, limit) ==
    IF limit > 0 /\ Len(rows) > limit + 1 THEN SubSeq(rows, 1, limit + 1) ELSE rows

ItemCount(cms) == Len(FlattenSeq([i \in 1..Len(cms) |-> cms[i].items]))

\* trimToLimit: the last cm that survives may be partial.
TrimToLimit(cms, limit) ==
    LET left(i) == limit - ItemCount(SubSeq(cms, 1, i - 1))
        kept == {i \in 1..Len(cms) : ItemCount(SubSeq(cms, 1, i - 1)) < limit}
    IN [i \in 1..Cardinality(kept) |->
            [cms[i] EXCEPT !.items = IF Len(@) > left(i) THEN SubSeq(@, 1, left(i)) ELSE @]]

\* The page made of the rows a query returned.
Grouped(rows, limit) ==
    LET cms == FoldLeft(Put, <<>>, rows) IN
    IF limit > 0 /\ ItemCount(cms) > limit
    THEN HistoryPage(TrimToLimit(cms, limit), TRUE)
    ELSE HistoryPage(cms, FALSE)

RowPastCursor(q, row) ==
    q.cursor = NoCursor
        \/ (IF q.dir = "forwards" THEN RowLess(q.cursor, row) ELSE RowLess(row, q.cursor))

\* channelStore.History.
PostgresHistory(log, q) ==
    LET rows == SelectSeq(ItemsOf(log, q.kind), LAMBDA p :
                    /\ Lower(q) = NoSerial \/ p.at >= Lower(q)
                    /\ Upper(q) = NoSerial \/ p.at < Upper(q)
                    /\ RowPastCursor(q, <<p.at, p.idx>>)
                    /\ q.upto = NoSerial \/ p.at <= q.upto
                    /\ q.after = NoSerial \/ p.at > q.after)
    IN Grouped(Limited(Directed(q, rows), q.limit), q.limit)

\* channelStore.collapsedHistory: over the messages table.
PostgresCollapsed(log, q) ==
    LET rows == SelectSeq(SortedIds(log), LAMBDA id : InBounds(q, id) /\ PastCursor(q, id))
    IN Grouped(Limited(Entries(log, Directed(q, rows)), q.limit), q.limit)

-----------------------------------------------------------------------------
(***************************************************************************)
(* Versions and annotations of one message.                                *)
(***************************************************************************)
\* CollapseAppendVersions: of a run of appends, the last aggregate.
CollapseAppendVersions(all) ==
    LET kept == {i \in 1..Len(all) :
                    ~(all[i].item.act = "append" /\ i < Len(all) /\ all[i + 1].item.act = "append")}
    IN [k \in 1..Cardinality(kept) |->
            all[CHOOSE i \in kept : Cardinality({j \in kept : j <= i}) = k]]

\* PaginateVersions and PaginateAnnotations.
PaginateVersions(all, q) ==
    LET c == Cut(SelectSeq(Directed(q, all), LAMBDA p : PastCursor(q, p.item.version)), q.limit)
    IN HistoryPage(FoldLeft(PutAlone, <<>>, c.kept), c.more)

PaginateAnnotations(all, q) ==
    LET c == Cut(SelectSeq(Directed(q, all), LAMBDA p : PastCursor(q, p.item.serial)), q.limit)
    IN HistoryPage(FoldLeft(PutAlone, <<>>, c.kept), c.more)

\* Versions of the memory backend; bbolt's scans the prefix of the message.
MemoryVersions(log, id, q) ==
    IF VersionsOf(log, id) = <<>> THEN TargetNotFound
    ELSE PaginateVersions(CollapseAppendVersions(VersionsOf(log, id)), q)
BoltVersions(log, id, q) ==
    LET all == VersionsOf(log, id)
        met == ScanForwards(Bucket(all, [i \in DOMAIN all |-> <<ThisChannel, i>>]), channelPrefix, nextPrefix)
    IN IF met = <<>> THEN TargetNotFound ELSE PaginateVersions(CollapseAppendVersions(met), q)

\* The LEAD window: an append row is kept when no append row follows it.
PostgresVersions(log, id, q) ==
    LET all == VersionsOf(log, id)
        nextIsAppend(i) == i < Len(all) /\ all[i + 1].item.act = "append"
        kept == {i \in 1..Len(all) : all[i].item.act # "append" \/ ~nextIsAppend(i)}
        rows == SelectSeq(all, LAMBDA p :
                    /\ \E i \in kept : all[i] = p
                    /\ RowPastCursor(q, <<p.at, p.idx>>))
        page == FoldLeft(PutAlone, <<>>, Limited(Directed(q, rows), q.limit))
    IN IF page = <<>> THEN TargetNotFound
       ELSE IF q.limit > 0 /\ Len(page) > q.limit THEN HistoryPage(SubSeq(page, 1, q.limit), TRUE)
       ELSE HistoryPage(page, FALSE)

MemoryAnnotations(log, id, q) == PaginateAnnotations(AnnotationsOf(log, id), q)
BoltAnnotations(log, id, q) ==
    LET all == AnnotationsOf(log, id) IN
    PaginateAnnotations(
        ScanForwards(Bucket(all, [i \in DOMAIN all |-> <<ThisChannel, i>>]), channelPrefix, nextPrefix), q)
PostgresAnnotations(log, id, q) ==
    LET rows == SelectSeq(AnnotationsOf(log, id), LAMBDA p : RowPastCursor(q, <<p.at, p.idx>>))
    IN Grouped(Limited(Directed(q, rows), q.limit), q.limit)

-----------------------------------------------------------------------------
\* The presence set: members whose last presence message is not a leave, by
\* the serial of that message.
Members(log) ==
    LET all == ItemsOf(log, "presence")
        newest(i) == \A j \in (i + 1)..Len(all) : all[j].item.on # all[i].item.on
        kept == {i \in 1..Len(all) : newest(i) /\ all[i].item.act # "leave"}
    IN [k \in 1..Cardinality(kept) |->
            all[CHOOSE i \in kept : Cardinality({j \in kept : j <= i}) = k].item]

History(backend, log, q) ==
    CASE backend = "memory"   -> IF q.collapse THEN MemoryCollapsed(log, q) ELSE MemoryHistory(log, q)
      [] backend = "bbolt"    -> IF q.collapse THEN BoltCollapsed(log, q) ELSE BoltHistory(log, q)
      [] backend = "postgres" -> IF q.collapse THEN PostgresCollapsed(log, q) ELSE PostgresHistory(log, q)

Versions(backend, log, id, q) ==
    CASE backend = "memory"   -> MemoryVersions(log, id, q)
      [] backend = "bbolt"    -> BoltVersions(log, id, q)
      [] backend = "postgres" -> PostgresVersions(log, id, q)

Annotations(backend, log, id, q) ==
    CASE backend = "memory"   -> MemoryAnnotations(log, id, q)
      [] backend = "bbolt"    -> BoltAnnotations(log, id, q)
      [] backend = "postgres" -> PostgresAnnotations(log, id, q)
=============================================================================
