------------------------------- MODULE History -------------------------------
(***************************************************************************)
(* The paginated REST reads of one channel: a client asks for a first page *)
(* and follows the rel="next" links, while others publish, edit, annotate, *)
(* enter and leave between its requests.                                   *)
(*                                                                         *)
(* Requests are authenticated and permitted, and their channel exists (see *)
(* Token); a malformed parameter is answered with an error.  A request     *)
(* keeps its parameters in its links; from is the internal cursor.         *)
(***************************************************************************)
EXTENDS HistoryReads

CONSTANTS
    Backends,       \* the backends the server may run on
    Clients,        \* presence members
    NoClient,       \* no clientId filter
    Requests,       \* the first requests a client may make
    DefaultLimit, MaxLimit,     \* of a page: defaultHistoryLimit, maxHistoryLimit
    Writes,         \* what others may do: "create", "update", ..., "enter", "leave"
    MaxCMs,         \* bound: cms in the log
    MaxBatch        \* bound: items in one cm

HistoryAssumption ==
    /\ Backends \subseteq {"memory", "bbolt", "postgres"}
    /\ DefaultLimit \in 1..MaxLimit
    /\ NoClient \notin Clients

VARIABLES
    backend,        \* the backend of this server
    log,            \* the channel's cms
    req,            \* the request the client made last; its next link when there is more
    got,            \* the items of all pages, in order
    since, until,   \* length of the log at the first page and at the last one
    status          \* "idle", "more", "done" or an error code

vars == <<backend, log, req, got, since, until, status>>

NoRequest == [endpoint |-> "none", target |-> NoCursor, direction |-> "", start |-> 0, end |-> 0,
              limit |-> 0, upto |-> NoSerial, client |-> NoClient, from |-> NoCursor]

Init ==
    /\ backend \in Backends
    /\ log = <<>>
    /\ req = NoRequest
    /\ got = <<>>
    /\ since = 0 /\ until = 0
    /\ status = "idle"

-----------------------------------------------------------------------------
\* Writes: a cm under the next serial. Those after the last page concern no
\* property and are left out.
NextSerial == Len(log) + 1
AppendCM(kind, items) ==
    /\ Len(log) < MaxCMs /\ status \in {"idle", "more"}
    /\ log' = Append(log, [serial |-> NextSerial, kind |-> kind, items |-> items])
    /\ UNCHANGED <<backend, req, got, since, until, status>>

Publish(n) ==
    /\ "create" \in Writes
    /\ AppendCM("message",
               [i \in 1..n |-> LET s == <<NextSerial, i - 1>>
                               IN [serial |-> s, version |-> s, on |-> s, act |-> "create"]])

\* The serial of a message stays that of its creation.
Mutate(id, act) ==
    /\ act \in Writes
    /\ AppendCM("message", <<[serial |-> id, version |-> <<NextSerial, 0>>, on |-> id, act |-> act]>>)

Annotate(id, n) ==
    /\ "annotate" \in Writes
    /\ AppendCM("annotation",
               [i \in 1..n |-> LET s == <<NextSerial, i - 1>>
                               IN [serial |-> s, version |-> s, on |-> id, act |-> "annotate"]])

\* One presence frame of a set of members who all enter or all leave.
PublishPresence(ms, act) ==
    /\ act \in Writes
    /\ AppendCM("presence",
               [i \in 1..Len(ms) |-> LET s == <<NextSerial, i - 1>>
                                     IN [serial |-> s, version |-> s, on |-> ms[i], act |-> act]])

MemberLists == {ms \in UNION {[1..n -> Clients] : n \in 1..MaxBatch} : IsInjective(ms)}

Write ==
    \/ \E n \in 1..MaxBatch : Publish(n) \/ \E i \in DOMAIN SortedIds(log) : Annotate(SortedIds(log)[i], n)
    \/ \E i \in DOMAIN SortedIds(log), act \in {"update", "append", "delete"} : Mutate(SortedIds(log)[i], act)
    \/ \E ms \in MemberLists, act \in {"enter", "leave"} : PublishPresence(ms, act)

-----------------------------------------------------------------------------
(***************************************************************************)
(* The handlers.  A result is the items of the page, the boundary a next   *)
(* link would carry, and whether there is more.                            *)
(***************************************************************************)
Result(page, boundary) ==
    [items |-> Flatten(page), boundary |-> boundary, more |-> page.more, missing |-> page.missing]

BadLimit(r) == r.limit # 0 /\ r.limit \notin 1..MaxLimit
LimitOf(r) == IF r.limit = 0 THEN DefaultLimit ELSE r.limit

\* parseHistoryQuery; the direction that applies without one is the handler's.
ParseHistoryQuery(r, kind, default) ==
    HistoryQuery(kind, IF r.direction = "" THEN default ELSE r.direction,
                 r.start, r.end, r.from, NoSerial, r.upto, LimitOf(r), FALSE)

\* lastMessageSerial, lastAnnotationSerial and lastVersionSerial.
LastSerial(page) == IF Flatten(page) = <<>> THEN NoCursor ELSE Last(Flatten(page)).serial
LastVersionSerial(page) == IF Flatten(page) = <<>> THEN NoCursor ELSE Last(Flatten(page)).version

HandleHistory(r) ==
    LET q == [ParseHistoryQuery(r, "message", "backwards") EXCEPT !.collapse = TRUE]
        page == History(backend, log, q)
    IN Result(page, LastSerial(page))

HandleMessageVersions(r) ==
    LET page == Versions(backend, log, r.target, ParseHistoryQuery(r, "message", "forwards"))
    IN Result(page, LastVersionSerial(page))

HandleListAnnotations(r) ==
    LET page == Annotations(backend, log, r.target, ParseHistoryQuery(r, "annotation", "forwards"))
    IN Result(page, LastSerial(page))

HandlePresenceHistory(r) ==
    LET q == [ParseHistoryQuery(r, "presence", "backwards") EXCEPT !.upto = NoSerial]
        page == History(backend, log, q)
    IN Result(page, LastSerial(page))

\* paginateMembers: filter, order by serial, cut.
PaginateMembers(members, r) ==
    LET found == SelectSeq(members, LAMBDA m :
                    /\ r.client \in {NoClient, m.on}
                    /\ r.from = NoCursor \/ Less(r.from, m.serial))
        c == Cut(SortSeq(found, LAMBDA a, b : Less(a.serial, b.serial)), LimitOf(r))
    IN [items |-> c.kept, more |-> c.more, missing |-> FALSE,
        boundary |-> IF c.kept = <<>> THEN NoCursor ELSE Last(c.kept).serial]

HandlePresence(r) == PaginateMembers(Members(log), r)

Handle(r) ==
    CASE r.endpoint = "messages"         -> HandleHistory(r)
      [] r.endpoint = "versions"         -> HandleMessageVersions(r)
      [] r.endpoint = "annotations"      -> HandleListAnnotations(r)
      [] r.endpoint = "presence"         -> HandlePresence(r)
      [] r.endpoint = "presence history" -> HandlePresenceHistory(r)

BadParameter == "40003"

\* The response, with the next link writeLinkHeaders makes of the request.
Respond(r) ==
    IF BadLimit(r) THEN
        /\ status' = BadParameter
        /\ req' = r
        /\ UNCHANGED got
    ELSE
        LET res == Handle(r) IN
        /\ got' = got \o res.items
        /\ status' = IF res.missing THEN "40400"
                     ELSE IF res.boundary # NoCursor /\ res.more THEN "more" ELSE "done"
        /\ req' = IF status' = "more" THEN [r EXCEPT !.from = res.boundary] ELSE r

Get(r) ==
    /\ status = "idle"
    /\ Respond(r)
    /\ since' = Len(log) /\ until' = Len(log)
    /\ UNCHANGED <<backend, log>>

FollowNext ==
    /\ status = "more"
    /\ Respond(req)
    /\ until' = Len(log)
    /\ UNCHANGED <<backend, log, since>>

Next ==
    \/ Write
    \/ \E r \in Requests : Get(r)
    \/ FollowNext

Spec == Init /\ [][Next]_vars

-----------------------------------------------------------------------------
(***************************************************************************)
(* What a walk owes its client, in terms of the log alone.                 *)
(***************************************************************************)
Items == [serial : Nat \X Nat, version : Nat \X Nat, on : (Nat \X Nat) \cup Clients,
          act : {"create", "update", "append", "delete", "annotate", "enter", "leave"}]

\* Every variable has its type, and a page is never asked for after the last.
TypeOK ==
    /\ backend \in Backends
    /\ \A i \in 1..Len(log) : log[i].serial = i /\ log[i].kind \in Kinds
    /\ \A i \in 1..Len(got) : got[i] \in Items
    /\ since <= until /\ until <= Len(log)
    /\ status \in {"idle", "more", "done", "40003", "40400"}
    /\ req \in Requests \cup {NoRequest} \/ [req EXCEPT !.from = NoCursor] \in Requests

Shown == {got[i].serial : i \in 1..Len(got)}
Walked(endpoint) == status = "done" /\ req.endpoint = endpoint
Forwards(default) == (IF req.direction = "" THEN default ELSE req.direction) = "forwards"

\* The order of publication of two items: their cm, then their idx.
Ordered(s, forwards) ==
    \A i, j \in 1..Len(s) : i < j => IF forwards THEN RowLess(s[i], s[j]) ELSE RowLess(s[j], s[i])

Millisecond(cs) == 1 + ((cs - 1) \div PerMs)
Asked(cs) ==
    /\ req.start # 0 => Millisecond(cs) >= req.start
    /\ req.end # 0 => Millisecond(cs) <= req.end

\* The items of a kind among the first n cms, in order of publication.
Upto(n, kind) == LET all == ItemsOf(SubSeq(log, 1, n), kind) IN [i \in 1..Len(all) |-> all[i].item]
CreatedBy(n) == {m.serial : m \in ToSet(Upto(n, "message"))}

\* Items are only added at the end, so a walk is a snapshot of the log as it
\* was at the last page (forwards) or at the first (backwards).
Snapshot(default) == IF Forwards(default) THEN until ELSE since

\* A walk of message history shows every message of the snapshot in the time
\* range and up to the attach point asked for, once each, in order of
\* creation, none of them as it was before the walk began: an edit between
\* two pages moves nothing.
MessagesWalked ==
    Walked("messages") =>
        /\ Ordered([i \in 1..Len(got) |-> got[i].serial], Forwards("backwards"))
        /\ Shown = {id \in CreatedBy(Snapshot("backwards")) :
                        Asked(id[1]) /\ (req.upto # NoSerial => id[1] <= req.upto)}
        /\ \A i \in 1..Len(got) :
                got[i].serial \in CreatedBy(since)
                    => ~Less(got[i].version, LatestVersion(SubSeq(log, 1, since), got[i].serial).version)

\* A walk of a message's versions shows, in order, every version of the
\* snapshot but the appends another append follows: never two aggregates of
\* one run, whatever is appended between the pages.
VersionsWalked ==
    Walked("versions") =>
        LET all == SelectSeq(Upto(Snapshot("forwards"), "message"), LAMBDA m : m.serial = req.target)
            absorbed(i) == all[i].act = "append" /\ i < Len(all) /\ all[i + 1].act = "append" IN
        /\ Ordered([i \in 1..Len(got) |-> got[i].version], Forwards("forwards"))
        /\ ToSet(got) = {all[i] : i \in {j \in 1..Len(all) : ~absorbed(j)}}

\* A message that existed when it was asked for is not answered "not found",
\* at the first page or at a later one.
VersionsFound == status = "40400" => req.target \notin CreatedBy(since)

\* A walk of a message's annotations shows those of the snapshot, once each,
\* in order.
AnnotationsWalked ==
    Walked("annotations") =>
        /\ Ordered([i \in 1..Len(got) |-> got[i].serial], Forwards("forwards"))
        /\ Shown = {a.serial : a \in {b \in ToSet(Upto(Snapshot("forwards"), "annotation")) :
                                            b.on = req.target}}

PresentAt(n) == {m.on : m \in ToSet(Members(SubSeq(log, 1, n)))}

\* A member who was present from the first page of the presence set to the
\* last is on one of them, updates in between or not; whoever is shown was
\* present at some moment of the walk.
MembersWalked ==
    Walked("presence") =>
        LET shown == {m.on : m \in ToSet(got)}
            wanted == IF req.client = NoClient THEN Clients ELSE {req.client} IN
        /\ \A m \in wanted : (\A n \in since..until : m \in PresentAt(n)) => m \in shown
        /\ \A m \in shown : m \in wanted /\ \E n \in since..until : m \in PresentAt(n)

\* A walk of presence history shows every presence message of the snapshot in
\* the time range, once each, in order, even of a batch that is split over
\* pages, and whatever attach point the request names.
PresenceHistoryWalked ==
    Walked("presence history") =>
        /\ Ordered([i \in 1..Len(got) |-> got[i].serial], Forwards("backwards"))
        /\ Shown = {p.serial : p \in {o \in ToSet(Upto(Snapshot("backwards"), "presence")) : Asked(o.serial[1])}}

\* Raw queries with the bounds in time and by serial that resume, rewind and reconcile
\* use, and with the cursor of presence history.
RawQueries ==
    {HistoryQuery(kind, dir, start, end, NoCursor, after, upto, limit, FALSE) :
        kind \in Kinds, dir \in {"forwards", "backwards"}, start \in {0, 2}, end \in {0, 1},
        after \in 0..Len(log), upto \in 0..Len(log), limit \in 0..2}
    \cup {HistoryQuery("presence", dir, start, end, cursor, NoSerial, NoSerial, limit, FALSE) :
        dir \in {"forwards", "backwards"}, start \in {0, 1, 2}, end \in {0, 1, 2},
        cursor \in {m.serial : m \in ToSet(Upto(Len(log), "presence"))}, limit \in 0..2}

\* The three backends answer every raw query alike, item for item and with the same
\* order and limit.
BackendsAgree ==
    \A q \in RawQueries :
        LET answer == MemoryHistory(log, q)
        IN BoltHistory(log, q) = answer /\ PostgresHistory(log, q) = answer
==============================================================================
