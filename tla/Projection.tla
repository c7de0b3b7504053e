----------------------------- MODULE Projection -----------------------------
(***************************************************************************)
(* The tables a backend derives from a channel's log, as package storage   *)
(* defines them: the latest version of each message, the versions and      *)
(* annotations of each message, and the presence set.  A table is a set of *)
(* rows.                                                                   *)
(*                                                                         *)
(* The contents of a publish are named by its serial, so a message's data  *)
(* is the sequence of serials whose contents it concatenates, and its      *)
(* summary the sequence of annotations folded into it.                     *)
(***************************************************************************)
EXTENDS Channel, FiniteSets

Rows == [ident : Idents, version : Nat, action : {"create", "update", "delete"},
         delta : BOOLEAN, data : Seq(Nat), summary : Seq(Nat)]
IdRows == [id : Ids, serial : Nat]
Notes == [ident : Idents, serial : Nat]
Present == [member : Members, serial : Nat]

\* The data a publish supplies: its own contents, or none.
Supplied(serial, data) == IF data THEN <<serial>> ELSE <<>>

\* StampCreateVersion: the first version of the i-th message of a publish.
CreateRow(serial, i, data) ==
    [ident |-> <<serial, i>>, version |-> serial, action |-> "create",
     delta |-> FALSE, data |-> Supplied(serial, data), summary |-> <<>>]

\* MergeVersion with concatData: every field of the current version is
\* carried forward, then what the mutation supplies is mixed in.  An append
\* is stored as an update whose data is the aggregate, with the delta
\* alongside; a delete keeps the body unless it supplies one.
MergeVersion(cur, act, data, serial) ==
    [cur EXCEPT
        !.version = serial,
        !.action  = IF act = "delete" THEN "delete" ELSE "update",
        !.delta   = (act = "append"),
        !.data    = IF act = "append" THEN @ \o Supplied(serial, data)
                    ELSE IF data THEN Supplied(serial, data) ELSE @]

\* foldSummary: a copy of the latest row with one more annotation folded in.
FoldSummary(cur, serial) == [cur EXCEPT !.summary = Append(@, serial)]

\* Faulty fold: a further enter of a member that is present is dropped.
FoldPresence_KeepsFirst(table, m, act, serial) ==
    LET mine == {p \in table : p.member = m} IN
    IF act = "leave" THEN table \ mine
    ELSE IF mine # {} THEN table ELSE table \cup {[member |-> m, serial |-> serial]}

\* The presence fold: an enter or update replaces the member's row, a leave
\* removes it.
FoldPresence(table, m, act, serial) ==
    LET others == {p \in table : p.member # m} IN
    IF act = "leave" THEN others ELSE others \cup {[member |-> m, serial |-> serial]}

-----------------------------------------------------------------------------
(***************************************************************************)
(* Reference definitions: the same tables, computed from a whole log.      *)
(***************************************************************************)
\* The positions of the log that make a version of message m, and those
\* that replace its data outright.
VersionsOf(log, m) ==
    {i \in 1..Len(log) :
        \/ log[i].act = "create" /\ log[i].serial = m[1] /\ m[2] < log[i].n
        \/ log[i].act \in Mutations /\ log[i].on = m}
Replacing(log, m) ==
    {i \in VersionsOf(log, m) :
        log[i].act = "create" \/ (log[i].act \in {"update", "delete"} /\ log[i].data)}
Newest(S) == CHOOSE i \in S : \A j \in S : j <= i

\* The serials at the positions S of the log.
SerialsAt(log, S) == {log[i].serial : i \in S}

\* s holds the serials at the positions S of the log, each once and in log order.
Lists(s, log, S) ==
    /\ \A k \in DOMAIN s : \E i \in S : s[k] = log[i].serial
    /\ \A i \in S : \E k \in DOMAIN s : s[k] = log[i].serial
    /\ \A j, k \in DOMAIN s : \A h, i \in S :
            s[j] = log[h].serial /\ s[k] = log[i].serial => (j < k <=> h < i)

\* The positions of the log that annotate message m.
NotesOn(log, m) == {i \in 1..Len(log) : log[i].act = "annotate" /\ log[i].on = m}

\* The row of message m, as the log has it.
RowMatches(log, row) ==
    LET vs == VersionsOf(log, row.ident)
        base == Newest(Replacing(log, row.ident)) IN
    /\ vs # {}
    /\ row.version = log[Newest(vs)].serial
    /\ (row.action = "delete") <=> (log[Newest(vs)].act = "delete")
    /\ row.delta <=> (log[Newest(vs)].act = "append")
    /\ Lists(row.data, log, {i \in vs : i >= base /\ log[i].data})
    /\ Lists(row.summary, log, NotesOn(log, row.ident))

IsFoldOf(log, latest, versions, annotations) ==
    /\ \A k \in 1..Len(log) : log[k].act = "create" =>
            \A i \in 0..(log[k].n - 1) : \E row \in latest : row.ident = <<log[k].serial, i>>
    /\ \A row, other \in latest : row.ident = other.ident => row = other
    /\ \A row \in latest :
        /\ \E k \in 1..Len(log) :
                log[k].act = "create" /\ log[k].serial = row.ident[1] /\ row.ident[2] < log[k].n
        /\ RowMatches(log, row)
        /\ {v.version : v \in {w \in versions : w.ident = row.ident}} =
                SerialsAt(log, VersionsOf(log, row.ident))
        /\ {a.serial : a \in {b \in annotations : b.ident = row.ident}} =
                SerialsAt(log, NotesOn(log, row.ident))

MembersFoldOf(log, table) ==
    \A m \in Members :
        LET ps == {i \in 1..Len(log) : log[i].on = m}
            rows == {p \in table : p.member = m} IN
        rows = IF ps = {} \/ log[Newest(ps)].act = "leave" THEN {}
               ELSE {[member |-> m, serial |-> log[Newest(ps)].serial]}
=============================================================================
