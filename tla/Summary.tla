------------------------------ MODULE Summary ------------------------------
(***************************************************************************)
(* The summary of a message: its annotations, folded one at a time as they *)
(* are stored, by the aggregation method their type names.  A summary maps *)
(* the types that have contributions to their aggregation; there is one    *)
(* type for each method here.  distinct and unique keep the clients of     *)
(* each name in the order in which they came, flag the clients, multiple   *)
(* tallies for each name, total one number.                                *)
(***************************************************************************)
EXTENDS Integers, Sequences, SequencesExt, FiniteSetsExt

CONSTANTS
    Types,       \* the methods in use
    Clients,     \* identified clients
    Names,       \* what annotations are named, the key of a value
    Counts,      \* counts of annotations, 0 when not given
    MaxLog       \* bound on the number of annotations

SummaryAssumption ==
    /\ Types \subseteq {"distinct", "unique", "multiple", "flag", "total"}
    /\ Counts \subseteq Nat /\ MaxLog \in Nat

VARIABLES
    log,        \* annotations of the message that were stored
    summary     \* the summary on the latest version of the message

vars == <<log, summary>>

Anonymous == "anonymous"

\* Validate: who may annotate, by method; a count of 0 stands for 1.
Annotations ==
    {a \in [type : Types, delete : BOOLEAN, client : Clients \cup {Anonymous}, name : Names, count : Counts] :
        a.client = Anonymous => a.type \in {"multiple", "total"}}

Init == log = <<>> /\ summary = [t \in {} |-> <<>>]

-----------------------------------------------------------------------------
\* A map with one more key, and with one less.
Put(f, k, v) == [x \in DOMAIN f \cup {k} |-> IF x = k THEN v ELSE f[x]]
Drop(f, k) == [x \in DOMAIN f \ {k} |-> f[x]]
At(f, k, none) == IF k \in DOMAIN f THEN f[k] ELSE none

AddClientID(list, c) == IF Contains(list, c) THEN list ELSE Append(list, c)
RemoveClientID(list, c) == SelectSeq(list, LAMBDA d : d # c)

\* A value without clients is dropped.
PutList(values, n, list) == IF list = <<>> THEN Drop(values, n) ELSE Put(values, n, list)

FoldDistinct(values, a) ==
    LET list == At(values, a.name, <<>>)
    IN PutList(values, a.name,
               IF a.delete THEN RemoveClientID(list, a.client) ELSE AddClientID(list, a.client))

\* A create takes the client out of every other name first.
FoldUnique(values, a) ==
    LET others == DOMAIN values \ {a.name}
        moved == [n \in DOMAIN values |->
                    IF n \in others THEN RemoveClientID(values[n], a.client) ELSE values[n]]
        kept == [n \in {n \in DOMAIN values : moved[n] # <<>>} |-> moved[n]]
    IN FoldDistinct(IF a.delete THEN values ELSE kept, a)

FoldFlag(list, a) == IF a.delete THEN RemoveClientID(list, a.client) ELSE AddClientID(list, a.client)

\* Faulty FoldMultiple: a client's tally may fall below zero.
FoldMultiple_Negative(tallies, a) ==
    IF a.delete /\ a.name \notin DOMAIN tallies THEN tallies
    ELSE LET count == IF a.count = 0 THEN 1 ELSE a.count
             delta == IF a.delete THEN -count ELSE count
             old == At(tallies, a.name, [total |-> 0, clients |-> [c \in {} |-> 0], unidentified |-> 0])
             sum == At(old.clients, a.client, 0) + delta
             cc == IF a.client = Anonymous
                   THEN [old EXCEPT !.total = @ + delta, !.unidentified = @ + delta]
                   ELSE [old EXCEPT !.total = @ + delta, !.clients = Put(@, a.client, sum)]
         IN Put(tallies, a.name, cc)

FoldMultiple(tallies, a) ==
    IF a.delete /\ a.name \notin DOMAIN tallies THEN tallies
    ELSE LET count == IF a.count = 0 THEN 1 ELSE a.count
             delta == IF a.delete THEN -count ELSE count
             old == At(tallies, a.name, [total |-> 0, clients |-> [c \in {} |-> 0], unidentified |-> 0])
             sum == At(old.clients, a.client, 0) + delta
             cc == IF a.client = Anonymous
                   THEN [old EXCEPT !.total = @ + delta, !.unidentified = @ + delta]
                   ELSE [old EXCEPT !.total = @ + delta,
                                    !.clients = IF sum <= 0 THEN Drop(@, a.client) ELSE Put(@, a.client, sum)]
         IN IF cc.total <= 0 /\ DOMAIN cc.clients = {} /\ cc.unidentified <= 0
            THEN Drop(tallies, a.name) ELSE Put(tallies, a.name, cc)

FoldTotal(total, a) == IF a.delete THEN total - 1 ELSE total + 1

EmptyAggregation(t) == CASE t = "total" -> 0 [] t = "flag" -> <<>> [] OTHER -> [n \in {} |-> <<>>]

Fold(t, agg, a) ==
    CASE t = "distinct" -> FoldDistinct(agg, a)
      [] t = "unique" -> FoldUnique(agg, a)
      [] t = "multiple" -> FoldMultiple(agg, a)
      [] t = "flag" -> FoldFlag(agg, a)
      [] t = "total" -> FoldTotal(agg, a)

\* empty: nothing contributes any more.
IsEmpty(t, agg) == IF t = "total" THEN agg <= 0 ELSE DOMAIN agg = {}

Apply(s, a) ==
    LET agg == Fold(a.type, At(s, a.type, EmptyAggregation(a.type)), a)
    IN IF IsEmpty(a.type, agg) THEN Drop(s, a.type) ELSE Put(s, a.type, agg)

\* StoreAnnotation.
Annotate(a) ==
    /\ Len(log) < MaxLog
    /\ log' = Append(log, a)
    /\ summary' = Apply(summary, a)

Next == \E a \in Annotations : Annotate(a)

Spec == Init /\ [][Next]_vars

-----------------------------------------------------------------------------
\* The positions of annotations of a type that pass a test.
Where(t, Test(_)) == {i \in DOMAIN log : log[i].type = t /\ Test(log[i])}

\* Since when client c counts under a name, given the annotations that put it
\* there and those that take it away: the first of the former after the last of
\* the latter, or 0.
Since(ins, outs) ==
    LET after == {i \in ins : \A j \in outs : j < i} IN IF after = {} THEN 0 ELSE Min(after)

DistinctSince(c, n) ==
    Since(Where("distinct", LAMBDA a : a.client = c /\ a.name = n /\ ~a.delete),
          Where("distinct", LAMBDA a : a.client = c /\ a.name = n /\ a.delete))
UniqueSince(c, n) ==
    Since(Where("unique", LAMBDA a : a.client = c /\ a.name = n /\ ~a.delete),
          Where("unique", LAMBDA a : a.client = c /\ IF a.delete THEN a.name = n ELSE a.name # n))
FlagSince(c) ==
    Since(Where("flag", LAMBDA a : a.client = c /\ ~a.delete), Where("flag", LAMBDA a : a.client = c /\ a.delete))

\* A list holds the clients that count, in the order since when they do.
ListIs(list, since) ==
    /\ ToSet(list) = {c \in Clients : since[c] > 0}
    /\ Len(list) = Cardinality(ToSet(list))
    /\ \A i, j \in DOMAIN list : i < j => since[list[i]] < since[list[j]]

\* A tally that never falls below zero: the largest sum of a suffix of its steps.
Tally(t, Test(_), Step(_)) ==
    LET sum[i \in 0..Len(log)] ==
            IF i = 0 THEN 0
            ELSE LET s == IF log[i].type = t /\ Test(log[i]) THEN Step(log[i]) ELSE 0
                 IN IF sum[i - 1] + s > 0 THEN sum[i - 1] + s ELSE 0
    IN sum[Len(log)]

Signed(a) == (IF a.delete THEN -1 ELSE 1) * (IF a.type = "multiple" /\ a.count > 0 THEN a.count ELSE 1)

\* The summary is a function of types in use to their aggregation.
TypeOK == Len(log) <= MaxLog /\ DOMAIN summary \subseteq Types

\* distinct, unique and flag: whatever the order of creates and deletes, a list
\* holds exactly the clients whose annotation stands, each once, in the order in
\* which they came, and for unique a client under its newest name only.
ListsAreStanding ==
    /\ \A n \in Names :
        /\ ListIs(At(At(summary, "distinct", <<>>), n, <<>>), [c \in Clients |-> DistinctSince(c, n)])
        /\ ListIs(At(At(summary, "unique", <<>>), n, <<>>), [c \in Clients |-> UniqueSince(c, n)])
    /\ ListIs(At(summary, "flag", <<>>), [c \in Clients |-> FlagSince(c)])

\* multiple and total: a client's tally under a name, and the total, are those
\* of a count that stops at zero, also across the fold's dropping of values.
TalliesStopAtZero ==
    /\ \A n \in Names, c \in Clients :
        LET clients == At(At(summary, "multiple", <<>>), n, [clients |-> <<>>]).clients
        IN At(clients, c, 0) = Tally("multiple", LAMBDA a : a.client = c /\ a.name = n, Signed)
    /\ At(summary, "total", 0) = Tally("total", LAMBDA a : TRUE, Signed)

\* A type is in the summary only while something of it is left.
NothingEmpty ==
    \A t \in DOMAIN summary :
        /\ ~IsEmpty(t, summary[t])
        /\ t \in {"distinct", "unique"} => \A n \in DOMAIN summary[t] : summary[t][n] # <<>>

\* multiple: the total of a name is what its contributors have contributed,
\* since a delete takes away contributions of the client that makes it.
TotalIsContributions ==
    "multiple" \in DOMAIN summary =>
        \A n \in DOMAIN summary["multiple"] :
            LET cc == summary["multiple"][n]
            IN cc.total = cc.unidentified + MapThenSumSet(LAMBDA c : cc.clients[c], DOMAIN cc.clients)
=============================================================================
