------------------------------ MODULE MCHistory ------------------------------
(***************************************************************************)
(* Paginated reads and summaries.  A behaviour is one of the parts, and    *)
(* what belongs to the others stays as it is: walks of message history, of *)
(* versions, of annotations and of presence; raw queries on all backends;  *)
(* the summaries that are lists of clients, and those that are tallies.    *)
(***************************************************************************)
EXTENDS History

CONSTANTS Names, Tallied

VARIABLES part, annotations, summary

summaryVars == <<annotations, summary>>

Request(endpoint, target, direction, start, end, limit, upto, client) ==
    [endpoint |-> endpoint, target |-> target, direction |-> direction, start |-> start,
     end |-> end, limit |-> limit, upto |-> upto, client |-> client, from |-> <<0, 0>>]

\* Pages of one: all of it, from the second millisecond, up to the first, up to an attach
\* point.  Pages of the default size, by an explicit direction; a bad limit.
MessageRequests ==
    {Request("messages", <<1, 0>>, dir, bounds[1], bounds[2], 1, bounds[3], NoClient) :
        dir \in {"", "forwards"},
        bounds \in {<<0, 0, 0>>, <<2, 0, 0>>, <<0, 1, 0>>, <<0, 0, 2>>}}
    \cup {Request("messages", <<1, 0>>, dir, 0, 0, 0, 0, NoClient) : dir \in {"forwards", "backwards"}}
    \cup {Request("messages", <<1, 0>>, "", 0, 0, MaxLimit + 1, 0, NoClient)}

VersionRequests ==
    {Request(endpoint, target, dir, 0, 0, limit, 0, NoClient) :
        endpoint \in {"versions", "annotations"}, target \in {<<1, 0>>, <<1, 1>>},
        dir \in {"", "backwards"}, limit \in {0, 1}}

PresenceRequests ==
    {Request("presence", <<1, 0>>, "", 0, 0, limit, 0, client) :
        limit \in {0, 1}, client \in Clients \cup {NoClient}}
    \cup {Request("presence history", <<1, 0>>, dir, 0, 0, limit, upto, NoClient) :
        dir \in {"", "forwards"}, limit \in {0, 1}, upto \in {0, 1}}

AllRequests == MessageRequests \cup VersionRequests \cup PresenceRequests

\* What is asked for and written in a part, and how many cms there are.
Walks ==
    [messages |-> [reads |-> {"messages"}, writes |-> {"create", "update"}, cms |-> 3],
     versions |-> [reads |-> {"versions"}, cms |-> 4,
                   writes |-> {"create", "update", "append", "delete"}],
     annotations |-> [reads |-> {"annotations"}, writes |-> {"create", "annotate"}, cms |-> 4],
     presence |-> [reads |-> {"presence", "presence history"}, writes |-> {"enter", "leave"},
                   cms |-> 3],
     queries |-> [reads |-> {}, writes |-> {"create", "update", "annotate", "enter"}, cms |-> 3]]

Walk(w) ==
    \/ /\ Write
       /\ Len(log) < w.cms
       /\ log'[Len(log')].items[1].act \in w.writes
    \/ \E r \in {q \in Requests : q.endpoint \in w.reads} : Get(r)
    \/ FollowNext

\* The channel is the only one in the bbolt file.
Alone == INSTANCE History WITH Neighbours <- {}

Lists == INSTANCE Summary WITH
        Types <- {"distinct", "unique", "flag"}, Counts <- {0}, MaxLog <- 4, log <- annotations
Tallies == INSTANCE Summary WITH
        Types <- {"multiple", "total"}, Clients <- Tallied, Names <- {"n"}, Counts <- {0, 2},
        MaxLog <- 4, log <- annotations

ASSUME
    /\ ReadsAssumption /\ HistoryAssumption
    /\ Lists!SummaryAssumption /\ Tallies!SummaryAssumption

MCInit ==
    /\ part \in DOMAIN Walks \cup {"lists", "tallies"}
    /\ Init /\ (part \in {"messages", "versions", "annotations", "presence"} \/ backend = "memory")
    /\ Lists!Init

MCNext ==
    \/ part \in DOMAIN Walks /\ Walk(Walks[part]) /\ UNCHANGED <<part, summaryVars>>
    \/ part = "lists" /\ Lists!Next /\ UNCHANGED <<part, vars>>
    \/ part = "tallies" /\ Tallies!Next /\ UNCHANGED <<part, vars>>

Symmetry == Permutations(Clients) \cup Permutations(Names)

MCSpec == MCInit /\ [][MCNext]_<<part, vars, summaryVars>>

-----------------------------------------------------------------------------
\* Whatever is published or removed while a client follows the links, what it has read
\* at the end is what there was to read: of messages, of the versions and the
\* annotations of one, of the members and of presence.
WalksComplete ==
    /\ MessagesWalked
    /\ VersionsWalked /\ VersionsFound /\ AnnotationsWalked
    /\ MembersWalked /\ PresenceHistoryWalked

\* The three backends answer every raw query alike, whether the bbolt file holds other
\* channels around this one or its cursor runs off the end of the bucket.
QueriesAgree == part = "queries" => BackendsAgree /\ Alone!BackendsAgree

\* A list holds exactly the clients whose annotation stands, in order; a tally is that
\* of a count that stops at zero; and a type is there only while something of it is left.
SummariesStand ==
    /\ part = "lists" => Lists!ListsAreStanding
    /\ part = "tallies" => Tallies!TalliesStopAtZero
    /\ Tallies!NothingEmpty
==============================================================================
