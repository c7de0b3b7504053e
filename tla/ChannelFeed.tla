---------------------------- MODULE ChannelFeed ----------------------------
(***************************************************************************)
(* What one channel promises its readers, with no mention of how: there is *)
(* one log of committed ChannelMessages in strictly increasing serial      *)
(* order, and a reader that opens the channel is handed every entry        *)
(* committed after that moment, each once, in log order.                   *)
(*                                                                         *)
(* MemoryStore is shown to implement this specification.                   *)
(***************************************************************************)
EXTENDS Naturals, Sequences

CONSTANTS
    Readers,    \* the attachments that may read the channel
    Entries     \* what may be committed: records with a field serial

VARIABLES
    log,        \* the committed entries
    open,       \* the readers that have the channel open
    from,       \* from[r]: length of the log when r opened, 0 when closed
    got         \* got[r]: what r has been handed since it opened

feedVars == <<log, open, from, got>>

Init ==
    /\ log = <<>>
    /\ open = {}
    /\ from = [r \in Readers |-> 0]
    /\ got = [r \in Readers |-> <<>>]

\* An entry is committed; its serial exceeds every earlier one.
Commit ==
    /\ Len(log') = Len(log) + 1
    /\ log'[Len(log')] \in Entries
    /\ log' = Append(log, log'[Len(log')])
    /\ \A i \in 1..Len(log) : log[i].serial < log'[Len(log')].serial
    /\ UNCHANGED <<open, from, got>>

\* A reader opens the channel at the current end of the log.
Open(r) ==
    /\ r \notin open
    /\ open' = open \cup {r}
    /\ from' = [from EXCEPT ![r] = Len(log)]
    /\ UNCHANGED <<log, got>>

\* A reader is handed the next entry it has not had.
Deliver(r) ==
    /\ r \in open
    /\ from[r] + Len(got[r]) < Len(log)
    /\ got' = [got EXCEPT ![r] = Append(@, log[from[r] + Len(@) + 1])]
    /\ UNCHANGED <<log, open, from>>

\* A reader goes away.
Close(r) ==
    /\ r \in open
    /\ open' = open \ {r}
    /\ from' = [from EXCEPT ![r] = 0]
    /\ got' = [got EXCEPT ![r] = <<>>]
    /\ UNCHANGED log

Next ==
    \/ Commit
    \/ \E r \in Readers : Open(r) \/ Deliver(r) \/ Close(r)

Spec == Init /\ [][Next]_feedVars
=============================================================================
