----------------------------- MODULE MCPostgres -----------------------------
(***************************************************************************)
(* The cluster backend's tables.  A behaviour is one of the parts, and     *)
(* what belongs to the others stays as it is: the presence lease of one    *)
(* member on three nodes whose bumps may fail; the leases of two members,  *)
(* without such failures; transactions of two publishers that overlap; one *)
(* publisher with lost connections and failing calls, the channel opened   *)
(* at any time.                                                            *)
(***************************************************************************)
EXTENDS PostgresPresence, PostgresStore

VARIABLE part

Failing == INSTANCE PostgresStore WITH
        MaxSerial <- 3, OpenWhen <- "any", Published <- {"create", "enter", "leave"},
        Ids <- {}, MaxDrops <- 1, MaxFailures <- 2

ASSUME PostgresAssumption /\ Failing!PostgresAssumption

\* The failing store has one publisher.  Where there are two, which are alike, the
\* second begins a transaction only while the first has one open.
First == CHOOSE p \in Publishers : TRUE
OnePublisher == \A p \in Publishers \ {First} : ~tx'[p].open
Overlapping == \A p \in Publishers \ {First} : tx'[p].open /\ ~tx[p].open => tx[First].open

Few == INSTANCE PostgresPresence WITH MaxEvents <- 3

\* One member enters; and no bump fails.
OneMember == \A m \in Clients : m # (CHOOSE c \in Clients : TRUE) => feed'[m] = <<>>
NoneMissed == \A n \in Nodes : missed'[n] = 0

MCInit == part \in {"lease", "leases", "overlapping", "failing"} /\ LeaseInit /\ Init

MCNext ==
    \/ part = "lease" /\ LeaseNext /\ OneMember /\ UNCHANGED <<part, vars>>
    \/ part = "leases" /\ Few!LeaseNext /\ NoneMissed /\ UNCHANGED <<part, vars>>
    \/ part = "overlapping" /\ Next /\ Overlapping /\ UNCHANGED <<part, leaseVars>>
    \/ part = "failing" /\ Failing!Next /\ OnePublisher /\ UNCHANGED <<part, leaseVars>>

MCSpec == MCInit /\ [][MCNext]_<<part, leaseVars, vars>>
=============================================================================
