-------------------------- MODULE PostgresPresence --------------------------
\* Presence leases of the Postgres backend (internal/storage/postgres): the rows
\* of the presence table on one channel, the loop by which a node refreshes the
\* leases of the rows it owns, and the loop by which every node deletes lapsed
\* rows and then publishes a LEAVE for each.
\*
\* Time is relative: a lease counts down to 0 (expires_at = now()) and then to -1
\* (expires_at < now()); a node's timer counts down to its next bump.

EXTENDS Integers, Sequences, FiniteSets

CONSTANTS
    Nodes,          \* node ids (one per process)
    Clients,        \* members that connections enter: connectionId and clientId
    Fixtures,       \* static members seeded from the configuration
    LeaseWindow,    \* presenceLeaseWindow, in ticks
    BumpInterval,   \* presenceLeaseBumpInterval, in ticks
    MaxMissed,      \* consecutive bumps of a node that may fail
    ReapsFail,      \* whether a reap may be cut off after its DELETE
    MaxCrashes,     \* bound on the crashes
    MaxEvents       \* bound on the events of one member

NoNode == "none"
FixtureNode == "__fixtures__"
Forever == LeaseWindow + 1
Everyone == Clients \cup Fixtures
\* What an event did to the table: an ENTER or UPDATE that added a row, one that found the
\* row there, a LEAVE.
Kinds == {"enter", "update", "leave"}

ASSUME PresenceAssumption ==
    /\ IsFiniteSet(Nodes) /\ Nodes \cap {NoNode, FixtureNode} = {}
    /\ Clients \cap Fixtures = {}
    /\ BumpInterval \in Nat \ {0}
    /\ MaxMissed \in Nat
    /\ LeaseWindow \in Nat
    /\ BumpInterval * (MaxMissed + 1) <= LeaseWindow

VARIABLES
    up,         \* the nodes that run
    home,       \* member -> the node its connection is on (what the table should say)
    owner,      \* member -> the node that owns its presence row, NoNode: no row
    lease,      \* member -> what is left of the lease of its row
    feed,       \* member -> the presence events committed to the channel's log
    reaping,    \* node -> members whose rows it deleted and whose LEAVE is still to come
    forgotten,  \* members whose row is deleted, whose LEAVE was given up, and who sent nothing since
    timer,      \* node -> ticks to its next bump
    missed,     \* node -> bumps that failed since the last one that did not
    crashes     \* crashes so far

leaseVars == <<up, home, owner, lease, feed, reaping, forgotten, timer, missed, crashes>>

\* A member whose last event in the log is not a LEAVE: subscribers show it as present.
Shown == {m \in Everyone : Len(feed[m]) > 0 /\ feed[m][Len(feed[m])] # "leave"}
InTable == {m \in Everyone : owner[m] # NoNode}
BeingReaped == UNION {reaping[n] : n \in Nodes}

\* The nodes are up and the fixtures are seeded, with an infinite lease.
LeaseInit ==
    /\ up = Nodes
    /\ home = [m \in Everyone |-> IF m \in Fixtures THEN FixtureNode ELSE NoNode]
    /\ owner = home
    /\ lease = [m \in Everyone |-> IF m \in Fixtures THEN Forever ELSE 0]
    /\ feed = [m \in Everyone |-> IF m \in Fixtures THEN <<"enter">> ELSE <<>>]
    /\ reaping = [n \in Nodes |-> {}]
    /\ forgotten = {}
    /\ timer = [n \in Nodes |-> BumpInterval]
    /\ missed = [n \in Nodes |-> 0]
    /\ crashes = 0

------------------------------------------------------------------------------
\* StorePresence: one transaction appends the event and folds it into the table.

Committed(m, kind, n, l) ==
    /\ feed' = [feed EXCEPT ![m] = Append(@, kind)]
    /\ owner' = [owner EXCEPT ![m] = n]
    /\ lease' = [lease EXCEPT ![m] = l]
    /\ forgotten' = forgotten \ {m}

Entry(m) == IF owner[m] = NoNode THEN "enter" ELSE "update"

\* Faulty EnterAt: the upsert leaves the owner of an existing row alone.
EnterAt_KeepsOwner(n, m) ==
    /\ n \in up
    /\ Len(feed[m]) < MaxEvents
    /\ Committed(m, Entry(m), IF owner[m] = NoNode THEN n ELSE owner[m], LeaseWindow)
    /\ home' = [home EXCEPT ![m] = n]
    /\ UNCHANGED <<up, reaping, timer, missed, crashes>>

\* ENTER or UPDATE from a connection on node n: a new member, one that is there
\* already, or one whose connection resumes on n from another node. Room for the
\* LEAVE that ends the member is kept within MaxEvents.
EnterAt(n, m) ==
    /\ n \in up
    /\ Len(feed[m]) < MaxEvents
    /\ Committed(m, Entry(m), n, LeaseWindow)
    /\ home' = [home EXCEPT ![m] = n]
    /\ UNCHANGED <<up, reaping, timer, missed, crashes>>

\* Faulty Leave: the LEAVE is logged but not folded into the table.
Leave_KeepsRow(n, m) ==
    /\ n \in up
    /\ home[m] = n
    /\ Committed(m, "leave", owner[m], lease[m])
    /\ home' = [home EXCEPT ![m] = NoNode]
    /\ UNCHANGED <<up, reaping, timer, missed, crashes>>

\* LEAVE from the member's connection: explicit, or synthesised at detach or teardown.
Leave(n, m) ==
    /\ n \in up
    /\ home[m] = n
    /\ Committed(m, "leave", NoNode, 0)
    /\ home' = [home EXCEPT ![m] = NoNode]
    /\ UNCHANGED <<up, reaping, timer, missed, crashes>>

------------------------------------------------------------------------------
\* presenceLeaseBumpLoop and presenceReaperLoop.

\* One UPDATE refreshes the lease of every row the node owns.
Bump(n) ==
    /\ n \in up
    /\ timer[n] = 0
    /\ lease' = [m \in Everyone |-> IF owner[m] = n THEN LeaseWindow ELSE lease[m]]
    /\ timer' = [timer EXCEPT ![n] = BumpInterval]
    /\ missed' = [missed EXCEPT ![n] = 0]
    /\ UNCHANGED <<up, home, owner, feed, reaping, forgotten, crashes>>

\* The UPDATE fails: it is logged, and the loop waits for the next tick.
BumpFails(n) ==
    /\ n \in up
    /\ timer[n] = 0
    /\ missed[n] < MaxMissed
    /\ timer' = [timer EXCEPT ![n] = BumpInterval]
    /\ missed' = [missed EXCEPT ![n] = @ + 1]
    /\ UNCHANGED <<up, home, owner, lease, feed, reaping, forgotten, crashes>>

Lapsed == {m \in Everyone : owner[m] # NoNode /\ lease[m] < 0}

\* Faulty Reap: SELECT the lapsed rows, and leave the DELETE to the LEAVE.
Reap_Select(n) ==
    /\ n \in up
    /\ reaping[n] = {}
    /\ Lapsed # {}
    /\ reaping' = [reaping EXCEPT ![n] = Lapsed]
    /\ UNCHANGED <<up, home, owner, lease, feed, forgotten, timer, missed, crashes>>

\* Faulty Reap: a node only looks at its own rows.
Reap_Own(n) ==
    /\ n \in up
    /\ reaping[n] = {}
    /\ \E m \in Lapsed : owner[m] = n
    /\ reaping' = [reaping EXCEPT ![n] = {m \in Lapsed : owner[m] = n}]
    /\ owner' = [m \in Everyone |-> IF m \in Lapsed /\ owner[m] = n THEN NoNode ELSE owner[m]]
    /\ lease' = [m \in Everyone |-> IF m \in Lapsed /\ owner[m] = n THEN 0 ELSE lease[m]]
    /\ UNCHANGED <<up, home, feed, forgotten, timer, missed, crashes>>

\* reapExpiredPresence, first half: DELETE ... RETURNING the lapsed rows. A reap that
\* finds none, or whose query fails, changes nothing.
Reap(n) ==
    /\ n \in up
    /\ reaping[n] = {}
    /\ Lapsed # {}
    /\ reaping' = [reaping EXCEPT ![n] = Lapsed]
    /\ owner' = [m \in Everyone |-> IF m \in Lapsed THEN NoNode ELSE owner[m]]
    /\ lease' = [m \in Everyone |-> IF m \in Lapsed THEN 0 ELSE lease[m]]
    /\ UNCHANGED <<up, home, feed, forgotten, timer, missed, crashes>>

\* reapExpiredPresence, second half, for one orphan: the LEAVE goes through
\* StorePresence, which deletes whatever row the member has by then.
PublishReaped(n, m) ==
    /\ n \in up
    /\ m \in reaping[n]
    /\ reaping' = [reaping EXCEPT ![n] = @ \ {m}]
    /\ Committed(m, "leave", NoNode, 0)
    /\ UNCHANGED <<up, home, timer, missed, crashes>>

\* The LEAVE cannot be published: it is logged and the orphan forgotten.
PublishReapedFails(n, m) ==
    /\ ReapsFail
    /\ n \in up
    /\ m \in reaping[n]
    /\ reaping' = [reaping EXCEPT ![n] = @ \ {m}]
    /\ forgotten' = forgotten \cup ({m} \ InTable)
    /\ UNCHANGED <<up, home, owner, lease, feed, timer, missed, crashes>>

------------------------------------------------------------------------------
\* Time and crashes.

\* Time does not pass a node's bump: the ticker of a running node fires on time.
Tick ==
    /\ \A n \in up : timer[n] > 0
    /\ timer' = [n \in Nodes |-> IF n \in up THEN timer[n] - 1 ELSE timer[n]]
    /\ lease' = [m \in Everyone |->
                   IF owner[m] # NoNode /\ lease[m] \in 0..LeaseWindow THEN lease[m] - 1 ELSE lease[m]]
    /\ UNCHANGED <<up, home, owner, feed, reaping, forgotten, missed, crashes>>

\* A node dies with its connections, its loops and its list of orphans.
Crash(n) ==
    /\ n \in up
    /\ crashes < MaxCrashes
    /\ ReapsFail \/ reaping[n] = {}
    /\ up' = up \ {n}
    /\ home' = [m \in Everyone |-> IF home[m] = n THEN NoNode ELSE home[m]]
    /\ reaping' = [reaping EXCEPT ![n] = {}]
    /\ forgotten' = forgotten \cup (reaping[n] \ InTable)
    /\ crashes' = crashes + 1
    /\ UNCHANGED <<owner, lease, feed, timer, missed>>

LeaseNext ==
    \/ \E n \in Nodes, m \in Clients : EnterAt(n, m) \/ Leave(n, m)
    \/ \E n \in Nodes : Bump(n) \/ BumpFails(n) \/ Reap(n) \/ Crash(n)
    \/ \E n \in Nodes, m \in Everyone : PublishReaped(n, m) \/ PublishReapedFails(n, m)
    \/ Tick

\* Time passes, and the loops of a running node run.
LeaseFairness ==
    /\ WF_leaseVars(Tick)
    /\ \A n \in Nodes : WF_leaseVars(Bump(n)) /\ WF_leaseVars(Reap(n))
    /\ \A n \in Nodes, m \in Everyone : WF_leaseVars(PublishReaped(n, m))

LeaseSpec == LeaseInit /\ [][LeaseNext]_leaseVars
LeaseFairSpec == LeaseSpec /\ LeaseFairness

------------------------------------------------------------------------------
\* Every variable has its type; no lease of a node's row runs longer than the window, so
\* a bump sets expires_at and never adds to it.
LeaseTypeOK ==
    /\ up \subseteq Nodes
    /\ home \in [Everyone -> Nodes \cup {NoNode, FixtureNode}]
    /\ owner \in [Everyone -> Nodes \cup {NoNode, FixtureNode}]
    /\ lease \in [Everyone -> -1..Forever]
    /\ \A m \in Everyone : owner[m] \in Nodes => lease[m] <= LeaseWindow
    /\ feed \in [Everyone -> Seq(Kinds)]
    /\ reaping \in [Nodes -> SUBSET Everyone]
    /\ forgotten \subseteq Everyone
    /\ timer \in [Nodes -> 0..BumpInterval]
    /\ missed \in [Nodes -> 0..MaxMissed]
    /\ crashes \in 0..MaxCrashes

\* "A live node's members never lapse": the lease of whoever has a connection on a running
\* node, or is a fixture, does not run out, even when as many bumps in a row fail as the
\* window covers, and wherever the connection was before.
LiveMembersNeverLapse == \A m \in Everyone : home[m] # NoNode => m \notin Lapsed

\* What Members returns and what subscribers saw differ only by the orphans whose LEAVE a
\* running reaper is about to publish, and by those whose LEAVE was given up: the reaper
\* crashed after its DELETE or could not publish.
TableMatchesFeed == InTable \subseteq Shown /\ Shown \subseteq InTable \cup BeingReaped \cup forgotten

\* Several nodes reap at once and members re-enter meanwhile, but a departure is announced
\* once: the log never has more LEAVEs of a member than times it was added to the table.
Events(m, kind) == {i \in 1..Len(feed[m]) : feed[m][i] = kind}
OneLeavePerDeparture == \A m \in Everyone : Cardinality(Events(m, "leave")) <= Cardinality(Events(m, "enter"))

\* Whoever has a connection on a running node, or is a fixture, is listed.
LiveMembersListed == \A m \in Everyone : home[m] # NoNode => m \in InTable

\* The member of a crashed node departs for the subscribers, unless it re-enters.
OrphansDepart == \A m \in Everyone : []<>(home[m] # NoNode \/ m \notin Shown)

\* Whatever is cut off, the row of such a member does not outlive its lease.
RowsLapse == \A m \in Everyone : []<>(home[m] # NoNode \/ m \notin InTable)
==============================================================================
