----------------------------- MODULE Migrations -----------------------------
\* The migration sweep of the Postgres backend (migrate, listMigrations and
\* applyMigration in internal/storage/postgres): processes that open one database
\* at the same time, some of them an older build that embeds fewer migrations.

EXTENDS Naturals, FiniteSets

CONSTANTS
    Processes,      \* processes that call Open
    Embedded,       \* process -> number of migrations its build embeds; they are 1..Embedded[p]
    MaxFailures     \* bound on failed statements and crashes

Migration == UNION {1..Embedded[p] : p \in Processes}
NoProcess == "none"

ASSUME MigrationsAssumption ==
    /\ Embedded \in [Processes -> Nat]
    /\ NoProcess \notin Processes
    /\ MaxFailures \in Nat

VARIABLES
    pc,             \* process -> "waiting" | "reading" | "applying" | "open" | "failed"
    lock,           \* holder of the session-scoped advisory lock
    applied,        \* process -> the versions it read from schema_migrations
    schema,         \* migration -> how often its SQL is in the database
    tracked,        \* the rows of schema_migrations
    failures        \* failures so far

sweepVars == <<pc, lock, applied, schema, tracked, failures>>

SweepInit ==
    /\ pc = [p \in Processes |-> "waiting"]
    /\ lock = NoProcess
    /\ applied = [p \in Processes |-> {}]
    /\ schema = [m \in Migration |-> 0]
    /\ tracked = {}
    /\ failures = 0

\* pg_advisory_lock blocks until no session holds the key.
Lock(p) ==
    /\ pc[p] = "waiting"
    /\ lock = NoProcess
    /\ lock' = p
    /\ pc' = [pc EXCEPT ![p] = "reading"]
    /\ UNCHANGED <<applied, schema, tracked, failures>>

\* CREATE TABLE IF NOT EXISTS schema_migrations, then read the applied versions.
ReadApplied(p) ==
    /\ pc[p] = "reading"
    /\ applied' = [applied EXCEPT ![p] = tracked]
    /\ pc' = [pc EXCEPT ![p] = "applying"]
    /\ UNCHANGED <<lock, schema, tracked, failures>>

\* What the sweep of p still has to do, in the order of the file names.
Pending(p) == {m \in 1..Embedded[p] : m \notin applied[p]}

\* Faulty Apply: the tracker row is not in the transaction of the SQL, and is lost.
Apply_Untracked(p) ==
    /\ pc[p] = "applying"
    /\ \E m \in Pending(p) :
        /\ \A k \in Pending(p) : m <= k
        /\ m \notin tracked
        /\ schema' = [schema EXCEPT ![m] = @ + 1]
        /\ tracked' \in {tracked, tracked \cup {m}}
        /\ applied' = [applied EXCEPT ![p] = @ \cup {m}]
    /\ UNCHANGED <<pc, lock, failures>>

\* applyMigration: the SQL and the tracker row commit together. The row's primary key
\* refuses a version that is already there.
Apply(p) ==
    /\ pc[p] = "applying"
    /\ \E m \in Pending(p) :
        /\ \A k \in Pending(p) : m <= k
        /\ m \notin tracked
        /\ schema' = [schema EXCEPT ![m] = @ + 1]
        /\ tracked' = tracked \cup {m}
        /\ applied' = [applied EXCEPT ![p] = @ \cup {m}]
    /\ UNCHANGED <<pc, lock, failures>>

\* Faulty Unlock: the lock is released by the process that finishes, not by one that fails.
Unlock_Late(p) == lock' = IF lock = p /\ Pending(p) = {} THEN NoProcess ELSE lock

\* The sweep of p is over, however it ends: the lock is released, by hand or with
\* the session.
Unlock(p) == lock' = IF lock = p THEN NoProcess ELSE lock

\* Nothing is pending: migrate returns and Open goes on.
Finish(p) ==
    /\ pc[p] = "applying"
    /\ Pending(p) = {}
    /\ pc' = [pc EXCEPT ![p] = "open"]
    /\ Unlock(p)
    /\ UNCHANGED <<applied, schema, tracked, failures>>

\* A statement fails, which fails Open, or the process dies: an open transaction is
\* rolled back, and what earlier transactions applied stays.
Fail(p) ==
    /\ pc[p] \in {"reading", "applying"}
    /\ failures < MaxFailures
    /\ failures' = failures + 1
    /\ pc' = [pc EXCEPT ![p] = "failed"]
    /\ Unlock(p)
    /\ UNCHANGED <<applied, schema, tracked>>

\* The process is started again.
Restart(p) ==
    /\ pc[p] = "failed"
    /\ pc' = [pc EXCEPT ![p] = "waiting"]
    /\ applied' = [applied EXCEPT ![p] = {}]
    /\ UNCHANGED <<lock, schema, tracked, failures>>

Step(p) == Lock(p) \/ ReadApplied(p) \/ Apply(p) \/ Finish(p) \/ Restart(p)
SweepNext == \E p \in Processes : Step(p) \/ Fail(p)

\* A session is granted the lock in turn, and a process runs on.
SweepFairness == \A p \in Processes : SF_sweepVars(Lock(p)) /\ WF_sweepVars(Step(p))

SweepSpec == SweepInit /\ [][SweepNext]_sweepVars
SweepFairSpec == SweepSpec /\ SweepFairness

------------------------------------------------------------------------------
\* A migration's SQL is in the database once if its version is recorded and not at all
\* otherwise, whichever process crashed where; and a recorded one has all its
\* predecessors below it, also when an older build runs between two newer ones.  A
\* process that is open runs on a schema that has every migration it was built with.
SchemaSwept ==
    /\ \A m \in Migration : schema[m] = IF m \in tracked THEN 1 ELSE 0
    /\ \A m \in tracked : 1..m \subseteq tracked
    /\ \A p \in Processes : pc[p] = "open" => 1..Embedded[p] \subseteq tracked

\* Every process gets past the sweep: the lock of a failed one does not stay.
EveryoneOpens == \A p \in Processes : <>[](pc[p] = "open")
==============================================================================
