------------------------------ MODULE Startup ------------------------------
(***************************************************************************)
(* server.Run: how a process starts and stops, and what it leaves behind.  *)
(* A process resolves its keys, opens storage, enters the static presence  *)
(* members of its configuration, listens and serves until SIGTERM; every   *)
(* step may fail, and then what was opened is closed again.  Processes     *)
(* that share a database or a data directory run at the same time or one   *)
(* after the other.  A request is any handler that uses the store; how     *)
(* WebSocket connections are shut down is in Lifecycle.                    *)
(***************************************************************************)
EXTENDS Naturals, FiniteSets

CONSTANTS
    Runs,           \* runs of the binary
    Modes,          \* storage backends: "memory", "disk", "cluster"
    Configs,        \* configurations: [flag, env, file, malformed, debug]
    NumChannels,    \* channels with fixtures
    StepsFail       \* opening, seeding and binding may fail

\* Entries that are no keys: a blank, and one whose text does not parse.
Blank == [app |-> "", id |-> 0]
Unparsable == [app |-> "?", id |-> 0]
Seeds == 1..NumChannels

ASSUME StartupAssumption ==
    /\ Modes \subseteq {"memory", "disk", "cluster"}
    /\ NumChannels \in Nat
    /\ StepsFail \in BOOLEAN
    /\ \A c \in Configs : {c.malformed, c.debug} \subseteq BOOLEAN

VARIABLES
    mode, config,
    stage,      \* where Run is
    seeded,     \* channels whose fixtures it has entered
    rows,       \* the membership set: <<process that entered it, channel>>
    holder,     \* processes that have storage open
    signalled,  \* processes that were sent SIGTERM
    handling,   \* processes with a request in flight
    using,      \* processes whose request has a transaction or a pooled connection
    expired     \* processes whose grace window is over

startupVars == <<mode, config, stage, seeded, rows, holder, signalled, handling, using, expired>>

StartupInit ==
    /\ mode \in Modes /\ config \in [Runs -> Configs]
    /\ stage = [p \in Runs |-> "new"]
    /\ seeded = [p \in Runs |-> 0]
    /\ rows = {} /\ holder = {} /\ signalled = {} /\ handling = {} /\ using = {} /\ expired = {}

MovesTo(p, l) == stage' = [stage EXCEPT ![p] = l]
OnlyStage(p, l) ==
    MovesTo(p, l) /\ UNCHANGED <<mode, config, seeded, rows, holder, signalled, handling, using, expired>>

-----------------------------------------------------------------------------
\* splitTrim: blank entries are dropped.
SplitTrim(entries) == entries \ {Blank}

\* resolveAPIKeys: the flags, else the environment, else the file, as whole sets.
ResolveAPIKeys(c) ==
    SplitTrim(IF c.flag # {} THEN c.flag ELSE IF c.env # {} THEN c.env ELSE c.file)

\* At least one key, each of which parses, all of one app.
KeysAccepted(keys) == keys # {} /\ Unparsable \notin keys /\ Cardinality({k.app : k \in keys}) = 1

\* Run up to storage: without acceptable keys the process exits, with nothing open.
ResolveKeys(p) ==
    /\ stage[p] = "new"
    /\ OnlyStage(p, IF KeysAccepted(ResolveAPIKeys(config[p])) THEN "keyed" ELSE "exited")

\* openStorage. bbolt waits for the lock on its file for as long as it takes; ctx only
\* bounds the cluster's dial, ping and migration.
OpenStorage(p) ==
    /\ stage[p] = "keyed"
    /\ mode = "disk" => holder = {}
    /\ holder' = holder \cup {p}
    /\ MovesTo(p, "open")
    /\ UNCHANGED <<mode, config, seeded, rows, signalled, handling, using, expired>>

\* Tracing cannot be set up, or storage not be opened.
OpenFails(p) ==
    /\ stage[p] = "keyed"
    /\ StepsFail \/ (mode = "cluster" /\ p \in signalled)
    /\ OnlyStage(p, "exited")

\* fixtures.Seed, one channel: its members get a fresh connectionId, so they are
\* never the members an earlier process entered.
Seed(p) ==
    /\ stage[p] = "open" /\ ~config[p].malformed /\ seeded[p] < NumChannels
    /\ seeded' = [seeded EXCEPT ![p] = @ + 1]
    /\ rows' = rows \cup {<<p, seeded[p] + 1>>}
    /\ UNCHANGED <<mode, config, stage, holder, signalled, handling, using, expired>>

\* fixtureSpec turns the file down, or a channel cannot be seeded: Run returns.
SeedFails(p) ==
    /\ stage[p] = "open"
    /\ \/ config[p].malformed
       \/ seeded[p] < NumChannels /\ ((StepsFail /\ mode # "memory") \/ (mode = "cluster" /\ p \in signalled))
    /\ OnlyStage(p, "closing")

\* net.Listen once every fixture is in, and the address file.
Listen(p) ==
    /\ stage[p] = "open" /\ ~config[p].malformed /\ seeded[p] = NumChannels
    /\ OnlyStage(p, "bound")

\* The address cannot be bound, or its file not written.
ListenFails(p) ==
    /\ StepsFail
    /\ \/ stage[p] = "open" /\ ~config[p].malformed /\ seeded[p] = NumChannels
       \/ stage[p] = "bound"
    /\ OnlyStage(p, "closing")

\* srv.Serve in its goroutine, while Run goes on to the debug listener.
Serve(p) ==
    /\ stage[p] = "bound"
    /\ OnlyStage(p, IF config[p].debug THEN "serving" ELSE "running")

DebugListen(p) ==
    /\ stage[p] = "serving"
    /\ OnlyStage(p, "running")

\* The debug address cannot be bound: Run returns, and the server it started goes on.
DebugListenFails(p) ==
    /\ StepsFail /\ stage[p] = "serving"
    /\ OnlyStage(p, "aborting")

-----------------------------------------------------------------------------
Accepting(p) == stage[p] \in {"serving", "running", "aborting"}

Request(p) ==
    /\ Accepting(p) /\ p \notin handling
    /\ handling' = handling \cup {p}
    /\ UNCHANGED <<mode, config, stage, seeded, rows, holder, signalled, using, expired>>

\* The handler begins and ends a bbolt transaction or a query on a connection of the pool,
\* from a store that Close has not been called on. Memory has neither.
Query(p) ==
    /\ p \in handling \ using /\ mode # "memory"
    /\ stage[p] \in {"serving", "running", "draining"}
    /\ using' = using \cup {p}
    /\ UNCHANGED <<mode, config, stage, seeded, rows, holder, signalled, handling, expired>>

QueryEnds(p) ==
    /\ p \in using
    /\ using' = using \ {p}
    /\ UNCHANGED <<mode, config, stage, seeded, rows, holder, signalled, handling, expired>>

Answer(p) ==
    /\ p \in handling \ using
    /\ handling' = handling \ {p}
    /\ UNCHANGED <<mode, config, stage, seeded, rows, holder, signalled, using, expired>>

\* SIGTERM cancels the context of Run.
SignalProcess(p) ==
    /\ stage[p] # "exited" /\ p \notin signalled
    /\ signalled' = signalled \cup {p}
    /\ UNCHANGED <<mode, config, stage, seeded, rows, holder, handling, using, expired>>

\* Both Shutdowns begin: nothing new is accepted.
BeginShutdown(p) ==
    /\ stage[p] = "running" /\ p \in signalled
    /\ OnlyStage(p, "draining")

\* Faulty Drained: Shutdown is not waited for.
Drained_AtOnce(p) ==
    /\ stage[p] = "draining"
    /\ OnlyStage(p, "closing")

\* srv.Shutdown returns when no request is in flight, or at the deadline.
Drained(p) ==
    /\ stage[p] = "draining" /\ (p \notin handling \/ p \in expired)
    /\ OnlyStage(p, "closing")

Deadline(p) ==
    /\ stage[p] = "draining" /\ p \notin expired
    /\ expired' = expired \cup {p}
    /\ UNCHANGED <<mode, config, stage, seeded, rows, holder, signalled, handling, using>>

\* The deferred store.Close, on every way out of Run once storage is open: it waits for the
\* transactions and for the connections of the pool. In an abandoned process the server it
\* started is still there.
CloseStore(p) ==
    /\ stage[p] \in {"closing", "aborting"} /\ p \notin using
    /\ holder' = holder \ {p}
    /\ MovesTo(p, IF stage[p] = "aborting" THEN "abandoned" ELSE "closed")
    /\ UNCHANGED <<mode, config, seeded, rows, signalled, handling, using, expired>>

\* os.Exit. Memory and bbolt hold the membership set in the process; Postgres has a row
\* with an infinite lease for each fixture.
ExitProcess(p) ==
    /\ stage[p] \in {"closed", "abandoned"}
    /\ handling' = handling \ {p}
    /\ rows' = IF mode = "cluster" THEN rows ELSE {r \in rows : r[1] # p}
    /\ MovesTo(p, "exited")
    /\ UNCHANGED <<mode, config, seeded, holder, signalled, using, expired>>

Run(p) ==
    \/ ResolveKeys(p) \/ OpenStorage(p) \/ Seed(p) \/ Listen(p) \/ Serve(p) \/ DebugListen(p)
    \/ BeginShutdown(p) \/ Drained(p) \/ CloseStore(p) \/ ExitProcess(p)
    \/ (config[p].malformed /\ SeedFails(p))

StartupNext ==
    \E p \in Runs :
        \/ Run(p) \/ OpenFails(p) \/ SeedFails(p) \/ ListenFails(p) \/ DebugListenFails(p)
        \/ Request(p) \/ Query(p) \/ QueryEnds(p) \/ Answer(p) \/ SignalProcess(p) \/ Deadline(p)

StartupSpec == StartupInit /\ [][StartupNext]_startupVars

\* Run goes on whenever it can, the grace window ends, and a query that was begun returns.
\* Nothing is assumed of requests, signals and failures.
StartupFairSpec ==
    /\ StartupSpec
    /\ \A p \in Runs : WF_startupVars(Run(p)) /\ WF_startupVars(Deadline(p)) /\ WF_startupVars(QueryEnds(p))

-----------------------------------------------------------------------------
\* Every variable has its type; a data directory is open in one process at a time.
StartupTypeOK ==
    /\ mode \in Modes /\ config \in [Runs -> Configs]
    /\ stage \in [Runs -> {"new", "keyed", "open", "bound", "serving", "running", "draining",
                             "aborting", "closing", "closed", "abandoned", "exited"}]
    /\ seeded \in [Runs -> 0..NumChannels]
    /\ rows \subseteq Runs \X Seeds
    /\ {signalled, handling, expired} \subseteq SUBSET Runs /\ using \subseteq handling
    /\ holder = {p \in Runs : stage[p] \notin {"new", "keyed", "closed", "abandoned", "exited"}}
    /\ mode = "disk" => Cardinality(holder) <= 1

\* A request is served by a process that has keys of one app, from a single source, and
\* whose fixtures are all members.
ServesConfigured ==
    \A p \in handling :
        /\ \E source \in {config[p].flag, config[p].env, config[p].file} :
              ResolveAPIKeys(config[p]) \subseteq source /\ KeysAccepted(ResolveAPIKeys(config[p]))
        /\ \A f \in Seeds : <<p, f>> \in rows

\* A request meets a closed store only when the grace window did not suffice for it, or in a
\* process whose debug address could not be bound, which closes storage with its server
\* running; and a transaction or query that was begun is never cut off, in these cases
\* neither.
ClosedAfterUse ==
    /\ \A p \in handling : p \in holder \/ p \in expired \/ stage[p] = "abandoned"
    /\ using \subseteq holder

\* A process serves requests only with the keys of one source and after the fixtures are
\* entered. Storage closes after the queries it has begun, and after the requests that use
\* it unless the grace window is over or the debug address could not be bound.
ServesWhileReady == ServesConfigured /\ ClosedAfterUse

\* "srv.Shutdown drains in-flight HTTP requests, then this defer closes" storage: a request
\* meets a closed store only when the grace window did not suffice for it.
StoreOutlivesRequests == \A p \in handling : p \in holder \cup expired

\* Fixtures are members for the lifetime of the process that entered them: the next
\* process on the same storage finds none of an earlier one's beside its own.
FixturesEndWithProcess == \A r \in rows : stage[r[1]] # "exited"

\* SIGTERM ends the process, whatever it was doing, unless it waits for the lock of a data
\* directory.
ExitsUnlessLocked ==
    \A p \in Runs : []<>(p \notin signalled \/ stage[p] = "exited" \/ (mode = "disk" /\ stage[p] = "keyed"))

\* SIGTERM ends the process, whatever it was doing.
SignalledExits == \A p \in Runs : []<>(p \notin signalled \/ stage[p] = "exited")
=============================================================================
