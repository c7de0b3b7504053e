---------------------------- MODULE MCProcesses ----------------------------
(***************************************************************************)
(* Processes, alone and in a cluster.  A behaviour is one of the parts,    *)
(* and what belongs to the others stays as it is: the generator of serials *)
(* each has; the children of the sandbox provisioner; server.Run; the      *)
(* migration sweeps of processes that start together; a node that loses    *)
(* its LISTEN connection twice; members of a crashed node, with reapers    *)
(* that finish, and with reapers that are cut off.                         *)
(***************************************************************************)
EXTENDS Serial, Sandbox, Startup, Migrations, TLC

CONSTANTS p1, p2, p3, Nodes, Clients, Fixtures, Publishers, NoId, NoSubject

VARIABLES
    part,
    list, ready, initialSerial, cursor, delivered,
    db, tx, acks, opening, ensured, lastSeen, link, notices, reconciling, scan, drops, errors,
    up, home, owner, lease, feed, reaping, timer, missed, crashes, forgotten

storeVars == <<list, ready, initialSerial, cursor, delivered,
               db, tx, acks, opening, ensured, lastSeen, link, notices, reconciling, scan,
               drops, errors>>
leaseVars == <<up, home, owner, lease, feed, reaping, timer, missed, crashes, forgotten>>

\* Two builds with three migrations, one with two.
Builds == (p1 :> 3) @@ (p2 :> 3) @@ (p3 :> 2)

Store == INSTANCE PostgresStore WITH
        Streams <- {}, Ids <- {}, Members <- {}, MaxBatch <- 1, MaxSerial <- 4,
        OpenWhen <- "first", Published <- {"create", "append"},
        MaxDrops <- 2, MaxFailures <- 0, failures <- errors, phase <- reconciling

Orphans == INSTANCE PostgresPresence WITH
        LeaseWindow <- 2, BumpInterval <- 1, MaxMissed <- 1,
        ReapsFail <- FALSE, MaxCrashes <- 1, MaxEvents <- 3

CutOff == INSTANCE PostgresPresence WITH
        LeaseWindow <- 2, BumpInterval <- 1, MaxMissed <- 1,
        ReapsFail <- TRUE, MaxCrashes <- 2, MaxEvents <- 2

Key(app, id) == [app |-> app, id |-> id]
Config(flag, env, file, malformed, debug) ==
    [flag |-> flag, env |-> env, file |-> file, malformed |-> malformed, debug |-> debug]

\* Each source alone, precedence over sources of another app, keys of two apps, a
\* key that does not parse, blanks only.
AllConfigs ==
    {Config({Key("a", 1)}, {Key("a", 2)}, {}, FALSE, debug) : debug \in BOOLEAN}
    \cup {Config({}, {Key("a", 1), Key("a", 2)}, {Key("b", 1)}, FALSE, FALSE),
          Config({}, {}, {Key("a", 1)}, FALSE, TRUE),
          Config({}, {}, {Key("a", 1)}, TRUE, FALSE),
          Config({}, {}, {Key("a", 1), Key("b", 1)}, FALSE, FALSE),
          Config({Key("a", 1), Unparsable}, {}, {}, FALSE, FALSE),
          Config({}, {Blank}, {Key("a", 1)}, FALSE, FALSE)}

\* The configurations of processes have nothing to do with one another: one of them varies.
OneConfig == Config({}, {}, {Key("a", 1)}, FALSE, TRUE)

ASSUME SandboxAssumption /\ Store!PostgresAssumption /\ Orphans!PresenceAssumption

processVars == <<serialVars, vars, startupVars>>
clusterVars == <<sweepVars, storeVars, leaseVars>>

MCInit ==
    /\ SerialInit /\ Init /\ StartupInit /\ SweepInit /\ Store!Init /\ Orphans!LeaseInit
    /\ part \in {"mint", "sandbox", "startup", "sweep", "listen", "orphans", "cut off"}
    /\ part # "startup" => mode = "memory" /\ config = [p \in Runs |-> OneConfig]
    /\ \E p \in Runs : \A q \in Runs \ {p} : config[q] = OneConfig

MCNext ==
    \/ part = "mint" /\ SerialNext /\ UNCHANGED <<part, vars, startupVars, clusterVars>>
    \/ part = "sandbox" /\ Next /\ UNCHANGED <<part, serialVars, startupVars, clusterVars>>
    \/ part = "startup" /\ StartupNext /\ UNCHANGED <<part, serialVars, vars, clusterVars>>
    \/ part = "sweep" /\ SweepNext /\ UNCHANGED <<part, storeVars, leaseVars, processVars>>
    \/ part = "listen" /\ Store!Next /\ UNCHANGED <<part, sweepVars, leaseVars, processVars>>
    \/ part = "orphans" /\ Orphans!LeaseNext /\ UNCHANGED <<part, sweepVars, storeVars, processVars>>
    \/ part = "cut off" /\ CutOff!LeaseNext /\ UNCHANGED <<part, sweepVars, storeVars, processVars>>

\* The fairness of the part that runs.
MCSpec ==
    /\ MCInit /\ [][MCNext]_<<part, processVars, clusterVars>>
    /\ \A a \in Apps :
        /\ WF_vars(part = "sandbox" /\ BecomeIdle(a)) /\ WF_vars(part = "sandbox" /\ ReapNext(a))
        /\ WF_vars(part = "sandbox" /\ AskToEnd(a)) /\ WF_vars(part = "sandbox" /\ AwaitEnd(a))
        /\ WF_vars(part = "sandbox" /\ WaitForAddr(a)) /\ WF_vars(part = "sandbox" /\ Register(a))
    /\ WF_vars(part = "sandbox" /\ ReapIdle) /\ WF_vars(part = "sandbox" /\ Expire)
    /\ WF_vars(part = "sandbox" /\ Shutdown) /\ WF_vars(part = "sandbox" /\ Exit)
    /\ \A p \in Runs :
        /\ WF_startupVars(part = "startup" /\ Run(p)) /\ WF_startupVars(part = "startup" /\ Deadline(p))
        /\ WF_startupVars(part = "startup" /\ QueryEnds(p))
    /\ \A p \in Processes : SF_sweepVars(part = "sweep" /\ Lock(p)) /\ WF_sweepVars(part = "sweep" /\ Step(p))
    /\ WF_storeVars(part = "listen" /\ Store!Consume)
    /\ WF_storeVars(part = "listen" /\ Store!Redial)
    /\ WF_storeVars(part = "listen" /\ Store!Reconcile)
    /\ WF_leaseVars(part = "orphans" /\ Orphans!Tick)
    /\ WF_leaseVars(part = "cut off" /\ CutOff!Tick)
    /\ \A n \in Nodes :
        /\ WF_leaseVars(part = "orphans" /\ Orphans!Bump(n))
        /\ WF_leaseVars(part = "orphans" /\ Orphans!Reap(n))
        /\ WF_leaseVars(part = "cut off" /\ CutOff!Bump(n))
        /\ WF_leaseVars(part = "cut off" /\ CutOff!Reap(n))
        /\ \A m \in Clients \cup Fixtures :
            /\ WF_leaseVars(part = "orphans" /\ Orphans!PublishReaped(n, m))
            /\ WF_leaseVars(part = "cut off" /\ CutOff!PublishReaped(n, m))

-----------------------------------------------------------------------------
\* SIGTERM ends the provisioner, and a process that does not wait for the lock of a data
\* directory; a child of the provisioner ends unless SIGTERM comes first.
SignalledEnd ==
    /\ part = "sandbox" => ProvisionerExits /\ ProcessesEnd
    /\ part = "startup" => ExitsUnlessLocked

\* Every process gets past the sweep.
EveryoneServes == part = "sweep" => EveryoneOpens

\* The node gets every committed cm in the end, lost connections or not.
NodeCatchesUp == part = "listen" => Store!NodeCatchesUp

\* The member of a crashed node departs for the subscribers, unless it re-enters; and
\* when reapers are cut off, at least its row does not outlive its lease.
OrphansDepart ==
    /\ part = "orphans" => Orphans!OrphansDepart
    /\ part = "cut off" => CutOff!RowsLapse
=============================================================================
