------------------------------ MODULE MCStorage ------------------------------
(***************************************************************************)
(* The memory and the disk backend, each composed with its channel.  A     *)
(* behaviour is one of the parts, and what belongs to the other stays as   *)
(* it is: every storage operation of the memory backend without streams;   *)
(* streams over its channel; two publishers and a restart on disk.         *)
(***************************************************************************)
EXTENDS MemoryStore

CONSTANT Publishers

VARIABLES
    part,
    dList, dReady, dInitial, dCursor, dDelivered,
    db, clock, generator, series, mints, crashes, inflight, dMembers, dAcks

diskVars == <<dList, dReady, dInitial, dCursor, dDelivered,
              db, clock, generator, series, mints, crashes, inflight, dMembers, dAcks>>

\* Streams get fewer and smaller publishes.
F == INSTANCE MemoryStore WITH MaxBatch <- 1, MaxSerial <- 4

D == INSTANCE BoltStore WITH
        Streams <- {}, MaxBatch <- 1, MaxCounter <- 3, MaxSeries <- 2, MaxClock <- 2,
        MaxMints <- 4, MaxCrashes <- 1, ClockAdvances <- TRUE,
        list <- dList, ready <- dReady, initialSerial <- dInitial, cursor <- dCursor,
        delivered <- dDelivered, gen <- generator, members <- dMembers, acks <- dAcks

ASSUME D!BoltAssumption

MCInit == part \in {"operations", "streams", "disk"} /\ Init /\ D!Init

MCNext ==
    \/ /\ part = "operations" /\ UNCHANGED <<part, diskVars>>
       /\ \/ OpenChannel
          \/ Publish
          \/ \E cur \in latest : MutateIncompatible(cur)
          \/ \E r \in ids : Duplicate(r)
    \/ part = "streams" /\ F!Next /\ UNCHANGED <<part, diskVars>>
    \/ part = "disk" /\ D!Next /\ UNCHANGED <<part, vars>>

MCSpec == MCInit /\ [][MCNext]_<<part, vars, diskVars>>

-----------------------------------------------------------------------------
\* On disk, across restarts: an id is committed at most once and every answer names
\* that commit; the tables of the file are the fold of its log; the live list and the
\* publishes on their way to it hold what was committed since the channel was opened;
\* and the presence set is the fold of the process's presence cms.
DiskLosesNothing ==
    /\ D!RetriesAgree
    /\ D!ProjectionIsFoldOfLog
    /\ D!LiveListComplete
    /\ D!MembersAreFoldOfProcess
==============================================================================
