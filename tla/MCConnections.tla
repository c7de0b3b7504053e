---------------------------- MODULE MCConnections ----------------------------
(***************************************************************************)
(* WebSocket connections and how they end.  A behaviour is one of the      *)
(* parts, and what belongs to the others stays as it is: a connection with *)
(* a key that publishes; one whose token may expire; the members of a      *)
(* connectionId over three transports, with operations that wait for the   *)
(* worker at any time ("queued"), or with resumes that overlap everything  *)
(* but such operations ("resumed"); the registry of a process whose two    *)
(* connections may resume each other or not; the shutdown of such a        *)
(* process.                                                                *)
(***************************************************************************)
EXTENDS Connection, Lifecycle

CONSTANTS Clients, NumTransports, MaxOps, Shared

VARIABLES
    part,
    state, entered, waiting, members, serial, known, stale, wanted, ops

memberVars == <<state, entered, waiting, members, serial, known, stale, wanted, ops>>

Expiring == INSTANCE Connection WITH
        MaxFrames <- 2, MaxAuths <- 2, MaxDeliveries <- 1

Queued == INSTANCE Presence WITH
        Allowed <- {"detachQueued", "endQueued", "lateQueue"}, publishQ <- waiting, ids <- known

Resumed == INSTANCE Presence WITH
        Allowed <- {"lateTeardown", "enterDuringFire", "sameId"}, publishQ <- waiting, ids <- known

Registry == INSTANCE Lifecycle WITH Signals <- FALSE, Stuck <- FALSE

ASSUME
    /\ ConnectionAssumption /\ Expiring!ConnectionAssumption
    /\ Queued!PresenceAssumption /\ Resumed!PresenceAssumption
    /\ LifecycleAssumption /\ Registry!LifecycleAssumption

\* Of three frames at least two are new publishes; on a connection whose token may
\* expire, two frames are AUTHs.
FewFrames ==
    IF part = "publishing"
    THEN client'.frames > 2 => client'.serial > 1
    ELSE client'.frames > 1 => client'.frames = client'.auths

\* In the shutdown every connection brings the same connectionId, and one of them
\* enters presence or stops reading at a time.
InShutdown ==
    /\ \A c \in Conns : cid'[c] \subseteq Shared
    /\ \A c, d \in full' : c = d
    /\ \A c, d \in member' : c = d

MCInit ==
    /\ part \in {"publishing", "expiring", "queued", "resumed", "registry", "shutdown"}
    /\ Init /\ (part = "expiring" \/ authLoop = "idle")
    /\ Queued!Init /\ LifecycleInit

MCNext ==
    \/ part = "publishing" /\ Next /\ FewFrames /\ UNCHANGED <<part, memberVars, lifecycleVars>>
    \/ part = "expiring" /\ Expiring!Next /\ FewFrames /\ UNCHANGED <<part, memberVars, lifecycleVars>>
    \/ part = "queued" /\ Queued!Next /\ UNCHANGED <<part, vars, lifecycleVars>>
    \/ part = "resumed" /\ Resumed!Next /\ UNCHANGED <<part, vars, lifecycleVars>>
    \/ part = "registry" /\ Registry!LifecycleNext /\ UNCHANGED <<part, vars, memberVars>>
    \/ part = "shutdown" /\ LifecycleNext /\ InShutdown /\ UNCHANGED <<part, vars, memberVars>>

\* A loop of the connection that runs.
Loop(publishing, expiring) ==
    \/ part = "publishing" /\ publishing
    \/ part = "expiring" /\ expiring

\* The fairness of the part that runs.
MCSpec ==
    /\ MCInit /\ [][MCNext]_<<part, vars, memberVars, lifecycleVars>>
    /\ WF_vars(Loop(ReadLoop, Expiring!ReadLoop))
    /\ WF_vars(Loop(PublishLoop, Expiring!PublishLoop))
    /\ WF_vars(Loop(WriteLoop, Expiring!WriteLoop))
    /\ WF_vars(Loop(AuthLoop, Expiring!AuthLoop))
    /\ \A t \in 1..NumTransports :
        /\ WF_memberVars(part = "resumed" /\ Resumed!RunTask(t))
        /\ WF_memberVars(part = "resumed" /\ Resumed!EmitTeardownLeaves(t))
        /\ WF_memberVars(part = "resumed" /\ Resumed!ScheduleTeardownLeaves(t))
    /\ WF_memberVars(part = "resumed" /\ \E p \in stale : Resumed!Fire(p) \/ Resumed!FirePublish(p))
    /\ WF_lifecycleVars(part = "shutdown" /\ StopListening)
    /\ WF_lifecycleVars(part = "shutdown" /\ Snapshot)
    /\ WF_lifecycleVars(part = "shutdown" /\ CloseStorage)
    /\ WF_lifecycleVars(part = "shutdown" /\ Exit)
    /\ WF_lifecycleVars(part = "shutdown" /\ Expire)
    /\ \A c \in Conns : WF_lifecycleVars(part = "shutdown" /\ Disconnect(c))

------------------------------------------------------------------------------
\* A member that was entered and not left stays, whatever waits for a worker, if earlier
\* transports are torn down before its ENTER is committed; a member does not outlive its
\* connection, and after DETACH or LEAVE has been processed it is gone, whatever
\* transports overlap, if no operation waits when DETACH or the end of a connection
\* comes or a newer transport acts. The interleavings that each half leaves out are the
\* ones it fails under.
MembersFollowClients ==
    /\ part = "queued" => Queued!EnteredStay
    /\ part = "resumed" => Resumed!NoGhosts /\ Resumed!LeftAreGone

\* A publish that was accepted is answered, or the connection ends; when the socket is
\* closed, by whomever, the connection is torn down unless its read loop waits for a
\* channel that nobody serves; and the members of a connection that is gone are left,
\* unless it resumes.
ConnectionsWindUp ==
    /\ PublishesAnswered
    /\ WindsUp
    /\ part = "resumed" => Resumed!GoneAreLeft
==============================================================================
