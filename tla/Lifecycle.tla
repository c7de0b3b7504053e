----------------------------- MODULE Lifecycle -----------------------------
(***************************************************************************)
(* The registry of connections, and the end of the process: the server     *)
(* keeps every connection and finds it by its connectionId, a client that  *)
(* resumes brings the connectionId of an earlier connection, and at        *)
(* SIGTERM the listener closes, every connection is told to go, storage    *)
(* closes and the process exits.                                           *)
(*                                                                         *)
(* A connection is what its read loop and its write loop are at; each may  *)
(* have one presence member in a store that outlives the process.  The     *)
(* details of a connection's goroutines are in Connection, those of        *)
(* delayed LEAVEs in Presence, where connections with one connectionId     *)
(* also share their members, which they do not here.                       *)
(***************************************************************************)
EXTENDS Naturals, FiniteSets

CONSTANTS
    Conns,      \* connections, over the life of the process
    Ids,        \* connectionIds
    Resumes,    \* a connection may bring the connectionId of another
    Signals,    \* SIGTERM may come
    Stuck       \* clients may stop reading

LifecycleAssumption == {Resumes, Signals, Stuck} \subseteq BOOLEAN

VARIABLES
    life,       \* where the run of a connection is
    cid,        \* its connectionId, once it has one
    clean,      \* connections whose client sent CLOSE
    shuttingDown, \* connections marked by the shutdown
    queued,     \* connections with DISCONNECTED in their outbound queue
    full,       \* connections with a full outbound queue
    told,       \* connections that were sent DISCONNECTED
    forced,     \* connections closed at the deadline
    conns,      \* the registry
    byKey,      \* the registry by connectionId: a connection or none
    member,     \* connections with a member in the store
    pending,    \* connections with a delayed LEAVE
    lost,       \* connections whose LEAVE the closed store turned down
    phase,      \* the shutdown
    todo,       \* connections it still has to disconnect
    listening,  \* the listener is open
    late,       \* the grace window of the shutdown is over
    reaperDone  \* delayed LEAVEs are abandoned

connVars == <<life, cid, clean, shuttingDown, queued, full, told, forced>>
lifecycleVars == <<connVars, conns, byKey, member, pending, lost, phase, todo, listening, late, reaperDone>>

LifecycleInit ==
    /\ life = [c \in Conns |-> "none"] /\ cid = [c \in Conns |-> {}]
    /\ clean = {} /\ shuttingDown = {} /\ queued = {} /\ full = {} /\ told = {} /\ forced = {}
    /\ conns = {} /\ byKey = [i \in Ids |-> {}]
    /\ member = {} /\ pending = {} /\ lost = {}
    /\ phase = "serving" /\ todo = {} /\ listening = TRUE /\ late = FALSE /\ reaperDone = FALSE

Alive == phase # "exited"
Goes(c, l) == life' = [life EXCEPT ![c] = l]
OnlyLife == UNCHANGED <<cid, clean, shuttingDown, queued, full, told, forced>>

-----------------------------------------------------------------------------
(***************************************************************************)
(* A connection's life.                                                    *)
(***************************************************************************)
\* The request arrives, is authenticated and still counts as a request.
Accept(c) ==
    /\ Alive /\ listening /\ life[c] = "none"
    /\ Goes(c, "accepted") /\ OnlyLife
    /\ UNCHANGED <<conns, byKey, member, pending, lost, phase, todo, listening, late, reaperDone>>

\* The upgrade takes the socket from the HTTP server, and the connectionId is
\* chosen.
Upgrade(c, i) ==
    /\ Alive /\ life[c] = "accepted"
    /\ Resumes \/ \A d \in Conns : cid[d] # {i}
    /\ Goes(c, "upgraded") /\ cid' = [cid EXCEPT ![c] = {i}]
    /\ UNCHANGED <<clean, shuttingDown, queued, full, told, forced>>
    /\ UNCHANGED <<conns, byKey, member, pending, lost, phase, todo, listening, late, reaperDone>>

Register(c) ==
    /\ Alive /\ life[c] = "upgraded"
    /\ Goes(c, "open") /\ OnlyLife
    /\ conns' = conns \cup {c}
    /\ byKey' = [i \in Ids |-> IF cid[c] = {i} THEN {c} ELSE byKey[i]]
    /\ UNCHANGED <<member, pending, lost, phase, todo, listening, late, reaperDone>>

\* The worker commits an ENTER, of a frame read before the connection ended.
Enter(c) ==
    /\ Alive /\ life[c] \in {"open", "ended"} /\ phase # "closed"
    /\ member' = member \cup {c}
    /\ UNCHANGED <<connVars, conns, byKey, pending, lost, phase, todo, listening, late, reaperDone>>

\* The client sends CLOSE, or is gone.
ReadEnds(c, closed) ==
    /\ Alive /\ life[c] = "open"
    /\ Goes(c, "ended") /\ clean' = IF closed THEN clean \cup {c} ELSE clean
    /\ UNCHANGED <<cid, shuttingDown, queued, full, told, forced>>
    /\ UNCHANGED <<conns, byKey, member, pending, lost, phase, todo, listening, late, reaperDone>>

\* The client stops reading, and the outbound queue fills.
Fill(c) ==
    /\ Alive /\ Stuck /\ life[c] = "open" /\ c \notin queued
    /\ full' = full \cup {c}
    /\ UNCHANGED <<life, cid, clean, shuttingDown, queued, told, forced>>
    /\ UNCHANGED <<conns, byKey, member, pending, lost, phase, todo, listening, late, reaperDone>>

\* The write loop: once DISCONNECTED is written, the socket is closed.
WriteFrame(c) ==
    /\ Alive /\ life[c] = "open" /\ (c \in queued \/ c \in full)
    /\ IF c \in queued THEN Goes(c, "ended") /\ told' = told \cup {c} /\ UNCHANGED full
       ELSE full' = full \ {c} /\ UNCHANGED <<life, told>>
    /\ UNCHANGED <<cid, clean, shuttingDown, queued, forced>>
    /\ UNCHANGED <<conns, byKey, member, pending, lost, phase, todo, listening, late, reaperDone>>

\* The end of run: LEAVEs at once, or later unless delayed LEAVEs are over.
Teardown(c) ==
    /\ Alive /\ life[c] = "ended"
    /\ IF c \in clean \/ c \in shuttingDown
       THEN Goes(c, "leaving") /\ UNCHANGED pending
       ELSE /\ Goes(c, "left")
            /\ pending' = IF reaperDone THEN pending ELSE pending \cup ({c} \cap member)
    /\ OnlyLife /\ UNCHANGED <<conns, byKey, member, lost, phase, todo, listening, late, reaperDone>>

PublishLeaves(c) ==
    /\ Alive /\ life[c] = "leaving"
    /\ Goes(c, "left") /\ OnlyLife
    /\ IF phase = "closed" THEN lost' = lost \cup ({c} \cap member) /\ UNCHANGED member
       ELSE member' = member \ {c} /\ UNCHANGED lost
    /\ UNCHANGED <<conns, byKey, pending, phase, todo, listening, late, reaperDone>>

\* Faulty Deregister: leaves the connectionId behind.
Deregister_KeepsKey(c) ==
    /\ Alive /\ life[c] = "left"
    /\ Goes(c, "gone") /\ OnlyLife
    /\ conns' = conns \ {c}
    /\ UNCHANGED <<byKey, member, pending, lost, phase, todo, listening, late, reaperDone>>

Deregister(c) ==
    /\ Alive /\ life[c] = "left"
    /\ Goes(c, "gone") /\ OnlyLife
    /\ conns' = conns \ {c}
    /\ byKey' = [i \in Ids |-> byKey[i] \ {c}]
    /\ UNCHANGED <<member, pending, lost, phase, todo, listening, late, reaperDone>>

\* A delayed LEAVE; once the reaper is stopped it is dropped instead.
Fire(c) ==
    /\ Alive /\ c \in pending
    /\ pending' = pending \ {c}
    /\ member' = IF reaperDone THEN member ELSE member \ {c}
    /\ UNCHANGED <<connVars, conns, byKey, lost, phase, todo, listening, late, reaperDone>>

-----------------------------------------------------------------------------
(***************************************************************************)
(* Shutdown.                                                               *)
(***************************************************************************)
\* SIGTERM; Shutdown stops the reaper first.
Signal ==
    /\ Signals /\ phase = "serving"
    /\ phase' = "stopping" /\ reaperDone' = TRUE
    /\ UNCHANGED <<connVars, conns, byKey, member, pending, lost, todo, listening, late>>

\* srv.Shutdown closes the listener, in a goroutine of its own.
StopListening ==
    /\ Alive /\ phase # "serving" /\ listening
    /\ listening' = FALSE
    /\ UNCHANGED <<connVars, conns, byKey, member, pending, lost, phase, todo, late, reaperDone>>

Snapshot ==
    /\ phase = "stopping"
    /\ todo' = conns
    /\ phase' = IF conns = {} THEN "returned" ELSE "disconnecting"
    /\ UNCHANGED <<connVars, conns, byKey, member, pending, lost, listening, late, reaperDone>>

\* Between two connections Shutdown waits.
Pace == phase' = IF todo' = {} THEN "returned" ELSE "pacing"

\* An open connection gets DISCONNECTED, or is closed when the queue is full.
Tell(c) ==
    /\ IF life[c] # "open" THEN UNCHANGED <<life, queued>>
       ELSE IF c \in full THEN Goes(c, "ended") /\ UNCHANGED queued
       ELSE queued' = queued \cup {c} /\ UNCHANGED life
    /\ UNCHANGED <<cid, clean, full, told, forced>>

\* Faulty Disconnect: waits for room in the outbound queue.
Disconnect_Blocks(c) ==
    /\ phase \in {"disconnecting", "pacing"} /\ c \in todo /\ c \notin full
    /\ shuttingDown' = shuttingDown \cup {c}
    /\ queued' = IF life[c] = "open" THEN queued \cup {c} ELSE queued
    /\ UNCHANGED <<life, cid, clean, full, told, forced>>
    /\ todo' = todo \ {c} /\ Pace
    /\ UNCHANGED <<conns, byKey, member, pending, lost, listening, late, reaperDone>>

\* Faulty Disconnect: the departure is not marked as deliberate.
Disconnect_Unmarked(c) ==
    /\ phase \in {"disconnecting", "pacing"} /\ c \in todo
    /\ UNCHANGED shuttingDown /\ Tell(c)
    /\ todo' = todo \ {c} /\ Pace
    /\ UNCHANGED <<conns, byKey, member, pending, lost, listening, late, reaperDone>>

\* disconnect: DISCONNECTED is queued, or the socket closed when the queue is
\* full. Shutdown returns after the last one.
Disconnect(c) ==
    /\ phase \in {"disconnecting", "pacing"} /\ c \in todo
    /\ shuttingDown' = shuttingDown \cup {c} /\ Tell(c)
    /\ todo' = todo \ {c} /\ Pace
    /\ UNCHANGED <<conns, byKey, member, pending, lost, listening, late, reaperDone>>

\* The grace window ends.
Expire ==
    /\ Alive /\ phase # "serving" /\ ~late
    /\ late' = TRUE
    /\ UNCHANGED <<connVars, conns, byKey, member, pending, lost, phase, todo, listening, reaperDone>>

\* Shutdown, waiting to disconnect the next one, closes the stragglers.
ForceClose ==
    /\ phase = "pacing" /\ late
    /\ LET stragglers == {c \in todo : life[c] = "open"} IN
        /\ life' = [c \in Conns |-> IF c \in stragglers THEN "ended" ELSE life[c]]
        /\ forced' = forced \cup stragglers
    /\ UNCHANGED <<cid, clean, shuttingDown, queued, full, told>>
    /\ todo' = {} /\ phase' = "returned"
    /\ UNCHANGED <<conns, byKey, member, pending, lost, listening, late, reaperDone>>

\* srv.Shutdown is done when no request is left, which an upgraded one is not,
\* or the window is over; then Run returns and closes storage.
CloseStorage ==
    /\ phase = "returned" /\ ~listening
    /\ late \/ \A c \in Conns : life[c] # "accepted"
    /\ phase' = "closed"
    /\ UNCHANGED <<connVars, conns, byKey, member, pending, lost, todo, listening, late, reaperDone>>

Exit ==
    /\ phase = "closed" /\ phase' = "exited"
    /\ UNCHANGED <<connVars, conns, byKey, member, pending, lost, todo, listening, late, reaperDone>>

-----------------------------------------------------------------------------
LifecycleNext ==
    \/ \E c \in Conns :
        \/ Accept(c) \/ Register(c) \/ Enter(c) \/ Fill(c) \/ WriteFrame(c) \/ Teardown(c)
        \/ PublishLeaves(c) \/ Deregister(c) \/ Fire(c) \/ Disconnect(c)
        \/ \E i \in Ids : Upgrade(c, i)
        \/ \E closed \in BOOLEAN : ReadEnds(c, closed)
    \/ Signal \/ StopListening \/ Snapshot \/ Expire \/ ForceClose \/ CloseStorage \/ Exit

LifecycleSpec == LifecycleInit /\ [][LifecycleNext]_lifecycleVars

\* Goroutines of the server run; what clients do, or that a write gets through
\* to one, is not assumed.
LifecycleFairSpec ==
    /\ LifecycleSpec
    /\ WF_lifecycleVars(StopListening) /\ WF_lifecycleVars(Snapshot)
    /\ WF_lifecycleVars(CloseStorage) /\ WF_lifecycleVars(Exit)
    /\ \A c \in Conns : WF_lifecycleVars(Disconnect(c))
    /\ WF_lifecycleVars(Expire)

-----------------------------------------------------------------------------
\* Every variable has its type, and the registry holds the connections whose
\* run has not returned.
LifecycleTypeOK ==
    /\ \A c \in Conns : Cardinality(cid[c]) <= 1
    /\ conns = {c \in Conns : life[c] \in {"open", "ended", "leaving", "left"}}
    /\ member \subseteq Conns /\ pending \subseteq Conns /\ todo \subseteq Conns
    /\ phase \in {"serving", "stopping", "disconnecting", "pacing", "returned", "closed", "exited"}

\* A connectionId resolves to a connection that has it and is still registered,
\* whatever the order in which connections with one id come and go.
KeyNamesLive == \A i \in Ids : \A c \in byKey[i] : c \in conns /\ cid[c] = {i}

\* A client that was sent DISCONNECTED by the shutdown has left presence, at
\* once, unless storage was closed first.
ToldHaveLeft ==
    \A c \in Conns : c \in told /\ life[c] \in {"left", "gone"} => c \notin member \/ c \in lost

\* Once SIGTERM came the process exits, whatever clients do.
ShutdownEnds == []<>(phase \in {"serving", "exited"})

\* A connectionId resolves as long as some connection has it.
KeyResolves == \A c \in conns : life[c] = "open" => \E i \in Ids : cid[c] = {i} /\ byKey[i] # {}

\* When Shutdown has returned, every connection has been disconnected.
DisconnectedOnReturn ==
    phase \in {"returned", "closed"} =>
        \A c \in conns : life[c] = "open" => c \in queued

\* A connection the shutdown closes at the deadline leaves presence at once.
ForcedHaveLeft ==
    \A c \in Conns : c \in forced /\ life[c] \in {"left", "gone"} => c \notin member \/ c \in lost

\* No connection the shutdown has told to go leaves a member behind.
LeavesPublished == phase = "exited" => \A c \in Conns : c \in told => c \notin member
=============================================================================
