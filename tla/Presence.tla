------------------------------ MODULE Presence ------------------------------
\* Presence members of one connectionId on one channel (internal/realtime): the
\* entered set a connection keeps on its read loop, the operations that wait for its
\* publish worker, the LEAVEs synthesised at DETACH and at the end of a connection,
\* and the LEAVEs delayed for the time a client has to resume.
\*
\* A transport is one WebSocket connection; those that resume an earlier one carry the
\* same connectionId. The members are what storage holds under that connectionId.

EXTENDS Naturals, Sequences, FiniteSets

CONSTANTS
    NumTransports,  \* number of WebSocket connections of the connectionId
    Clients,        \* clientIds a connection enters
    Allowed,        \* which of Races may happen
    MaxOps          \* bound on the ENTERs and LEAVEs clients send

\* What a run may leave out: DETACH while operations wait for the worker; the end of a
\* connection while operations wait; an operation of a transport committed before those that
\* an older one still has waiting; an ENTER committed before an older transport is torn
\* down; one committed between the two halves of a delayed LEAVE; a re-enter that repeats
\* its id.
Races == {"detachQueued", "endQueued", "lateQueue", "lateTeardown", "enterDuringFire", "sameId"}

Transports == 1..NumTransports
NoTransport == 0
Absent == 0
Serials == 0..(2 * MaxOps + NumTransports)

PresenceAssumption ==
    /\ NumTransports \in Nat
    /\ Allowed \subseteq Races
    /\ MaxOps \in Nat

VARIABLES
    state,      \* transport -> "new" | "open" | "closing" (deliberate) | "dropped",
                \* then "closed" or "over"
    entered,    \* transport -> clientIds to leave at DETACH and teardown
    publishQ,   \* transport -> presence operations waiting for the worker
    members,    \* clientId -> serial of its entry in the membership set, or Absent
    serial,     \* serial of the channel's last cm
    ids,        \* ids the idempotency index knows
    stale,      \* delayed LEAVEs: what was captured, and what is about to be left
    wanted,     \* history: clientId -> the transport its client entered it on last
    ops         \* operations sent so far

vars == <<state, entered, publishQ, members, serial, ids, stale, wanted, ops>>

Actions == {"enter", "leave"}
MemberIds == [transport : Transports, n : 0..MaxOps, action : Actions, client : Clients]
Operations == [action : Actions, client : Clients, id : MemberIds]
Captures == [transport : Transports, owned : [Clients -> Serials], leaves : SUBSET Clients,
             stage : {"waiting", "publishing"}]

Init ==
    /\ state = [t \in Transports |-> "new"]
    /\ entered = [t \in Transports |-> {}]
    /\ publishQ = [t \in Transports |-> <<>>]
    /\ members = [c \in Clients |-> Absent]
    /\ serial = 0
    /\ ids = {}
    /\ stale = {}
    /\ wanted = [c \in Clients |-> NoTransport]
    /\ ops = 0

\* The transport the client uses: once it has resumed, it does nothing on an older one.
Current(t) == state[t] = "open" /\ \A u \in Transports : u > t => state[u] = "new"

\* HandleWebSocket: a fresh connection, or one that resumes the connectionId, whatever the
\* server knows of the older ones. A client that has sent CLOSE does not resume.
Connect(t) ==
    /\ state[t] = "new"
    /\ \A u \in Transports : u < t => state[u] # "new"
    /\ \A u \in Transports : state[u] \notin {"closing", "closed"}
    /\ state' = [state EXCEPT ![t] = "open"]
    /\ UNCHANGED <<entered, publishQ, members, serial, ids, stale, wanted, ops>>

\* StorePresence commits one cm in which all of cs leave.
Left(cs) ==
    /\ serial' = serial + 1
    /\ members' = [c \in Clients |-> IF c \in cs THEN Absent ELSE members[c]]

------------------------------------------------------------------------------
\* The read loop: handlePresence.

Operation(t, action, c, id) ==
    /\ Current(t)
    /\ ops < MaxOps
    /\ ops' = ops + 1
    /\ publishQ' = [publishQ EXCEPT ![t] = Append(@, [action |-> action, client |-> c, id |-> id])]
    /\ UNCHANGED <<state, members, serial, ids, stale>>

\* The id is the client's, or minted from connectionId and msgSerial. A client that
\* re-enters a member after a resume may repeat the id it entered it with.
Repeatable(t, c) ==
    {id \in ids : "sameId" \in Allowed /\ wanted[c] # t /\ id.transport = wanted[c]
                  /\ id.action = "enter" /\ id.client = c}
NewId(t, action, c) == [transport |-> t, n |-> ops, action |-> action, client |-> c]

\* ENTER and UPDATE: recorded on the read loop, before the store has it.
Enter(t, c) ==
    /\ entered' = [entered EXCEPT ![t] = @ \cup {c}]
    /\ wanted' = [wanted EXCEPT ![c] = t]
    /\ \E id \in {NewId(t, "enter", c)} \cup Repeatable(t, c) : Operation(t, "enter", c, id)

\* LEAVE: taken out of the entered set on the read loop.
Leave(t, c) ==
    /\ entered' = [entered EXCEPT ![t] = @ \ {c}]
    /\ wanted' = [wanted EXCEPT ![c] = NoTransport]
    /\ Operation(t, "leave", c, NewId(t, "leave", c))

\* handleDetach, and an AUTH that takes the channel away: leaveChannel publishes the
\* LEAVEs from the read loop.
Detach(t) ==
    /\ Current(t)
    /\ entered[t] # {}
    /\ "detachQueued" \in Allowed \/ publishQ[t] = <<>>
    /\ Left(entered[t])
    /\ entered' = [entered EXCEPT ![t] = {}]
    /\ wanted' = [c \in Clients |-> IF wanted[c] = t THEN NoTransport ELSE wanted[c]]
    /\ UNCHANGED <<state, publishQ, ids, stale, ops>>

------------------------------------------------------------------------------
\* The publish worker.

\* StorePresence of the next operation. An id seen before changes nothing. A worker whose
\* context is cancelled may still take an operation.
RunTask(t) ==
    /\ state[t] \in {"open", "closing", "dropped"}
    /\ Len(publishQ[t]) > 0
    /\ "lateQueue" \in Allowed \/ \A u \in Transports : u < t => publishQ[u] = <<>>
    /\ LET o == publishQ[t][1] IN
        /\ "lateTeardown" \in Allowed \/ o.action = "leave" \/ \A u \in Transports : u < t => state[u] = "over"
        /\ "enterDuringFire" \in Allowed
            \/ \A p \in stale : p.stage = "publishing" => o.client \notin p.leaves
        /\ IF o.id \in ids
           THEN UNCHANGED <<members, serial, ids>>
           ELSE /\ serial' = serial + 1
                /\ members' = [members EXCEPT ![o.client] = IF o.action = "enter" THEN serial + 1 ELSE Absent]
                /\ ids' = ids \cup {o.id}
    /\ publishQ' = [publishQ EXCEPT ![t] = Tail(@)]
    /\ UNCHANGED <<state, entered, stale, wanted, ops>>

------------------------------------------------------------------------------
\* The end of a connection.

\* The read loop returns: after CLOSE or a shutdown, or abruptly.
End(t, how) ==
    /\ state[t] = "open"
    /\ how = "closing" => Current(t)
    /\ "endQueued" \in Allowed \/ publishQ[t] = <<>>
    /\ state' = [state EXCEPT ![t] = how]
    /\ wanted' = [c \in Clients |-> IF how = "closing" /\ wanted[c] = t THEN NoTransport ELSE wanted[c]]
    /\ UNCHANGED <<entered, publishQ, members, serial, ids, stale, ops>>

\* The worker is gone, with the operations it did not take. A deliberate departure
\* leaves at once ...
EmitTeardownLeaves(t) ==
    /\ state[t] = "closing"
    /\ IF entered[t] = {} THEN UNCHANGED <<members, serial>> ELSE Left(entered[t])
    /\ state' = [state EXCEPT ![t] = "closed"]
    /\ entered' = [entered EXCEPT ![t] = {}]
    /\ publishQ' = [publishQ EXCEPT ![t] = <<>>]
    /\ UNCHANGED <<ids, stale, wanted, ops>>

\* ... and an abrupt one captures the members that storage has for the connectionId, to
\* leave them later. Channels on which nothing was entered are not looked at.
ScheduleTeardownLeaves(t) ==
    /\ state[t] = "dropped"
    /\ stale' = IF entered[t] = {} \/ \A c \in Clients : members[c] = Absent THEN stale
                ELSE stale \cup {[transport |-> t, owned |-> members, leaves |-> {}, stage |-> "waiting"]}
    /\ state' = [state EXCEPT ![t] = "over"]
    /\ entered' = [entered EXCEPT ![t] = {}]
    /\ publishQ' = [publishQ EXCEPT ![t] = <<>>]
    /\ UNCHANGED <<members, serial, ids, wanted, ops>>

\* Faulty Superseded: whoever is present is left, re-entered or not.
Superseded_Never(p, c) == members[c] = Absent

\* fireConnectionLeaves leaves alone what was left or re-entered since the capture.
Superseded(p, c) == members[c] # p.owned[c]

\* After remainPresentFor: compare the captured serials with the set, ...
Fire(p) ==
    LET leaves == {c \in Clients : p.owned[c] # Absent /\ ~Superseded(p, c)} IN
    /\ p.stage = "waiting"
    /\ stale' = (stale \ {p}) \cup (IF leaves = {} THEN {} ELSE {[p EXCEPT !.leaves = leaves, !.stage = "publishing"]})
    /\ UNCHANGED <<state, entered, publishQ, members, serial, ids, wanted, ops>>

\* ... then publish the LEAVEs.
FirePublish(p) ==
    /\ p.stage = "publishing"
    /\ Left(p.leaves)
    /\ stale' = stale \ {p}
    /\ UNCHANGED <<state, entered, publishQ, ids, wanted, ops>>

------------------------------------------------------------------------------
Next ==
    \/ \E t \in Transports : Connect(t) \/ Detach(t) \/ RunTask(t)
    \/ \E t \in Transports, c \in Clients : Enter(t, c) \/ Leave(t, c)
    \/ \E t \in Transports : End(t, "closing") \/ End(t, "dropped")
    \/ \E t \in Transports : EmitTeardownLeaves(t) \/ ScheduleTeardownLeaves(t)
    \/ \E p \in stale : Fire(p) \/ FirePublish(p)

\* The goroutines of a connection and the timers of the delayed LEAVEs run on.
Fairness ==
    /\ \A t \in Transports : WF_vars(RunTask(t)) /\ WF_vars(EmitTeardownLeaves(t)) /\ WF_vars(ScheduleTeardownLeaves(t))
    /\ WF_vars(\E p \in stale : Fire(p) \/ FirePublish(p))

Spec == Init /\ [][Next]_vars
FairSpec == Spec /\ Fairness

------------------------------------------------------------------------------
\* Every variable has its type; no member is newer than the last serial minted.
TypeOK ==
    /\ state \in [Transports -> {"new", "open", "closing", "dropped", "closed", "over"}]
    /\ entered \in [Transports -> SUBSET Clients]
    /\ publishQ \in [Transports -> Seq(Operations)]
    /\ members \in [Clients -> Serials]
    /\ serial \in Serials
    /\ \A c \in Clients : members[c] <= serial
    /\ ids \subseteq MemberIds
    /\ stale \subseteq Captures
    /\ wanted \in [Clients -> Transports \cup {NoTransport}]
    /\ ops \in 0..MaxOps

Settled(t) == state[t] = "open" /\ publishQ[t] = <<>>
Over(t) == state[t] \in {"new", "closed", "over"}

\* A member does not outlive the connection that entered it: when every transport is over
\* and no LEAVE is pending, the set is empty. It fails where DETACH or the end of the
\* connection finds operations that still wait for the worker.
NoGhosts ==
    (\A t \in Transports : Over(t)) /\ stale = {} => \A c \in Clients : members[c] = Absent

\* A member that was entered on an open connection and not left stays in the set: the
\* delayed LEAVEs of an earlier transport are suppressed for members that were re-entered.
\* It fails where the earlier transport is torn down after the ENTER and takes the new
\* entry for its own, where the ENTER falls between the comparison and the LEAVEs, and
\* where it repeats its id.
EnteredStay == \A t \in Transports, c \in Clients : Settled(t) /\ Current(t) /\ wanted[c] = t => members[c] # Absent

\* After DETACH or LEAVE has been processed, the member is gone. It fails where operations
\* wait for the worker of this or of an older transport.
LeftAreGone ==
    (\A t \in Transports : Over(t) \/ Settled(t)) /\ stale = {}
        => \A c \in Clients : wanted[c] = NoTransport => members[c] = Absent

\* Members of a connection that is gone are left, unless it resumes.
GoneAreLeft ==
    []<>((\E t \in Transports : state[t] = "open") \/ \A c \in Clients : members[c] = Absent)
==============================================================================
