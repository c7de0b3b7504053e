----------------------------- MODULE Operations -----------------------------
(***************************************************************************)
(* Operations on one channel, from one realtime connection and from REST   *)
(* requests: which are accepted, under which capability and identity, and  *)
(* what becomes of the ones the publish worker or a handler still has to   *)
(* carry out while the token is renewed and others write.                  *)
(*                                                                         *)
(* An answer is an ACK or a NACK (a 2xx or an error status); its code and  *)
(* the body are left out.  Order of answers and the life of the            *)
(* connection are in Connection, presence sets in Presence.                *)
(***************************************************************************)
EXTENDS Identity

CONSTANTS
    Operations,     \* operations clients ask for: [kind, act, target, as, data, flaw]
    ConnectionIds,  \* identities the connection may have
    Capabilities,   \* capabilities its tokens may have
    Principals,     \* who makes REST requests: [id, cap]
    RestRequests,   \* REST requests
    RequestedModes, \* sets of modes an ATTACH asks for
    Channel,        \* the channel's name, as a path
    MayFail,        \* the store may fail
    MaxAsked,       \* bound: frames of the connection
    MaxMessages     \* bound: messages created

Kinds == {"publish", "mutate", "annotate", "presence", "read"}
Flaws == {"none",   \* a good request
          "name",   \* an invalid channel name
          "shape"}  \* no payload, a wrong number of messages, no serial, a bad type or id

ASSUME OperationsAssumption ==
    /\ \A o \in Operations : /\ o.kind \in Kinds /\ o.flaw \in Flaws /\ o.target \in 0..MaxMessages
                             /\ o.flaw = "name" => o.kind \in {"publish", "mutate"}
    /\ \A c \in Capabilities \cup {p.cap : p \in Principals} : IsCapability(c)
    /\ Channel \in Paths /\ MayFail \in BOOLEAN

VARIABLES
    session,    \* the connection: [id, cap, requested, modes]; no modes: not attached
    jobs,       \* what is queued for the publish worker
    working,    \* the mutation the worker has authorised, if any
    rest,       \* REST requests: [pc, op, by]
    msgs,       \* the messages, latest version each: [creator, by, data]
    ledger,     \* what was carried out: [n, op, id, held, creator], n a frame's number or 0
    asked,      \* number of frames the connection has sent
    acked,      \* numbers of those answered with an ACK,
    nacked      \* and of those answered with a NACK

operationVars == <<session, jobs, working, rest, msgs, ledger, asked, acked, nacked>>

NoPrincipal == [id |-> Anonymous, cap |-> << >>]

OperationsInit ==
    /\ session \in [id : ConnectionIds, cap : Capabilities, requested : {{}}, modes : {{}}]
    /\ jobs = <<>> /\ working = {}
    /\ rest = [r \in RestRequests |-> [pc |-> "idle", op |-> {}, by |-> NoPrincipal]]
    /\ msgs = <<>> /\ ledger = {}
    /\ asked = 0 /\ acked = {} /\ nacked = {}

-----------------------------------------------------------------------------
(***************************************************************************)
(* Who may do what.                                                        *)
(***************************************************************************)
ModeOps == [publish |-> "publish", presence |-> "presence", annotation_publish |-> "annotation-publish"]
PermittedModes(cap) == {mode \in DOMAIN ModeOps : Permits(cap, Channel, ModeOps[mode])}

\* mutationOps: the -own and the -any operation of an action.
MutationOps(act) ==
    IF act = "delete" THEN <<"message-delete-own", "message-delete-any">>
    ELSE <<"message-update-own", "message-update-any">>

OwnsMessage(id, creator) == id \notin {Anonymous, Wild} /\ id = creator

\* Faulty AuthorizeMutation: a caller with -own needs no lookup.
AuthorizeMutation_NoLookup(id, cap, op) ==
    LET ops == MutationOps(op.act) IN MutationGrant(cap, Channel, ops[1], ops[2]) # "denied"

\* authorizeMutation, of the connection and of REST: LatestVersion is read
\* only when the caller has just the -own operation.
AuthorizeMutation(id, cap, op) ==
    LET ops == MutationOps(op.act)
        grant == MutationGrant(cap, Channel, ops[1], ops[2])
    IN \/ grant = "allowed"
       \/ /\ grant = "needsOwnership"
          /\ op.target \in DOMAIN msgs /\ OwnsMessage(id, msgs[op.target].creator)

\* The identity an operation is stamped with.
Stamp(id, op) == IF op.kind = "presence" THEN PresenceClientID(id, op.as) ELSE MessageClientID(id, op.as)

\* Annotation.Validate: some aggregations need an identity; act is the aggregation.
Validate(op, stamped) == op.flaw # "shape" /\ ~(op.act = "unique" /\ stamped = Anonymous)

-----------------------------------------------------------------------------
(***************************************************************************)
(* The store.                                                              *)
(***************************************************************************)
\* MergeVersion, of data by its type.
MergeVersion(m, op, stamped) ==
    [m EXCEPT !.by = stamped, !.data = IF op.data = "none" THEN @ ELSE op.data]

\* concatData: appends are for text onto text.
ConcatData(m, op) == op.data = "none" \/ m.data = "none" \/ (m.data = "text" /\ op.data = "text")

Mutates(op) ==
    /\ op.target \in DOMAIN msgs
    /\ op.act = "append" => ConcatData(msgs[op.target], op)

\* Whether the store carries op out, for a caller with this identity.
Accepts(op) ==
    CASE op.kind = "publish" -> Len(msgs) < MaxMessages
      [] op.kind = "mutate"  -> Mutates(op)
      [] op.kind \in {"annotate", "read"} -> op.target \in DOMAIN msgs
      [] op.kind = "presence" -> TRUE

Commit(n, op, id, held) ==
    LET stamped == Stamp(id, op) IN
    /\ msgs' = CASE op.kind = "publish" ->
                      Append(msgs, [creator |-> stamped, by |-> stamped, data |-> op.data])
                 [] op.kind = "mutate" ->
                      [msgs EXCEPT ![op.target] = MergeVersion(@, op, stamped)]
                 [] OTHER -> msgs
    /\ ledger' = ledger \cup {[n |-> n, op |-> op, id |-> id, held |-> held,
                               creator |-> IF op.kind = "mutate" THEN {msgs[op.target].creator} ELSE {}]}

Outcomes(op) == IF Accepts(op) THEN IF MayFail THEN {TRUE, FALSE} ELSE {TRUE} ELSE {FALSE}

-----------------------------------------------------------------------------
(***************************************************************************)
(* The connection's read loop.  What it turns down is queued for the       *)
(* worker too, so that its NACK keeps its place.                           *)
(***************************************************************************)
Reads == asked < MaxAsked /\ asked' = asked + 1

Enqueue(op, good) == jobs' = Append(jobs, [n |-> asked + 1, op |-> op, good |-> good, held |-> {session.cap}])

\* handleMessage, of creations; without an attachment the capability alone counts.
HandleMessage(op) ==
    /\ op.kind = "publish" /\ Reads
    /\ Enqueue(op, /\ op.flaw = "none"
                   /\ session.modes # {} => "publish" \in session.modes
                   /\ Permits(session.cap, Channel, "publish")
                   /\ Stamp(session.id, op) # Rejected)
    /\ UNCHANGED <<session, working, rest, msgs, ledger, acked, nacked>>

\* handleMutation: the capability is left to the worker.
HandleMutation(op) ==
    /\ op.kind = "mutate" /\ Reads
    /\ Enqueue(op, op.flaw = "none" /\ Stamp(session.id, op) # Rejected)
    /\ UNCHANGED <<session, working, rest, msgs, ledger, acked, nacked>>

HandleAnnotation(op) ==
    /\ op.kind = "annotate" /\ Reads
    /\ Enqueue(op, /\ "annotation_publish" \in session.modes
                   /\ Permits(session.cap, Channel, "annotation-publish")
                   /\ Stamp(session.id, op) # Rejected
                   /\ Validate(op, Stamp(session.id, op)))
    /\ UNCHANGED <<session, working, rest, msgs, ledger, acked, nacked>>

HandlePresence(op) ==
    /\ op.kind = "presence" /\ Reads
    /\ Enqueue(op, op.flaw = "none" /\ "presence" \in session.modes /\ Stamp(session.id, op) # Rejected)
    /\ UNCHANGED <<session, working, rest, msgs, ledger, acked, nacked>>

\* handleAttach, as far as these modes go; one that is refused changes nothing.
HandleAttach(requested) ==
    /\ session.requested # requested
    /\ requested \cap PermittedModes(session.cap) # {}
    /\ session' = [session EXCEPT !.requested = requested, !.modes = requested \cap PermittedModes(session.cap)]
    /\ UNCHANGED <<jobs, working, rest, msgs, ledger, asked, acked, nacked>>

\* handleAuth and reconcileAttachmentCapabilities. What is under way has now
\* also been held under the new capability.
ReconcileCapabilities(cap) ==
    LET modes == session.requested \cap PermittedModes(cap)
        Hold(job) == [job EXCEPT !.held = @ \cup {cap}]
    IN
    /\ cap # session.cap
    /\ session' = [session EXCEPT !.cap = cap, !.modes = modes,
                            !.requested = IF modes = {} THEN {} ELSE @]
    /\ jobs' = [i \in DOMAIN jobs |-> Hold(jobs[i])]
    /\ working' = {Hold(job) : job \in working}
    /\ UNCHANGED <<rest, msgs, ledger, asked, acked, nacked>>

-----------------------------------------------------------------------------
(***************************************************************************)
(* The publish worker.                                                     *)
(***************************************************************************)
Nack(job) == nacked' = nacked \cup {job.n} /\ UNCHANGED <<acked, msgs, ledger>>
Ack(job) == acked' = acked \cup {job.n} /\ UNCHANGED nacked /\ Commit(job.n, job.op, session.id, job.held)

\* A NACK that was queued, a publish, an annotation or a presence operation.
RunJob ==
    /\ working = {} /\ jobs # <<>>
    /\ LET job == Head(jobs) IN
        \/ /\ ~job.good /\ Nack(job)
           /\ UNCHANGED working
        \/ /\ job.good /\ job.op.kind # "mutate"
           /\ \E ok \in Outcomes(job.op) : IF ok THEN Ack(job) ELSE Nack(job)
           /\ UNCHANGED working
        \/ /\ job.good /\ job.op.kind = "mutate"
           /\ IF AuthorizeMutation(session.id, session.cap, job.op)
              THEN working' = {job} /\ UNCHANGED <<acked, nacked, msgs, ledger>>
              ELSE Nack(job) /\ UNCHANGED working
    /\ jobs' = Tail(jobs)
    /\ UNCHANGED <<session, rest, asked>>

\* The mutation that was authorised before.
Mutate ==
    /\ \E job \in working, ok \in BOOLEAN :
        ok \in Outcomes(job.op) /\ IF ok THEN Ack(job) ELSE Nack(job)
    /\ working' = {}
    /\ UNCHANGED <<session, jobs, rest, asked>>

-----------------------------------------------------------------------------
(***************************************************************************)
(* REST.  A request has the capability it was authenticated with.          *)
(***************************************************************************)
Authorize(p, op) == Permits(p.cap, Channel, op)

\* What the handlers look at before they ask for the channel. Only HandlePublish
\* looks at the channel's name.
HandlePublish(p, op) ==
    op.flaw = "none" /\ Authorize(p, "publish") /\ Stamp(p.id, op) # Rejected

\* HandleMutate: the capability is looked at afterwards.
HandleMutate(p, op) == op.flaw = "none" /\ Stamp(p.id, op) # Rejected

HandlePublishAnnotation(p, op) ==
    /\ Authorize(p, "annotation-publish") /\ Stamp(p.id, op) # Rejected
    /\ Validate(op, Stamp(p.id, op))

\* HandleMessage of REST, which returns the latest version.
HandleGet(p) == Authorize(p, "history")

Begin(r, p, op) ==
    /\ rest[r].pc = "idle" /\ op.kind # "presence"
    /\ op.flaw = "name" => op.kind = "publish"
    /\ LET good == CASE op.kind = "publish"  -> HandlePublish(p, op)
                     [] op.kind = "mutate"   -> HandleMutate(p, op)
                     [] op.kind = "annotate" -> HandlePublishAnnotation(p, op)
                     [] op.kind = "read"     -> HandleGet(p)
       IN rest' = [rest EXCEPT ![r] = [op |-> {op}, by |-> p,
                        pc |-> IF ~good THEN "refused" ELSE IF op.kind = "mutate" THEN "authorize" ELSE "store"]]
    /\ UNCHANGED <<session, jobs, working, msgs, ledger, asked, acked, nacked>>

AuthorizeRequest(r) ==
    /\ rest[r].pc = "authorize"
    /\ \E op \in rest[r].op :
        rest' = [rest EXCEPT ![r].pc =
                    IF AuthorizeMutation(rest[r].by.id, rest[r].by.cap, op) THEN "store" ELSE "refused"]
    /\ UNCHANGED <<session, jobs, working, msgs, ledger, asked, acked, nacked>>

Store(r) ==
    /\ rest[r].pc = "store"
    /\ \E op \in rest[r].op, ok \in BOOLEAN :
        /\ ok \in Outcomes(op)
        /\ IF ok THEN Commit(0, op, rest[r].by.id, {rest[r].by.cap}) ELSE UNCHANGED <<msgs, ledger>>
        /\ rest' = [rest EXCEPT ![r].pc = IF ok THEN "done" ELSE "refused"]
    /\ UNCHANGED <<session, jobs, working, asked, acked, nacked>>

OperationsNext ==
    \/ \E op \in Operations :
        \/ HandleMessage(op) \/ HandleMutation(op) \/ HandleAnnotation(op) \/ HandlePresence(op)
        \/ \E r \in RestRequests, p \in Principals : Begin(r, p, op)
    \/ \E requested \in RequestedModes : HandleAttach(requested)
    \/ \E cap \in Capabilities : ReconcileCapabilities(cap)
    \/ RunJob \/ Mutate
    \/ \E r \in RestRequests : AuthorizeRequest(r) \/ Store(r)

OperationsSpec == OperationsInit /\ [][OperationsNext]_operationVars

-----------------------------------------------------------------------------
\* Every variable has its type, and an attachment has the modes it asked for as
\* far as the capability permits them.
OperationsTypeOK ==
    /\ session.modes = session.requested \cap PermittedModes(session.cap)
    /\ session.requested # {} => session.modes # {}
    /\ \A job \in working : job.good /\ job.op.kind = "mutate"
    /\ Len(msgs) <= MaxMessages
    /\ \A r \in RestRequests : rest[r].pc \in {"idle", "authorize", "store", "done", "refused"}

\* Whether a capability permits what was done.
Permitted(e, cap) ==
    CASE e.op.kind = "publish"  -> Permits(cap, Channel, "publish")
      [] e.op.kind = "annotate" -> Permits(cap, Channel, "annotation-publish")
      [] e.op.kind = "presence" -> Permits(cap, Channel, "presence")
      [] e.op.kind = "read"     -> Permits(cap, Channel, "history")
      [] e.op.kind = "mutate"   ->
            \/ Permits(cap, Channel, MutationOps(e.op.act)[2])
            \/ /\ Permits(cap, Channel, MutationOps(e.op.act)[1])
               /\ e.id \notin {Anonymous, Wild} /\ e.creator = {e.id}

\* Whatever was carried out was permitted by a capability its caller had at
\* some point between the frame and the commit, ownership as of the commit
\* included: neither the mode checks of the read loop nor the creator read
\* before Mutate let through what a renewal or another writer has ruled out.
CommittedWasPermitted == \A e \in ledger : \E cap \in e.held : Permitted(e, cap)

\* Every frame is queued, in the worker's hands, or answered once: with an ACK
\* when it was carried out, and only then; and it is carried out at most once.
AnsweredOnce ==
    LET pending == {jobs[i].n : i \in DOMAIN jobs} \cup {job.n : job \in working} IN
    /\ pending \cup acked \cup nacked = 1..asked
    /\ pending \cap (acked \cup nacked) = {} /\ acked \cap nacked = {}
    /\ acked = {e.n : e \in ledger} \ {0}
    /\ \A e, f \in ledger : e.n = f.n => e.n = 0 \/ e = f

\* A frame is carried out when it was permitted, at most once, and answered accordingly.
PermittedOnce == CommittedWasPermitted /\ AnsweredOnce
=============================================================================
