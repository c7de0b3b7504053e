------------------------------ MODULE Delivery ------------------------------
(***************************************************************************)
(* What one attachment sends its client: the modes that gate it, across    *)
(* repeat ATTACHes and re-authentication, the aggregates and deltas of     *)
(* appended messages, and the presence set, from the SYNC of the attach,   *)
(* from live frames and from the SYNCs the client asks for.                *)
(*                                                                         *)
(* Three goroutines take part: others that publish, the read loop of the   *)
(* connection, and the attachment's run.  The queue to the client is in    *)
(* order (see Connection), so a frame is received when it is queued.  How  *)
(* replay finds its cms and which attach point it names is in Attachment;  *)
(* here a rewind replays all messages.  GetChannel, Members and History    *)
(* succeed, and the channel name is valid.                                 *)
(***************************************************************************)
EXTENDS Naturals, FiniteSets, SequencesExt

CONSTANTS
    Members,        \* presence members
    Writes,         \* what publishers do: "create", "update", "append", "annotate", "enter", "leave"
    Owns,           \* whether the publisher is this connection: a subset of BOOLEAN
    Echo,           \* the echo setting of this connection
    Attaches,       \* ATTACH requests the client makes: [param, flags, full, rewind]
    Capabilities,   \* capabilities the connection may hold on the channel
    Syncs,          \* the client may ask for SYNCs
    Detaches,       \* the client may DETACH
    MaxCMs,         \* bound: cms in the log
    MaxFrames       \* bound: frames the client sends

Modes == {"publish", "subscribe", "presence", "presence_subscribe",
          "annotation_publish", "annotation_subscribe"}
Ops == {"publish", "subscribe", "presence", "annotation-publish", "annotation-subscribe"}
AttachRequests == [param : SUBSET Modes, flags : SUBSET Modes, full : BOOLEAN, rewind : BOOLEAN]

DeliveryAssumption ==
    /\ Owns \subseteq BOOLEAN /\ {Echo, Syncs, Detaches} \subseteq BOOLEAN
    /\ Attaches \subseteq AttachRequests /\ Capabilities \subseteq SUBSET Ops

VARIABLES
    log,        \* the channel's cms; a cm's serial is its position
    cap,        \* the connection's capability on the channel
    att,        \* the attachment, if any: [requested, modes, full, param]
    run,        \* its goroutine: [pc, pos, flags, members, todo, frame, seen]
    resync,     \* the SYNC the read loop is about to queue, if any
    client,     \* what the client holds: [data, members, flags, params, ended, stray]
    frames      \* frames the client has sent

vars == <<log, cap, att, run, resync, client, frames>>

NoMembers == [m \in Members |-> 0]
NoFrame == [kind |-> "none"]
Idle == [pc |-> "off", pos |-> 0, flags |-> {}, members |-> NoMembers, todo |-> <<>>,
         frame |-> NoFrame, seen |-> {}]

Init ==
    /\ log = <<>>
    /\ cap \in Capabilities
    /\ att = {} /\ run = Idle /\ resync = {}
    /\ client = [data |-> [i \in 1..MaxCMs |-> {}], members |-> NoMembers, flags |-> {},
                 params |-> {}, ended |-> TRUE, stray |-> FALSE]
    /\ frames = 0

-----------------------------------------------------------------------------
(***************************************************************************)
(* The channel.  A message is named after the cm that created it.  Its     *)
(* aggregate is the set of cms whose data it is made of: that of the last  *)
(* create or update, and of the appends since.                             *)
(***************************************************************************)
Created == {i \in 1..Len(log) : log[i].act = "create"}

Publish(act, on, own) ==
    /\ act \in Writes /\ Len(log) < MaxCMs
    /\ log' = Append(log, [act |-> act, on |-> on, own |-> own])
    /\ UNCHANGED <<cap, att, run, resync, client, frames>>

\* A version carries the connectionId of the creation.
Write ==
    \/ \E own \in Owns : Publish("create", Len(log) + 1, own)
    \/ \E id \in Created, act \in {"update", "append", "annotate"} : Publish(act, id, log[id].own)
    \/ \E m \in Members, act \in {"enter", "leave"} : Publish(act, m, FALSE)

IsMessage(i) == log[i].act \in {"create", "update", "append"}

MergeVersion(n, id) ==
    LET vs == {i \in 1..n : IsMessage(i) /\ log[i].on = id}
        whole == Max({i \in vs : log[i].act # "append"})
    IN {i \in vs : i >= whole}

\* The member table after n cms: the serial each present member was last seen with.
MembersAt(n) ==
    [m \in Members |->
        LET ops == {i \in 1..n : log[i].act \in {"enter", "leave"} /\ log[i].on = m}
        IN IF ops = {} \/ log[Max(ops)].act = "leave" THEN 0 ELSE Max(ops)]

-----------------------------------------------------------------------------
(***************************************************************************)
(* The client.  It keeps the newest of each member by serial, and takes a  *)
(* SYNC for the whole set.                                                 *)
(***************************************************************************)
ReceiveAttached(c, f) ==
    IF f.resumed THEN [c EXCEPT !.flags = f.flags, !.params = f.params, !.ended = FALSE]
    ELSE [c EXCEPT !.flags = f.flags, !.params = f.params, !.ended = FALSE,
                   !.data = [i \in 1..MaxCMs |-> {}],
                   !.members = IF f.hasPresence THEN @ ELSE NoMembers]

Receive(c, f) ==
    CASE f.kind = "attached" -> ReceiveAttached(c, f)
      [] f.kind = "full"     -> [c EXCEPT !.data[f.id] = f.pieces, !.stray = @ \/ c.ended]
      [] f.kind = "delta"    -> [c EXCEPT !.data[f.id] = @ \cup f.pieces, !.stray = @ \/ c.ended]
      [] f.kind = "enter"    -> [c EXCEPT !.members[f.id] = IF @ > f.serial THEN @ ELSE f.serial,
                                          !.stray = @ \/ c.ended]
      [] f.kind = "leave"    -> [c EXCEPT !.members[f.id] = IF @ > f.serial THEN @ ELSE 0,
                                          !.stray = @ \/ c.ended]
      [] f.kind = "sync"     -> [c EXCEPT !.members = [m \in Members |->
                                                IF f.members[m] = 0 THEN 0
                                                ELSE IF @[m] > f.members[m] THEN @[m] ELSE f.members[m]],
                                          !.stray = @ \/ c.ended]
      [] f.kind \in {"summary", "annotation"} -> [c EXCEPT !.stray = @ \/ c.ended]
      [] f.kind = "ended"    -> [c EXCEPT !.ended = TRUE]
      [] f.kind = "error"    -> c

Queue(f) == client' = Receive(client, f)

-----------------------------------------------------------------------------
(***************************************************************************)
(* Modes.                                                                  *)
(***************************************************************************)
ResolveModes(flags) == IF flags # {} THEN flags ELSE Modes \ {"annotation_subscribe"}
ResolveRequestedModes(r) == IF r.param # {} THEN r.param ELSE ResolveModes(r.flags)

PermittedModes(ops) ==
    UNION {CASE op = "subscribe"            -> {"subscribe", "presence_subscribe"}
             [] op = "publish"              -> {"publish"}
             [] op = "presence"             -> {"presence"}
             [] op = "annotation-publish"   -> {"annotation_publish"}
             [] op = "annotation-subscribe" -> {"annotation_subscribe"} : op \in ops}

\* Faulty RecheckCapability: starts from the modes that are left.
RecheckCapability_FromEffective(a, permitted) == [a EXCEPT !.modes = a.modes \cap permitted]

RecheckCapability(a, permitted) == [a EXCEPT !.modes = a.requested \cap permitted]

HasMode(mode) == \E a \in att : mode \in a.modes

\* The modes entry of the params ATTACHED echoes, when modes were asked for there.
EchoParams(a, flags) == IF a.param THEN a.modes ELSE flags

-----------------------------------------------------------------------------
(***************************************************************************)
(* The read loop.                                                          *)
(***************************************************************************)
Reads == frames < MaxFrames /\ resync = {} /\ frames' = frames + 1

\* handleAttach: refused, in place, or a new attachment.
HandleAttach(r) ==
    LET requested == ResolveRequestedModes(r)
        effective == requested \cap PermittedModes(cap)
        new == [requested |-> requested, modes |-> effective, full |-> r.full, param |-> r.param # {}]
    IN
    /\ Reads
    /\ IF effective = {} THEN
            /\ Queue([kind |-> "error"])
            /\ UNCHANGED <<att, run>>
       ELSE IF att # {} THEN
            /\ att' = {new}
            /\ Queue([kind |-> "attached", resumed |-> TRUE, hasPresence |-> FALSE,
                      flags |-> effective, params |-> EchoParams(new, effective)])
            /\ UNCHANGED run
       ELSE /\ att' = {new}
            /\ run' = [Idle EXCEPT !.pc = IF r.rewind THEN "rewind" ELSE "start", !.pos = Len(log)]
            /\ UNCHANGED client
    /\ UNCHANGED <<log, cap, resync>>

\* stop ends the goroutine, whatever frame it holds, before DETACHED.
HandleDetach ==
    /\ Detaches /\ Reads
    /\ att' = {} /\ run' = Idle
    /\ Queue([kind |-> "ended"])
    /\ UNCHANGED <<log, cap, resync>>

\* handleAuth with a good token: setAuth and reconcileAttachmentCapabilities.
HandleAuth(ops) ==
    /\ Reads /\ cap' = ops
    /\ LET kept == {a \in {RecheckCapability(b, PermittedModes(ops)) : b \in att} : a.modes # {}} IN
       /\ att' = kept
       /\ IF att # {} /\ kept = {} THEN run' = Idle /\ Queue([kind |-> "ended"])
          ELSE UNCHANGED <<run, client>>
    /\ UNCHANGED <<log, resync>>

\* handleSync and resync: the set is read first and queued later. A client
\* asks for a channel it takes to be attached.
HandleSync ==
    /\ Syncs /\ ~client.ended /\ Reads
    /\ resync' = IF HasMode("presence_subscribe") THEN {MembersAt(Len(log))} ELSE {}
    /\ UNCHANGED <<log, cap, att, run, client>>

SendSync ==
    /\ \E ms \in resync : Queue([kind |-> "sync", members |-> ms])
    /\ resync' = {}
    /\ UNCHANGED <<log, cap, att, run, frames>>

-----------------------------------------------------------------------------
(***************************************************************************)
(* run: replay and snapshot, then ATTACHED, SYNC, the replay and the live  *)
(* cms.                                                                    *)
(***************************************************************************)
Runs(a) == att = {a} /\ UNCHANGED <<log, cap, att, resync, frames>>

Snapshot(a) ==
    /\ run.pc \in {"start", "rewind"} /\ Runs(a)
    /\ run' = [run EXCEPT !.pc = "flags",
                  !.members = IF "presence_subscribe" \in a.modes THEN MembersAt(Len(log)) ELSE NoMembers,
                  !.todo = IF run.pc = "rewind" THEN SelectSeq([i \in 1..run.pos |-> i], IsMessage) ELSE <<>>]
    /\ UNCHANGED client

ReadFlags(a) ==
    /\ run.pc = "flags" /\ Runs(a)
    /\ run' = [run EXCEPT !.pc = "params", !.flags = a.modes]
    /\ UNCHANGED client

SendAttached(a) ==
    /\ run.pc = "params" /\ Runs(a)
    /\ run' = [run EXCEPT !.pc = IF run.members = NoMembers THEN "live" ELSE "sync"]
    /\ Queue([kind |-> "attached", resumed |-> FALSE, hasPresence |-> run.members # NoMembers,
              flags |-> run.flags, params |-> EchoParams(a, run.flags)])

SendSnapshot(a) ==
    /\ run.pc = "sync" /\ Runs(a)
    /\ run' = [run EXCEPT !.pc = "live"]
    /\ Queue([kind |-> "sync", members |-> run.members])

\* Faulty ResolveAppends: takes every message for seen.
ResolveAppends_Unseen(a, i, backlog) ==
    IF log[i].act = "append" /\ ~backlog /\ ~a.full
    THEN [kind |-> "delta", id |-> log[i].on, pieces |-> {i}]
    ELSE [kind |-> "full", id |-> log[i].on, pieces |-> MergeVersion(i, log[i].on)]

\* resolveAppends: a delta for a message that was seen, else the aggregate.
ResolveAppends(a, i, backlog) ==
    IF log[i].act = "append" /\ ~backlog /\ ~a.full /\ log[i].on \in run.seen
    THEN [kind |-> "delta", id |-> log[i].on, pieces |-> {i}]
    ELSE [kind |-> "full", id |-> log[i].on, pieces |-> MergeVersion(i, log[i].on)]

\* forward: the frame a cm becomes, if the attachment has the mode. The raw
\* frame of an annotation comes after its summary (see SendFrame).
Forward(a, i, backlog, next) ==
    LET act == log[i].act
        skip == [next EXCEPT !.pc = "live"]
        send(f) == [next EXCEPT !.pc = "send", !.frame = f]
    IN run' = CASE IsMessage(i) ->
                     IF "subscribe" \notin a.modes \/ (~Echo /\ log[i].own) THEN skip
                     ELSE [send(ResolveAppends(a, i, backlog)) EXCEPT !.seen = @ \cup {log[i].on}]
                [] act \in {"enter", "leave"} ->
                     IF "presence_subscribe" \notin a.modes THEN skip
                     ELSE send([kind |-> act, id |-> log[i].on, serial |-> i])
                [] act = "annotate" ->
                     IF "subscribe" \in a.modes THEN send([kind |-> "summary"])
                     ELSE IF "annotation_subscribe" \in a.modes THEN send([kind |-> "annotation"])
                     ELSE skip

Replay(a) ==
    /\ run.pc = "live" /\ run.todo # <<>> /\ Runs(a)
    /\ Forward(a, Head(run.todo), TRUE, [run EXCEPT !.todo = Tail(@)])
    /\ UNCHANGED client

Live(a) ==
    /\ run.pc = "live" /\ run.todo = <<>> /\ run.pos < Len(log) /\ Runs(a)
    /\ Forward(a, run.pos + 1, FALSE, [run EXCEPT !.pos = @ + 1])
    /\ UNCHANGED client

SendFrame(a) ==
    /\ run.pc = "send" /\ Runs(a)
    /\ Queue(run.frame)
    /\ run' = IF run.frame.kind = "summary" /\ "annotation_subscribe" \in a.modes
              THEN [run EXCEPT !.frame = [kind |-> "annotation"]]
              ELSE [run EXCEPT !.pc = "live", !.frame = NoFrame]

Next ==
    \/ Write
    \/ \E r \in Attaches : HandleAttach(r)
    \/ \E ops \in Capabilities : HandleAuth(ops)
    \/ HandleDetach \/ HandleSync \/ SendSync
    \/ \E a \in att :
        \/ Snapshot(a) \/ ReadFlags(a) \/ SendAttached(a) \/ SendSnapshot(a)
        \/ Replay(a) \/ Live(a) \/ SendFrame(a)

Spec == Init /\ [][Next]_vars

-----------------------------------------------------------------------------
\* Every variable has its type, and there is a goroutine just when there is
\* an attachment.
TypeOK ==
    /\ \A i \in 1..Len(log) : log[i].act \in Writes /\ log[i].own \in BOOLEAN
    /\ cap \in Capabilities
    /\ Cardinality(att) <= 1 /\ Cardinality(resync) <= 1
    /\ run.pc \in {"off", "start", "rewind", "flags", "params", "sync", "live", "send"}
    /\ (run.pc = "off") = (att = {})
    /\ run.pos <= Len(log) /\ run.seen \subseteq Created
    /\ frames \in 0..MaxFrames

\* After any sequence of ATTACHes and token renewals the attachment has the
\* modes it last asked for as far as the present capability permits them, and
\* it has one at least: what a renewal took, a later one gives back.
ModesFollowCapability ==
    \A a \in att : a.modes = a.requested \cap PermittedModes(cap) /\ a.modes # {}

CaughtUp == run.pc = "live" /\ run.todo = <<>>

\* Whatever mix of aggregates and deltas it was sent, a client has of each
\* message just the data the message had at the position it has reached.
DataIsAggregate ==
    CaughtUp => \A id \in 1..run.pos :
        client.data[id] # {} => client.data[id] = MergeVersion(run.pos, id)

\* What a client has put together of a message, from aggregates and deltas, is
\* something the message once was.
DataOnceWas ==
    \A id \in 1..Len(log) : client.data[id] # {} =>
        \E n \in id..Len(log) : client.data[id] = MergeVersion(n, id)

\* A client that has been sent all there is and waits for nothing knows the
\* members of the channel.
MembersKnown ==
    CaughtUp /\ run.pos = Len(log) /\ resync = {} /\ HasMode("presence_subscribe")
        => \A m \in Members : (client.members[m] # 0) = (MembersAt(Len(log))[m] # 0)

\* After DETACHED, or the ERROR that ends an attachment, nothing of the
\* channel is sent until it is attached again.
NothingAfterEnd == ~client.stray

\* The modes in ATTACHED's params are those in its flags.
FlagsAgree == client.flags = client.params
=============================================================================
