----------------------------- MODULE Attachment -----------------------------
(***************************************************************************)
(* realtime: attachments on one channel, from the ATTACH a client sends to *)
(* the frames it receives, across detaches, repeat ATTACHes and dropped    *)
(* connections.                                                            *)
(*                                                                         *)
(* Each client has one connection, and its attachment is the stream of the *)
(* same name.  The storage side is what MemoryStoreProofs shows of the     *)
(* memory backend: history is exactly what has been appended to the live   *)
(* list.  Three goroutines of a connection matter: the read loop (ATTACH,  *)
(* DETACH), the attachment's run, and the writer with the network behind   *)
(* it, one bounded queue here.  Attachments hold SUBSCRIBE and             *)
(* PRESENCE_SUBSCRIBE, with echo; the SYNC snapshot is left out.  The      *)
(* clients enter no presence, so that DETACH and teardown have no member   *)
(* to leave, and their ATTACHes pass the name and capability checks.       *)
(*                                                                         *)
(* The client is the SDK as DESIGN.md 4.3 describes it: it remembers the   *)
(* channelSerial of ATTACHED and of every MESSAGE, and supplies it when it *)
(* attaches again.                                                         *)
(***************************************************************************)
EXTENDS Channel, Integers, FiniteSets
LOCAL INSTANCE SequencesExt

CONSTANTS
    ReplayCap,          \* attachment.replayCap
    OutCap,             \* bound: frames between the server and the client
    PublishActs,        \* what publishers do
    Rewinds,            \* the rewind params clients use
    HistoryMayFail,     \* History may return an error
    MaxPublishes,       \* bound: cms published
    MaxAttaches,        \* bound: ATTACHes that start an attachment, per client
    MaxReattaches,      \* bound: repeat ATTACHes, per client
    MaxDrops            \* bound: connections lost, per client

AttachmentAssumption ==
    /\ ReplayCap \in Nat \ {0} /\ OutCap \in Nat \ {0} /\ HistoryMayFail \in BOOLEAN
    /\ PublishActs \subseteq {"create", "enter", "annotate"}
    /\ Rewinds \subseteq [kind : {"none", "count", "duration", "invalid"}, n : Nat]
    /\ MaxPublishes \in Nat /\ MaxAttaches \in Nat /\ MaxReattaches \in Nat /\ MaxDrops \in Nat

VARIABLES
    run,        \* run[c]: the attachment goroutine: "off", "starting", "running"
    request,    \* request[c]: what ATTACH asked for: resumeFrom and rewind
    curSerial,  \* curSerial[c]: the position a repeat ATTACH advertises
    todo,       \* todo[c]: frames the goroutine has yet to send
    reply,      \* reply[c]: frames the read loop has yet to queue
    out,        \* out[c]: frames queued or on the wire
    attached,   \* attached[c]: the client holds the channel attached
    mark,       \* mark[c]: the client's cursor, 0 if none
    base,       \* base[c]: the attach point of the client's last break in continuity
    lossy,      \* lossy[c]: that break was announced with an error
    got,        \* got[c]: the messages the client has received since
    used        \* used[c]: how often each bounded step was taken

serverVars == <<run, request, curSerial, todo, reply>>
clientVars == <<attached, mark, base, lossy, got>>
vars == <<channelVars, serverVars, out, clientVars, used>>

Clients == Streams

LastSerial == list[Len(list)].serial

NoRewind == [kind |-> "none", n |-> 0]
NoRequest == [resumeFrom |-> 0, rewind |-> NoRewind]

\* ATTACHED, DETACHED, PRESENCE and MESSAGE, whose items are the messages it
\* carries: none for the summary an annotation fans out as.
Frame(type, serial) ==
    [type |-> type, serial |-> serial, resumed |-> FALSE, err |-> FALSE, items |-> <<>>]
AttachedFrame(serial, resumed, err) ==
    [Frame("ATTACHED", serial) EXCEPT !.resumed = resumed, !.err = err]
MessageFrame(serial, items) == [Frame("MESSAGE", serial) EXCEPT !.items = items]

-----------------------------------------------------------------------------
(***************************************************************************)
(* History: the messages of the log, oldest first.  A message is its cm's  *)
(* serial and its index in the batch.                                      *)
(***************************************************************************)
Items(cm) ==
    IF KindOf(cm.act) = "message" THEN [i \in 1..cm.n |-> <<cm.serial, i - 1>>] ELSE <<>>

\* The messages with lo < channelSerial <= hi.
MessagesIn(lo, hi) ==
    FlattenSeq([k \in 1..Len(list) |->
        IF lo < list[k].serial /\ list[k].serial <= hi THEN Items(list[k]) ELSE <<>>])

\* History backwards from hi: the newest limit messages after lo.  Limit
\* counts messages, so the oldest batch of the page may be partial.
HistoryPage(lo, hi, limit) ==
    LET all == MessagesIn(lo, hi) IN
    SubSeq(all, IF Len(all) > limit THEN Len(all) - limit + 1 ELSE 1, Len(all))

\* The channelSerials of a page: one per ChannelMessage in it.
CMsOf(page) == {m[1] : m \in ToSet(page)}

\* A page without the messages of cms up to serial.
After(page, serial) == SelectSeq(page, LAMBDA m : m[1] > serial)

\* One MESSAGE frame per cm of the page, oldest first.
ReplayFrames(page) ==
    LET serials == SetToSortSeq(CMsOf(page), <) IN
    [k \in 1..Len(serials) |->
        MessageFrame(serials[k], SelectSeq(page, LAMBDA m : m[1] = serials[k]))]

\* What computeReplay returns.
Replay(page, attachPoint, resumed, err) ==
    [frames |-> ReplayFrames(page), at |-> attachPoint, resumed |-> resumed, err |-> err]

\* Faulty computeResumeReplay: asks for one message too few to tell a gap
\* that just fits from one that does not.
ResumeReplay_NoExtra(resumeFrom, anchor) ==
    LET page == HistoryPage(0, anchor, ReplayCap) IN
    Replay(After(page, resumeFrom), resumeFrom, TRUE, FALSE)

\* computeResumeReplay.  The page holds ReplayCap + 1 messages; the
\* comparison with replayCap counts its cms.
ResumeReplay(resumeFrom, anchor) ==
    LET page == HistoryPage(0, anchor, ReplayCap + 1)
        oldest == Head(page)[1] IN
    IF resumeFrom = anchor
    THEN Replay(<<>>, resumeFrom, TRUE, FALSE)
    ELSE IF \E s \in CMsOf(page) : s <= resumeFrom
    THEN Replay(After(page, resumeFrom), resumeFrom, TRUE, FALSE)
    ELSE IF Cardinality(CMsOf(page)) <= ReplayCap
    THEN Replay(page, resumeFrom, TRUE, FALSE)
    ELSE Replay(After(page, oldest), resumeFrom, FALSE, TRUE)

\* computeRewindReplay.  since is the lower bound the time window puts on
\* serials, 0 for rewind=N.
RewindReplay(rewind, since, anchor) ==
    LET cap == IF rewind.kind = "count" /\ rewind.n < ReplayCap THEN rewind.n ELSE ReplayCap
        page == HistoryPage(since, anchor, cap + 1)
        oldest == Head(page)[1] IN
    IF Cardinality(CMsOf(page)) > cap
    THEN Replay(After(page, oldest), oldest, FALSE,
                rewind.kind = "duration" \/ rewind.n > ReplayCap)
    ELSE Replay(page, initialSerial, FALSE, FALSE)

-----------------------------------------------------------------------------
Init ==
    /\ NewChannel
    /\ run = [c \in Clients |-> "off"]
    /\ request = [c \in Clients |-> NoRequest]
    /\ curSerial = [c \in Clients |-> 0]
    /\ todo = [c \in Clients |-> <<>>]
    /\ reply = [c \in Clients |-> <<>>]
    /\ out = [c \in Clients |-> <<>>]
    /\ attached = [c \in Clients |-> FALSE]
    /\ mark = [c \in Clients |-> 0]
    /\ base = [c \in Clients |-> 0]
    /\ lossy = [c \in Clients |-> FALSE]
    /\ got = [c \in Clients |-> <<>>]
    /\ used = [c \in Clients |-> [attach |-> 0, reattach |-> 0, drop |-> 0]]

Bump(c, what) == used' = [used EXCEPT ![c][what] = @ + 1]

\* The backend materialises the channel with a fresh seed.
OpenChannel ==
    /\ ~ready
    /\ Initialize(1, 1)
    /\ UNCHANGED <<serverVars, out, clientVars, used>>

\* The backend persists a cm and appends it.
Publish(act, n) ==
    /\ ready
    /\ n = 1 \/ act = "create"
    /\ Len(list) <= MaxPublishes
    /\ AppendCM([serial |-> LastSerial + 1, act |-> act, on |-> NoSubject,
                 id |-> NoId, n |-> n, data |-> TRUE])
    /\ UNCHANGED <<serverVars, out, clientVars, used>>

\* A client that attaches without a cursor expects no continuity.
StartOver(c) ==
    /\ mark' = [mark EXCEPT ![c] = 0]
    /\ base' = [base EXCEPT ![c] = 0]
    /\ lossy' = [lossy EXCEPT ![c] = FALSE]
    /\ got' = [got EXCEPT ![c] = <<>>]
    /\ UNCHANGED attached

\* The client attaches, with its cursor or without, and handleAttach starts
\* an attachment: the stream is positioned before run starts.  rewind is
\* suppressed when a cursor is supplied.  The client has seen the end of its
\* previous attachment: an SDK waits for DETACHED.
HandleAttach(c, resumeFrom, rewind) ==
    /\ run[c] = "off" /\ reply[c] = <<>> /\ out[c] = <<>>
    /\ used[c].attach < MaxAttaches
    /\ Attach(c)
    /\ run' = [run EXCEPT ![c] = "starting"]
    /\ request' = [request EXCEPT ![c] =
            [resumeFrom |-> resumeFrom, rewind |-> IF resumeFrom = 0 THEN rewind ELSE NoRewind]]
    /\ IF resumeFrom = 0 THEN StartOver(c) ELSE UNCHANGED clientVars
    /\ Bump(c, "attach")
    /\ UNCHANGED <<curSerial, todo, reply, out>>

\* run, up to the point where ATTACHED is built: computeReplay reads history
\* bounded by the anchor, and the attach point seeds curSerial.  Nothing
\* reads the request after that.
BeginRun(c, replay) ==
    /\ run' = [run EXCEPT ![c] = "running"]
    /\ request' = [request EXCEPT ![c] = NoRequest]
    /\ curSerial' = [curSerial EXCEPT ![c] = replay.at]
    /\ todo' = [todo EXCEPT ![c] =
            <<AttachedFrame(replay.at, replay.resumed, replay.err)>> \o replay.frames]
    /\ UNCHANGED <<channelVars, reply, out, clientVars, used>>

ComputeReplay(c) ==
    /\ run[c] = "starting"
    /\ LET anchor == StreamSerial(c)
           r == request[c] IN
       IF r.resumeFrom # 0
       THEN BeginRun(c, ResumeReplay(r.resumeFrom, anchor))
       ELSE CASE r.rewind.kind = "none"     -> BeginRun(c, Replay(<<>>, anchor, FALSE, FALSE))
              [] r.rewind.kind = "invalid"  -> BeginRun(c, Replay(<<>>, anchor, FALSE, TRUE))
              [] r.rewind.kind = "count"    -> BeginRun(c, RewindReplay(r.rewind, 0, anchor))
              [] r.rewind.kind = "duration" -> \E since \in 0..anchor :
                                                    BeginRun(c, RewindReplay(r.rewind, since, anchor))

\* computeReplay when History fails: nothing is replayed, and ATTACHED
\* carries an error.
ComputeReplayFails(c) ==
    /\ HistoryMayFail
    /\ run[c] = "starting"
    /\ LET r == request[c]
           at == IF r.resumeFrom # 0 THEN r.resumeFrom ELSE StreamSerial(c) IN
        /\ r.resumeFrom \notin {0, StreamSerial(c)} \/ r.rewind.kind \in {"count", "duration"}
        /\ BeginRun(c, Replay(<<>>, at, FALSE, TRUE))

\* The goroutine's send: blocks while the outbound queue is full.
Send(c) ==
    /\ todo[c] # <<>>
    /\ Len(out[c]) < OutCap
    /\ out' = [out EXCEPT ![c] = Append(@, Head(todo[c]))]
    /\ todo' = [todo EXCEPT ![c] = Tail(@)]
    /\ UNCHANGED <<channelVars, run, request, curSerial, reply, clientVars, used>>

\* The live loop: Next, then setCurSerial, then forward, whose send is a
\* later step.
LiveNext(c) ==
    /\ run[c] = "running" /\ todo[c] = <<>>
    /\ NextCM(c)
    /\ LET cm == list[cursor[c] + 1] IN
        /\ curSerial' = [curSerial EXCEPT ![c] = cm.serial]
        /\ todo' = [todo EXCEPT ![c] =
                IF KindOf(cm.act) = "presence" THEN <<Frame("PRESENCE", cm.serial)>>
                                               ELSE <<MessageFrame(cm.serial, Items(cm))>>]
    /\ UNCHANGED <<run, request, reply, out, clientVars, used>>

\* handleAttach on a live attachment: applyReattach reads the position; the
\* read loop queues the ATTACHED afterwards.
HandleReattach(c) ==
    /\ run[c] # "off" /\ reply[c] = <<>>
    /\ used[c].reattach < MaxReattaches
    /\ reply' = [reply EXCEPT ![c] = <<AttachedFrame(curSerial[c], TRUE, FALSE)>>]
    /\ Bump(c, "reattach")
    /\ UNCHANGED <<channelVars, run, request, curSerial, todo, out, clientVars>>

\* The end of an attachment: its goroutine has exited, what it had not sent
\* is dropped, and its fields are garbage.
StopRun(c) ==
    /\ DropStream(c)
    /\ request' = [request EXCEPT ![c] = NoRequest]
    /\ curSerial' = [curSerial EXCEPT ![c] = 0]
    /\ run' = [run EXCEPT ![c] = "off"]
    /\ todo' = [todo EXCEPT ![c] = <<>>]

\* handleDetach: stop waits for the goroutine, then DETACHED is queued.
HandleDetach(c) ==
    /\ run[c] # "off" /\ reply[c] = <<>>
    /\ StopRun(c)
    /\ reply' = [reply EXCEPT ![c] = <<Frame("DETACHED", 0)>>]
    /\ UNCHANGED <<out, clientVars, used>>

\* connection.queue, from the read loop.
QueueReply(c) ==
    /\ reply[c] # <<>>
    /\ Len(out[c]) < OutCap
    /\ out' = [out EXCEPT ![c] = @ \o reply[c]]
    /\ reply' = [reply EXCEPT ![c] = <<>>]
    /\ UNCHANGED <<channelVars, run, request, curSerial, todo, clientVars, used>>

\* The connection is lost with everything queued on it; the client keeps its
\* cursor.
Disconnect(c) ==
    /\ used[c].drop < MaxDrops
    /\ IF run[c] = "off" THEN UNCHANGED <<channelVars, run, request, curSerial, todo>> ELSE StopRun(c)
    /\ reply' = [reply EXCEPT ![c] = <<>>]
    /\ out' = [out EXCEPT ![c] = <<>>]
    /\ attached' = [attached EXCEPT ![c] = FALSE]
    /\ Bump(c, "drop")
    /\ UNCHANGED <<mark, base, lossy, got>>

\* The client receives a frame.  An ATTACHED without RESUMED, or the first
\* one, starts a new run of messages at its channelSerial.
Receive(c) ==
    /\ out[c] # <<>>
    /\ out' = [out EXCEPT ![c] = Tail(@)]
    /\ LET f == Head(out[c])
           breaks == f.type = "ATTACHED" /\ (~f.resumed \/ mark[c] = 0) IN
        /\ attached' = [attached EXCEPT ![c] = (f.type # "DETACHED") /\ (@ \/ f.type = "ATTACHED")]
        /\ mark' = [mark EXCEPT ![c] = 
                IF f.type \in {"ATTACHED", "MESSAGE"} /\ f.serial # 0 THEN f.serial ELSE @]
        /\ base' = [base EXCEPT ![c] = IF breaks THEN f.serial ELSE @]
        /\ lossy' = [lossy EXCEPT ![c] = IF breaks THEN f.err ELSE @]
        /\ got' = [got EXCEPT ![c] = IF breaks THEN <<>> ELSE @ \o f.items]
    /\ UNCHANGED <<channelVars, serverVars, used>>

Next ==
    \/ OpenChannel
    \/ \E act \in PublishActs, n \in 1..MaxBatch : Publish(act, n)
    \/ \E c \in Clients :
        \/ \E rewind \in Rewinds : HandleAttach(c, 0, rewind)
        \/ mark[c] # 0 /\ HandleAttach(c, mark[c], NoRewind)
        \/ ComputeReplay(c) \/ ComputeReplayFails(c)
        \/ LiveNext(c) \/ Send(c)
        \/ HandleReattach(c) \/ HandleDetach(c) \/ QueueReply(c)
        \/ Disconnect(c)
        \/ Receive(c)

\* The goroutines run and the client reads; publishes and the client's own
\* requests need not happen.
Fairness ==
    \A c \in Clients :
        /\ WF_vars(ComputeReplay(c) \/ ComputeReplayFails(c))
        /\ WF_vars(LiveNext(c))
        /\ WF_vars(Send(c))
        /\ WF_vars(QueueReply(c))
        /\ WF_vars(Receive(c))

Spec == Init /\ [][Next]_vars
FairSpec == Spec /\ Fairness

-----------------------------------------------------------------------------
Frames == [type : {"ATTACHED", "DETACHED", "MESSAGE", "PRESENCE"}, serial : Nat,
           resumed : BOOLEAN, err : BOOLEAN, items : Seq(Idents)]

\* A stream is open exactly while its attachment exists, and the queues hold
\* frames within their bounds.
TypeOK ==
    /\ run \in [Clients -> {"off", "starting", "running"}]
    /\ \A c \in Clients :
        /\ (run[c] = "off") <=> (cursor[c] = 0)
        /\ request[c].resumeFrom \in Nat /\ request[c].rewind \in Rewinds \cup {NoRewind}
        /\ Len(out[c]) <= OutCap /\ Len(reply[c]) <= 1
        /\ ToSet(todo[c]) \cup ToSet(out[c]) \cup ToSet(reply[c]) \subseteq Frames
        /\ lossy[c] \in BOOLEAN /\ attached[c] \in BOOLEAN
        /\ {curSerial[c], mark[c], base[c]} \subseteq 0..(MaxPublishes + 1)

\* Resume without loss or duplication: the messages the client has received
\* are exactly the channel's messages between the last break in continuity
\* and its cursor, in order; after a break announced with an error, the last
\* of them.  Replay, the live loop and the cursor the client hands back have
\* to agree on every boundary for this.
CursorMatches ==
    \A c \in Clients :
        LET expected == MessagesIn(base[c], mark[c]) IN
        IF lossy[c] THEN IsSuffix(got[c], expected) ELSE got[c] = expected

\* Delivery across repeat ATTACHes: what the client has received since the
\* attach point is a prefix of what the channel carried after it.
Continuity ==
    \A c \in Clients : lossy[c] \/ IsPrefix(got[c], MessagesIn(base[c], LastSerial))

\* No MESSAGE or PRESENCE frame reaches a client that does not hold the
\* channel attached: ATTACHED comes before the first, and once handleDetach
\* queues DETACHED no frame of the stopped goroutine follows it.
NoFrameOutsideAttachment ==
    \A c \in Clients : \A k \in DOMAIN out[c] :
        out[c][k].type \in {"MESSAGE", "PRESENCE"} =>
            LET switches == {j \in 1..(k - 1) : out[c][j].type \in {"ATTACHED", "DETACHED"}} IN
            IF switches = {} THEN attached[c]
            ELSE out[c][CHOOSE j \in switches : \A i \in switches : i <= j].type = "ATTACHED"

\* A client that stays attached receives every message, whatever full queues
\* and repeat ATTACHes delayed it.
CatchesUp ==
    \A c \in Clients :
        []<>(run[c] = "off" \/ lossy[c] \/ (attached[c] /\ got[c] = MessagesIn(base[c], LastSerial)))
=============================================================================
