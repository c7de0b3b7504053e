----------------------------- MODULE Connection -----------------------------
\* One WebSocket connection (internal/realtime, connection.run): the read loop, the
\* publish worker, the write loop and the token-expiry loop, the bounded channels
\* between them, and the teardown. Frames are abstracted to what the loops do with
\* them: a publish (message, mutation, presence or annotation) goes through the
\* worker, an AUTH frame signals the expiry loop, and every other frame is answered
\* by the read loop itself.

EXTENDS Naturals, Sequences

CONSTANTS
    OutCap,         \* capacity of the outbound channel
    PubCap,         \* capacity of publishQ
    MaxFrames,      \* bound on the frames the client sends
    MaxAuths,       \* bound on the AUTH frames among them
    MaxDeliveries   \* bound on the frames attachments push

ConnectionAssumption ==
    /\ OutCap \in Nat \ {0} /\ PubCap \in Nat \ {0}
    /\ MaxFrames \in Nat /\ MaxAuths \in Nat /\ MaxDeliveries \in Nat

NoSerial == 0
Serials == 1..MaxFrames
Reply == [kind |-> "reply", serial |-> NoSerial]
Disconnected == [kind |-> "disconnected", serial |-> NoSerial]
OutFrames == [kind : {"reply", "disconnected", "ack", "nack"}, serial : Serials \cup {NoSerial}]
Tasks == [serial : Serials, valid : BOOLEAN]
InFrames == [kind : {"publish", "ping", "auth", "close"}, serial : Serials \cup {NoSerial}, valid : BOOLEAN]

VARIABLES
    inbound,        \* frames on their way from the client
    client,         \* frames and AUTH frames the client sent, msgSerial of its last new publish
    socket,         \* "open" | "closed", by either side or the network
    reader,         \* the read loop, then the teardown in the same goroutine
    holding,        \* the frame or task the read loop is about to hand on
    lastMsgSerial,  \* highest msgSerial accepted
    accepted,       \* history: the msgSerials accepted, in order
    publishQ,       \* tasks for the worker
    worker,         \* "idle" | "busy" | "queueing" | "exited"
    task,           \* what the worker is doing: a task, or the frame that answers it
    committed,      \* history: the msgSerials whose publish is durable, in order
    outbound,       \* frames for the write loop
    writer,         \* "running" | "exited"
    sent,           \* frames on the wire, in order
    authLoop,       \* "idle" | "prompt" | "expiry" | "prompting" | "expiring" | "exited"
    reauth,         \* number of expiries in the channel to the authLoop (capacity 1)
    cancelled,      \* the connection's context
    flags,          \* clientClosed, shuttingDown, and whether a re-auth was refused
    departure,      \* how teardown left presence: "none" | "now" | "later"
    deliveries      \* frames pushed by attachments

readVars == <<reader, holding, lastMsgSerial, accepted>>
workVars == <<worker, task, committed>>
writeVars == <<writer, sent>>
authVars == <<authLoop, reauth>>
endVars == <<cancelled, departure>>
vars == <<inbound, socket, publishQ, outbound, flags, deliveries, readVars, workVars,
          writeVars, authVars, client, endVars>>

\* CONNECTED is queued before the loops start. A Basic connection has no expiry, a
\* short-lived token no prompt.
Init ==
    /\ inbound = <<>> /\ client = [frames |-> 0, auths |-> 0, serial |-> NoSerial]
    /\ socket = "open"
    /\ reader = "reading" /\ holding = Reply /\ lastMsgSerial = NoSerial /\ accepted = <<>>
    /\ publishQ = <<>>
    /\ worker = "idle" /\ task = Reply /\ committed = <<>>
    /\ outbound = <<Reply>>
    /\ writer = "running" /\ sent = <<>>
    /\ authLoop \in {"idle", "prompt", "expiry"} /\ reauth = 0
    /\ cancelled = FALSE
    /\ flags = [clientClosed |-> FALSE, shuttingDown |-> FALSE, refused |-> FALSE]
    /\ departure = "none"
    /\ deliveries = 0

------------------------------------------------------------------------------
\* The client and the network.

Sent(f) ==
    /\ socket = "open"
    /\ client.frames < MaxFrames
    /\ inbound' = Append(inbound, f)
    /\ UNCHANGED <<socket, publishQ, outbound, flags, deliveries, readVars, workVars, writeVars, authVars, endVars>>

\* A new publish takes the next msgSerial; a retransmit repeats one sent before.
ClientPublishes(serial, valid) ==
    /\ serial <= client.serial + 1
    /\ client' = [client EXCEPT !.frames = @ + 1, !.serial = IF serial > @ THEN serial ELSE @]
    /\ Sent([kind |-> "publish", serial |-> serial, valid |-> valid])

\* ATTACH, DETACH, HEARTBEAT and the like (ping), and CLOSE.
ClientSends(kind) ==
    /\ client' = [client EXCEPT !.frames = @ + 1]
    /\ Sent([kind |-> kind, serial |-> NoSerial, valid |-> TRUE])

ClientAuths(valid) ==
    /\ client.auths < MaxAuths
    /\ client' = [client EXCEPT !.frames = @ + 1, !.auths = @ + 1]
    /\ Sent([kind |-> "auth", serial |-> NoSerial, valid |-> valid])

\* The peer closes the socket or the network drops it.
Drop ==
    /\ socket = "open"
    /\ socket' = "closed"
    /\ UNCHANGED <<inbound, publishQ, outbound, flags, deliveries, readVars, workVars, writeVars, authVars, client, endVars>>

\* An attachment's goroutine pushes a frame; it stops with the context.
Deliver ==
    /\ ~cancelled
    /\ deliveries < MaxDeliveries
    /\ Len(outbound) < OutCap
    /\ outbound' = Append(outbound, Reply)
    /\ deliveries' = deliveries + 1
    /\ UNCHANGED <<inbound, socket, publishQ, flags, readVars, workVars, writeVars, authVars, client, endVars>>

\* Server.Shutdown: disconnect, with a non-blocking send.
DisconnectCalled ==
    /\ ~flags.shuttingDown
    /\ reader # "done"
    /\ flags' = [flags EXCEPT !.shuttingDown = TRUE]
    /\ IF Len(outbound) < OutCap
       THEN outbound' = Append(outbound, Disconnected) /\ UNCHANGED socket
       ELSE socket' = "closed" /\ UNCHANGED outbound
    /\ UNCHANGED <<inbound, publishQ, deliveries, readVars, workVars, writeVars, authVars, client, endVars>>

------------------------------------------------------------------------------
\* The read loop.

\* The next frame is taken off; what it changes is left to the handlers below.
TakeFrame ==
    /\ reader = "reading"
    /\ Len(inbound) > 0
    /\ inbound' = Tail(inbound)
    /\ UNCHANGED <<socket, publishQ, outbound, deliveries, workVars, writeVars, authVars, client, endVars>>

Hand(next, what) == reader' = next /\ holding' = what

\* A msgSerial that repeats or goes back is a retransmit, and dropped without an ACK.
AcceptMsgSerial(serial) == lastMsgSerial = NoSerial \/ serial >= lastMsgSerial + 1

\* Faulty HandlePublish: the NACK of a refused frame is queued directly.
HandlePublish_DirectNack ==
    LET f == inbound[1] IN
    /\ f.kind = "publish"
    /\ AcceptMsgSerial(f.serial)
    /\ lastMsgSerial' = f.serial
    /\ accepted' = Append(accepted, f.serial)
    /\ IF f.valid
       THEN Hand("enqueueing", [serial |-> f.serial, valid |-> f.valid])
       ELSE Hand("queueing", [kind |-> "nack", serial |-> f.serial])
    /\ UNCHANGED flags

\* A frame that publishes: past the gate it becomes a task of the worker, also when it
\* is refused, so that its NACK keeps its place.
HandlePublish ==
    LET f == inbound[1] IN
    /\ f.kind = "publish"
    /\ AcceptMsgSerial(f.serial)
    /\ lastMsgSerial' = f.serial
    /\ accepted' = Append(accepted, f.serial)
    /\ Hand("enqueueing", [serial |-> f.serial, valid |-> f.valid])
    /\ UNCHANGED flags

DropRetransmit ==
    /\ inbound[1].kind = "publish"
    /\ ~AcceptMsgSerial(inbound[1].serial)
    /\ UNCHANGED <<readVars, flags>>

\* Frames that the read loop answers itself.
HandleOther ==
    /\ inbound[1].kind = "ping"
    /\ Hand("queueing", Reply)
    /\ UNCHANGED <<lastMsgSerial, accepted, flags>>

HandleClose ==
    /\ inbound[1].kind = "close"
    /\ flags' = [flags EXCEPT !.clientClosed = TRUE]
    /\ Hand("queueing", Reply)
    /\ UNCHANGED <<lastMsgSerial, accepted>>

\* handleAuth: a valid token is signalled to the authLoop before CONNECTED is queued; a
\* refused one is answered with ERROR.
HandleAuth ==
    /\ inbound[1].kind = "auth"
    /\ IF inbound[1].valid
       THEN Hand("signalling", Reply) /\ UNCHANGED flags
       ELSE Hand("queueing", Reply) /\ flags' = [flags EXCEPT !.refused = TRUE]
    /\ UNCHANGED <<lastMsgSerial, accepted>>

Dispatch == TakeFrame /\ (HandlePublish \/ DropRetransmit \/ HandleOther \/ HandleClose \/ HandleAuth)

\* The sends below also wait for the context, which only this goroutine cancels, later.

SignalReauth ==
    /\ reader = "signalling"
    /\ reauth = 0
    /\ reauth' = 1
    /\ reader' = "queueing"
    /\ UNCHANGED <<inbound, socket, publishQ, outbound, flags, deliveries, holding, lastMsgSerial, accepted,
                   workVars, writeVars, authLoop, client, endVars>>

ReaderQueues ==
    /\ reader = "queueing"
    /\ Len(outbound) < OutCap
    /\ outbound' = Append(outbound, holding)
    /\ reader' = "reading"
    /\ UNCHANGED <<inbound, socket, publishQ, flags, deliveries, holding, lastMsgSerial, accepted,
                   workVars, writeVars, authVars, client, endVars>>

EnqueuePublish ==
    /\ reader = "enqueueing"
    /\ Len(publishQ) < PubCap
    /\ publishQ' = Append(publishQ, holding)
    /\ reader' = "reading"
    /\ UNCHANGED <<inbound, socket, outbound, flags, deliveries, holding, lastMsgSerial, accepted,
                   workVars, writeVars, authVars, client, endVars>>

\* Faulty ReadFails: the context is not cancelled before the worker is waited for.
ReadFails_NoCancel ==
    /\ reader = "reading"
    /\ socket = "closed"
    /\ reader' = "draining"
    /\ UNCHANGED <<inbound, socket, publishQ, outbound, flags, deliveries, holding, lastMsgSerial, accepted,
                   workVars, writeVars, authVars, client, endVars>>

\* ReadMessage fails: the context is cancelled and the teardown starts. Frames that were
\* buffered when the socket closed may or may not have been read before.
ReadFails ==
    /\ reader = "reading"
    /\ socket = "closed"
    /\ cancelled' = TRUE
    /\ reader' = "draining"
    /\ UNCHANGED <<inbound, socket, publishQ, outbound, flags, deliveries, holding, lastMsgSerial, accepted,
                   workVars, writeVars, authVars, client, departure>>

\* With the worker and the authLoop gone, presence is left at once after a CLOSE or a
\* shutdown, and after the grace window otherwise.
Leave ==
    /\ reader = "draining"
    /\ worker = "exited" /\ authLoop = "exited"
    /\ departure' = IF flags.clientClosed \/ flags.shuttingDown THEN "now" ELSE "later"
    /\ reader' = "leaving"
    /\ UNCHANGED <<inbound, socket, publishQ, outbound, flags, deliveries, holding, lastMsgSerial, accepted,
                   workVars, writeVars, authVars, client, cancelled>>

Finish ==
    /\ reader = "leaving"
    /\ writer = "exited"
    /\ reader' = "done"
    /\ UNCHANGED <<inbound, socket, publishQ, outbound, flags, deliveries, holding, lastMsgSerial, accepted,
                   workVars, writeVars, authVars, client, endVars>>

------------------------------------------------------------------------------
\* The publish worker.

Answer(kind) == [kind |-> kind, serial |-> task.serial]

\* Select picks a task even when the context is cancelled as well.
TakeTask ==
    /\ worker = "idle"
    /\ Len(publishQ) > 0
    /\ task' = publishQ[1]
    /\ publishQ' = Tail(publishQ)
    /\ worker' = "busy"
    /\ UNCHANGED <<inbound, socket, outbound, flags, deliveries, readVars, committed, writeVars, authVars, client, endVars>>

\* Faulty RunTask: the ACK does not wait for the commit.
RunTask_AckFirst ==
    /\ worker = "busy"
    /\ task' = Answer(IF task.valid THEN "ack" ELSE "nack")
    /\ \/ task.valid /\ committed' = Append(committed, task.serial)
       \/ UNCHANGED committed
    /\ worker' = "queueing"
    /\ UNCHANGED <<inbound, socket, publishQ, outbound, flags, deliveries, readVars, writeVars, authVars, client, endVars>>

\* The write commits and is acknowledged, or it is refused or fails and is NACKed.
RunTask ==
    /\ worker = "busy"
    /\ \/ /\ task.valid
          /\ committed' = Append(committed, task.serial)
          /\ task' = Answer("ack")
       \/ task' = Answer("nack") /\ UNCHANGED committed
    /\ worker' = "queueing"
    /\ UNCHANGED <<inbound, socket, publishQ, outbound, flags, deliveries, readVars, writeVars, authVars, client, endVars>>

WorkerQueues ==
    /\ worker = "queueing"
    /\ \/ Len(outbound) < OutCap /\ outbound' = Append(outbound, task)
       \/ cancelled /\ UNCHANGED outbound
    /\ worker' = "idle"
    /\ UNCHANGED <<inbound, socket, publishQ, flags, deliveries, readVars, task, committed, writeVars, authVars, client, endVars>>

WorkerExits ==
    /\ worker = "idle"
    /\ cancelled
    /\ worker' = "exited"
    /\ UNCHANGED <<inbound, socket, publishQ, outbound, flags, deliveries, readVars, task, committed, writeVars, authVars, client, endVars>>

------------------------------------------------------------------------------
\* The write loop.

\* Faulty Write: the loop goes on after DISCONNECTED.
Write_GoesOn ==
    /\ writer = "running"
    /\ socket = "open"
    /\ Len(outbound) > 0
    /\ sent' = Append(sent, outbound[1])
    /\ outbound' = Tail(outbound)
    /\ UNCHANGED <<inbound, socket, publishQ, flags, deliveries, readVars, workVars, writer, authVars, client, endVars>>

\* After DISCONNECTED the writer closes the socket and returns.
Write ==
    LET last == outbound[1] = Disconnected IN
    /\ writer = "running"
    /\ socket = "open"
    /\ Len(outbound) > 0
    /\ sent' = Append(sent, outbound[1])
    /\ outbound' = Tail(outbound)
    /\ socket' = IF last THEN "closed" ELSE socket
    /\ writer' = IF last THEN "exited" ELSE writer
    /\ UNCHANGED <<inbound, publishQ, flags, deliveries, readVars, workVars, authVars, client, endVars>>

\* A frame or a heartbeat cannot be written: the loop returns, and closes nothing.
WriteFails ==
    /\ writer = "running"
    /\ socket = "closed"
    /\ \/ Len(outbound) > 0 /\ outbound' = Tail(outbound)
       \/ UNCHANGED outbound
    /\ writer' = "exited"
    /\ UNCHANGED <<inbound, socket, publishQ, flags, deliveries, readVars, workVars, sent, authVars, client, endVars>>

WriterExits ==
    /\ writer = "running"
    /\ cancelled
    /\ writer' = "exited"
    /\ UNCHANGED <<inbound, socket, publishQ, outbound, flags, deliveries, readVars, workVars, sent, authVars, client, endVars>>

------------------------------------------------------------------------------
\* authLoop. It prompts ahead of the expiry and disconnects at the expiry.

Waiting == {"idle", "prompt", "expiry"}

AuthTimer ==
    /\ authLoop \in {"prompt", "expiry"}
    /\ authLoop' = IF authLoop = "prompt" THEN "prompting" ELSE "expiring"
    /\ UNCHANGED <<inbound, socket, publishQ, outbound, flags, deliveries, readVars, workVars, writeVars, reauth, client, endVars>>

AuthQueues ==
    /\ authLoop \in {"prompting", "expiring"}
    /\ \/ /\ Len(outbound) < OutCap
          /\ outbound' = Append(outbound, IF authLoop = "prompting" THEN Reply ELSE Disconnected)
       \/ cancelled /\ UNCHANGED outbound
    /\ authLoop' = IF authLoop = "prompting" THEN "expiry" ELSE "exited"
    /\ UNCHANGED <<inbound, socket, publishQ, flags, deliveries, readVars, workVars, writeVars, reauth, client, endVars>>

\* A new token: long-lived or short-lived.
Reschedule ==
    /\ authLoop \in Waiting
    /\ reauth = 1
    /\ reauth' = 0
    /\ authLoop' \in {"prompt", "expiry"}
    /\ UNCHANGED <<inbound, socket, publishQ, outbound, flags, deliveries, readVars, workVars, writeVars, client, endVars>>

AuthExits ==
    /\ authLoop \in Waiting
    /\ cancelled
    /\ authLoop' = "exited"
    /\ UNCHANGED <<inbound, socket, publishQ, outbound, flags, deliveries, readVars, workVars, writeVars, reauth, client, endVars>>

------------------------------------------------------------------------------
Client ==
    \/ \E serial \in Serials, valid \in BOOLEAN : ClientPublishes(serial, valid)
    \/ ClientSends("ping") \/ ClientSends("close")
    \/ \E valid \in BOOLEAN : ClientAuths(valid)
Environment == Client \/ Drop \/ Deliver \/ DisconnectCalled
ReadLoop == Dispatch \/ SignalReauth \/ ReaderQueues \/ EnqueuePublish \/ ReadFails \/ Leave \/ Finish
PublishLoop == TakeTask \/ RunTask \/ WorkerQueues \/ WorkerExits
WriteLoop == Write \/ WriteFails \/ WriterExits
AuthLoop == AuthQueues \/ Reschedule \/ AuthExits
Next == Environment \/ ReadLoop \/ PublishLoop \/ WriteLoop \/ AuthLoop \/ AuthTimer

\* Every loop runs on when it can. The client reads what is written; nothing makes it
\* send, and no token need expire.
Fairness == WF_vars(ReadLoop) /\ WF_vars(PublishLoop) /\ WF_vars(WriteLoop) /\ WF_vars(AuthLoop)

Spec == Init /\ [][Next]_vars
FairSpec == Spec /\ Fairness

------------------------------------------------------------------------------
\* Every variable has its type; publishCh and the outbound channel stay within their
\* capacities, and the re-auth signal is a channel of one.
TypeOK ==
    /\ inbound \in Seq(InFrames)
    /\ client \in [frames : 0..MaxFrames, auths : 0..MaxAuths, serial : Serials \cup {NoSerial}]
    /\ socket \in {"open", "closed"}
    /\ reader \in {"reading", "queueing", "enqueueing", "signalling", "draining", "leaving", "done"}
    /\ holding \in OutFrames \cup Tasks
    /\ lastMsgSerial \in Serials \cup {NoSerial}
    /\ accepted \in Seq(Serials) /\ committed \in Seq(Serials)
    /\ publishQ \in Seq(Tasks) /\ Len(publishQ) <= PubCap
    /\ worker \in {"idle", "busy", "queueing", "exited"}
    /\ task \in OutFrames \cup Tasks
    /\ outbound \in Seq(OutFrames) /\ Len(outbound) <= OutCap
    /\ sent \in Seq(OutFrames)
    /\ writer \in {"running", "exited"}
    /\ authLoop \in Waiting \cup {"prompting", "expiring", "exited"}
    /\ reauth \in 0..1
    /\ cancelled \in BOOLEAN
    /\ flags \in [clientClosed : BOOLEAN, shuttingDown : BOOLEAN, refused : BOOLEAN]
    /\ departure \in {"none", "now", "later"}
    /\ deliveries \in 0..MaxDeliveries

IsAnswer(f) == f.kind \in {"ack", "nack"}

\* ACKs and NACKs leave in msgSerial order, one for every publish accepted and none twice,
\* whatever is refused by the read loop or fails in the worker: when one is on the wire,
\* so are those of all publishes accepted before.
AnswersInOrder ==
    \A i \in DOMAIN sent : IsAnswer(sent[i]) =>
        /\ \E k \in DOMAIN accepted : accepted[k] = sent[i].serial
        /\ \A j \in 1..(i - 1) : IsAnswer(sent[j]) => sent[j].serial < sent[i].serial
        /\ \A k \in DOMAIN accepted : accepted[k] < sent[i].serial =>
              \E j \in 1..(i - 1) : IsAnswer(sent[j]) /\ sent[j].serial = accepted[k]

\* Publishes commit in the order the client sent them, and one that was acknowledged is
\* committed.
AckedIsCommitted ==
    /\ \A i, j \in DOMAIN committed : i < j => committed[i] < committed[j]
    /\ \A i \in DOMAIN sent : sent[i].kind = "ack" =>
          \E k \in DOMAIN committed : committed[k] = sent[i].serial

\* DISCONNECTED is the last frame a client receives.
DisconnectedIsLast == \A i \in DOMAIN sent : sent[i] = Disconnected => i = Len(sent)

\* Every publish that was accepted is answered in the end, or the connection ends.
PublishesAnswered ==
    <>[](\/ \A k \in DOMAIN accepted : \E i \in DOMAIN sent : IsAnswer(sent[i]) /\ sent[i].serial = accepted[k]
         \/ socket = "closed")

\* The read loop waits, directly or through the worker or the authLoop, for room in an
\* outbound channel that nobody takes from any more, or for an authLoop that has returned.
\* Only the context would end the wait, and only the read loop cancels it.
Unheard == writer = "exited" /\ Len(outbound) = OutCap
Stranded ==
    \/ Unheard /\ reader = "queueing"
    \/ Unheard /\ reader = "enqueueing" /\ Len(publishQ) = PubCap /\ worker = "queueing"
    \/ Unheard /\ reader = "signalling" /\ reauth = 1 /\ authLoop \in {"prompting", "expiring"}
    \/ reader = "signalling" /\ reauth = 1 /\ authLoop = "exited"

\* When the socket is closed, by the client, the network, an expired token or a shutdown,
\* run returns, and with it the presence of the connection is left, or the read loop is
\* Stranded: no other order of events keeps a connection from its teardown.
WindsUp == []<>(socket = "open" \/ reader = "done" \/ Stranded)

\* A connection that is told to disconnect tears down, also where its outbound channel is
\* full because the writer is gone or backed up. It need not: closing the socket does not
\* wake a read loop that is Stranded.
TearsDown == flags.shuttingDown ~> reader = "done"

\* The read loop never waits for an authLoop that has returned.
ReauthNeverBlocks == ~(reader = "signalling" /\ reauth = 1 /\ authLoop = "exited")

\* A refused re-auth ends the connection.
RefusedReauthCloses == flags.refused ~> socket = "closed"
==============================================================================
