-------------------------- MODULE ConnectionProofs --------------------------
(***************************************************************************)
(* Proofs about the connections of a server: how requests open a channel,  *)
(* for any number of them; the registry of connections during normal       *)
(* traffic and at shutdown, for any number of connections and ids; and the *)
(* loops of one connection, for channels of any capacity and any number of *)
(* frames, where answers are written in msgSerial order and none is        *)
(* missing, what was acknowledged is committed, and nothing follows        *)
(* DISCONNECTED.                                                           *)
(***************************************************************************)
EXTENDS Manager, Lifecycle, Connection, Integers, TLAPS

-----------------------------------------------------------------------------
(***************************************************************************)
(* Opening a channel.                                                      *)
(***************************************************************************)
Opening == {"open", "ensure", "opened", "failed"}

CallersTyped == pc \in [Callers -> Places] /\ store \in [Channels -> SUBSET Channels]

\* The caller that opens the Channel is the one that registered it, the store it
\* finds is its own, and when nothing is registered nothing is left of an open.
CallerInv(p) ==
    /\ pc[p] \in Opening => registered = {p}
    /\ pc[p] \in {"open", "failed"} => stores = {}
    /\ pc[p] \in {"ensure", "opened"} => stores = {p}
    /\ pc[p] = "opened" => p \in initialized
    /\ p \in initialized => /\ pc[p] \notin {"start", "open", "ensure", "failed"}
                            /\ registered = {p} /\ stores = {p}
    /\ registered = {} => stores = {}
    /\ store[p] # NoStore => store[p] = {p}

OpenInv == CallersTyped /\ \A p \in Callers : CallerInv(p)

\* A step of one caller, for itself and for any other.
LEMMA CallerStep ==
    ASSUME NEW p \in Callers, NEW q \in Callers, OpenInv, Step(q) \/ BoltFails(q) \/ EnsureFails(q)
    PROVE  CallersTyped' /\ CallerInv(p)'
<1> USE DEF CallersTyped, CallerInv, Places, Opening, Channels, NoStore, Goto
<1>1. CallersTyped /\ CallerInv(p) /\ CallerInv(q)
  BY Zenon DEF OpenInv
<1>2. CASE GetChannel(q)
  BY <1>1, <1>2, ZenonT(40) DEF GetChannel
<1>3. CASE OpenStore(q)
  BY <1>1, <1>3, ZenonT(40) DEF OpenStore
<1>4. CASE BoltFails(q) \/ Ensured(q) \/ EnsureFails(q)
  BY <1>1, <1>4, ZenonT(40) DEF BoltFails, Ensured, EnsureFails
<1>5. CASE SetStore(q)
  BY <1>1, <1>5, ZenonT(40) DEF SetStore
<1>6. CASE RollBack(q)
  BY <1>1, <1>6, ZenonT(40) DEF RollBack
<1>7. CASE AttachTo(q) \/ Delegate(q)
  BY <1>1, <1>7, ZenonT(40) DEF AttachTo, Delegate
<1> QED
  BY <1>2, <1>3, <1>4, <1>5, <1>6, <1>7, Zenon DEF Step

\* The Channel that is ready is the one registered and the one the store appends
\* to, whatever requests fail or are cancelled while they open it.
THEOREM SingleChannel == ManagerSpec => []OneLiveChannel
<1>1. ManagerInit => OpenInv
  BY Zenon DEF ManagerInit, OpenInv, CallersTyped, CallerInv, Places, Opening, Channels, NoStore
<1>2. OpenInv /\ [ManagerNext]_managerVars => OpenInv'
  <2>1. OpenInv /\ UNCHANGED managerVars => OpenInv'
    BY Zenon DEF OpenInv, CallersTyped, CallerInv, managerVars
  <2> QED
    BY <2>1, CallerStep, Zenon DEF ManagerNext, OpenInv
<1>3. OpenInv => OneLiveChannel
  BY Zenon DEF OpenInv, CallerInv, OneLiveChannel, Channels
<1> QED
  BY <1>1, <1>2, <1>3, PTL DEF ManagerSpec

-----------------------------------------------------------------------------
(***************************************************************************)
(* The connection registry.                                                *)
(***************************************************************************)
Lives == {"none", "accepted", "upgraded", "open", "ended", "leaving", "left", "gone"}

ConnTypes ==
    /\ life \in [Conns -> Lives]
    /\ cid \in [Conns -> SUBSET Ids]
    /\ byKey \in [Ids -> SUBSET Conns]

\* The registry holds exactly the connections between register and deregister,
\* and a key names one of them, with that id. DISCONNECTED is queued, and sent, only
\* for connections already marked, so that the teardown of a client that was told
\* publishes its LEAVE.
ConnInv(c) ==
    /\ c \in conns <=> life[c] \in {"open", "ended", "leaving", "left"}
    /\ \A i \in Ids : c \in byKey[i] => life[c] \in {"open", "ended", "leaving", "left"} /\ cid[c] = {i}
    /\ c \in queued \cup told => c \in shuttingDown
    /\ c \in told /\ life[c] \in {"left", "gone"} => c \notin member \/ c \in lost

RegistryInv == ConnTypes /\ \A c \in Conns : ConnInv(c)

\* Every step keeps the connections and the index well-formed.
LEMMA RegistryTypes == ConnTypes /\ [LifecycleNext]_lifecycleVars => ConnTypes'
<1> SUFFICES ASSUME ConnTypes, [LifecycleNext]_lifecycleVars PROVE ConnTypes'
  OBVIOUS
<1> USE DEF ConnTypes, Lives
<1>1. ASSUME NEW c \in Conns, Accept(c) \/ Register(c) \/ Enter(c) \/ Fill(c) \/ WriteFrame(c) PROVE ConnTypes'
  BY <1>1 DEF Accept, Register, Enter, Fill, WriteFrame, Goes, OnlyLife, connVars
<1>2. ASSUME NEW c \in Conns, NEW i \in Ids, Upgrade(c, i) PROVE ConnTypes'
  BY <1>2, Zenon DEF Upgrade, Goes
<1>3. ASSUME NEW c \in Conns, NEW closed \in BOOLEAN, ReadEnds(c, closed) PROVE ConnTypes'
  BY <1>3, Zenon DEF ReadEnds, Goes
<1>4. ASSUME NEW c \in Conns, Teardown(c) \/ PublishLeaves(c) \/ Deregister(c) \/ Fire(c) \/ Disconnect(c)
      PROVE  ConnTypes'
  BY <1>4 DEF Teardown, PublishLeaves, Deregister, Fire, Disconnect, Tell, Goes, OnlyLife, connVars
<1>5. CASE Signal \/ StopListening \/ Snapshot \/ Expire
  BY <1>5, Zenon DEF Signal, StopListening, Snapshot, Expire, connVars
<1>6. CASE ForceClose \/ CloseStorage \/ Exit \/ UNCHANGED lifecycleVars
  BY <1>6, Zenon DEF ForceClose, CloseStorage, Exit, lifecycleVars, connVars
<1> QED
  BY <1>1, <1>2, <1>3, <1>4, <1>5, <1>6, Zenon DEF LifecycleNext

\* A step of one connection, for itself and for any other.
LEMMA ConnStep ==
    ASSUME NEW c \in Conns, NEW d \in Conns, RegistryInv,
           \/ Accept(d) \/ Register(d) \/ Enter(d) \/ Fill(d) \/ WriteFrame(d) \/ Teardown(d)
           \/ PublishLeaves(d) \/ Deregister(d) \/ Fire(d) \/ Disconnect(d)
           \/ \E i \in Ids : Upgrade(d, i)
           \/ \E closed \in BOOLEAN : ReadEnds(d, closed)
    PROVE  ConnInv(c)'
<1>1. /\ life \in [Conns -> Lives] /\ cid \in [Conns -> SUBSET Ids] /\ byKey \in [Ids -> SUBSET Conns]
      /\ ConnInv(c) /\ ConnInv(d)
  BY Zenon DEF RegistryInv, ConnTypes
<1>2. CASE Accept(d)
  BY <1>1, <1>2, Zenon DEF ConnInv, Accept, Goes, OnlyLife
<1>3. CASE Register(d)
  BY <1>1, <1>3, Zenon DEF ConnInv, Register, Goes, OnlyLife
<1>4. ASSUME NEW i \in Ids, Upgrade(d, i) PROVE ConnInv(c)'
  BY <1>1, <1>4, Zenon DEF ConnInv, Upgrade, Goes
<1>5. ASSUME NEW closed \in BOOLEAN, ReadEnds(d, closed) PROVE ConnInv(c)'
  BY <1>1, <1>5, Zenon DEF ConnInv, ReadEnds, Goes
<1>6. CASE Enter(d) \/ Fill(d) \/ Fire(d)
  <2>1. /\ UNCHANGED <<life, cid, byKey, conns, queued, told, shuttingDown, lost>>
        /\ \/ UNCHANGED member \/ member' = member \ {d}
           \/ life[d] \in {"open", "ended"} /\ member' = member \cup {d}
    BY <1>6, Zenon DEF Enter, Fill, Fire, connVars
  <2> QED
    BY <1>1, <2>1, Zenon DEF ConnInv
<1>7. CASE WriteFrame(d)
  BY <1>1, <1>7 DEF ConnInv, WriteFrame, Goes
<1>8. CASE Teardown(d)
  BY <1>1, <1>8 DEF ConnInv, Teardown, Goes, OnlyLife
<1>9. CASE PublishLeaves(d)
  BY <1>1, <1>9 DEF ConnInv, PublishLeaves, Goes, OnlyLife
<1>10. CASE Deregister(d)
  BY <1>1, <1>10, Zenon DEF ConnInv, Deregister, Goes, OnlyLife
<1>11. CASE Disconnect(d)
  BY <1>1, <1>11 DEF ConnInv, Disconnect, Tell, Goes
<1> QED
  BY <1>2, <1>3, <1>4, <1>5, <1>6, <1>7, <1>8, <1>9, <1>10, <1>11, Zenon

\* The registry and its index agree in every reachable state.
THEOREM RegistryCorrect == LifecycleSpec => []RegistryInv
<1>1. LifecycleInit => RegistryInv
  BY Zenon DEF LifecycleInit, RegistryInv, ConnInv, ConnTypes, Lives
<1>2. RegistryInv /\ [LifecycleNext]_lifecycleVars => RegistryInv'
  <2> SUFFICES ASSUME RegistryInv, [LifecycleNext]_lifecycleVars, NEW c \in Conns PROVE ConnInv(c)'
    BY RegistryTypes, Zenon DEF RegistryInv
  <2>1. ConnTypes /\ ConnInv(c)
    BY Zenon DEF RegistryInv
  <2>2. CASE Signal \/ StopListening \/ Snapshot \/ Expire \/ CloseStorage \/ Exit \/ UNCHANGED lifecycleVars
    <3>1. UNCHANGED <<connVars, conns, byKey, member, lost>>
      BY <2>2, Zenon DEF Signal, StopListening, Snapshot, Expire, CloseStorage, Exit, lifecycleVars
    <3> QED
      BY <2>1, <3>1, Zenon DEF ConnInv, connVars
  <2>3. CASE ForceClose
    BY <2>1, <2>3, Zenon DEF ConnInv, ConnTypes, ForceClose
  <2> QED
    BY <2>2, <2>3, ConnStep, Zenon DEF LifecycleNext
<1> QED
  BY <1>1, <1>2, PTL DEF LifecycleSpec

\* ResolveConnectionKey never finds a connection that was deregistered, or one
\* with another id.
THEOREM KeysNameLive == LifecycleSpec => []KeyNamesLive
<1>1. RegistryInv => KeyNamesLive
  BY Zenon DEF RegistryInv, ConnInv, KeyNamesLive, ConnTypes
<1> QED
  BY <1>1, RegistryCorrect, PTL

\* The teardown of a connection that was sent DISCONNECTED by the shutdown has
\* published its LEAVE, or found storage closed.
THEOREM ToldLeave == LifecycleSpec => []ToldHaveLeft
<1>1. RegistryInv => ToldHaveLeft
  BY Zenon DEF RegistryInv, ConnInv, ToldHaveLeft
<1> QED
  BY <1>1, RegistryCorrect, PTL

-----------------------------------------------------------------------------
(***************************************************************************)
(* The loops of a connection.                                              *)
(*                                                                         *)
(* A msgSerial that was accepted moves from the read loop (holding)        *)
(* through publishQ, the worker (task) and outbound onto the wire (sent).  *)
(* The invariant says that these stages hold increasing serials, each      *)
(* stage only serials below those of the stages behind it, and, as long as *)
(* the socket is open, all that were accepted between them.  Answers are   *)
(* dropped only after the context is cancelled, when the socket is closed  *)
(* and the wire takes no more.                                             *)
(***************************************************************************)
\* The msgSerials that the answers of a sequence of frames carry, those of its ACKs, and
\* those of a sequence of tasks.
AnswersOf(q) == {q[i].serial : i \in {j \in DOMAIN q : IsAnswer(q[j])}}
AcksOf(q) == {q[i].serial : i \in {j \in DOMAIN q : q[j].kind = "ack"}}
SerialsOf(q) == {q[i].serial : i \in DOMAIN q}
ElementsOf(q) == {q[i] : i \in DOMAIN q}

Below(A, B) == \A s \in A, t \in B : s < t

\* The answers of a sequence, the tasks, or the numbers, increase.
AnswersRise(q) ==
    \A i, j \in DOMAIN q : i < j /\ IsAnswer(q[i]) /\ IsAnswer(q[j]) => q[i].serial < q[j].serial
TasksRise(q) == \A i, j \in DOMAIN q : i < j => q[i].serial < q[j].serial
Rise(q) == \A i, j \in DOMAIN q : i < j => q[i] < q[j]

\* A frame at the end of a queue.
LEMMA QueueFrame ==
    ASSUME NEW q \in Seq(OutFrames), NEW f \in OutFrames
    PROVE  /\ Append(q, f) \in Seq(OutFrames)
           /\ AnswersOf(Append(q, f)) = AnswersOf(q) \cup (IF IsAnswer(f) THEN {f.serial} ELSE {})
           /\ AcksOf(Append(q, f)) = AcksOf(q) \cup (IF f.kind = "ack" THEN {f.serial} ELSE {})
           /\ AnswersRise(q) /\ (IsAnswer(f) => Below(AnswersOf(q), {f.serial})) => AnswersRise(Append(q, f))
<1>1. /\ Append(q, f) \in Seq(OutFrames) /\ Len(q) \in Nat
      /\ DOMAIN q = 1..Len(q) /\ DOMAIN Append(q, f) = 1..(Len(q) + 1)
      /\ \A i \in 1..Len(q) : Append(q, f)[i] = q[i]
      /\ Append(q, f)[Len(q) + 1] = f
  OBVIOUS
<1>2. AnswersOf(Append(q, f)) = AnswersOf(q) \cup (IF IsAnswer(f) THEN {f.serial} ELSE {})
  BY <1>1 DEF AnswersOf
<1>3. AcksOf(Append(q, f)) = AcksOf(q) \cup (IF f.kind = "ack" THEN {f.serial} ELSE {})
  BY <1>1 DEF AcksOf
<1>4. AnswersRise(q) /\ (IsAnswer(f) => Below(AnswersOf(q), {f.serial})) => AnswersRise(Append(q, f))
  BY <1>1 DEF AnswersRise, AnswersOf, Below
<1> QED
  BY <1>1, <1>2, <1>3, <1>4, Zenon

\* Who is in these sets.
LEMMA InAnswers ==
    ASSUME NEW q
    PROVE  /\ \A s : s \in AnswersOf(q) <=> \E i \in DOMAIN q : IsAnswer(q[i]) /\ q[i].serial = s
           /\ \A s : s \in AcksOf(q) <=> \E i \in DOMAIN q : q[i].kind = "ack" /\ q[i].serial = s
BY Zenon DEF AnswersOf, AcksOf

\* t is q without its first element.
Shorter(q, t) ==
    /\ 1 \in DOMAIN q /\ DOMAIN q \subseteq Nat /\ DOMAIN t \subseteq Nat
    /\ \A i \in DOMAIN q : i = 1 \/ (i > 1 /\ i - 1 \in DOMAIN t /\ t[i - 1] = q[i])
    /\ \A i \in DOMAIN t : i > 0 /\ i + 1 \in DOMAIN q /\ t[i] = q[i + 1]

LEMMA TailShorter == ASSUME NEW S, NEW q \in Seq(S), Len(q) > 0
                     PROVE  Shorter(q, Tail(q)) /\ Tail(q) \in Seq(S) /\ q[1] \in S
BY DEF Shorter

\* A frame taken off a queue.
LEMMA DequeueFrame ==
    ASSUME NEW q, NEW t, Shorter(q, t), AnswersRise(q)
    PROVE  /\ AnswersRise(t) /\ AcksOf(t) \subseteq AcksOf(q)
           /\ q[1].kind = "ack" => q[1].serial \in AcksOf(q)
           /\ AnswersOf(q) = AnswersOf(t) \cup (IF IsAnswer(q[1]) THEN {q[1].serial} ELSE {})
           /\ IsAnswer(q[1]) => Below({q[1].serial}, AnswersOf(t))
<1>2. AnswersRise(t)
  BY DEF AnswersRise, Shorter
<1>3. AcksOf(t) \subseteq AcksOf(q) /\ (q[1].kind = "ack" => q[1].serial \in AcksOf(q))
  BY InAnswers DEF Shorter
<1>4. \A s : s \in AnswersOf(q) <=> s \in AnswersOf(t) \/ (IsAnswer(q[1]) /\ s = q[1].serial)
  BY InAnswers DEF Shorter
<1>5. IsAnswer(q[1]) => \A s \in AnswersOf(t) : q[1].serial < s
  BY InAnswers DEF AnswersRise, Shorter
<1> QED
  BY <1>2, <1>3, <1>4, <1>5, Zenon DEF Below

\* The same for the tasks of publishQ and for histories.
LEMMA QueueTask ==
    ASSUME NEW q \in Seq(Tasks), NEW e \in Tasks, TasksRise(q), Below(SerialsOf(q), {e.serial})
    PROVE  /\ Append(q, e) \in Seq(Tasks) /\ TasksRise(Append(q, e))
           /\ SerialsOf(Append(q, e)) = SerialsOf(q) \cup {e.serial}
<1>1. /\ Append(q, e) \in Seq(Tasks) /\ Len(q) \in Nat
      /\ DOMAIN q = 1..Len(q) /\ DOMAIN Append(q, e) = 1..(Len(q) + 1)
      /\ \A i \in 1..Len(q) : Append(q, e)[i] = q[i]
      /\ Append(q, e)[Len(q) + 1] = e
  OBVIOUS
<1> QED
  BY <1>1 DEF SerialsOf, TasksRise, Below

LEMMA DequeueTask ==
    ASSUME NEW q, NEW t, Shorter(q, t), TasksRise(q)
    PROVE  /\ TasksRise(t) /\ SerialsOf(q) = SerialsOf(t) \cup {q[1].serial}
           /\ Below({q[1].serial}, SerialsOf(t))
<1>1. TasksRise(t)
  BY DEF TasksRise, Shorter
<1>2. \A s : s \in SerialsOf(q) <=> s \in SerialsOf(t) \/ s = q[1].serial
  BY DEF SerialsOf, Shorter
<1>3. \A s \in SerialsOf(t) : q[1].serial < s
  BY DEF SerialsOf, Shorter, TasksRise
<1> QED
  BY <1>1, <1>2, <1>3, Zenon DEF Below

LEMMA Recorded ==
    ASSUME NEW q \in Seq(Serials), NEW s \in Serials
    PROVE  /\ Append(q, s) \in Seq(Serials) /\ ElementsOf(Append(q, s)) = ElementsOf(q) \cup {s}
           /\ Rise(q) /\ Below(ElementsOf(q), {s}) => Rise(Append(q, s))
<1>1. /\ Append(q, s) \in Seq(Serials) /\ Len(q) \in Nat
      /\ DOMAIN q = 1..Len(q) /\ DOMAIN Append(q, s) = 1..(Len(q) + 1)
      /\ \A i \in 1..Len(q) : Append(q, s)[i] = q[i]
      /\ Append(q, s)[Len(q) + 1] = s
  OBVIOUS
<1> QED
  BY <1>1 DEF ElementsOf, Rise, Below

-----------------------------------------------------------------------------
\* The pipeline as sets of msgSerials: W on the wire, Q in outbound, K in the worker's
\* hands, B of those not yet run, P in publishQ, H in the read loop's hands, T accepted
\* and D committed so far, A acknowledged or about to be.
Pipe(open, last, W, Q, K, B, P, H, T, D, A) ==
    /\ T \subseteq Nat /\ last \in Nat
    /\ Below(W, Q \cup K \cup P \cup H) /\ Below(Q, K \cup P \cup H)
    /\ Below(K, P \cup H) /\ Below(P, H)
    /\ W \cup Q \cup K \cup P \cup H \subseteq T /\ \A s \in T : s <= last
    /\ open => T \subseteq W \cup Q \cup K \cup P \cup H
    /\ \A s \in T, t \in W : s < t => s \in W
    /\ B \subseteq K /\ Below(D, B \cup P \cup H) /\ D \subseteq T /\ A \subseteq D

\* How msgSerials move from stage to stage.

\* None moves; the socket may close.
LEMMA NoneMoves ==
    ASSUME NEW open, NEW last, NEW W, NEW Q, NEW K, NEW B, NEW P, NEW H, NEW T, NEW D, NEW A,
           Pipe(open, last, W, Q, K, B, P, H, T, D, A), NEW a \in SUBSET A, NEW o, o => open
    PROVE  Pipe(o, last, W, Q, K, B, P, H, T, D, a)
BY Zenon DEF Pipe

\* The read loop accepts one.
LEMMA ReaderAccepts ==
    ASSUME NEW open, NEW last, NEW W, NEW Q, NEW K, NEW B, NEW P, NEW H, NEW T, NEW D, NEW A,
           Pipe(open, last, W, Q, K, B, P, H, T, D, A), NEW s \in Nat, H = {}, last < s
    PROVE  Pipe(open, s, W, Q, K, B, P, {s}, T \cup {s}, D, A)
<1>1. last \in Nat /\ T \subseteq Nat /\ \A t \in T : t <= last
  BY Zenon DEF Pipe
<1>2. \A t \in T : t < s /\ t <= s
  BY <1>1
<1>3. W \subseteq T /\ Q \subseteq T /\ K \subseteq T /\ P \subseteq T /\ D \subseteq T
  BY Zenon DEF Pipe
<1>4. \A t \in W : ~(s < t)
  BY <1>1, <1>2, <1>3
<1> QED
  BY <1>1, <1>2, <1>3, <1>4 DEF Pipe, Below

\* It goes into publishQ.
LEMMA ReaderHands ==
    ASSUME NEW open, NEW last, NEW W, NEW Q, NEW K, NEW B, NEW P, NEW H, NEW T, NEW D, NEW A,
           Pipe(open, last, W, Q, K, B, P, H, T, D, A)
    PROVE  Pipe(open, last, W, Q, K, B, P \cup H, {}, T, D, A)
BY Zenon DEF Pipe, Below

\* The worker takes the lowest that waits.
LEMMA WorkerTakes ==
    ASSUME NEW open, NEW last, NEW W, NEW Q, NEW K, NEW B, NEW P, NEW H, NEW T, NEW D, NEW A,
           Pipe(open, last, W, Q, K, B, P, H, T, D, A), NEW s, NEW p, K = {}, P = p \cup {s}, Below({s}, p)
    PROVE  Pipe(open, last, W, Q, {s}, {s}, p, H, T, D, A)
BY DEF Pipe, Below

\* The worker has run it: with a commit and an ACK, or without.
LEMMA WorkerRuns ==
    ASSUME NEW open, NEW last, NEW W, NEW Q, NEW K, NEW B, NEW P, NEW H, NEW T, NEW D, NEW A,
           Pipe(open, last, W, Q, K, B, P, H, T, D, A), B = K
    PROVE  /\ Pipe(open, last, W, Q, K, {}, P, H, T, D, A)
           /\ Pipe(open, last, W, Q, K, {}, P, H, T, D \cup K, A \cup K)
BY Zenon DEF Pipe, Below

\* Its answer goes into outbound.
LEMMA WorkerAnswers ==
    ASSUME NEW open, NEW last, NEW W, NEW Q, NEW K, NEW B, NEW P, NEW H, NEW T, NEW D, NEW A,
           Pipe(open, last, W, Q, K, B, P, H, T, D, A), B = {}
    PROVE  Pipe(open, last, W, Q \cup K, {}, {}, P, H, T, D, A)
BY Zenon DEF Pipe, Below

\* On a closed socket, answers may be dropped.
LEMMA AnswersLost ==
    ASSUME NEW open, NEW last, NEW W, NEW Q, NEW K, NEW B, NEW P, NEW H, NEW T, NEW D, NEW A,
           Pipe(open, last, W, Q, K, B, P, H, T, D, A), ~open,
           NEW k \in SUBSET K, NEW b, b = {} \/ (b = B /\ k = K), NEW q \in SUBSET Q, NEW a \in SUBSET A
    PROVE  Pipe(open, last, W, q, k, b, P, H, T, D, a)
BY Zenon DEF Pipe, Below

\* The lowest in outbound is written.
LEMMA AnswerWritten ==
    ASSUME NEW open, NEW last, NEW W, NEW Q, NEW K, NEW B, NEW P, NEW H, NEW T, NEW D, NEW A,
           Pipe(open, last, W, Q, K, B, P, H, T, D, A), NEW s, NEW q, open, Q = q \cup {s}, Below({s}, q)
    PROVE  Pipe(open, last, W \cup {s}, q, K, B, P, H, T, D, A)
<1>1. s \in T /\ \A t \in T : t \in W \/ t = s \/ s < t
  BY Zenon DEF Pipe, Below
<1>2. \A t \in T : t < s => t \in W
  BY <1>1 DEF Pipe
<1> QED
  BY <1>1, <1>2 DEF Pipe, Below

-----------------------------------------------------------------------------
AnswerFrames == [kind : {"ack", "nack"}, serial : Serials]

PipeTypes ==
    /\ inbound \in Seq({f \in InFrames : f.kind = "publish" => f.serial \in Serials})
    /\ reader = "enqueueing" => holding \in Tasks
    /\ reader \in {"queueing", "signalling"} => holding = Reply
    /\ worker = "busy" => task \in Tasks
    /\ worker = "queueing" => task \in AnswerFrames
    /\ lastMsgSerial \in Nat
    /\ accepted \in Seq(Serials) /\ committed \in Seq(Serials)
    /\ publishQ \in Seq(Tasks)
    /\ outbound \in Seq(OutFrames) /\ sent \in Seq(OutFrames)

\* The stages, as sets of msgSerials.
Wire == AnswersOf(sent)
Queue == AnswersOf(outbound)
Work == IF worker \in {"busy", "queueing"} THEN {task.serial} ELSE {}
Busy == IF worker = "busy" THEN {task.serial} ELSE {}
Wait == SerialsOf(publishQ)
Hold == IF reader = "enqueueing" THEN {holding.serial} ELSE {}
Taken == ElementsOf(accepted)
Durable == ElementsOf(committed)
AckInHand == IF worker = "queueing" /\ task.kind = "ack" THEN {task.serial} ELSE {}
Acks == AcksOf(sent) \cup AcksOf(outbound) \cup AckInHand

Rises == AnswersRise(sent) /\ AnswersRise(outbound) /\ TasksRise(publishQ) /\ Rise(committed)

StageInv ==
    Pipe(socket = "open", lastMsgSerial, Wire, Queue, Work, Busy, Wait, Hold, Taken, Durable, Acks)

\* A context is cancelled only when the socket is closed; DISCONNECTED ends the writer.
EndInv ==
    /\ cancelled => socket = "closed"
    /\ \A i \in DOMAIN sent : sent[i] = Disconnected => i = Len(sent) /\ writer = "exited"

PipeInv == PipeTypes /\ EndInv /\ Rises /\ StageInv

\* What the sets are made of besides variables that a step leaves alone.
LEMMA SameSets ==
    /\ UNCHANGED sent => Wire' = Wire
    /\ UNCHANGED outbound => Queue' = Queue
    /\ UNCHANGED publishQ => Wait' = Wait
    /\ UNCHANGED accepted => Taken' = Taken
    /\ UNCHANGED committed => Durable' = Durable
    /\ UNCHANGED <<worker, task>> => Work' = Work /\ Busy' = Busy /\ AckInHand' = AckInHand
    /\ UNCHANGED <<reader, holding>> => Hold' = Hold
BY Zenon DEF Wire, Queue, Wait, Taken, Durable, Work, Busy, AckInHand, Hold

\* A step that moves no msgSerial; a frame that is no answer may join outbound.
Quiet ==
    /\ UNCHANGED <<sent, publishQ, accepted, committed, lastMsgSerial>>
    /\ Hold' = Hold /\ Work' = Work /\ Busy' = Busy /\ AckInHand' = AckInHand
    /\ socket' = "open" => socket = "open"
    /\ \/ UNCHANGED outbound
       \/ outbound' = Append(outbound, Reply)
       \/ outbound' = Append(outbound, Disconnected)

LEMMA QuietStep == ASSUME PipeInv, Quiet PROVE Rises' /\ StageInv'
<1>1. outbound \in Seq(OutFrames) /\ Rises /\ StageInv
  BY Zenon DEF PipeInv, PipeTypes
<1>2. ASSUME NEW f \in {Reply, Disconnected}
      PROVE  f \in OutFrames /\ ~IsAnswer(f) /\ f.kind # "ack"
  BY DEF Reply, Disconnected, OutFrames, IsAnswer
<1>3. Queue' = Queue /\ AcksOf(outbound') = AcksOf(outbound) /\ AnswersRise(outbound')
  BY <1>1, <1>2, QueueFrame, SameSets, Zenon DEF Quiet, Rises, Queue
<1>4. Rises'
  BY <1>1, <1>3, Zenon DEF Quiet, Rises
<1>5. Wire' = Wire /\ Wait' = Wait /\ Taken' = Taken /\ Durable' = Durable
  BY SameSets, Zenon DEF Quiet
<1>6. Acks' = Acks
  BY <1>3, Zenon DEF Quiet, Acks
<1>7. Pipe(socket' = "open", lastMsgSerial, Wire, Queue, Work, Busy, Wait, Hold, Taken, Durable, Acks)
  BY <1>1, NoneMoves, Zenon DEF StageInv, Quiet
<1> QED
  BY <1>3, <1>4, <1>5, <1>6, <1>7, Zenon DEF StageInv, Quiet

LEMMA AcceptStep == ASSUME PipeInv, TakeFrame, HandlePublish PROVE Rises' /\ StageInv'
<1>1. Rises /\ StageInv /\ Hold = {}
  BY Zenon DEF PipeInv, TakeFrame, Hold
<1>2. inbound[1].serial \in Serials /\ accepted \in Seq(Serials) /\ lastMsgSerial \in Nat
  BY DEF PipeInv, PipeTypes, TakeFrame, HandlePublish
<1>3. inbound[1].serial \in Nat /\ lastMsgSerial < inbound[1].serial
  BY <1>2 DEF HandlePublish, AcceptMsgSerial, NoSerial, Serials
<1>4. Taken' = Taken \cup {inbound[1].serial} /\ Hold' = {inbound[1].serial}
  BY <1>2, Recorded, Zenon DEF HandlePublish, Hand, Taken, Hold
<1>5. /\ Wire' = Wire /\ Queue' = Queue /\ Work' = Work /\ Busy' = Busy /\ Wait' = Wait
      /\ Durable' = Durable /\ Acks' = Acks /\ Rises' /\ UNCHANGED socket
      /\ lastMsgSerial' = inbound[1].serial
  BY <1>1, SameSets, Zenon DEF TakeFrame, HandlePublish, workVars, writeVars, Rises, Acks
<1>6. Pipe(socket = "open", inbound[1].serial, Wire, Queue, Work, Busy, Wait, {inbound[1].serial},
           Taken \cup {inbound[1].serial}, Durable, Acks)
  BY <1>1, <1>3, ReaderAccepts, Zenon DEF StageInv
<1> QED
  BY <1>4, <1>5, <1>6, Zenon DEF StageInv

LEMMA EnqueueStep == ASSUME PipeInv, EnqueuePublish PROVE Rises' /\ StageInv'
<1>1. Rises /\ StageInv /\ publishQ \in Seq(Tasks) /\ holding \in Tasks /\ Hold = {holding.serial}
  BY Zenon DEF PipeInv, PipeTypes, EnqueuePublish, Hold
<1>2. Below(SerialsOf(publishQ), {holding.serial})
  BY <1>1, Zenon DEF StageInv, Pipe, Wait
<1>3. Wait' = Wait \cup Hold /\ TasksRise(publishQ') /\ Hold' = {}
  BY <1>1, <1>2, QueueTask, Zenon DEF EnqueuePublish, Wait, Rises, Hold
<1>4. /\ Wire' = Wire /\ Queue' = Queue /\ Work' = Work /\ Busy' = Busy /\ Taken' = Taken
      /\ Durable' = Durable /\ Acks' = Acks /\ Rises' /\ UNCHANGED <<socket, lastMsgSerial>>
  BY <1>1, <1>3, SameSets, Zenon DEF EnqueuePublish, workVars, writeVars, Rises, Acks
<1>5. Pipe(socket = "open", lastMsgSerial, Wire, Queue, Work, Busy, Wait \cup Hold, {}, Taken, Durable, Acks)
  BY <1>1, ReaderHands, Zenon DEF StageInv
<1> QED
  BY <1>3, <1>4, <1>5, Zenon DEF StageInv

LEMMA TakeStep == ASSUME PipeInv, TakeTask PROVE Rises' /\ StageInv'
<1>1. Rises /\ StageInv /\ publishQ \in Seq(Tasks) /\ Work = {} /\ AckInHand = {}
  BY Zenon DEF PipeInv, PipeTypes, TakeTask, Work, AckInHand
<1>2. Shorter(publishQ, publishQ')
  BY <1>1, TailShorter, Zenon DEF TakeTask
<1>3. Wait = Wait' \cup {task'.serial} /\ Below({task'.serial}, Wait') /\ TasksRise(publishQ')
  BY <1>1, <1>2, DequeueTask, Zenon DEF Rises, Wait, TakeTask
<1>4. Work' = {task'.serial} /\ Busy' = {task'.serial} /\ AckInHand' = {}
  BY Zenon DEF TakeTask, Work, Busy, AckInHand
<1>5. /\ Wire' = Wire /\ Queue' = Queue /\ Hold' = Hold /\ Taken' = Taken /\ Durable' = Durable
      /\ Acks' = Acks /\ Rises' /\ UNCHANGED <<socket, lastMsgSerial>>
  BY <1>1, <1>3, <1>4, SameSets, Zenon DEF TakeTask, readVars, writeVars, Rises, Acks
<1>6. Pipe(socket = "open", lastMsgSerial, Wire, Queue, Work', Busy', Wait', Hold, Taken, Durable, Acks)
  BY <1>1, <1>3, <1>4, WorkerTakes, Zenon DEF StageInv
<1> QED
  BY <1>5, <1>6, Zenon DEF StageInv

LEMMA RunStep == ASSUME PipeInv, RunTask PROVE Rises' /\ StageInv'
<1>1. /\ Rises /\ StageInv /\ committed \in Seq(Serials) /\ task.serial \in Serials
      /\ Work = {task.serial} /\ Busy = Work /\ AckInHand = {}
  BY Zenon DEF PipeInv, PipeTypes, Tasks, RunTask, Work, Busy, AckInHand
<1>2. Work' = Work /\ Busy' = {}
  BY <1>1 DEF RunTask, Work, Busy, Answer
<1>3. /\ Wire' = Wire /\ Queue' = Queue /\ Hold' = Hold /\ Taken' = Taken /\ Wait' = Wait
      /\ UNCHANGED <<socket, lastMsgSerial, sent, outbound, publishQ>>
  BY SameSets, Zenon DEF RunTask, readVars, writeVars
<1>4. CASE UNCHANGED committed /\ task' = Answer("nack")
  <2>1. Acks' = Acks /\ Durable' = Durable /\ Rises'
    BY <1>1, <1>3, <1>4, SameSets, Zenon DEF Acks, AckInHand, Answer, Rises
  <2>2. Pipe(socket = "open", lastMsgSerial, Wire, Queue, Work, {}, Wait, Hold, Taken, Durable, Acks)
    BY <1>1, WorkerRuns, Zenon DEF StageInv
  <2> QED
    BY <1>2, <1>3, <2>1, <2>2, Zenon DEF StageInv
<1>5. CASE committed' = Append(committed, task.serial) /\ task' = Answer("ack")
  <2>1. Below(ElementsOf(committed), {task.serial})
    BY <1>1, Zenon DEF StageInv, Pipe, Durable, Below
  <2>2. Durable' = Durable \cup Work /\ Rise(committed')
    BY <1>1, <1>5, <2>1, Recorded, Zenon DEF Durable, Rises
  <2>3. Acks' = Acks \cup Work /\ Rises'
    BY <1>1, <1>3, <1>5, <2>2, Zenon DEF Acks, AckInHand, Answer, Rises, RunTask
  <2>4. Pipe(socket = "open", lastMsgSerial, Wire, Queue, Work, {}, Wait, Hold, Taken,
             Durable \cup Work, Acks \cup Work)
    BY <1>1, WorkerRuns, Zenon DEF StageInv
  <2> QED
    BY <1>2, <1>3, <2>2, <2>3, <2>4, Zenon DEF StageInv
<1> QED
  BY <1>4, <1>5, Zenon DEF RunTask

LEMMA AnswerStep == ASSUME PipeInv, WorkerQueues PROVE Rises' /\ StageInv'
<1>1. /\ Rises /\ StageInv /\ outbound \in Seq(OutFrames) /\ task \in OutFrames /\ IsAnswer(task)
      /\ Work = {task.serial} /\ Busy = {} /\ (cancelled => socket = "closed")
  BY Zenon DEF PipeInv, PipeTypes, EndInv, AnswerFrames, OutFrames, IsAnswer, WorkerQueues, Work, Busy
<1>2. Work' = {} /\ Busy' = {} /\ AckInHand' = {}
  BY Zenon DEF WorkerQueues, Work, Busy, AckInHand
<1>3. /\ Wire' = Wire /\ Hold' = Hold /\ Taken' = Taken /\ Wait' = Wait /\ Durable' = Durable
      /\ UNCHANGED <<socket, lastMsgSerial, sent, publishQ, committed>>
  BY SameSets, Zenon DEF WorkerQueues, readVars, writeVars
<1>4. CASE outbound' = Append(outbound, task)
  <2>1. Below(AnswersOf(outbound), {task.serial})
    BY <1>1, Zenon DEF StageInv, Pipe, Queue, Below
  <2>2. Queue' = Queue \cup Work /\ AnswersRise(outbound') /\ AcksOf(outbound') = AcksOf(outbound) \cup AckInHand
    BY <1>1, <1>4, <2>1, QueueFrame, Zenon DEF Queue, Rises, AckInHand, WorkerQueues
  <2>3. Acks' = Acks /\ Rises'
    BY <1>1, <1>2, <1>3, <2>2, Zenon DEF Acks, Rises
  <2>4. Pipe(socket = "open", lastMsgSerial, Wire, Queue \cup Work, {}, {}, Wait, Hold, Taken, Durable, Acks)
    BY <1>1, WorkerAnswers, Zenon DEF StageInv
  <2> QED
    BY <1>2, <1>3, <2>2, <2>3, <2>4, Zenon DEF StageInv
<1>5. CASE cancelled /\ UNCHANGED outbound
  <2>1. Acks' \subseteq Acks /\ Rises' /\ Queue' = Queue /\ socket # "open"
    BY <1>1, <1>2, <1>3, <1>5, SameSets, Zenon DEF Acks, Rises
  <2>2. Pipe(socket = "open", lastMsgSerial, Wire, Queue, {}, {}, Wait, Hold, Taken, Durable, Acks')
    BY <1>1, <2>1, AnswersLost, ZenonT(30) DEF StageInv
  <2> QED
    BY <1>2, <1>3, <2>1, <2>2, Zenon DEF StageInv
<1> QED
  BY <1>4, <1>5, Zenon DEF WorkerQueues

LEMMA WriteStep == ASSUME PipeInv, Write PROVE Rises' /\ StageInv'
<1> DEFINE f == outbound[1]
<1>1. Rises /\ StageInv /\ sent \in Seq(OutFrames) /\ outbound \in Seq(OutFrames) /\ Len(outbound) > 0
  BY Zenon DEF PipeInv, PipeTypes, Write
<1>2. Shorter(outbound, outbound') /\ f \in OutFrames
  BY <1>1, TailShorter, Zenon DEF Write
<1>3. /\ AnswersRise(outbound') /\ AcksOf(outbound') \subseteq AcksOf(outbound)
      /\ f.kind = "ack" => f.serial \in AcksOf(outbound)
      /\ Queue = Queue' \cup (IF IsAnswer(f) THEN {f.serial} ELSE {})
      /\ IsAnswer(f) => Below({f.serial}, Queue')
  BY <1>1, <1>2, DequeueFrame, Zenon DEF Rises, Queue
<1>4. IsAnswer(f) => Below(AnswersOf(sent), {f.serial})
  BY <1>1, <1>3, Zenon DEF StageInv, Pipe, Wire, Below
<1>5. /\ AnswersRise(sent') /\ Wire' = Wire \cup (IF IsAnswer(f) THEN {f.serial} ELSE {})
      /\ AcksOf(sent') = AcksOf(sent) \cup (IF f.kind = "ack" THEN {f.serial} ELSE {})
  BY <1>1, <1>2, <1>4, QueueFrame, Zenon DEF Write, Rises, Wire
<1>6. /\ Hold' = Hold /\ Work' = Work /\ Busy' = Busy /\ AckInHand' = AckInHand
      /\ Wait' = Wait /\ Taken' = Taken /\ Durable' = Durable
      /\ UNCHANGED <<publishQ, committed, lastMsgSerial>> /\ socket = "open"
  BY SameSets, Zenon DEF Write, readVars, workVars
<1>7. Rises' /\ Acks' \subseteq Acks
  BY <1>1, <1>3, <1>5, <1>6, Zenon DEF Rises, Acks
<1>8. Pipe(socket = "open", lastMsgSerial, Wire', Queue', Work, Busy, Wait, Hold, Taken, Durable, Acks)
  <2>1. CASE IsAnswer(f)
    <3>1. Queue = Queue' \cup {f.serial} /\ Wire' = Wire \cup {f.serial} /\ Below({f.serial}, Queue')
      BY <1>3, <1>5, <2>1, Zenon
    <3> QED
      BY <1>1, <1>6, <3>1, AnswerWritten, Zenon DEF StageInv
  <2>2. CASE ~IsAnswer(f)
    BY <1>1, <1>3, <1>5, <2>2, Zenon DEF StageInv
  <2> QED
    BY <2>1, <2>2, Zenon
<1>9. Pipe(socket' = "open", lastMsgSerial, Wire', Queue', Work, Busy, Wait, Hold, Taken, Durable, Acks')
  BY <1>6, <1>7, <1>8, NoneMoves, Zenon
<1> QED
  BY <1>6, <1>7, <1>9, Zenon DEF StageInv

LEMMA WriteFailsStep == ASSUME PipeInv, WriteFails PROVE Rises' /\ StageInv'
<1>1. Rises /\ StageInv /\ outbound \in Seq(OutFrames)
  BY Zenon DEF PipeInv, PipeTypes
<1>2. AnswersRise(outbound') /\ AcksOf(outbound') \subseteq AcksOf(outbound) /\ Queue' \subseteq Queue
  <2>1. CASE Len(outbound) > 0 /\ outbound' = Tail(outbound)
    <3>1. Shorter(outbound, outbound')
      BY <1>1, <2>1, TailShorter, Zenon
    <3>2. /\ AnswersRise(outbound') /\ AcksOf(outbound') \subseteq AcksOf(outbound)
          /\ Queue = Queue' \cup (IF IsAnswer(outbound[1]) THEN {outbound[1].serial} ELSE {})
      BY <1>1, <3>1, DequeueFrame, Zenon DEF Rises, Queue
    <3> QED
      BY <3>2, Zenon
  <2>2. CASE UNCHANGED outbound
    BY <1>1, <2>2, Zenon DEF Rises, Queue
  <2> QED
    BY <2>1, <2>2, Zenon DEF WriteFails
<1>3. /\ Hold' = Hold /\ Work' = Work /\ Busy' = Busy /\ AckInHand' = AckInHand
      /\ Wait' = Wait /\ Taken' = Taken /\ Durable' = Durable /\ Wire' = Wire
      /\ UNCHANGED <<publishQ, committed, lastMsgSerial, socket, sent>> /\ socket # "open"
  BY SameSets, Zenon DEF WriteFails, readVars, workVars
<1>4. Rises' /\ Acks' \subseteq Acks
  BY <1>1, <1>2, <1>3, Zenon DEF Rises, Acks
<1>5. Pipe(socket = "open", lastMsgSerial, Wire, Queue', Work, Busy, Wait, Hold, Taken, Durable, Acks')
  BY <1>1, <1>2, <1>3, <1>4, AnswersLost, Zenon DEF StageInv
<1> QED
  BY <1>3, <1>4, <1>5, Zenon DEF StageInv

-----------------------------------------------------------------------------
\* Every action but those above is quiet.
LEMMA QuietActions ==
    ASSUME PipeInv,
           \/ UNCHANGED vars \/ Client \/ Drop \/ Deliver \/ DisconnectCalled
           \/ TakeFrame /\ (DropRetransmit \/ HandleOther \/ HandleClose \/ HandleAuth)
           \/ SignalReauth \/ ReaderQueues \/ ReadFails \/ Leave \/ Finish
           \/ WorkerExits \/ WriterExits \/ AuthLoop \/ AuthTimer
    PROVE  Quiet
<1> USE SameSets DEF Quiet, readVars, workVars, writeVars, authVars, endVars
<1>1. CASE UNCHANGED vars
  BY <1>1, Zenon DEF vars
<1>2. CASE Client
  BY <1>2, Zenon DEF Client, ClientPublishes, ClientSends, ClientAuths, Sent
<1>3. CASE Drop \/ Deliver \/ DisconnectCalled
  BY <1>3, Zenon DEF Drop, Deliver, DisconnectCalled
<1>4. CASE TakeFrame /\ (DropRetransmit \/ HandleOther \/ HandleClose \/ HandleAuth)
  BY <1>4, Zenon DEF TakeFrame, DropRetransmit, HandleOther, HandleClose, HandleAuth, Hand, Hold
<1>5. CASE SignalReauth \/ ReaderQueues
  BY <1>5, Zenon DEF SignalReauth, ReaderQueues, Hold, PipeInv, PipeTypes
<1>6. CASE ReadFails \/ Leave \/ Finish
  BY <1>6, Zenon DEF ReadFails, Leave, Finish, Hold
<1>7. CASE WorkerExits
  BY <1>7, Zenon DEF WorkerExits, Work, Busy, AckInHand
<1>8. CASE WriterExits \/ AuthTimer \/ Reschedule \/ AuthExits
  BY <1>8, Zenon DEF WriterExits, AuthTimer, Reschedule, AuthExits
<1>9. CASE AuthQueues
  BY <1>9, Zenon DEF AuthQueues
<1> QED
  BY <1>1, <1>2, <1>3, <1>4, <1>5, <1>6, <1>7, <1>8, <1>9, Zenon DEF AuthLoop

\* The types, action by action.
LEMMA TypesStep == ASSUME PipeTypes, [Next]_vars PROVE PipeTypes'
<1> USE DEF PipeTypes, readVars, workVars, writeVars
<1>1. CASE UNCHANGED vars
  BY <1>1, Zenon DEF vars
<1>2. ASSUME NEW f \in {g \in InFrames : g.kind = "publish" => g.serial \in Serials}, Sent(f)
      PROVE  PipeTypes'
  BY <1>2 DEF Sent
<1>3. CASE Client
  <2>1. ASSUME NEW s \in Serials, NEW v \in BOOLEAN, ClientPublishes(s, v) PROVE PipeTypes'
    <3>1. [kind |-> "publish", serial |-> s, valid |-> v]
            \in {g \in InFrames : g.kind = "publish" => g.serial \in Serials}
      BY Zenon DEF InFrames
    <3> QED
      BY <1>2, <2>1, <3>1, Zenon DEF ClientPublishes
  <2>2. ASSUME NEW k \in {"ping", "close", "auth"}, NEW v \in BOOLEAN
        PROVE  [kind |-> k, serial |-> NoSerial, valid |-> v]
                 \in {g \in InFrames : g.kind = "publish" => g.serial \in Serials}
    BY Zenon DEF InFrames, NoSerial
  <2> QED
    BY <1>2, <1>3, <2>1, <2>2, Zenon DEF Client, ClientSends, ClientAuths
<1>4. ASSUME NEW f \in OutFrames, outbound' = Append(outbound, f),
             UNCHANGED <<inbound, sent, publishQ, lastMsgSerial, accepted, committed>>,
             reader' = "reading" \/ UNCHANGED <<reader, holding>>,
             worker' = "idle" \/ UNCHANGED <<worker, task>>
      PROVE  PipeTypes'
  BY <1>4
<1>5. Reply \in OutFrames /\ Disconnected \in OutFrames
  BY Zenon DEF Reply, Disconnected, OutFrames
<1>6. CASE Drop
  BY <1>6, Zenon DEF Drop
<1>7. CASE Deliver
  BY <1>4, <1>5, <1>7, Zenon DEF Deliver
<1>8. CASE DisconnectCalled
  BY <1>4, <1>5, <1>8, Zenon DEF DisconnectCalled
<1>9. CASE Dispatch
  <2>1. /\ inbound' \in Seq({f \in InFrames : f.kind = "publish" => f.serial \in Serials})
        /\ inbound[1] \in InFrames /\ (inbound[1].kind = "publish" => inbound[1].serial \in Serials)
    BY <1>9 DEF Dispatch, TakeFrame
  <2>2. CASE HandlePublish
    <3>1. holding' \in Tasks /\ reader' = "enqueueing"
      BY <2>1, <2>2, Zenon DEF HandlePublish, Hand, Tasks, InFrames
    <3>2. lastMsgSerial' \in Nat /\ accepted' \in Seq(Serials)
      BY <2>1, <2>2, SMTT(30) DEF HandlePublish, Serials
    <3> QED
      BY <1>9, <2>1, <3>1, <3>2, Zenon DEF Dispatch, TakeFrame
  <2>3. CASE DropRetransmit
    BY <1>9, <2>1, <2>3, Zenon DEF Dispatch, TakeFrame, DropRetransmit
  <2>4. CASE HandleOther \/ HandleClose \/ HandleAuth
    <3>1. holding' = Reply /\ reader' \in {"queueing", "signalling"} /\ UNCHANGED <<lastMsgSerial, accepted>>
      BY <2>4, Zenon DEF HandleOther, HandleClose, HandleAuth, Hand
    <3> QED
      BY <1>9, <2>1, <3>1, Zenon DEF Dispatch, TakeFrame
  <2> QED
    BY <1>9, <2>2, <2>3, <2>4, Zenon DEF Dispatch
<1>10. CASE SignalReauth
  BY <1>10, Zenon DEF SignalReauth
<1>11. CASE ReaderQueues
  BY <1>4, <1>5, <1>11, Zenon DEF ReaderQueues
<1>12. CASE EnqueuePublish
  BY <1>12 DEF EnqueuePublish
<1>13. CASE ReadFails \/ Leave \/ Finish
  BY <1>13, Zenon DEF ReadFails, Leave, Finish
<1>14. CASE TakeTask
  BY <1>14 DEF TakeTask
<1>15. CASE RunTask
  <2>1. task.serial \in Serials
    BY <1>15, Zenon DEF RunTask, Tasks
  <2>2. task' \in AnswerFrames
    BY <1>15, <2>1 DEF RunTask, Answer, AnswerFrames
  <2>3. committed' \in Seq(Serials)
    BY <1>15, <2>1, Recorded, Zenon DEF RunTask
  <2> QED
    BY <1>15, <2>2, <2>3, Zenon DEF RunTask
<1>16. CASE WorkerQueues
  <2>1. task \in OutFrames
    BY <1>16, Zenon DEF WorkerQueues, AnswerFrames, OutFrames
  <2> QED
    BY <1>4, <1>16, <2>1, Zenon DEF WorkerQueues
<1>17. CASE WorkerExits
  BY <1>17, Zenon DEF WorkerExits
<1>18. CASE Write
  BY <1>18 DEF Write
<1>19. CASE WriteFails
  <2>1. outbound' \in Seq(OutFrames)
    BY <1>19, TailShorter, Zenon DEF WriteFails
  <2> QED
    BY <1>19, <2>1, Zenon DEF WriteFails
<1>20. CASE WriterExits \/ AuthTimer \/ Reschedule \/ AuthExits
  BY <1>20, Zenon DEF WriterExits, AuthTimer, Reschedule, AuthExits
<1>21. CASE AuthQueues
  BY <1>4, <1>5, <1>21, Zenon DEF AuthQueues
<1> QED
  BY <1>1, <1>3, <1>6, <1>7, <1>8, <1>9, <1>10, <1>11, <1>12, <1>13, <1>14, <1>15, <1>16, <1>17, <1>18,
     <1>19, <1>20, <1>21, Zenon DEF Next, Environment, ReadLoop, PublishLoop, WriteLoop, AuthLoop

\* The context is cancelled, and the writer returns, in time.
LEMMA EndStep == ASSUME PipeInv, [Next]_vars PROVE EndInv'
<1>1. EndInv /\ sent \in Seq(OutFrames)
  BY Zenon DEF PipeInv, PipeTypes
<1>2. CASE Write
  <2>1. /\ writer = "running" /\ sent' = Append(sent, outbound[1]) /\ UNCHANGED cancelled
        /\ socket' \in {socket, "closed"} /\ (outbound[1] = Disconnected => writer' = "exited")
    BY <1>2, Zenon DEF Write, endVars
  <2>2. \A i \in DOMAIN sent : sent[i] # Disconnected
    BY <1>1, <2>1, Zenon DEF EndInv
  <2> QED
    BY <1>1, <2>1, <2>2 DEF EndInv
<1>3. CASE ~Write
  <2>1. /\ UNCHANGED sent /\ (writer' = "exited" \/ UNCHANGED writer)
        /\ (socket' = "closed" \/ UNCHANGED socket)
        /\ (UNCHANGED cancelled \/ (socket = "closed" /\ UNCHANGED socket))
    <3> USE DEF writeVars, endVars
    <3>1. CASE UNCHANGED vars \/ Client
      BY <3>1, Zenon DEF vars, Client, ClientPublishes, ClientSends, ClientAuths, Sent
    <3>2. CASE Drop \/ Deliver \/ DisconnectCalled
      BY <3>2, Zenon DEF Drop, Deliver, DisconnectCalled
    <3>3. CASE ReadLoop
      BY <3>3, Zenon DEF ReadLoop, Dispatch, TakeFrame, SignalReauth, ReaderQueues, EnqueuePublish,
                         ReadFails, Leave, Finish
    <3>4. CASE PublishLoop
      BY <3>4, Zenon DEF PublishLoop, TakeTask, RunTask, WorkerQueues, WorkerExits
    <3>5. CASE WriteFails \/ WriterExits
      BY <3>5, Zenon DEF WriteFails, WriterExits
    <3>6. CASE AuthLoop \/ AuthTimer
      BY <3>6, Zenon DEF AuthLoop, AuthQueues, Reschedule, AuthExits, AuthTimer
    <3> QED
      BY <1>3, <3>1, <3>2, <3>3, <3>4, <3>5, <3>6, Zenon DEF Next, Environment, WriteLoop
  <2> QED
    BY <1>1, <2>1 DEF EndInv
<1> QED
  BY <1>2, <1>3, Zenon

\* The pipeline keeps its invariant, whatever the client sends and however the
\* connection ends.
THEOREM PipelineCorrect == Spec => []PipeInv
<1>1. ASSUME Init PROVE PipeInv
  <2>1. PipeTypes
    BY <1>1 DEF Init, PipeTypes, Reply, OutFrames, NoSerial
  <2>2. sent = <<>> /\ accepted = <<>> /\ committed = <<>> /\ publishQ = <<>> /\ outbound = <<Reply>>
    BY <1>1, Zenon DEF Init
  <2>3. \A i \in DOMAIN outbound : ~IsAnswer(outbound[i]) /\ outbound[i].kind # "ack"
    BY <2>2 DEF IsAnswer, Reply
  <2>4. /\ AnswersRise(sent) /\ TasksRise(publishQ) /\ Rise(committed)
        /\ Wire = {} /\ Wait = {} /\ Taken = {} /\ Durable = {} /\ AcksOf(sent) = {}
    BY <2>2 DEF AnswersRise, TasksRise, Rise, Wire, Wait, Taken, Durable, AnswersOf, SerialsOf, ElementsOf, AcksOf
  <2>5. AnswersRise(outbound) /\ Queue = {} /\ AcksOf(outbound) = {}
    BY <2>3, InAnswers DEF AnswersRise, Queue
  <2>6. Work = {} /\ Busy = {} /\ Hold = {} /\ AckInHand = {} /\ lastMsgSerial = 0
    BY <1>1, Zenon DEF Init, Work, Busy, Hold, AckInHand, NoSerial
  <2>7. StageInv
    BY <2>4, <2>5, <2>6, Zenon DEF StageInv, Pipe, Acks, Below
  <2>8. EndInv
    BY <1>1 DEF Init, EndInv
  <2> QED
    BY <2>1, <2>4, <2>5, <2>7, <2>8, Zenon DEF PipeInv, Rises
<1>2. ASSUME PipeInv, [Next]_vars PROVE PipeInv'
  <2>1. PipeTypes' /\ EndInv'
    BY <1>2, TypesStep, EndStep, Zenon DEF PipeInv
  <2>2. Rises' /\ StageInv'
    BY <1>2, AcceptStep, EnqueueStep, TakeStep, RunStep, AnswerStep, WriteStep, WriteFailsStep, QuietActions,
       QuietStep, Zenon DEF Next, Environment, ReadLoop, Dispatch, PublishLoop, WriteLoop
  <2> QED
    BY <2>1, <2>2, Zenon DEF PipeInv
<1> QED
  BY <1>1, <1>2, PTL DEF Spec

\* ACKs and NACKs are written in msgSerial order, for every publish accepted up to the
\* last one answered, although NACKs of refused frames, failing publishes and the
\* frames of other loops share the outbound channel.
THEOREM AnswersOrdered == Spec => []AnswersInOrder
<1>1. ASSUME PipeInv PROVE AnswersInOrder
  <2>1. sent \in Seq(OutFrames) /\ AnswersRise(sent)
    BY <1>1, Zenon DEF PipeInv, PipeTypes, Rises
  <2>2. Wire \subseteq Taken /\ Taken \subseteq Nat /\ \A s \in Taken, t \in Wire : s < t => s \in Wire
    BY <1>1, Zenon DEF PipeInv, StageInv, Pipe
  <2> SUFFICES ASSUME NEW i \in DOMAIN sent, IsAnswer(sent[i])
               PROVE  /\ \E k \in DOMAIN accepted : accepted[k] = sent[i].serial
                      /\ \A j \in 1..(i - 1) : IsAnswer(sent[j]) => sent[j].serial < sent[i].serial
                      /\ \A k \in DOMAIN accepted : accepted[k] < sent[i].serial =>
                            \E j \in 1..(i - 1) : IsAnswer(sent[j]) /\ sent[j].serial = accepted[k]
    BY Zenon DEF AnswersInOrder
  <2>3. sent[i].serial \in Wire /\ sent[i].serial \in Taken
    BY <2>2, InAnswers, Zenon DEF Wire
  <2>4. \E k \in DOMAIN accepted : accepted[k] = sent[i].serial
    BY <2>3, Zenon DEF Taken, ElementsOf
  <2>5. \A j \in 1..(i - 1) : j \in DOMAIN sent /\ j < i
    BY <2>1
  <2>6. \A j \in 1..(i - 1) : IsAnswer(sent[j]) => sent[j].serial < sent[i].serial
    BY <2>1, <2>5, Zenon DEF AnswersRise
  <2>7. ASSUME NEW k \in DOMAIN accepted, accepted[k] < sent[i].serial
        PROVE  \E j \in 1..(i - 1) : IsAnswer(sent[j]) /\ sent[j].serial = accepted[k]
    <3>1. accepted[k] \in Taken /\ accepted[k] \in Wire
      BY <2>2, <2>3, <2>7, Zenon DEF Taken, ElementsOf
    <3>2. PICK j \in DOMAIN sent : IsAnswer(sent[j]) /\ sent[j].serial = accepted[k]
      BY <3>1, InAnswers DEF Wire
    <3>3. sent[i].serial \in Nat /\ sent[j].serial \in Nat /\ sent[j].serial < sent[i].serial
      BY <2>2, <2>3, <2>7, <3>1, <3>2, Zenon
    <3>4. i < j => sent[i].serial < sent[j].serial
      BY <2>1, <3>2, Zenon DEF AnswersRise
    <3>5. ~(i < j) /\ i # j
      BY <3>3, <3>4
    <3>6. j \in 1..(i - 1)
      BY <2>1, <3>5
    <3> QED
      BY <3>2, <3>6, Zenon
  <2> QED
    BY <2>4, <2>6, <2>7, Zenon
<1> QED
  BY <1>1, PipelineCorrect, PTL

\* The worker commits in msgSerial order, and no ACK is on the wire before its commit.
THEOREM AcksDurable == Spec => []AckedIsCommitted
<1>1. ASSUME PipeInv PROVE AckedIsCommitted
  <2>1. Rise(committed) /\ AcksOf(sent) \subseteq Durable
    BY <1>1, Zenon DEF PipeInv, Rises, StageInv, Pipe, Acks
  <2>2. \A s \in Durable : \E k \in DOMAIN committed : committed[k] = s
    BY Zenon DEF Durable, ElementsOf
  <2> QED
    BY <2>1, <2>2, InAnswers, Zenon DEF AckedIsCommitted, Rise
<1> QED
  BY <1>1, PipelineCorrect, PTL

\* The write loop returns after DISCONNECTED, so no frame follows it.
THEOREM NothingAfterDisconnected == Spec => []DisconnectedIsLast
<1>1. PipeInv => DisconnectedIsLast
  BY Zenon DEF PipeInv, EndInv, DisconnectedIsLast
<1> QED
  BY <1>1, PipelineCorrect, PTL
=============================================================================
