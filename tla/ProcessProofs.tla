--------------------------- MODULE ProcessProofs ---------------------------
(***************************************************************************)
(* Proofs about the processes of a deployment: how server.Run starts and   *)
(* stops, for any number of processes, configurations and failures; the    *)
(* sandbox provisioner, for any number of apps, where terminate is called  *)
(* for a child once at most and no child whose request was answered is     *)
(* forgotten; the presence leases of a cluster, for any numbers of nodes   *)
(* and members and any lease window that covers the bumps that may fail;   *)
(* the migration sweep, for any number of processes, builds and failures;  *)
(* and the serial generator, for every counter width, clock and number of  *)
(* mints.                                                                  *)
(***************************************************************************)
EXTENDS Serial, Migrations, PostgresPresence, Startup, Sandbox, FiniteSetTheorems, TLAPS

-----------------------------------------------------------------------------
(***************************************************************************)
(* The sandbox provisioner.                                                *)
(***************************************************************************)
Callers == {"none", "create", "delete", "reap", "shutdown"}
Terms == [by : Callers, pc : {"none", "signal", "wait", "done"}]

Types ==
    /\ create \in [Apps -> {"none", "accepted", "waiting", "ready", "created", "failing", "failed"}]
    /\ proc \in [Apps -> {"none", "running", "asked", "dead"}]
    /\ term \in [Apps -> Terms]
    /\ calls \in [Apps -> Nat]
    /\ children \subseteq Apps /\ stale \subseteq Apps /\ idle \subseteq children

\* An app that anybody may still call terminate for has had no such call: it is
\* being created, registered, or in the hands of the reaper, and one of these only.
\* A call that has returned leaves a dead process; a create that has failed has made
\* one, unless there was no process.
AppInv(a) ==
    /\ calls[a] <= 1 /\ ~(a \in children /\ a \in stale)
    /\ a \in children \/ a \in stale => calls[a] = 0 /\ create[a] = "created"
    /\ create[a] \in {"none", "accepted", "waiting", "ready"} => calls[a] = 0
    /\ calls[a] > 0 <=> term[a].pc # "none"
    /\ term[a].pc = "done" => proc[a] = "dead"
    /\ create[a] \in {"none", "accepted"} => proc[a] = "none"
    /\ create[a] = "created" => a \in children \/ a \in stale \/ calls[a] > 0
    /\ create[a] = "failing" => calls[a] > 0
    /\ create[a] = "failed" => proc[a] \in {"none", "dead"}

ChildInv == Types /\ \A a \in Apps : AppInv(a)

AppSteps(a) ==
    \/ AcceptCreate(a) \/ AcceptDelete(a) \/ Bind(a) \/ Die(a) \/ WaitForAddr(a) \/ Register(a) \/ CreateFails(a)
    \/ HandleDeleteApp(a) \/ BecomeIdle(a) \/ ReapNext(a) \/ AskToEnd(a) \/ AwaitEnd(a)
    \/ \E ok \in BOOLEAN : StartChild(a, ok)

LEMMA TypesKept == Types /\ [Next]_vars => Types'
<1> SUFFICES ASSUME Types, [Next]_vars PROVE Types'
  OBVIOUS
<1>1. ASSUME NEW a \in Apps, Bind(a) \/ Die(a) \/ BecomeIdle(a) \/ Register(a) \/ CreateFails(a) PROVE Types'
  BY <1>1, Zenon DEF Types, Bind, Die, BecomeIdle, Register, CreateFails
<1>2. ASSUME NEW a \in Apps, NEW ok \in BOOLEAN, StartChild(a, ok) PROVE Types'
  BY <1>2, Zenon DEF Types, StartChild
<1>3. ASSUME NEW a \in Apps, AskToEnd(a) \/ AwaitEnd(a) PROVE Types'
  <2>1. ASSUME NEW l \in {"wait", "done"} PROVE [term[a] EXCEPT !.pc = l] \in Terms
    BY DEF Types, Terms
  <2> QED
    BY <1>3, <2>1 DEF Types, AskToEnd, AwaitEnd
<1>4. ASSUME NEW a \in Apps, WaitForAddr(a) \/ HandleDeleteApp(a) \/ ReapNext(a) PROVE Types'
  <2>1. ASSUME NEW by \in Callers, NEW S \in SUBSET Apps, Call(S, by)
        PROVE  term' \in [Apps -> Terms] /\ calls' \in [Apps -> Nat]
    BY <2>1 DEF Types, Terms, Call
  <2> QED
    BY <1>4, <2>1, Zenon DEF Types, Callers, WaitForAddr, HandleDeleteApp, ReapNext
<1>5. CASE ReapIdle \/ Signal \/ Expire \/ Exit \/ UNCHANGED vars
  BY <1>5, Zenon DEF Types, ReapIdle, Signal, Expire, Exit, vars
<1>6. CASE Shutdown
  BY <1>6 DEF Types, Terms, Callers, Shutdown, Call
<1>7. ASSUME NEW a \in Apps, AcceptCreate(a) \/ AcceptDelete(a) PROVE Types'
  BY <1>7, Zenon DEF Types, AcceptCreate, AcceptDelete
<1> QED
  BY <1>1, <1>2, <1>3, <1>4, <1>5, <1>6, <1>7, Zenon DEF Next

LEMMA AppStep ==
    ASSUME NEW a \in Apps, NEW b \in Apps, ChildInv, AppSteps(b) PROVE AppInv(a)'
<1>1. Types /\ AppInv(a) /\ AppInv(b)
  BY Zenon DEF ChildInv
<1>2. CASE Bind(b) \/ Die(b) \/ BecomeIdle(b) \/ Register(b) \/ CreateFails(b)
  BY <1>1, <1>2 DEF Types, AppInv, Bind, Die, BecomeIdle, Register, CreateFails
<1>3. ASSUME NEW ok \in BOOLEAN, StartChild(b, ok) PROVE AppInv(a)'
  BY <1>1, <1>3, Zenon DEF Types, AppInv, StartChild
<1>4. CASE AskToEnd(b) \/ AwaitEnd(b)
  <2>1. CASE AskToEnd(b)
    BY <1>1, <2>1 DEF Types, Terms, AppInv, AskToEnd
  <2>2. CASE AwaitEnd(b)
    BY <1>1, <2>2 DEF Types, Terms, AppInv, AwaitEnd
  <2> QED
    BY <1>4, <2>1, <2>2, Zenon
<1>5. CASE WaitForAddr(b)
  BY <1>1, <1>5 DEF Types, AppInv, WaitForAddr, Call
<1>6. CASE HandleDeleteApp(b) \/ ReapNext(b)
  BY <1>1, <1>6 DEF Types, AppInv, HandleDeleteApp, ReapNext, Call
<1>7. CASE AcceptCreate(b) \/ AcceptDelete(b)
  BY <1>1, <1>7, Zenon DEF Types, AppInv, AcceptCreate, AcceptDelete
<1> QED
  BY <1>2, <1>3, <1>4, <1>5, <1>6, <1>7, Zenon DEF AppSteps

LEMMA ChildStep == ChildInv /\ [Next]_vars => ChildInv'
<1> SUFFICES ASSUME ChildInv, [Next]_vars, NEW a \in Apps PROVE AppInv(a)'
  BY TypesKept, Zenon DEF ChildInv
<1>1. Types /\ AppInv(a)
  BY Zenon DEF ChildInv
<1>2. CASE ReapIdle \/ Signal \/ Expire \/ Exit \/ UNCHANGED vars
  BY <1>1, <1>2, Zenon DEF Types, AppInv, ReapIdle, Signal, Expire, Exit, vars
<1>3. CASE Shutdown
  BY <1>1, <1>3 DEF Types, AppInv, Shutdown, Call
<1> QED
  BY <1>2, <1>3, AppStep, Zenon DEF Next, AppSteps

LEMMA ChildInit == Init => ChildInv
BY DEF Init, ChildInv, Types, Terms, Callers, AppInv, Free

\* Whoever wins of delete, reaper, shutdown and a failed create, terminate runs
\* for a child once at most.
THEOREM OneTermination == Spec => []TerminatedOnce
<1>1. ChildInv => TerminatedOnce
  BY Zenon DEF ChildInv, AppInv, TerminatedOnce
<1> QED
  BY <1>1, ChildInit, ChildStep, PTL DEF Spec

\* The process of an app that was answered for is registered, with the reaper,
\* being terminated, or dead.
THEOREM NoneForgotten == Spec => []NothingForgotten
<1>1. ChildInv => NothingForgotten
  BY Zenon DEF ChildInv, Types, Terms, AppInv, NothingForgotten
<1> QED
  BY <1>1, ChildInit, ChildStep, PTL DEF Spec

-----------------------------------------------------------------------------
(***************************************************************************)
(* Startup.                                                                *)
(***************************************************************************)
Stages == {"new", "keyed", "open", "bound", "serving", "running", "draining",
           "aborting", "closing", "closed", "abandoned", "exited"}

RunTypes ==
    /\ stage \in [Runs -> Stages]
    /\ seeded \in [Runs -> Nat]
    /\ handling \subseteq Runs /\ using \subseteq Runs

\* What Run has done by the time it is at a stage: the keys are accepted before storage is
\* opened, every fixture is in before it listens, and a request that is left when
\* it closes storage is one the grace window did not suffice for. Whoever has a query under
\* way has storage open.
ReadyAt(p, l) ==
    /\ l \notin {"new", "exited"} => KeysAccepted(ResolveAPIKeys(config[p]))
    /\ l # "exited" => \A f \in 1..seeded[p] : <<p, f>> \in rows
    /\ l \in {"bound", "serving", "running", "draining", "aborting", "abandoned"} => seeded[p] = NumChannels
    /\ l \notin {"new", "keyed", "closed", "abandoned", "exited"} => p \in holder
    /\ p \in handling =>
        /\ seeded[p] = NumChannels
        /\ l \notin {"new", "keyed", "open", "bound", "exited"}
        /\ l \in {"closing", "closed"} => p \in expired
    /\ p \in using => p \in handling /\ l \in {"serving", "running", "draining", "aborting", "closing"}

ReadyInv == RunTypes /\ \A p \in Runs : ReadyAt(p, stage[p])

\* Most steps of Run only change the stage: what the next one needs is there already.
LEMMA StageStep ==
    ASSUME NEW p \in Runs, ReadyInv,
           \/ ResolveKeys(p) \/ OpenFails(p) \/ SeedFails(p) \/ Listen(p) \/ ListenFails(p) \/ Serve(p)
           \/ DebugListen(p) \/ DebugListenFails(p) \/ BeginShutdown(p) \/ Drained(p)
    PROVE  ReadyInv'
<1>1. RunTypes /\ ReadyAt(p, stage[p])
  BY Zenon DEF ReadyInv
<1>2. \E l \in Stages : OnlyStage(p, l) /\ ReadyAt(p, l)
  <2>1. CASE ResolveKeys(p) \/ OpenFails(p) \/ SeedFails(p)
    BY ZenonT(30), <1>1, <2>1 DEF ReadyAt, Stages, ResolveKeys, OpenFails, SeedFails
  <2>2. CASE Listen(p) \/ ListenFails(p) \/ Serve(p)
    BY ZenonT(30), <1>1, <2>2 DEF ReadyAt, Stages, Listen, ListenFails, Serve
  <2>3. CASE DebugListen(p) \/ DebugListenFails(p) \/ BeginShutdown(p) \/ Drained(p)
    BY Zenon, <1>1, <2>3 DEF ReadyAt, Stages, DebugListen, DebugListenFails, BeginShutdown, Drained
  <2> QED
    BY <2>1, <2>2, <2>3, Zenon
<1>3. PICK l \in Stages : OnlyStage(p, l) /\ ReadyAt(p, l)
  BY <1>2, Zenon
<1>4. RunTypes'
  BY <1>1, <1>3, Zenon DEF RunTypes, OnlyStage, MovesTo
<1>5. ASSUME NEW q \in Runs PROVE ReadyAt(q, stage[q])'
  BY <1>1, <1>3, Zenon DEF ReadyInv, RunTypes, ReadyAt, OnlyStage, MovesTo
<1> QED
  BY Zenon, <1>4, <1>5 DEF ReadyInv

\* The other steps of a process leave the other processes where they are.
LEMMA RunStep ==
    ASSUME NEW p \in Runs, NEW q \in Runs, ReadyInv,
           \/ OpenStorage(p) \/ Seed(p) \/ Request(p) \/ Query(p) \/ QueryEnds(p) \/ Answer(p)
           \/ SignalProcess(p) \/ Deadline(p) \/ CloseStore(p) \/ ExitProcess(p)
    PROVE  RunTypes' /\ ReadyAt(q, stage[q])'
<1>1. RunTypes /\ ReadyAt(p, stage[p]) /\ ReadyAt(q, stage[q])
  BY Zenon DEF ReadyInv
<1>2. CASE OpenStorage(p)
  BY <1>1, <1>2, Zenon DEF RunTypes, Stages, ReadyAt, OpenStorage, MovesTo
<1>3. CASE Seed(p)
  BY <1>1, <1>3, StartupAssumption DEF StartupAssumption, RunTypes, ReadyAt, Seed
<1>4. CASE Request(p)
  BY <1>1, <1>4, Zenon DEF RunTypes, ReadyAt, Request, Accepting
<1>5. CASE Answer(p) \/ SignalProcess(p) \/ Deadline(p)
  BY <1>1, <1>5, Zenon DEF RunTypes, ReadyAt, Answer, SignalProcess, Deadline
<1>6. CASE CloseStore(p)
  BY <1>1, <1>6, Zenon DEF RunTypes, Stages, ReadyAt, CloseStore, MovesTo
<1>7. CASE ExitProcess(p)
  BY <1>1, <1>7, Zenon DEF RunTypes, Stages, ReadyAt, ExitProcess, MovesTo
<1>8. CASE Query(p) \/ QueryEnds(p)
  BY <1>1, <1>8, Zenon DEF RunTypes, ReadyAt, Query, QueryEnds
<1> QED
  BY <1>2, <1>3, <1>4, <1>5, <1>6, <1>7, <1>8, Zenon

\* A process that serves requests has the keys of one app and all its fixtures entered.
\* Its storage is closed after the queries it has begun, and after its requests unless the
\* grace window is over or its debug address could not be bound.
THEOREM ServedWhileReady == StartupSpec => []ServesWhileReady
<1>1. StartupInit => ReadyInv
  BY StartupAssumption DEF StartupAssumption, StartupInit, ReadyInv, RunTypes, ReadyAt, Stages
<1>2. ReadyInv /\ [StartupNext]_startupVars => ReadyInv'
  <2> SUFFICES ASSUME ReadyInv, [StartupNext]_startupVars PROVE ReadyInv'
    OBVIOUS
  <2>1. CASE UNCHANGED startupVars
    BY <2>1, Zenon DEF ReadyInv, RunTypes, ReadyAt, startupVars
  <2>2. ASSUME NEW p \in Runs,
               \/ OpenStorage(p) \/ Seed(p) \/ Request(p) \/ Query(p) \/ QueryEnds(p) \/ Answer(p)
               \/ SignalProcess(p) \/ Deadline(p) \/ CloseStore(p) \/ ExitProcess(p)
        PROVE  ReadyInv'
    BY Zenon, <2>2, RunStep DEF ReadyInv
  <2> QED
    BY <2>1, <2>2, StageStep, Zenon DEF StartupNext, Run
<1>3. ReadyInv => ServesWhileReady
  <2> SUFFICES ASSUME ReadyInv PROVE ServesWhileReady
    OBVIOUS
  <2>1. ASSUME NEW p \in handling
        PROVE  /\ KeysAccepted(ResolveAPIKeys(config[p])) /\ seeded[p] = NumChannels
               /\ \A f \in 1..seeded[p] : <<p, f>> \in rows
               /\ p \in holder \/ p \in expired \/ stage[p] = "abandoned"
    BY Zenon DEF ReadyInv, RunTypes, ReadyAt, Stages
  <2>2. using \subseteq holder
    BY Zenon DEF ReadyInv, RunTypes, ReadyAt
  <2> QED
    BY <2>1, <2>2, Zenon DEF ServesWhileReady, ServesConfigured, ClosedAfterUse, ResolveAPIKeys, SplitTrim, Seeds
<1> QED
  BY <1>1, <1>2, <1>3, PTL DEF StartupSpec

-----------------------------------------------------------------------------
(***************************************************************************)
(* Presence leases, with a window that covers MaxMissed failed bumps.      *)
(***************************************************************************)
\* The ticks that a node's next bumps are certain to come within, after k failures
\* and counted from the next bump.
Cover(k) == BumpInterval * (MaxMissed - k)

\* The constants without their product, which the provers do better without.
LEMMA LeaseConstants ==
    /\ NoNode \notin Nodes /\ FixtureNode \notin Nodes /\ Clients \cap Fixtures = {}
    /\ BumpInterval \in Nat /\ MaxMissed \in Nat /\ LeaseWindow \in Nat
  BY PresenceAssumption, Zenon

\* What the proof needs of the lease window: the cover is never negative, a failed
\* bump uses up one interval of it, and a fresh lease holds all of it.
LEMMA CoverFacts ==
    ASSUME NEW k \in 0..MaxMissed
    PROVE  /\ Cover(k) \in Nat
           /\ k < MaxMissed => Cover(k) = Cover(k + 1) + BumpInterval
           /\ Cover(k) + BumpInterval <= LeaseWindow
<1> USE PresenceAssumption DEF Cover
<1>1. \A b, x \in Nat : b * x \in Nat
  OBVIOUS
<1>2. \A b, x, y \in Int : b * (x + y) = b * x + b * y
  OBVIOUS
<1>3. k < MaxMissed => Cover(k) = Cover(k + 1) + BumpInterval
  BY <1>2, MaxMissed - k = (MaxMissed - (k + 1)) + 1
<1>4. BumpInterval * (MaxMissed + 1) = Cover(k) + (BumpInterval * k + BumpInterval * 1)
  BY <1>2, MaxMissed + 1 = (MaxMissed - k) + (k + 1)
<1> QED
  BY <1>1, <1>3, <1>4

LeaseTypes ==
    /\ home \in [Everyone -> Nodes \cup {NoNode, FixtureNode}]
    /\ owner \in [Everyone -> Nodes \cup {NoNode, FixtureNode}]
    /\ lease \in [Everyone -> Int]
    /\ feed \in [Everyone -> Seq(Kinds)]
    /\ reaping \in [Nodes -> SUBSET Everyone]
    /\ timer \in [Nodes -> 0..BumpInterval]
    /\ missed \in [Nodes -> 0..MaxMissed]

\* The lease of member m lasts until the last bump that node n may need to refresh it.
Covered(m, n) ==
    /\ owner[m] = n
    /\ lease[m] >= Cover(missed[n]) + timer[n]

\* The log of a member ends with an ENTER or UPDATE; how many of its events are of a kind.
Present(s) == Len(s) > 0 /\ s[Len(s)] # "leave"
Count(s, kind) == Cardinality({i \in 1..Len(s) : s[i] = kind})

\* The reapers that have a member in their hands; whether it has a connection or a row.
Reapers(m) == {n \in Nodes : m \in reaping[n]}
Held(m) == IF home[m] # NoNode \/ owner[m] # NoNode THEN 1 ELSE 0

\* The row of a member with a connection, if it has one, is covered by the node of the
\* connection, and a fixture is in no reaper's hands. Whoever has a row is shown, and whoever
\* is shown without one is in a reaper's hands or was forgotten by one.
MemberInv(m) ==
    /\ home[m] \in Nodes => home[m] \in up /\ (owner[m] = NoNode \/ Covered(m, home[m]))
    /\ home[m] = FixtureNode => owner[m] = FixtureNode /\ lease[m] = Forever /\ Reapers(m) = {}
    /\ owner[m] # NoNode => Present(feed[m])
    /\ Present(feed[m]) => owner[m] # NoNode \/ Reapers(m) # {} \/ m \in forgotten

\* Each time a member was added accounts for a LEAVE in the log, for a reaper that has one to
\* publish, or for the member being there still.
CountInv(m) ==
    Count(feed[m], "leave") + Cardinality(Reapers(m)) + Held(m) <= Count(feed[m], "enter")

LeaseInv == LeaseTypes /\ \A m \in Everyone : MemberInv(m) /\ CountInv(m)

\* What StorePresence does to the log of a member: one more event of its kind, and only a
\* LEAVE ends its being shown.
LEMMA LoggedFacts ==
    ASSUME NEW s \in Seq(Kinds), NEW kind \in Kinds
    PROVE  /\ Append(s, kind) \in Seq(Kinds)
           /\ Present(Append(s, kind)) <=> kind # "leave"
  BY DEF Present

LEMMA CountFacts ==
    ASSUME NEW s \in Seq(Kinds), NEW kind \in Kinds, NEW x \in Kinds
    PROVE  /\ Count(s, x) \in Nat
           /\ Count(Append(s, kind), x) = Count(s, x) + (IF kind = x THEN 1 ELSE 0)
<1> DEFINE Of == {i \in 1..Len(s) : s[i] = x}
<1> DEFINE Then == {i \in 1..Len(Append(s, kind)) : Append(s, kind)[i] = x}
<1>1. Count(s, x) = Cardinality(Of) /\ Count(Append(s, kind), x) = Cardinality(Then)
  BY Zenon DEF Count
<1>2. IsFiniteSet(Of)
  BY FS_Interval, FS_Subset, Of \subseteq 1..Len(s)
<1>3. Cardinality(Of) \in Nat
  BY <1>2, FS_CardinalityType
<1>4. CASE kind = x
  <2>1. Then = Of \cup {Len(s) + 1} /\ Len(s) + 1 \notin Of
    BY <1>4
  <2>2. Cardinality(Of \cup {Len(s) + 1}) = Cardinality(Of) + 1
    BY <1>2, <2>1, FS_AddElement, Zenon
  <2>3. Count(Append(s, kind), x) = Count(s, x) + 1
    BY <1>1, <2>1, <2>2, Zenon
  <2> QED
    BY <1>1, <1>3, <1>4, <2>3, Zenon
<1>5. CASE kind # x
  <2>1. Then = Of
    BY <1>5
  <2>2. Count(Append(s, kind), x) = Count(s, x) /\ Count(s, x) \in Nat
    BY <1>1, <1>3, <2>1, Zenon
  <2> HIDE DEF Of, Then
  <2> QED
    BY <1>5, <2>2
<1> QED
  BY <1>1, <1>3, <1>4, <1>5, Zenon

\* The reapers of a member are finitely many, and one more or one less counts as such.
LEMMA ReapersFacts ==
    ASSUME NEW m
    PROVE  /\ Cardinality(Reapers(m)) \in Nat
           /\ \A n : Cardinality(Reapers(m) \cup {n}) \in 0..(Cardinality(Reapers(m)) + 1)
           /\ \A n : Cardinality(Reapers(m) \ {n}) \in 0..Cardinality(Reapers(m))
           /\ \A n \in Reapers(m) : Cardinality(Reapers(m) \ {n}) = Cardinality(Reapers(m)) - 1
<1>1. IsFiniteSet(Reapers(m))
  BY FS_Subset, PresenceAssumption, Reapers(m) \subseteq Nodes DEF Reapers
<1>2. Cardinality(Reapers(m)) \in Nat
  BY <1>1, FS_CardinalityType
<1>3. \A n : Cardinality(Reapers(m) \cup {n}) \in 0..(Cardinality(Reapers(m)) + 1)
  BY <1>1, <1>2, FS_AddElement
<1>4. \A n \in Reapers(m) : Cardinality(Reapers(m) \ {n}) = Cardinality(Reapers(m)) - 1
  BY <1>1, FS_RemoveElement
<1>5. \A n : Cardinality(Reapers(m) \ {n}) \in 0..Cardinality(Reapers(m))
  <2> TAKE n
  <2>1. IsFiniteSet(Reapers(m) \ {n}) /\ Cardinality(Reapers(m) \ {n}) <= Cardinality(Reapers(m))
    BY <1>1, FS_Subset, Reapers(m) \ {n} \in SUBSET Reapers(m)
  <2> QED
    BY <1>2, <2>1, FS_CardinalityType
<1> QED
  BY <1>2, <1>3, <1>4, <1>5, Zenon

\* A lapsed row belongs to no live member.
LEMMA LapsedNotLive ==
    ASSUME LeaseTypes, NEW m \in Everyone, MemberInv(m), m \in Lapsed
    PROVE  home[m] = NoNode
<1> USE LeaseConstants DEF LeaseTypes
<1>1. home[m] \in Nodes => Cover(missed[home[m]]) \in Nat
  BY CoverFacts, Zenon
<1> QED
  BY <1>1 DEF MemberInv, Covered, Lapsed, Forever

LEMMA LeaseTypesStep ==
    ASSUME LeaseTypes, [LeaseNext]_leaseVars
    PROVE  LeaseTypes'
<1> USE LeaseConstants DEF LeaseTypes
<1>1. ASSUME NEW n \in Nodes, NEW m \in Clients, EnterAt(n, m) PROVE LeaseTypes'
  BY <1>1, LoggedFacts DEF EnterAt, Committed, Entry, Everyone, Kinds
<1>2. ASSUME NEW n \in Nodes, NEW m \in Clients, Leave(n, m) PROVE LeaseTypes'
  BY <1>2, LoggedFacts DEF Leave, Committed, Everyone, Kinds
<1>3. ASSUME NEW n \in Nodes, NEW m \in Everyone, PublishReaped(n, m) PROVE LeaseTypes'
  BY <1>3, LoggedFacts, SMTT(30) DEF PublishReaped, Committed, Kinds
<1>4. ASSUME NEW n \in Nodes, NEW m \in Everyone, PublishReapedFails(n, m) PROVE LeaseTypes'
  BY <1>4, Zenon DEF PublishReapedFails
<1>5. ASSUME NEW n \in Nodes, Bump(n) PROVE LeaseTypes'
  BY <1>5 DEF Bump
<1>6. ASSUME NEW n \in Nodes, BumpFails(n) PROVE LeaseTypes'
  BY <1>6 DEF BumpFails
<1>7. ASSUME NEW n \in Nodes, Reap(n) PROVE LeaseTypes'
  BY <1>7, SMTT(30) DEF Reap, Lapsed
<1>8. ASSUME NEW n \in Nodes, Crash(n) PROVE LeaseTypes'
  BY <1>8, Zenon DEF Crash
<1>9. CASE Tick
  BY <1>9 DEF Tick
<1>10. CASE UNCHANGED leaseVars
  BY <1>10, Zenon DEF leaseVars
<1> QED
  BY <1>1, <1>2, <1>3, <1>4, <1>5, <1>6, <1>7, <1>8, <1>9, <1>10, Zenon DEF LeaseNext

\* One step, for any member and the part of the invariant that is not about counting.
LEMMA MemberStep ==
    ASSUME LeaseTypes, NEW o \in Everyone, MemberInv(o), [LeaseNext]_leaseVars
    PROVE  MemberInv(o)'
<1> USE LeaseConstants DEF LeaseTypes, MemberInv, NoNode, FixtureNode, Reapers
<1>1. ASSUME NEW n \in Nodes, NEW m \in Clients, EnterAt(n, m) PROVE MemberInv(o)'
  <2>1. m \in Everyone /\ LeaseWindow >= Cover(missed[n]) + timer[n]
    BY CoverFacts, SMTT(30) DEF Everyone
  <2>2. Present(feed'[m])
    BY <1>1, <2>1, LoggedFacts DEF EnterAt, Committed, Entry, Kinds
  <2> QED
    BY <1>1, <2>1, <2>2, SMTT(30) DEF EnterAt, Committed, Covered
<1>2. ASSUME NEW n \in Nodes, NEW m \in Clients, Leave(n, m) PROVE MemberInv(o)'
  <2>1. m \in Everyone /\ ~Present(feed'[m])
    BY <1>2, LoggedFacts DEF Leave, Committed, Kinds, Everyone
  <2> QED
    BY <1>2, <2>1, SMTT(30) DEF Leave, Committed, Covered
<1>3. ASSUME NEW n \in Nodes, Bump(n) PROVE MemberInv(o)'
  <2>1. Cover(0) + BumpInterval <= LeaseWindow
    BY CoverFacts, SMTT(30)
  <2> QED
    BY <1>3, <2>1, Zenon DEF Bump, Covered
<1>4. ASSUME NEW n \in Nodes, BumpFails(n) PROVE MemberInv(o)'
  <2>1. Cover(missed[n]) = Cover(missed[n] + 1) + BumpInterval /\ Cover(missed[n] + 1) \in Nat
    BY <1>4, CoverFacts, SMTT(30) DEF BumpFails
  <2> QED
    BY <1>4, <2>1, SMTT(30) DEF BumpFails, Covered
<1>5. ASSUME NEW n \in Nodes, Reap(n) PROVE MemberInv(o)'
  <2>1. o \in Lapsed => home[o] = NoNode /\ owner[o] # NoNode
    BY LapsedNotLive, Zenon DEF Lapsed
  <2> QED
    BY <1>5, <2>1 DEF Reap, Covered
<1>6. ASSUME NEW n \in Nodes, Crash(n) PROVE MemberInv(o)'
  BY <1>6 DEF Crash, Covered, InTable
<1>7. ASSUME NEW n \in Nodes, NEW m \in Everyone, PublishReaped(n, m) PROVE MemberInv(o)'
  <2>1. CASE o = m
    <3>1. ~Present(feed'[m])
      BY <1>7, LoggedFacts DEF PublishReaped, Committed, Kinds
    <3>2. home[m] # FixtureNode
      BY <1>7, <2>1 DEF PublishReaped
    <3> QED
      BY <1>7, <2>1, <3>1, <3>2 DEF PublishReaped, Committed
  <2>2. CASE o # m
    BY <1>7, <2>2 DEF PublishReaped, Committed, Covered
  <2> QED
    BY <2>1, <2>2, Zenon
<1>8. ASSUME NEW n \in Nodes, NEW m \in Everyone, PublishReapedFails(n, m) PROVE MemberInv(o)'
  BY <1>8 DEF PublishReapedFails, Covered, InTable
<1>9. CASE Tick
  <2>1. home[o] \in Nodes => Cover(missed[home[o]]) \in Nat
    BY CoverFacts, Zenon
  <2> QED
    BY <1>9, <2>1, SMTT(30) DEF Tick, Covered, Forever
<1>10. CASE UNCHANGED leaseVars
  BY <1>10, Zenon DEF leaseVars, Covered
<1> QED
  BY <1>1, <1>2, <1>3, <1>4, <1>5, <1>6, <1>7, <1>8, <1>9, <1>10, Zenon DEF LeaseNext

\* One step, and what it adds to the log, to the reapers' hands and to the table.
LEMMA CountStep ==
    ASSUME LeaseTypes, NEW o \in Everyone, MemberInv(o), CountInv(o), [LeaseNext]_leaseVars
    PROVE  CountInv(o)'
<1> USE LeaseConstants DEF LeaseTypes
<1> DEFINE L == Count(feed[o], "leave")
<1> DEFINE E == Count(feed[o], "enter")
<1> DEFINE R == Cardinality(Reapers(o))
<1>1. L \in Nat /\ E \in Nat /\ R \in Nat
  BY CountFacts, ReapersFacts DEF Kinds
<1>2. ASSUME Reapers(o)' = Reapers(o), feed'[o] = feed[o], Held(o)' <= Held(o) PROVE CountInv(o)'
  BY <1>1, <1>2 DEF CountInv, Held
<1>3. ASSUME NEW n \in Nodes, NEW m \in Clients, EnterAt(n, m) PROVE CountInv(o)'
  <2>1. Reapers(o)' = Reapers(o)
    BY <1>3, Zenon DEF EnterAt, Reapers
  <2>2. CASE o = m
    <3>1. feed'[o] = Append(feed[o], Entry(o)) /\ Entry(o) \in Kinds
      BY <1>3, <2>2 DEF EnterAt, Committed, Entry, Kinds
    <3>2. Count(feed'[o], "leave") = L /\ Count(feed'[o], "enter") = E + (IF Entry(o) = "enter" THEN 1 ELSE 0)
      BY <1>1, <3>1, CountFacts DEF Entry, Kinds
    <3>3. Held(o)' = 1 /\ (Entry(o) # "enter" => Held(o) = 1)
      BY <1>3, <2>2 DEF EnterAt, Committed, Held, Entry
    <3> QED
      BY <1>1, <2>1, <3>2, <3>3 DEF CountInv, Held
  <2>3. CASE o # m
    BY <1>2, <1>3, <2>1, <2>3 DEF EnterAt, Committed, Held
  <2> QED
    BY <2>2, <2>3, Zenon
<1>4. ASSUME NEW n \in Nodes, NEW m \in Clients, Leave(n, m) PROVE CountInv(o)'
  <2>1. Reapers(o)' = Reapers(o)
    BY <1>4, Zenon DEF Leave, Reapers
  <2>2. CASE o = m
    <3>1. Count(feed'[o], "leave") = L + 1 /\ Count(feed'[o], "enter") = E
      BY <1>1, <1>4, <2>2, CountFacts DEF Leave, Committed, Kinds
    <3>2. Held(o) = 1 /\ Held(o)' = 0
      BY <1>4, <2>2 DEF Leave, Committed, Held
    <3> QED
      BY <1>1, <2>1, <3>1, <3>2 DEF CountInv
  <2>3. CASE o # m
    BY <1>2, <1>4, <2>1, <2>3 DEF Leave, Committed, Held
  <2> QED
    BY <2>2, <2>3, Zenon
<1>5. ASSUME NEW n \in Nodes, Reap(n) PROVE CountInv(o)'
  <2>1. feed' = feed /\ home' = home
    BY <1>5, Zenon DEF Reap
  <2>2. CASE o \in Lapsed
    <3>1. home[o] = NoNode /\ owner[o] # NoNode /\ owner'[o] = NoNode
      BY <1>5, <2>2, LapsedNotLive DEF Reap, Lapsed
    <3>2. Held(o) = 1 /\ Held(o)' = 0
      BY <2>1, <3>1 DEF Held
    <3>3. Reapers(o)' = Reapers(o) \cup {n}
      BY <1>5, <2>2 DEF Reap, Reapers
    <3>4. Cardinality(Reapers(o) \cup {n}) \in 0..(R + 1)
      BY ReapersFacts, Zenon
    <3>5. Cardinality(Reapers(o)') \in 0..(R + 1)
      BY <3>3, <3>4, Zenon
    <3> QED
      BY <1>1, <2>1, <3>2, <3>5 DEF CountInv
  <2>3. CASE o \notin Lapsed
    <3>1. Reapers(o)' = Reapers(o) /\ owner'[o] = owner[o]
      BY <1>5, <2>3 DEF Reap, Reapers
    <3> QED
      BY <1>2, <2>1, <3>1 DEF Held
  <2> QED
    BY <2>2, <2>3, Zenon
<1>6. ASSUME NEW n \in Nodes, NEW m \in Everyone, PublishReaped(n, m) PROVE CountInv(o)'
  <2>1. CASE o = m
    <3>1. Count(feed'[o], "leave") = L + 1 /\ Count(feed'[o], "enter") = E
      BY <1>1, <1>6, <2>1, CountFacts DEF PublishReaped, Committed, Kinds
    <3>2. Reapers(o)' = Reapers(o) \ {n} /\ n \in Reapers(o)
      BY <1>6, <2>1 DEF PublishReaped, Reapers
    <3>3. Cardinality(Reapers(o)') = R - 1
      BY <3>2, ReapersFacts
    <3>4. Held(o)' <= Held(o)
      BY <1>6, <2>1 DEF PublishReaped, Committed, Held
    <3> QED
      BY <1>1, <3>1, <3>3, <3>4 DEF CountInv, Held
  <2>2. CASE o # m
    <3>1. Reapers(o)' = Reapers(o)
      BY <1>6, <2>2 DEF PublishReaped, Reapers
    <3> QED
      BY <1>2, <1>6, <2>2, <3>1 DEF PublishReaped, Committed, Held
  <2> QED
    BY <2>1, <2>2, Zenon
<1>7. ASSUME NEW n \in Nodes, Reapers(o)' \in {Reapers(o), Reapers(o) \ {n}}, feed' = feed, owner' = owner,
             home'[o] \in {home[o], NoNode}
      PROVE  CountInv(o)'
  <2>1. Held(o)' <= Held(o) /\ Held(o)' \in Nat
    BY <1>7 DEF Held
  <2>2. Cardinality(Reapers(o)') \in 0..R
    <3>1. Cardinality(Reapers(o) \ {n}) \in 0..R
      BY ReapersFacts, Zenon
    <3>2. R \in 0..R
      BY <1>1
    <3> QED
      BY <1>7, <3>1, <3>2, Zenon
  <2> QED
    BY <1>1, <1>7, <2>1, <2>2 DEF CountInv, Held
<1>8. ASSUME NEW n \in Nodes, NEW m \in Everyone, PublishReapedFails(n, m) PROVE CountInv(o)'
  <2>1. Reapers(o)' \in {Reapers(o), Reapers(o) \ {n}}
    BY <1>8 DEF PublishReapedFails, Reapers
  <2> QED
    BY <1>7, <1>8, <2>1, Zenon DEF PublishReapedFails
<1>9. ASSUME NEW n \in Nodes, Crash(n) PROVE CountInv(o)'
  <2>1. Reapers(o)' = Reapers(o) \ {n} /\ home'[o] \in {home[o], NoNode}
    BY <1>9 DEF Crash, Reapers
  <2> QED
    BY <1>7, <1>9, <2>1, Zenon DEF Crash
<1>10. ASSUME NEW n \in Nodes, Bump(n) \/ BumpFails(n) PROVE CountInv(o)'
  BY <1>2, <1>10 DEF Bump, BumpFails, Held, Reapers
<1>11. CASE Tick \/ UNCHANGED leaseVars
  BY <1>2, <1>11 DEF Tick, leaseVars, Held, Reapers
<1> QED
  BY <1>3, <1>4, <1>5, <1>6, <1>8, <1>9, <1>10, <1>11, Zenon DEF LeaseNext

\* Leases, rows and log agree in every reachable state.
THEOREM LeasesKept == LeaseSpec => []LeaseInv
<1>1. LeaseInit => LeaseInv
  <2> SUFFICES ASSUME LeaseInit PROVE LeaseInv
    OBVIOUS
  <2>1. <<"enter">> \in Seq(Kinds) /\ <<>> \in Seq(Kinds) /\ Present(<<"enter">>) /\ ~Present(<<>>)
    BY DEF Kinds, Present
  <2>2. LeaseTypes
    BY <2>1, LeaseConstants DEF LeaseInit, LeaseTypes, Forever
  <2>3. ASSUME NEW m \in Everyone PROVE MemberInv(m) /\ CountInv(m)
    <3>1. Reapers(m) = {} /\ Cardinality(Reapers(m)) = 0
      BY FS_EmptySet DEF LeaseInit, Reapers
    <3>2. Count(<<>>, "leave") = 0 /\ Count(<<>>, "enter") = 0
      BY FS_EmptySet, {i \in 1..Len(<<>>) : <<>>[i] = "leave"} = {}, {i \in 1..Len(<<>>) : <<>>[i] = "enter"} = {} DEF Count
    <3>3. Count(<<"enter">>, "leave") = 0 /\ Count(<<"enter">>, "enter") = 1
      <4>1. <<"enter">> = Append(<<>>, "enter") /\ <<>> \in Seq(Kinds) /\ "enter" \in Kinds /\ "leave" \in Kinds
        BY DEF Kinds
      <4>2. /\ Count(Append(<<>>, "enter"), "leave") = Count(<<>>, "leave") + 0
            /\ Count(Append(<<>>, "enter"), "enter") = Count(<<>>, "enter") + 1
        BY <4>1, CountFacts
      <4> QED
        BY <3>2, <4>1, <4>2
    <3> QED
      BY <2>1, <3>1, <3>2, <3>3, LeaseConstants
      DEF LeaseInit, MemberInv, CountInv, Held, Forever, NoNode, FixtureNode, Everyone
  <2> QED
    BY <2>2, <2>3, Zenon DEF LeaseInv
<1>2. LeaseInv /\ [LeaseNext]_leaseVars => LeaseInv'
  BY LeaseTypesStep, MemberStep, CountStep, Zenon DEF LeaseInv
<1> QED
  BY <1>1, <1>2, PTL DEF LeaseSpec

\* The lease of a live node's member, or of a fixture, never runs out, so the reaper's DELETE
\* takes nobody who is there: the bumps that fail are covered by the window, and an ENTER
\* hands the row to the node it is made on.
THEOREM LiveMembersKept == LeaseSpec => []LiveMembersNeverLapse
<1>1. LeaseInv => LiveMembersNeverLapse
  BY LapsedNotLive, Zenon DEF LeaseInv, LiveMembersNeverLapse
<1> QED
  BY <1>1, LeasesKept, PTL

\* Several nodes reap at once, reaps are cut off and members re-enter at any time, and yet
\* the log has one LEAVE at most for each time a member was added: a reaper's DELETE hands a
\* row to one node only.
THEOREM DeparturesOnce == LeaseSpec => []OneLeavePerDeparture
<1>1. LeaseInv => OneLeavePerDeparture
  <2> SUFFICES ASSUME LeaseInv, NEW m \in Everyone
               PROVE  Count(feed[m], "leave") <= Count(feed[m], "enter")
    BY Zenon DEF OneLeavePerDeparture, Events, Count
  <2>1. Count(feed[m], "leave") \in Nat /\ Count(feed[m], "enter") \in Nat /\ Cardinality(Reapers(m)) \in Nat
    BY CountFacts, ReapersFacts DEF LeaseInv, LeaseTypes, Kinds
  <2> QED
    BY <2>1 DEF LeaseInv, CountInv, Held
<1> QED
  BY <1>1, LeasesKept, PTL

\* What Members reads from the table and what subscribers saw differ by the orphans in a
\* reaper's hands, and by those a reaper that was cut off has forgotten.
THEOREM TableFollowsFeed == LeaseSpec => []TableMatchesFeed
<1>1. LeaseInv => TableMatchesFeed
  BY DEF LeaseInv, MemberInv, Reapers, Present, TableMatchesFeed, InTable, Shown, BeingReaped
<1> QED
  BY <1>1, LeasesKept, PTL

-----------------------------------------------------------------------------
(***************************************************************************)
(* Migrations.                                                             *)
(***************************************************************************)
SweepTypes ==
    /\ pc \in [Processes -> {"waiting", "reading", "applying", "open", "failed"}]
    /\ applied \in [Processes -> SUBSET Migration]
    /\ schema \in [Migration -> Nat]
    /\ tracked \subseteq Migration

\* A process that sweeps holds the lock, so the versions it has read are still the
\* versions that are recorded.
SweepInv ==
    /\ SweepTypes
    /\ SchemaSwept
    /\ \A p \in Processes :
        /\ pc[p] \in {"reading", "applying"} => lock = p
        /\ pc[p] = "applying" => applied[p] = tracked

\* Migrations are numbers.
LEMMA MigrationNat == Migration \subseteq Nat /\ \A p \in Processes : 1..Embedded[p] \subseteq Migration
BY MigrationsAssumption DEF Migration

\* The sweep keeps its invariant, whoever runs, fails and starts again.
THEOREM SweepCorrect == SweepSpec => []SweepInv
<1>1. SweepInit => SweepInv
  BY MigrationsAssumption DEF SweepInit, SweepInv, SweepTypes, SchemaSwept
<1>2. SweepInv /\ [SweepNext]_sweepVars => SweepInv'
  <2> SUFFICES ASSUME SweepInv, [SweepNext]_sweepVars PROVE SweepInv'
    OBVIOUS
  <2> USE MigrationsAssumption DEF SweepInv, SweepTypes, SchemaSwept
  <2>1. ASSUME NEW p \in Processes, Lock(p) PROVE SweepInv'
    BY <2>1, ZenonT(30) DEF Lock
  <2>2. ASSUME NEW p \in Processes, ReadApplied(p) PROVE SweepInv'
    BY <2>2 DEF ReadApplied
  <2>3. ASSUME NEW p \in Processes, Apply(p) PROVE SweepInv'
    <3>1. PICK m \in Pending(p) :
            /\ \A k \in Pending(p) : m <= k
            /\ m \notin tracked
            /\ schema' = [schema EXCEPT ![m] = @ + 1]
            /\ tracked' = tracked \cup {m}
            /\ applied' = [applied EXCEPT ![p] = @ \cup {m}]
      BY <2>3, Zenon DEF Apply
    <3>2. m \in 1..Embedded[p] /\ m \in Migration /\ applied[p] = tracked /\ pc' = pc /\ lock' = lock
      BY <2>3, <3>1, MigrationNat, Zenon DEF Apply, Pending
    <3>3. SweepTypes'
      BY <3>1, <3>2
    <3>4. \A k \in Migration : schema'[k] = IF k \in tracked' THEN 1 ELSE 0
      BY <3>1, <3>2
    <3>5. 1..m \subseteq tracked'
      BY <3>1, <3>2 DEF Pending
    <3>6. \A k \in tracked' : 1..k \subseteq tracked'
      BY <3>1, <3>5, Zenon
    <3>7. \A q \in Processes : pc'[q] = "open" => 1..Embedded[q] \subseteq tracked'
      BY <3>1, <3>2, Zenon
    <3>8. \A q \in Processes : pc[q] = "applying" => q = p
      BY <2>3, Zenon DEF Apply
    <3> QED
      BY <3>1, <3>2, <3>3, <3>4, <3>6, <3>7, <3>8
  <2>4. ASSUME NEW p \in Processes, Finish(p) PROVE SweepInv'
    <3>1. 1..Embedded[p] \subseteq tracked
      BY <2>4 DEF Finish, Pending
    <3> QED
      BY <2>4, <3>1, ZenonT(30) DEF Finish, Unlock
  <2>5. ASSUME NEW p \in Processes, Fail(p) PROVE SweepInv'
    BY <2>5, ZenonT(30) DEF Fail, Unlock
  <2>6. ASSUME NEW p \in Processes, Restart(p) PROVE SweepInv'
    BY <2>6, Zenon DEF Restart
  <2>7. CASE UNCHANGED sweepVars
    BY <2>7, Zenon DEF sweepVars
  <2> QED
    BY <2>1, <2>2, <2>3, <2>4, <2>5, <2>6, <2>7, Zenon DEF SweepNext, Step
<1> QED
  BY <1>1, <1>2, PTL DEF SweepSpec

\* The SQL of a migration and its tracker row are in the database together, once,
\* and after those of all that come before it, whatever builds sweep in whatever
\* order; and Open returns on a schema that has every migration of the build.
THEOREM SweepSound == SweepSpec => []SchemaSwept
<1>1. SweepInv => SchemaSwept
  BY Zenon DEF SweepInv
<1> QED
  BY <1>1, SweepCorrect, PTL

-----------------------------------------------------------------------------
(***************************************************************************)
(* The serial generator.                                                   *)
(***************************************************************************)
\* String order on serials is a strict order: it is transitive.
LEMMA BeforeTransitive ==
    ASSUME NEW a \in Serials, NEW b \in Serials, NEW c \in Serials,
           Before(a, b), Before(b, c)
    PROVE  Before(a, c)
  BY SerialAssumption DEF Before, Serials

\* Generator.Mint always moves to a well-formed state whose serial is
\* strictly greater than the one it handed out before, whatever the clock.
LEMMA MintFromIncreases ==
    ASSUME NEW g \in Generators, NEW now \in Nat
    PROVE  /\ MintFrom(g, now) \in Generators
           /\ SerialOf(MintFrom(g, now)) \in Serials
           /\ Before(SerialOf(g), SerialOf(MintFrom(g, now)))
  <1>1. CASE now > g.ts
    BY <1>1, SerialAssumption DEF MintFrom, Generators, SerialOf, Serials, Before
  <1>2. CASE now <= g.ts /\ g.ctr + 1 <= MaxCounter
    BY <1>2, SerialAssumption DEF MintFrom, Generators, SerialOf, Serials, Before
  <1>3. CASE now <= g.ts /\ g.ctr + 1 > MaxCounter
    BY <1>3, SerialAssumption DEF MintFrom, Generators, SerialOf, Serials, Before
  <1> QED
    BY <1>1, <1>2, <1>3, SerialAssumption DEF Generators

\* SerialTypeOK is an invariant: Mint keeps the counter within its width.
THEOREM SerialTypeCorrect == SerialSpec => []SerialTypeOK
  <1>1. SerialInit => SerialTypeOK
    BY SerialAssumption DEF SerialInit, SerialTypeOK, NewGenerator, Generators
  <1>2. SerialTypeOK /\ [SerialNext]_serialVars => SerialTypeOK'
    <2> SUFFICES ASSUME SerialTypeOK, [SerialNext]_serialVars PROVE SerialTypeOK'
      OBVIOUS
    <2>1. CASE Mint
      <3>1. gen' \in Generators /\ SerialOf(gen') \in Serials
        BY <2>1, MintFromIncreases, Zenon DEF Mint, SerialTypeOK
      <3> QED
        BY <2>1, <3>1 DEF Mint, SerialTypeOK
    <2>2. ASSUME NEW t \in 1..MaxClock, ClockMoves(t) PROVE SerialTypeOK'
      BY <2>2, SerialAssumption DEF ClockMoves, SerialTypeOK
    <2>3. CASE UNCHANGED serialVars
      BY <2>3, Zenon DEF serialVars, SerialTypeOK
    <2> QED
      BY <2>1, <2>2, <2>3, Zenon DEF SerialNext
  <1> QED
    BY <1>1, <1>2, PTL DEF SerialSpec

\* The strengthening that makes StrictlyIncreasing inductive: the generator
\* still remembers the last serial it handed out, which ends the sequence.
LastIsGen == minted # <<>> => minted[Len(minted)] = SerialOf(gen)

MintInv == SerialTypeOK /\ LastIsGen /\ StrictlyIncreasing

\* Serials minted by one Generator strictly increase in string order, for
\* every width of the counter and every behaviour of the clock.
THEOREM MintMonotonic == SerialSpec => []StrictlyIncreasing
  <1>1. SerialInit => LastIsGen /\ StrictlyIncreasing
    BY DEF SerialInit, LastIsGen, StrictlyIncreasing
  <1>2. MintInv /\ SerialTypeOK' /\ [SerialNext]_serialVars => (LastIsGen /\ StrictlyIncreasing)'
    <2> SUFFICES ASSUME MintInv, SerialTypeOK', [SerialNext]_serialVars
                 PROVE  (LastIsGen /\ StrictlyIncreasing)'
      OBVIOUS
    <2> USE DEF MintInv
    <2>1. CASE Mint
      <3>1. /\ SerialOf(gen) \in Serials
            /\ SerialOf(gen') \in Serials
            /\ Before(SerialOf(gen), SerialOf(gen'))
        BY <2>1, MintFromIncreases, Zenon DEF Mint, SerialTypeOK, Generators, SerialOf, Serials
      <3>2. /\ Len(minted') = Len(minted) + 1
            /\ minted'[Len(minted) + 1] = SerialOf(gen')
            /\ \A i \in 1..Len(minted) : minted'[i] = minted[i]
            /\ Len(minted) \in Nat
        BY <2>1, <3>1 DEF Mint, SerialTypeOK
      <3>3. LastIsGen'
        BY <3>2, Zenon DEF LastIsGen
      <3>4. \A i \in 1..Len(minted) : Before(minted[i], SerialOf(gen'))
        <4> SUFFICES ASSUME NEW i \in 1..Len(minted)
                     PROVE  Before(minted[i], SerialOf(gen'))
          OBVIOUS
        <4>1. minted[Len(minted)] = SerialOf(gen) /\ Len(minted) \in 1..Len(minted)
          BY <3>2 DEF LastIsGen, SerialTypeOK
        <4>2. minted[i] \in Serials
          BY DEF SerialTypeOK
        <4>3. CASE i = Len(minted)
          BY <4>3, <4>1, <3>1, Zenon
        <4>4. CASE i # Len(minted)
          <5>1. Before(minted[i], SerialOf(gen))
            BY <4>4, <4>1, <3>2 DEF StrictlyIncreasing
          <5> QED
            BY <5>1, <4>2, <3>1, BeforeTransitive, Zenon
        <4> QED
          BY <4>3, <4>4, Zenon
      <3>5. StrictlyIncreasing'
        BY <3>2, <3>4 DEF StrictlyIncreasing
      <3> QED
        BY <3>3, <3>5, Zenon
    <2>2. ASSUME NEW t \in 1..MaxClock, ClockMoves(t)
          PROVE  (LastIsGen /\ StrictlyIncreasing)'
      BY <2>2, Zenon DEF ClockMoves, LastIsGen, StrictlyIncreasing, SerialOf
    <2>3. CASE UNCHANGED serialVars
      BY <2>3, Zenon DEF serialVars, LastIsGen, StrictlyIncreasing, SerialOf
    <2> QED
      BY <2>1, <2>2, <2>3, Zenon DEF SerialNext
  <1> QED
    BY <1>1, <1>2, SerialTypeCorrect, PTL DEF SerialSpec, MintInv

\* The serials of a number of milliseconds, and how far a generator in state g has come.
Places(ms) == ms * (MaxCounter + 1)
Spent(g) == Places(g.ts) + g.ctr

\* What makes BoundedDrift inductive: a serial minted while the clock does not advance
\* uses up one place of the counter, a borrowed millisecond having MaxCounter + 1.
DriftInv == Spent(gen) <= Places(latestClock) + Len(minted)

\* Generator.Mint takes the clock's millisecond, or the next place.
LEMMA MintFromSpends ==
    ASSUME NEW g \in Generators, NEW now \in Nat
    PROVE  \/ Spent(MintFrom(g, now)) = Places(now)
           \/ Spent(MintFrom(g, now)) = Spent(g) + 1
<1> DEFINE K == MaxCounter + 1
<1>1. CASE now > g.ts
  BY <1>1, SerialAssumption DEF MintFrom, Generators, Spent, Places
<1>2. CASE now <= g.ts /\ g.ctr + 1 <= MaxCounter
  BY <1>2, SerialAssumption DEF MintFrom, Generators, Spent, Places
<1>3. CASE now <= g.ts /\ g.ctr + 1 > MaxCounter
  <2>1. g.ts \in Nat /\ g.ctr = MaxCounter /\ K \in Nat
    BY <1>3, SerialAssumption DEF Generators
  <2>2. MintFrom(g, now).ts = g.ts + 1 /\ MintFrom(g, now).ctr = 0
    BY <1>3, SerialAssumption DEF MintFrom, Generators
  <2>3. (g.ts + 1) * K = g.ts * K + K
    BY <2>1
  <2> QED
    BY <2>1, <2>2, <2>3, SerialAssumption DEF Spent, Places
<1> QED
  BY <1>1, <1>2, <1>3, SerialAssumption DEF Generators

\* Products with a common factor compare as their other factors do.
LEMMA Scaled ==
    ASSUME NEW a \in Nat, NEW b \in Nat, NEW k \in Nat, a <= b
    PROVE  a * k <= b * k
<1>1. PICK d \in Nat : b = a + d
  <2>1. b - a \in Nat /\ b = a + (b - a)
    OBVIOUS
  <2> QED
    BY <2>1, Zenon
<1>2. b * k = a * k + d * k /\ d * k \in Nat /\ a * k \in Nat
  BY <1>1
<1> QED
  BY <1>2

\* A later millisecond leaves room for no fewer serials.
LEMMA PlacesGrow ==
    ASSUME NEW a \in Nat, NEW b \in Nat, a <= b
    PROVE  Places(a) \in Nat /\ Places(b) \in Nat /\ Places(a) <= Places(b)
<1>1. MaxCounter + 1 \in Nat
  BY SerialAssumption
<1>2. PICK k \in Nat : k = MaxCounter + 1
  BY <1>1, Zenon
<1>3. a * k <= b * k
  BY Scaled, Zenon
<1>4. a * k \in Nat /\ b * k \in Nat
  OBVIOUS
<1> QED
  BY <1>2, <1>3, <1>4, Zenon DEF Places

\* However long the clock stands still or goes back, the timestamps of serials run ahead
\* of it by no more than a millisecond for each counter's worth of serials minted.
THEOREM DriftBounded == SerialSpec => []BoundedDrift
<1> DEFINE K == MaxCounter + 1
<1>1. SerialInit => DriftInv
  BY SerialAssumption DEF SerialInit, DriftInv, Spent, Places, NewGenerator
<1>2. SerialTypeOK /\ DriftInv /\ [SerialNext]_serialVars => DriftInv'
  <2> SUFFICES ASSUME SerialTypeOK, DriftInv, [SerialNext]_serialVars
               PROVE  DriftInv'
    OBVIOUS
  <2>1. K \in Nat /\ latestClock \in Nat /\ clock \in Nat /\ gen \in Generators /\ Len(minted) \in Nat
    BY SerialAssumption DEF SerialTypeOK
  <2>2. CASE Mint
    <3>1. /\ Len(minted') = Len(minted) + 1
          /\ latestClock' \in Nat /\ latestClock <= latestClock' /\ clock <= latestClock'
      BY <2>1, <2>2 DEF Mint, SerialTypeOK
    <3>2. /\ Places(latestClock) <= Places(latestClock') /\ Places(clock) <= Places(latestClock')
          /\ Places(latestClock) \in Nat /\ Places(latestClock') \in Nat /\ Places(clock) \in Nat
      BY <2>1, <3>1, PlacesGrow, Zenon
    <3>3. Spent(gen') = Places(clock) \/ Spent(gen') = Spent(gen) + 1
      BY <2>1, <2>2, MintFromSpends, Zenon DEF Mint
    <3>4. Spent(gen) \in Nat
      BY <2>1, SerialAssumption DEF Spent, Generators, Places
    <3> QED
      BY <2>1, <3>1, <3>2, <3>3, <3>4, SMTT(30) DEF DriftInv, Spent
  <2>3. ASSUME NEW t \in 1..MaxClock, ClockMoves(t) PROVE DriftInv'
    BY <2>3, Zenon DEF ClockMoves, DriftInv, Spent
  <2>4. CASE UNCHANGED serialVars
    BY <2>4, Zenon DEF serialVars, DriftInv, Spent
  <2> QED
    BY <2>2, <2>3, <2>4, Zenon DEF SerialNext
<1>3. SerialTypeOK /\ DriftInv => BoundedDrift
  <2> SUFFICES ASSUME SerialTypeOK, DriftInv
               PROVE  BoundedDrift
    OBVIOUS
  <2>1. /\ K \in Nat /\ K > 0 /\ latestClock \in Nat /\ Len(minted) \in Nat
        /\ gen.ts \in Nat /\ gen.ctr \in Nat
    BY SerialAssumption DEF SerialTypeOK, Generators
  <2>2. gen.ts * K <= latestClock * K + Len(minted)
    BY <2>1 DEF DriftInv, Spent, Places
  <2> DEFINE q == Len(minted) \div K
  <2>3. q \in Nat /\ Len(minted) < (q + 1) * K
    BY <2>1
  <2> HIDE DEF q, K
  <2>4. gen.ts <= latestClock + q
    <3> SUFFICES ASSUME gen.ts >= latestClock + q + 1
                 PROVE  FALSE
      BY <2>1, <2>3
    <3>1. (latestClock + q + 1) * K <= gen.ts * K
      BY <2>1, <2>3, Scaled
    <3>2. (latestClock + q + 1) * K = latestClock * K + (q + 1) * K
      BY <2>1, <2>3
    <3>3. latestClock * K \in Nat /\ (q + 1) * K \in Nat
      BY <2>1, <2>3
    <3> QED
      BY <2>1, <2>2, <2>3, <3>1, <3>2, <3>3, SMTT(30)
  <2> QED
    BY <2>4, Zenon DEF BoundedDrift, q, K
<1> QED
  BY <1>1, <1>2, <1>3, SerialTypeCorrect, PTL DEF SerialSpec
=============================================================================
