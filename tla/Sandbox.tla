------------------------------ MODULE Sandbox ------------------------------
(***************************************************************************)
(* The sandbox provisioner: POST /apps boots one ably-server process for   *)
(* an app, DELETE /apps/{appId} and the reaper of idle apps end it, and at *)
(* SIGTERM all are ended before the provisioner exits.  A process may die  *)
(* or never bind, and may ignore SIGTERM.  An app is known by its random   *)
(* appId, so one app is created once.                                      *)
(***************************************************************************)
EXTENDS Naturals, FiniteSets

CONSTANTS
    Apps,       \* apps
    Signals     \* SIGTERM may come

SandboxAssumption == Signals \in BOOLEAN

VARIABLES
    create,     \* the request that creates an app
    deletes,    \* apps with a DELETE request whose handler has still to run
    bound,      \* apps whose process has written its address
    proc,       \* the process of an app
    children,   \* the registry
    idle,       \* registered apps not touched for idleTTL
    stale,      \* apps the reaper took and has still to terminate
    term,       \* the call of terminate for an app: who made it, where it is
    calls,      \* how often terminate was called for an app
    phase,      \* the provisioner
    late        \* the ten seconds of srv.Shutdown are over

vars == <<create, deletes, bound, proc, children, idle, stale, term, calls, phase, late>>

Free == [by |-> "none", pc |-> "none"]

Init ==
    /\ create = [a \in Apps |-> "none"] /\ deletes = {} /\ bound = {}
    /\ proc = [a \in Apps |-> "none"] /\ children = {} /\ idle = {} /\ stale = {}
    /\ term = [a \in Apps |-> Free] /\ calls = [a \in Apps |-> 0]
    /\ phase = "serving" /\ late = FALSE

Alive == phase # "exited"

\* terminate is called for the apps S.
Call(S, by) ==
    /\ term' = [a \in Apps |-> IF a \in S THEN [by |-> by, pc |-> "signal"] ELSE term[a]]
    /\ calls' = [a \in Apps |-> IF a \in S THEN calls[a] + 1 ELSE calls[a]]

Busy(by) == {a \in Apps : term[a].by = by /\ term[a].pc # "done"}

-----------------------------------------------------------------------------
\* A process binds, or ends, by itself or as SIGTERM asks it to.
Bind(a) ==
    /\ proc[a] = "running" /\ bound' = bound \cup {a}
    /\ UNCHANGED <<create, deletes, proc, children, idle, stale, term, calls, phase, late>>

Die(a) ==
    /\ proc[a] \in {"running", "asked"} /\ proc' = [proc EXCEPT ![a] = "dead"]
    /\ UNCHANGED <<create, deletes, bound, children, idle, stale, term, calls, phase, late>>

\* The HTTP server accepts a request until SIGTERM; its handler runs then or later, the ten
\* seconds of srv.Shutdown and what follows included. A client deletes an app that it was
\* told of, and several may.
AcceptCreate(a) ==
    /\ phase = "serving" /\ create[a] = "none"
    /\ create' = [create EXCEPT ![a] = "accepted"]
    /\ UNCHANGED <<deletes, bound, proc, children, idle, stale, term, calls, phase, late>>

AcceptDelete(a) ==
    /\ phase = "serving" /\ create[a] = "created"
    /\ deletes' = deletes \cup {a}
    /\ UNCHANGED <<create, bound, proc, children, idle, stale, term, calls, phase, late>>

\* handleCreateApp: the process starts, or cannot be started.
StartChild(a, ok) ==
    /\ Alive /\ create[a] = "accepted"
    /\ create' = [create EXCEPT ![a] = IF ok THEN "waiting" ELSE "failed"]
    /\ proc' = [proc EXCEPT ![a] = IF ok THEN "running" ELSE "none"]
    /\ UNCHANGED <<deletes, bound, children, idle, stale, term, calls, phase, late>>

\* waitForAddr finds the address; or the process is dead, or time is up before
\* the address is seen.
WaitForAddr(a) ==
    /\ Alive /\ create[a] = "waiting"
    /\ \/ a \in bound /\ create' = [create EXCEPT ![a] = "ready"] /\ UNCHANGED <<term, calls>>
       \/ create' = [create EXCEPT ![a] = "failing"] /\ Call({a}, "create")
    /\ UNCHANGED <<deletes, bound, proc, children, idle, stale, phase, late>>

\* Faulty Register: answers without registering.
Register_Forgets(a) ==
    /\ Alive /\ create[a] = "ready"
    /\ create' = [create EXCEPT ![a] = "created"]
    /\ UNCHANGED <<deletes, bound, proc, children, idle, stale, term, calls, phase, late>>

Register(a) ==
    /\ Alive /\ create[a] = "ready"
    /\ create' = [create EXCEPT ![a] = "created"]
    /\ children' = children \cup {a}
    /\ UNCHANGED <<deletes, bound, proc, idle, stale, term, calls, phase, late>>

CreateFails(a) ==
    /\ Alive /\ create[a] = "failing" /\ term[a].pc = "done"
    /\ create' = [create EXCEPT ![a] = "failed"]
    /\ UNCHANGED <<deletes, bound, proc, children, idle, stale, term, calls, phase, late>>

\* Faulty HandleDeleteApp: looks the app up and leaves it in the registry.
HandleDeleteApp_Keeps(a) ==
    /\ Alive /\ a \in deletes /\ deletes' = deletes \ {a}
    /\ Call({a} \cap children, "delete")
    /\ UNCHANGED <<create, bound, proc, children, idle, stale, phase, late>>

\* handleDeleteApp: an app that is not registered makes it a no-op.
HandleDeleteApp(a) ==
    /\ Alive /\ a \in deletes /\ deletes' = deletes \ {a}
    /\ children' = children \ {a} /\ idle' = idle \ {a}
    /\ Call({a} \cap children, "delete")
    /\ UNCHANGED <<create, bound, proc, stale, phase, late>>

-----------------------------------------------------------------------------
BecomeIdle(a) ==
    /\ Alive /\ a \in children \ idle /\ idle' = idle \cup {a}
    /\ UNCHANGED <<create, deletes, bound, proc, children, stale, term, calls, phase, late>>

\* reap: one goroutine takes all idle apps, and terminates one after the other.
ReapIdle ==
    /\ Alive /\ stale = {} /\ Busy("reap") = {} /\ idle # {}
    /\ stale' = idle /\ children' = children \ idle /\ idle' = {}
    /\ UNCHANGED <<create, deletes, bound, proc, term, calls, phase, late>>

ReapNext(a) ==
    /\ Alive /\ a \in stale /\ Busy("reap") = {}
    /\ stale' = stale \ {a} /\ Call({a}, "reap")
    /\ UNCHANGED <<create, deletes, bound, proc, children, idle, phase, late>>

-----------------------------------------------------------------------------
\* terminate: SIGTERM; wait for the end, or SIGKILL when the grace is over; clean up.
AskToEnd(a) ==
    /\ Alive /\ term[a].pc = "signal"
    /\ term' = [term EXCEPT ![a].pc = "wait"]
    /\ proc' = [proc EXCEPT ![a] = IF @ = "running" THEN "asked" ELSE @]
    /\ UNCHANGED <<create, deletes, bound, children, idle, stale, calls, phase, late>>

\* Faulty AwaitEnd: waits for the process without end.
AwaitEnd_Forever(a) ==
    /\ Alive /\ term[a].pc = "wait" /\ proc[a] = "dead"
    /\ term' = [term EXCEPT ![a].pc = "done"]
    /\ UNCHANGED <<create, deletes, bound, proc, children, idle, stale, calls, phase, late>>

AwaitEnd(a) ==
    /\ Alive /\ term[a].pc = "wait"
    /\ proc' = [proc EXCEPT ![a] = "dead"]
    /\ term' = [term EXCEPT ![a].pc = "done"]
    /\ UNCHANGED <<create, deletes, bound, children, idle, stale, calls, phase, late>>

-----------------------------------------------------------------------------
\* run: at SIGTERM no new requests; those in flight have ten seconds.
Signal ==
    /\ Signals /\ phase = "serving" /\ phase' = "draining"
    /\ UNCHANGED <<create, deletes, bound, proc, children, idle, stale, term, calls, late>>

Expire ==
    /\ phase = "draining" /\ ~late /\ late' = TRUE
    /\ UNCHANGED <<create, deletes, bound, proc, children, idle, stale, term, calls, phase>>

InFlight == deletes \cup {a \in Apps : create[a] \in {"accepted", "waiting", "ready", "failing"}} \cup Busy("delete")

\* shutdown takes every registered app, and terminates all at once.
Shutdown ==
    /\ phase = "draining" /\ (late \/ InFlight = {})
    /\ phase' = "stopping"
    /\ Call(children, "shutdown") /\ children' = {} /\ idle' = {}
    /\ UNCHANGED <<create, deletes, bound, proc, stale, late>>

Exit ==
    /\ phase = "stopping" /\ Busy("shutdown") = {}
    /\ phase' = "exited"
    /\ UNCHANGED <<create, deletes, bound, proc, children, idle, stale, term, calls, late>>

Next ==
    \/ \E a \in Apps :
        \/ AcceptCreate(a) \/ AcceptDelete(a) \/ Bind(a) \/ Die(a) \/ WaitForAddr(a) \/ Register(a) \/ CreateFails(a)
        \/ HandleDeleteApp(a) \/ BecomeIdle(a) \/ ReapNext(a) \/ AskToEnd(a) \/ AwaitEnd(a)
        \/ \E ok \in BOOLEAN : StartChild(a, ok)
    \/ ReapIdle \/ Signal \/ Expire \/ Shutdown \/ Exit

Spec == Init /\ [][Next]_vars

\* Goroutines of the provisioner run and time passes; processes need not do what
\* they are asked to.
FairSpec ==
    /\ Spec
    /\ \A a \in Apps :
        /\ WF_vars(BecomeIdle(a)) /\ WF_vars(ReapNext(a)) /\ WF_vars(AskToEnd(a))
        /\ WF_vars(AwaitEnd(a)) /\ WF_vars(WaitForAddr(a)) /\ WF_vars(Register(a))
    /\ WF_vars(ReapIdle) /\ WF_vars(Expire) /\ WF_vars(Shutdown) /\ WF_vars(Exit)

-----------------------------------------------------------------------------
\* Every variable has its type, and only registered apps are idle.
TypeOK ==
    /\ create \in [Apps -> {"none", "accepted", "waiting", "ready", "created", "failing", "failed"}]
    /\ proc \in [Apps -> {"none", "running", "asked", "dead"}]
    /\ deletes \subseteq Apps /\ bound \subseteq Apps /\ idle \subseteq children /\ children \subseteq Apps /\ stale \subseteq Apps
    /\ phase \in {"serving", "draining", "stopping", "exited"}

\* Deletes, the reaper, shutdown and a failed create never terminate one child
\* twice, which terminate does not allow.
TerminatedOnce == \A a \in Apps : calls[a] <= 1

\* While the provisioner runs, no process is forgotten: the process of an app
\* whose request was answered is registered, or somebody is about to end it.
NothingForgotten ==
    Alive =>
        \A a \in Apps :
            proc[a] \in {"running", "asked"} /\ create[a] \in {"created", "failed"} =>
                a \in children \cup stale \/ term[a].pc \in {"signal", "wait"}

\* A process that was started ends, whether or not it binds, is deleted or does
\* what SIGTERM asks, unless the provisioner is told to stop first.
ProcessesEnd == \A a \in Apps : []<>(proc[a] \in {"none", "dead"} \/ phase # "serving")

\* SIGTERM ends the provisioner, whatever its children do.
ProvisionerExits == []<>(phase \in {"serving", "exited"})

\* When the provisioner has exited, no child is left that was not asked to end.
NoOrphans == phase = "exited" => \A a \in Apps : proc[a] # "running"
=============================================================================
