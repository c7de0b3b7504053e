------------------------------ MODULE Manager ------------------------------
(***************************************************************************)
(* core.Manager and Storage.Channel: how the requests of one process that  *)
(* name the same channel come to share one Channel and one ChannelStore.   *)
(*                                                                         *)
(* A Channel is registered with the Manager before it has a store.  The    *)
(* memory and bbolt backends open a store in one step, under their lock;   *)
(* Postgres registers it, lets go of the lock and asks the database.       *)
(* Opening fails when the database does or the request is cancelled; the   *)
(* memory backend never fails.  A client that asks again is a caller of    *)
(* its own.                                                                *)
(***************************************************************************)
EXTENDS Naturals

CONSTANTS
    Callers,        \* requests that use the channel
    Attaching,      \* those of them that attach; the others publish or read
    Backends,       \* the backends the process may run on
    MayFail         \* opening a store may fail

ManagerAssumption ==
    /\ Attaching \subseteq Callers
    /\ Backends \subseteq {"memory", "bbolt", "postgres"}
    /\ MayFail \in BOOLEAN

VARIABLES
    backend,
    registered,     \* Manager.channels[name]: a set of at most one Channel
    stores,         \* Storage.channels[name]: a set of at most one ChannelStore
    store,          \* store[c]: the ChannelStore of Channel c, if set
    initialized,          \* the Channels Initialize has run on
    pc, ch          \* where a caller is, and the Channel it works with

managerVars == <<backend, registered, stores, store, initialized, pc, ch>>

\* A Channel is named after the caller that made it, a ChannelStore after
\* the Channel that is its appender.
Channels == Callers
NoStore == {}

ManagerInit ==
    /\ backend \in Backends
    /\ registered = {} /\ stores = {}
    /\ store = [c \in Channels |-> NoStore]
    /\ initialized = {}
    /\ pc = [p \in Callers |-> "start"]
    /\ ch = [p \in Callers |-> p]

Goto(p, l) == pc' = [pc EXCEPT ![p] = l]

\* GetChannel up to the unlock: the registered Channel, or a new one.
GetChannel(p) ==
    /\ pc[p] = "start"
    /\ IF registered # {}
       THEN /\ \E c \in registered : ch' = [ch EXCEPT ![p] = c]
            /\ Goto(p, "got")
            /\ UNCHANGED registered
       ELSE /\ registered' = {p}
            /\ Goto(p, "open")
            /\ UNCHANGED ch
    /\ UNCHANGED <<backend, stores, store, initialized>>

-----------------------------------------------------------------------------
\* Storage.Channel: a store it finds is returned, whatever its appender. One
\* it makes is Initialized under the same lock by memory and bbolt.
OpenStore(p) ==
    /\ pc[p] = "open"
    /\ IF stores # {} THEN Goto(p, "opened") /\ UNCHANGED <<stores, initialized>>
       ELSE /\ stores' = {p}
            /\ IF backend = "postgres" THEN Goto(p, "ensure") /\ UNCHANGED initialized
               ELSE Goto(p, "opened") /\ initialized' = initialized \cup {p}
    /\ UNCHANGED <<backend, registered, store, ch>>

\* bbolt cannot load or persist the initial serial: the store is dropped
\* again before the lock is released.
BoltFails(p) ==
    /\ MayFail /\ backend = "bbolt"
    /\ pc[p] = "open" /\ stores = {}
    /\ Goto(p, "failed")
    /\ UNCHANGED <<backend, registered, stores, store, initialized, ch>>

\* Faulty Ensured: leaves Initialize out.
Ensured_Silent(p) ==
    /\ pc[p] = "ensure"
    /\ Goto(p, "opened")
    /\ UNCHANGED <<backend, registered, stores, store, initialized, ch>>

\* ensure_channel has answered: Initialize.
Ensured(p) ==
    /\ pc[p] = "ensure"
    /\ initialized' = initialized \cup {p}
    /\ Goto(p, "opened")
    /\ UNCHANGED <<backend, registered, stores, store, ch>>

\* Faulty EnsureFails: the store stays in the map.
EnsureFails_Keeps(p) ==
    /\ MayFail /\ pc[p] = "ensure"
    /\ Goto(p, "failed")
    /\ UNCHANGED <<backend, registered, stores, store, initialized, ch>>

\* ensure_channel fails: the store is taken out of the map.
EnsureFails(p) ==
    /\ MayFail /\ pc[p] = "ensure"
    /\ stores' = {}
    /\ Goto(p, "failed")
    /\ UNCHANGED <<backend, registered, store, initialized, ch>>

\* GetChannel after store.Channel has returned: set ch.store, or roll back.
SetStore(p) ==
    /\ pc[p] = "opened"
    /\ store' = [store EXCEPT ![p] = stores]
    /\ Goto(p, "got")
    /\ UNCHANGED <<backend, registered, stores, initialized, ch>>

RollBack(p) ==
    /\ pc[p] = "failed"
    /\ registered' = registered \ {p}
    /\ Goto(p, "error")
    /\ UNCHANGED <<backend, stores, store, initialized, ch>>

-----------------------------------------------------------------------------
\* Attach waits until the Channel is ready.
AttachTo(p) ==
    /\ pc[p] = "got" /\ p \in Attaching
    /\ ch[p] \in initialized
    /\ Goto(p, "attached")
    /\ UNCHANGED <<backend, registered, stores, store, initialized, ch>>

\* Publish, Mutate, History, Members and the rest delegate to ch.store; an
\* attachment reads history and members once it is attached.
Delegate(p) ==
    /\ IF p \in Attaching THEN pc[p] = "attached" ELSE pc[p] = "got"
    /\ Goto(p, IF store[ch[p]] = NoStore THEN "nil store" ELSE "served")
    /\ UNCHANGED <<backend, registered, stores, store, initialized, ch>>

Step(p) ==
    \/ GetChannel(p) \/ OpenStore(p) \/ Ensured(p)
    \/ SetStore(p) \/ RollBack(p) \/ AttachTo(p) \/ Delegate(p)

ManagerNext == \E p \in Callers : Step(p) \/ BoltFails(p) \/ EnsureFails(p)

ManagerSpec == ManagerInit /\ [][ManagerNext]_managerVars

\* Requests are goroutines that run until they block. Nothing is assumed of
\* failures.
ManagerFairSpec == ManagerSpec /\ \A p \in Callers : WF_managerVars(Step(p))

-----------------------------------------------------------------------------
Places == {"start", "open", "ensure", "opened", "failed", "error", "got", "attached",
           "nil store", "served"}

\* Every variable has its type; a Channel is ready only once its own caller
\* has come that far in GetChannel.
ManagerTypeOK ==
    /\ backend \in Backends
    /\ registered \subseteq Channels /\ stores \subseteq Channels
    /\ store \in [Channels -> SUBSET Channels]
    /\ initialized \subseteq {p \in Channels : pc[p] \in Places \ {"start", "open", "ensure", "failed", "error"}}
    /\ pc \in [Callers -> Places]
    /\ ch \in [Callers -> Channels]

\* The name has one live list: a Channel that is ready is the one the Manager
\* hands out, and the one the backend's store appends to. A failed open never
\* leaves a store behind that delivers to a Channel nobody can get.
OneLiveChannel ==
    \A c \in Channels :
        /\ c \in initialized => registered = {c} /\ stores = {c}
        /\ store[c] # NoStore => store[c] = {c}

\* A Channel that GetChannel has returned has its store.
PairedWhenReturned == \A p \in Callers : pc[p] # "nil store"

\* A caller that GetChannel has returned a Channel to is not kept waiting in
\* Attach for ever, whatever became of the caller that was opening it.
AttachReturns == \A p \in Attaching : pc[p] = "got" ~> pc[p] # "got"
=============================================================================
