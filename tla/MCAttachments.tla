---------------------------- MODULE MCAttachments ----------------------------
(***************************************************************************)
(* Getting a channel and attaching to it.  A behaviour is one of the       *)
(* parts, and what belongs to the others stays as it is: detaches, lost    *)
(* connections, resume and rewind; repeat ATTACHes and a detach on one     *)
(* attachment; requests that open the channel together, and some of them   *)
(* fail; the same without failures.  One client attaches: clients share    *)
(* nothing but the channel's list, which they only read.                   *)
(***************************************************************************)
EXTENDS Attachment, Manager

VARIABLE part

CountRewinds == {NoRewind, [kind |-> "count", n |-> 1], [kind |-> "count", n |-> 3],
                 [kind |-> "invalid", n |-> 0]}

Repeat == INSTANCE Attachment WITH
        MaxBatch <- 2, PublishActs <- {"create", "enter"}, Rewinds <- {NoRewind},
        HistoryMayFail <- FALSE, MaxPublishes <- 3, MaxAttaches <- 1, MaxReattaches <- 2,
        MaxDrops <- 0

Open == INSTANCE Manager WITH MayFail <- FALSE

ASSUME
    /\ AttachmentAssumption /\ Repeat!AttachmentAssumption
    /\ ManagerAssumption

MCInit ==
    /\ part \in {"resume", "repeat", "failing", "open"}
    /\ Init
    /\ ManagerInit /\ (part \in {"failing", "open"} \/ backend = "memory")

MCNext ==
    \/ part = "resume" /\ Next /\ UNCHANGED <<part, managerVars>>
    \/ part = "repeat" /\ Repeat!Next /\ UNCHANGED <<part, managerVars>>
    \/ part = "failing" /\ ManagerNext /\ UNCHANGED <<part, vars>>
    \/ part = "open" /\ Open!ManagerNext /\ UNCHANGED <<part, vars>>

\* The fairness of the parts a liveness property is about.
MCSpec ==
    /\ MCInit /\ [][MCNext]_<<part, vars, managerVars>>
    /\ \A c \in Clients :
        /\ WF_vars(part = "repeat" /\ (Repeat!ComputeReplay(c) \/ Repeat!ComputeReplayFails(c)))
        /\ WF_vars(part = "repeat" /\ Repeat!LiveNext(c))
        /\ WF_vars(part = "repeat" /\ Repeat!Send(c))
        /\ WF_vars(part = "repeat" /\ Repeat!QueueReply(c))
        /\ WF_vars(part = "repeat" /\ Repeat!Receive(c))
    /\ \A p \in Callers : WF_managerVars(part = "open" /\ Open!Step(p))

-----------------------------------------------------------------------------
\* What a client received is what its cursor says, across detaches, lost connections,
\* resume and rewind; what it is sent after a repeat ATTACH goes on from there; and no
\* frame of the channel comes before ATTACHED or after DETACHED.
ReceivesExactly ==
    /\ part = "resume" => CursorMatches
    /\ Continuity
    /\ NoFrameOutsideAttachment

\* A client that stays attached receives every message, and a caller that GetChannel
\* has returned a Channel to is not kept waiting in Attach, if no open fails.
AttachedCatchUp ==
    /\ part = "repeat" => CatchesUp
    /\ part = "open" => Open!AttachReturns
==============================================================================
