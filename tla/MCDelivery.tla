----------------------------- MODULE MCDelivery -----------------------------
(***************************************************************************)
(* What subscribers are sent.  A behaviour is one of the parts, and what   *)
(* belongs to the others stays as it is: the data and the members an       *)
(* attachment conveys; its modes under changing requests and capabilities; *)
(* the payload of one message on its way through the server.               *)
(***************************************************************************)
EXTENDS Delivery

CONSTANTS Numbers, LargeNumbers

VARIABLES part, msg, meant, before, delta, ops

payloadVars == <<msg, meant, before, delta, ops>>

Plain == [param |-> {}, flags |-> {}, full |-> FALSE, rewind |-> FALSE]

\* Requests that all have SUBSCRIBE and PRESENCE_SUBSCRIBE.
Subscribing ==
    {Plain, [Plain EXCEPT !.full = TRUE], [Plain EXCEPT !.rewind = TRUE],
     [Plain EXCEPT !.flags = {"subscribe", "presence_subscribe"}]}

\* Requests that differ in their modes, given by flags and by the modes param.
Various ==
    {Plain, [Plain EXCEPT !.flags = {"publish", "annotation_subscribe"}],
     [Plain EXCEPT !.param = {"subscribe", "annotation_subscribe"}, !.flags = {"presence"}]}

Publishing == {Ops, {"subscribe", "publish"}}
Narrowing == {Ops, {"subscribe", "presence"}, {"annotation-subscribe"}, {"publish"}}

Modal == INSTANCE Delivery WITH
        Writes <- {"create", "annotate", "enter", "leave"}, Owns <- {TRUE, FALSE},
        Echo <- FALSE, Attaches <- Various, Capabilities <- Narrowing, Syncs <- TRUE,
        MaxCMs <- 2, MaxFrames <- 4

Data == INSTANCE Payload WITH
        Texts <- {<<>>, <<"x">>, <<"y">>}, MaxOps <- 4

ASSUME DeliveryAssumption /\ Modal!DeliveryAssumption /\ Data!PayloadAssumption

MCInit ==
    /\ \/ part = "data" /\ Init
       \/ part = "modes" /\ Modal!Init
       \/ part = "payload" /\ Init /\ cap = Ops
    /\ Data!Init

MCNext ==
    \/ part = "data" /\ Next /\ UNCHANGED <<part, payloadVars>>
    \/ part = "modes" /\ Modal!Next /\ UNCHANGED <<part, payloadVars>>
    \/ part = "payload" /\ Data!Next /\ UNCHANGED <<part, vars>>

MCSpec == MCInit /\ [][MCNext]_<<part, vars, payloadVars>>

-----------------------------------------------------------------------------
\* While the attachment keeps SUBSCRIBE and PRESENCE_SUBSCRIBE: whatever mix of
\* aggregates and deltas it was sent, a client has of each message the data it had at
\* the position reached, and once sent all there is knows the channel's members. In any
\* mode: nothing of the channel is sent after DETACHED or the ERROR that ends it.
SubscriberIsCurrent ==
    /\ part = "data" => DataIsAggregate /\ MembersKnown
    /\ NothingAfterEnd

\* Subscribers decode what the publishers meant, whatever the transports; the message
\* reads back from a store that encodes it; and a subscriber that joins the delta to
\* the value it has arrives at the aggregate.
PayloadSurvives == Data!Delivered /\ Data!ReadsBack /\ Data!DeltaAgrees
=============================================================================
