------------------------------ MODULE Channel ------------------------------
(***************************************************************************)
(* core.Channel and core.Stream: the grow-only linked list of the          *)
(* ChannelMessages (cms) a channel has delivered in this process, and the  *)
(* cursors that tail it.                                                   *)
(*                                                                         *)
(* The linked list is a sequence, an entry's next pointer the following    *)
(* position; list[1] is the sentinel.  A closed notify is the existence of *)
(* a next position.  Serials are numbers: ProcessProofs shows that minting *)
(* strictly increases, which is all that is used of them.  Serial 0 is the *)
(* empty string.                                                           *)
(*                                                                         *)
(* This module holds the operations; a storage backend composes them with  *)
(* its own steps.                                                          *)
(***************************************************************************)
EXTENDS Naturals, Sequences

CONSTANTS
    Streams,        \* the cursors over the list
    Ids,            \* client-supplied ids: the idempotency keys
    NoId,           \* no client-supplied id
    Members,        \* presence members: (connectionId, clientId) pairs
    NoSubject,      \* the subject of a cm that creates messages
    MaxBatch        \* bound: messages in one publish

ASSUME ChannelAssumption ==
    /\ MaxBatch \in Nat \ {0}
    /\ NoId \notin Ids
    /\ Members \cap (Nat \X Nat) = {}
    /\ NoSubject \notin Members \cup (Nat \X Nat)

VARIABLES
    list,           \* the linked list of entries, sentinel first
    ready,          \* Initialize has run
    initialSerial,  \* the channel's immutable seed
    cursor,         \* cursor[s]: the entry stream s stands on, 0 if closed
    delivered       \* delivered[s]: what Next has returned to s

channelVars == <<list, ready, initialSerial, cursor, delivered>>

(***************************************************************************)
(* A ChannelMessage: its channelSerial, what it does (its kind follows),   *)
(* the message or member it is about, the id it was published under, how   *)
(* many items it carries and whether they supply data.  A message is       *)
(* identified by the serial and index of its creation.                     *)
(***************************************************************************)
Mutations == {"update", "append", "delete"}
PresenceOps == {"enter", "leave"}
Acts == {"create", "annotate"} \cup Mutations \cup PresenceOps

KindOf(act) == CASE act \in PresenceOps   -> "presence"
                 [] act = "annotate"      -> "annotation"
                 [] OTHER                 -> "message"

Idents == Nat \X Nat

CMs == [serial : Nat, act : Acts, on : Idents \cup Members \cup {NoSubject},
        id : Ids \cup {NoId}, n : 0..MaxBatch, data : BOOLEAN]

\* The serial-only cm Initialize puts on the sentinel; it has no items.
Watermark(s) ==
    [serial |-> s, act |-> "create", on |-> NoSubject, id |-> NoId, n |-> 0, data |-> FALSE]

-----------------------------------------------------------------------------
\* newChannel: a sentinel with no cm yet, and no stream.
NewChannel ==
    /\ list = <<Watermark(0)>>
    /\ ready = FALSE
    /\ initialSerial = 0
    /\ cursor = [s \in Streams |-> 0]
    /\ delivered = [s \in Streams |-> <<>>]

\* Channel.Initialize: seeds whatever entry is the tail, then readies the
\* channel.  A second call changes nothing.
Initialize(current, initial) ==
    /\ IF ready
       THEN UNCHANGED <<list, ready, initialSerial>>
       ELSE /\ list' = [list EXCEPT ![Len(list)] = Watermark(current)]
            /\ ready' = TRUE
            /\ initialSerial' = initial
    /\ UNCHANGED <<cursor, delivered>>

\* Faulty Append: overwrites the tail entry instead of linking a new one.
AppendCM_Overwrites(cm) ==
    /\ list' = [list EXCEPT ![Len(list)] = cm]
    /\ UNCHANGED <<ready, initialSerial, cursor, delivered>>

\* Channel.Append: links a cm that carries items at the tail.
AppendCM(cm) ==
    /\ list' = IF cm.n = 0 THEN list ELSE Append(list, cm)
    /\ UNCHANGED <<ready, initialSerial, cursor, delivered>>

\* Channel.Attach: waits for ready, then positions a stream at the tail.
Attach(s) ==
    /\ cursor[s] = 0
    /\ ready
    /\ cursor' = [cursor EXCEPT ![s] = Len(list)]
    /\ UNCHANGED <<list, ready, initialSerial, delivered>>

\* Stream.ChannelSerial: the serial at the cursor.
StreamSerial(s) == list[cursor[s]].serial

\* Faulty Next: jumps to the tail, skipping what was appended in between.
NextCM_JumpsToTail(s) ==
    /\ cursor[s] # 0
    /\ cursor[s] < Len(list)
    /\ cursor' = [cursor EXCEPT ![s] = Len(list)]
    /\ delivered' = [delivered EXCEPT ![s] = Append(@, list[Len(list)])]
    /\ UNCHANGED <<list, ready, initialSerial>>

\* Stream.Next: parks until the cursor's entry has a successor.
NextCM(s) ==
    /\ cursor[s] # 0
    /\ cursor[s] < Len(list)
    /\ cursor' = [cursor EXCEPT ![s] = @ + 1]
    /\ delivered' = [delivered EXCEPT ![s] = Append(@, list[cursor[s] + 1])]
    /\ UNCHANGED <<list, ready, initialSerial>>

\* The attachment that owned the stream ends; the cursor is garbage.
DropStream(s) ==
    /\ cursor[s] # 0
    /\ cursor' = [cursor EXCEPT ![s] = 0]
    /\ delivered' = [delivered EXCEPT ![s] = <<>>]
    /\ UNCHANGED <<list, ready, initialSerial>>
=============================================================================
