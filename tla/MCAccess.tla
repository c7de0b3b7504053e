------------------------------ MODULE MCAccess ------------------------------
(***************************************************************************)
(* Who may do what.  A behaviour is one of the parts, and what belongs to  *)
(* the others stays as it is: the capabilities of tokens, over paths of up *)
(* to three segments; their identities and lifetimes; mutations of         *)
(* messages; operations that need a mode.                                  *)
(***************************************************************************)
EXTENDS Token, Operations

VARIABLE part

PathsOf(segments, n) == UNION {[1..k -> segments] : k \in 1..n}
Plain(path) == [qual |-> "", path |-> path]
Grant(res, ops) == [r \in {res} |-> ops]
Two(res1, ops1, res2, ops2) == [r \in {res1, res2} |-> IF r = res1 THEN ops1 ELSE ops2]

AllChannels == PathsOf({"a", "b"}, 3)
Singles(names, n, ops) == {Grant(Plain(p), ops) : p \in PathsOf(names \cup {Wild}, n)}
\* A name under the wildcard qualifier that has a bracket of its own.
Bracketed == {Grant([qual |-> Wild, path |-> <<"[meta]log">>], {"publish"})}
ReadBack == [path \in {<<"[meta]log">>} |-> [qual |-> "meta", path |-> <<"log">>]]
Odd == Bracketed \cup {Grant([qual |-> q, path |-> <<Wild>>], {"publish"}) : q \in {Wild, "meta"}}
    \cup {Two(Plain(<<"a", Wild>>), {"publish"}, Plain(<<Wild, "b">>), {"subscribe"}),
          Two(Plain(<<"a">>), {Wild}, [qual |-> Wild, path |-> <<"a", Wild>>], {"subscribe", "publish"}),
          Two(Plain(<<Wild>>), {"publish"}, Plain(<<"b", Wild>>), {Wild, "publish"})}
Invalid == {Grant(Plain(<<Wild>>), ops) : ops \in {{}, {Wild, "publish"}, {"fly"}}}
NamedPaths == Singles({"a"}, 3, {Wild}) \cup Singles({"a"}, 1, {"publish", "subscribe"}) \cup Odd
ShortPaths == Singles({"a", "b"}, 2, {"publish", "subscribe"}) \cup Singles({}, 1, {Wild}) \cup Odd \cup Invalid

Narrowed == INSTANCE Token WITH
        KeyCapabilities <- NamedPaths, Requested <- ShortPaths, ClientIds <- {},
        TTLs <- {0}, Millisecond <- 1, DurationWidth <- 4

Milliseconds == -1..17

Everything == Grant(Plain(<<"c">>), {Wild})
On(ops) == Grant(Plain(<<"c">>), ops)
Op(kind, act, target, as, data, flaw) ==
    [kind |-> kind, act |-> act, target |-> target, as |-> as, data |-> data, flaw |-> flaw]

\* Mutations of one message by three kinds of callers, one of them through REST.
Mutating ==
    {Op("publish", "create", 0, "", "text", "none"), Op("publish", "create", 0, "b", "text", "none"),
     Op("mutate", "update", 1, "", "none", "none"), Op("mutate", "delete", 1, "b", "none", "none"),
     Op("mutate", "append", 1, "", "other", "none")}
UpdateOwn == On({"publish", "message-update-own"})
Owners == {UpdateOwn, On({"publish", "message-delete-any"})}
Callers == {[id |-> "*", cap |-> Everything], [id |-> "a", cap |-> On({"message-update-own"})]}
OneChannel == <<"c">>

\* Operations that need a mode, and reads.
Moded == INSTANCE Operations WITH
        Operations <-
            {Op("publish", "create", 0, "", "text", "none"), Op("publish", "create", 0, "", "text", "name"),
             Op("mutate", "update", 1, "", "none", "shape"), Op("annotate", "unique", 1, "", "none", "none"),
             Op("annotate", "total", 1, "", "none", "none"), Op("presence", "enter", 0, "", "none", "none"),
             Op("read", "get", 1, "", "none", "none")},
        ConnectionIds <- {"a", ""},
        Capabilities <- {On({"publish", "annotation-publish"}), On({"presence"}), On({"history"})},
        Principals <- {[id |-> "", cap |-> On({"history"})], [id |-> "b", cap |-> On({"annotation-publish"})]},
        RequestedModes <- {{"publish", "presence", "annotation_publish"}, {"presence"}},
        MayFail <- TRUE, MaxAsked <- 2, MaxMessages <- 1

ASSUME Narrowed!TokenAssumption /\ OperationsAssumption /\ Moded!OperationsAssumption

AtRest == OperationsInit /\ session.id = "a" /\ session.cap = UpdateOwn
Idle == Narrowed!TokenInit /\ key = Grant(Plain(<<Wild>>), {Wild})

MCInit ==
    \/ part = "capability" /\ Narrowed!TokenInit /\ AtRest
    \/ part = "identity" /\ TokenInit /\ AtRest
    \/ part = "mutations" /\ Idle /\ OperationsInit
    \/ part = "modes" /\ Idle /\ Moded!OperationsInit

MCNext ==
    \/ part = "capability" /\ Narrowed!TokenNext /\ UNCHANGED <<part, operationVars>>
    \/ part = "identity" /\ TokenNext /\ UNCHANGED <<part, operationVars>>
    \/ part = "mutations" /\ OperationsNext /\ UNCHANGED <<part, tokenVars>>
    \/ part = "modes" /\ Moded!OperationsNext /\ UNCHANGED <<part, tokenVars>>

MCSpec == MCInit /\ [][MCNext]_<<part, tokenVars, operationVars>>
==============================================================================
