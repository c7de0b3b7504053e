----------------------------- MODULE Capability -----------------------------
\* auth: capabilities, what they permit on a channel and how two of them are narrowed to
\* what both grant.
\*
\* A resource is a qualifier and a path of segments, as parseResource splits it; a channel
\* name is a path. A capability maps resources to the operations granted on them. Its keys
\* are texts in the code: Intersect writes each of its resources with encodeResource, and
\* whoever uses the result parses it again.

EXTENDS Naturals, Sequences

CONSTANT
    Reread  \* of each path whose text opens with a bracketed qualifier, the resource it is read as

Wild == "*"

\* A path is never empty: strings.Split yields at least one segment.
Paths == Seq(STRING) \ {<<>>}
Last(path) == path[Len(path)]

Resources == [qual : STRING, path : Paths]
IsCapability(cap) ==
    /\ cap = [res \in DOMAIN cap |-> cap[res]]
    /\ DOMAIN cap \subseteq Resources
    /\ \A res \in DOMAIN cap : cap[res] \subseteq STRING

\* pathsMatch: segment by segment; a "*" inside stands for one segment and a last "*"
\* for the rest, none included.
PathsMatch(p, c) ==
    LET fixed == IF Last(p) = Wild THEN Len(p) - 1 ELSE Len(p) IN
    /\ \A i \in 1..fixed : i <= Len(c) /\ (p[i] = Wild \/ p[i] = c[i])
    /\ Last(p) = Wild \/ Len(c) = Len(p)

QualifierMatches(x, y) == x = y \/ x = Wild \/ y = Wild

\* matchResource: a channel has the default qualifier.
MatchResource(res, channel) == QualifierMatches(res.qual, "") /\ PathsMatch(res.path, channel)

\* Capability.Permits.
Permits(cap, channel, op) ==
    \E res \in DOMAIN cap : MatchResource(res, channel) /\ cap[res] \cap {Wild, op} # {}

\* Capability.MutationGrant, of an -own and an -any operation.
MutationGrant(cap, channel, own, any) ==
    CASE Permits(cap, channel, any) -> "allowed"
      [] ~Permits(cap, channel, any) /\ Permits(cap, channel, own) -> "needsOwnership"
      [] OTHER -> "denied"

IsEmpty(cap) == \A res \in DOMAIN cap : cap[res] = {}

\* encodeResource writes no bracket for the default qualifier, and parseResource takes a
\* bracketed opening of the text for a qualifier, be it one or the start of the name.
Parsed(res) == IF res.qual = "" /\ res.path \in DOMAIN Reread THEN Reread[res.path] ELSE res

\* No name starts with a segment that could open a bracket.
Openings == {path[1] : path \in DOMAIN Reread}
PlainNames(cap) == \A res \in DOMAIN cap : res.path[1] \notin Openings

------------------------------------------------------------------------------
\* Capability.Intersect.

\* intersectOps: "*" yields the other side's operations.
IntersectOps(a, b) ==
    IF Wild \in a /\ Wild \in b THEN {Wild}
    ELSE IF Wild \in a THEN b
    ELSE IF Wild \in b THEN a
    ELSE a \cap b

\* intersectQualifier.
QualifiersMeet(l, r) == QualifierMatches(l, r)
JoinQualifiers(l, r) == IF l = Wild THEN r ELSE l

\* intersectPath, of a path and one that is not shorter. Paths of different lengths meet
\* only when the shorter one ends in "*".
OrderedPathsMeet(l, r) ==
    /\ Len(l) = Len(r) \/ Last(l) = Wild
    /\ \A i \in 1..Len(l) : l[i] = Wild \/ r[i] = Wild \/ l[i] = r[i]
JoinOrderedPaths(l, r) == [i \in 1..Len(r) |-> IF i > Len(l) THEN r[i] ELSE IF l[i] = Wild THEN r[i] ELSE l[i]]

PathsMeet(l, r) == IF Len(r) < Len(l) THEN OrderedPathsMeet(r, l) ELSE OrderedPathsMeet(l, r)
JoinPaths(l, r) == IF Len(r) < Len(l) THEN JoinOrderedPaths(r, l) ELSE JoinOrderedPaths(l, r)

Meeting(l, r) ==
    {pair \in (DOMAIN l) \X (DOMAIN r) :
        /\ IntersectOps(l[pair[1]], r[pair[2]]) # {}
        /\ QualifiersMeet(pair[1].qual, pair[2].qual)
        /\ PathsMeet(pair[1].path, pair[2].path)}
Joined(pair) ==
    Parsed([qual |-> JoinQualifiers(pair[1].qual, pair[2].qual), path |-> JoinPaths(pair[1].path, pair[2].path)])

\* Every pair of resources that meet contributes the operations both grant.
Intersect(l, r) ==
    [res \in {Joined(pair) : pair \in Meeting(l, r)} |->
        UNION {IntersectOps(l[pair[1]], r[pair[2]]) : pair \in {p \in Meeting(l, r) : Joined(p) = res}}]
==============================================================================
