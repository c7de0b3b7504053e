---------------------------- MODULE AccessProofs ----------------------------
(***************************************************************************)
(* Proofs about what a credential lets its holder do: what the credentials *)
(* presented to a server grant, and under which identity, for all          *)
(* capabilities and channel names; and the operations of a connection and  *)
(* of REST requests, for any number of them, where whatever is carried out *)
(* was permitted and every frame is carried out at most once.              *)
(***************************************************************************)
EXTENDS Token, Operations, TLAPS

-----------------------------------------------------------------------------
(***************************************************************************)
(* Token: narrowing grants nothing new. Intersect of two capabilities      *)
(* permits only what both permit, and neither a token nor a connection     *)
(* ever has more than the key and the request it came from.                *)
(***************************************************************************)
\* Joining two paths that meet yields a path as long as the longer one.
LEMMA JoinedIsPath ==
    ASSUME NEW l \in Paths, NEW r \in Paths, Len(l) <= Len(r)
    PROVE  /\ JoinOrderedPaths(l, r) \in Paths
           /\ Len(JoinOrderedPaths(l, r)) = Len(r)
           /\ JoinOrderedPaths(l, r)[1] \in {l[1], r[1]}
           /\ \A i \in 1..Len(r) :
                JoinOrderedPaths(l, r)[i] = IF i > Len(l) THEN r[i] ELSE IF l[i] = Wild THEN r[i] ELSE l[i]
<1> DEFINE J == JoinOrderedPaths(l, r)
<1>1. Len(l) \in Nat /\ Len(r) \in Nat /\ Len(l) > 0 /\ Len(r) > 0
    BY DEF Paths
<1>2. \A i \in 1..Len(r) : (IF i > Len(l) THEN r[i] ELSE IF l[i] = Wild THEN r[i] ELSE l[i]) \in STRING
    BY <1>1 DEF Paths
<1>3. J \in [1..Len(r) -> STRING]
    BY <1>2, Zenon DEF JoinOrderedPaths
<1>4. J \in Seq(STRING) /\ Len(J) = Len(r)
    BY <1>1, <1>3
<1>5. J # <<>>
    BY <1>1, <1>4
<1>6. \A i \in 1..Len(r) : J[i] = IF i > Len(l) THEN r[i] ELSE IF l[i] = Wild THEN r[i] ELSE l[i]
    BY Zenon DEF JoinOrderedPaths
<1>7. J[1] \in {l[1], r[1]}
    BY <1>1, <1>6
<1> QED
    BY <1>4, <1>5, <1>6, <1>7, Zenon DEF Paths

\* A channel that the joined path matches is matched by both paths.
LEMMA JoinedMatchesBoth ==
    ASSUME NEW l \in Paths, NEW r \in Paths, NEW c \in Paths, Len(l) <= Len(r), OrderedPathsMeet(l, r),
           PathsMatch(JoinOrderedPaths(l, r), c)
    PROVE  PathsMatch(l, c) /\ PathsMatch(r, c)
<1> DEFINE J == JoinOrderedPaths(l, r)
<1>1. Len(l) \in Nat /\ Len(r) \in Nat /\ Len(c) \in Nat /\ Len(l) > 0 /\ Len(r) > 0
    BY DEF Paths
<1>2. /\ Len(J) = Len(r)
      /\ \A i \in 1..Len(r) : J[i] = IF i > Len(l) THEN r[i] ELSE IF l[i] = Wild THEN r[i] ELSE l[i]
    BY JoinedIsPath, Zenon
<1>3. /\ Len(l) = Len(r) \/ l[Len(l)] = Wild
      /\ \A i \in 1..Len(l) : l[i] = Wild \/ r[i] = Wild \/ l[i] = r[i]
    BY Zenon DEF OrderedPathsMeet, Last
<1> HIDE DEF J
<1>4. /\ \A i \in 1..(IF J[Len(r)] = Wild THEN Len(r) - 1 ELSE Len(r)) : i <= Len(c) /\ (J[i] = Wild \/ J[i] = c[i])
      /\ J[Len(r)] = Wild \/ Len(c) = Len(r)
    BY <1>2, Zenon DEF PathsMatch, Last, J
<1>5. J[Len(r)] = Wild => r[Len(r)] = Wild /\ l[Len(l)] = Wild
    BY <1>1, <1>2, <1>3
<1>6. PathsMatch(l, c)
    <2>1. ASSUME NEW i \in 1..(IF l[Len(l)] = Wild THEN Len(l) - 1 ELSE Len(l))
          PROVE  i <= Len(c) /\ (l[i] = Wild \/ l[i] = c[i])
        BY <1>1, <1>2, <1>3, <1>4, <1>5
    <2>2. l[Len(l)] = Wild \/ Len(c) = Len(l)
        BY <1>3, <1>4, <1>5, Zenon
    <2> QED
        BY <2>1, <2>2, Zenon DEF PathsMatch, Last
<1>7. PathsMatch(r, c)
    <2>1. ASSUME NEW i \in 1..(IF r[Len(r)] = Wild THEN Len(r) - 1 ELSE Len(r))
          PROVE  i <= Len(c) /\ (r[i] = Wild \/ r[i] = c[i])
        BY <1>1, <1>2, <1>3, <1>4, <1>5
    <2>2. r[Len(r)] = Wild \/ Len(c) = Len(r)
        BY <1>4, <1>5, Zenon
    <2> QED
        BY <2>1, <2>2, Zenon DEF PathsMatch, Last
<1> QED
    BY <1>6, <1>7, Zenon

\* The same without the order of lengths, as intersectPath swaps its arguments.
LEMMA JoinPathsMatch ==
    ASSUME NEW l \in Paths, NEW r \in Paths, NEW c \in Paths, PathsMeet(l, r)
    PROVE  /\ JoinPaths(l, r) \in Paths
           /\ JoinPaths(l, r)[1] \in {l[1], r[1]}
           /\ PathsMatch(JoinPaths(l, r), c) => PathsMatch(l, c) /\ PathsMatch(r, c)
<1>1. Len(l) \in Nat /\ Len(r) \in Nat
    BY DEF Paths
<1>2. CASE Len(r) < Len(l)
    <2>1. OrderedPathsMeet(r, l) /\ JoinPaths(l, r) = JoinOrderedPaths(r, l) /\ Len(r) <= Len(l)
        BY <1>1, <1>2 DEF PathsMeet, JoinPaths
    <2> QED
        BY <2>1, JoinedIsPath, JoinedMatchesBoth
<1>3. CASE ~(Len(r) < Len(l))
    <2>1. OrderedPathsMeet(l, r) /\ JoinPaths(l, r) = JoinOrderedPaths(l, r) /\ Len(l) <= Len(r)
        BY <1>1, <1>3 DEF PathsMeet, JoinPaths
    <2> QED
        BY <2>1, JoinedIsPath, JoinedMatchesBoth
<1> QED
    BY <1>2, <1>3, Zenon

\* intersectOps grants an operation only when both sides do.
LEMMA IntersectOpsSound ==
    ASSUME NEW a, NEW b, NEW op, IntersectOps(a, b) \cap {Wild, op} # {}
    PROVE  a \cap {Wild, op} # {} /\ b \cap {Wild, op} # {}
<1>1. CASE Wild \in a /\ Wild \in b
    BY <1>1, Zenon
<1>2. CASE Wild \in a /\ Wild \notin b
    BY <1>2, Zenon DEF IntersectOps
<1>3. CASE Wild \notin a /\ Wild \in b
    BY <1>3, Zenon DEF IntersectOps
<1>4. CASE Wild \notin a /\ Wild \notin b
    <2>1. IntersectOps(a, b) = a \cap b
        BY <1>4, Zenon DEF IntersectOps
    <2> QED
        BY <2>1, Zenon
<1> QED
    BY <1>1, <1>2, <1>3, <1>4, Zenon

\* A joined resource of plain names has a plain name, and matches a channel only when both
\* resources do.
LEMMA JoinedResource ==
    ASSUME NEW l, NEW r, IsCapability(l), IsCapability(r), PlainNames(l), PlainNames(r), NEW pair \in Meeting(l, r)
    PROVE  /\ pair[1] \in DOMAIN l /\ pair[2] \in DOMAIN r
           /\ Joined(pair) \in Resources
           /\ Joined(pair).path[1] \notin Openings
           /\ \A c \in Paths : MatchResource(Joined(pair), c) => MatchResource(pair[1], c) /\ MatchResource(pair[2], c)
<1>1. /\ pair[1] \in DOMAIN l /\ pair[2] \in DOMAIN r
      /\ QualifiersMeet(pair[1].qual, pair[2].qual)
      /\ PathsMeet(pair[1].path, pair[2].path)
    BY Zenon DEF Meeting
<1> DEFINE p == pair[1]
<1> DEFINE q == pair[2]
<1>2. p \in Resources /\ q \in Resources
    BY <1>1, Zenon DEF IsCapability
<1>3. p.path \in Paths /\ q.path \in Paths /\ p.qual \in STRING /\ q.qual \in STRING
    BY <1>2, Zenon DEF Resources
<1>4. JoinPaths(p.path, q.path) \in Paths
    BY <1>1, <1>3, JoinPathsMatch, Zenon
<1>5. JoinQualifiers(p.qual, q.qual) \in STRING
    BY <1>3, Zenon DEF JoinQualifiers
<1>6. JoinPaths(p.path, q.path)[1] \notin Openings
    <2>1. JoinPaths(p.path, q.path)[1] \in {p.path[1], q.path[1]}
        BY <1>1, <1>3, JoinPathsMatch, Zenon
    <2>2. p.path[1] \notin Openings /\ q.path[1] \notin Openings
        BY <1>1, Zenon DEF PlainNames
    <2> QED
        BY <2>1, <2>2, Zenon
<1>7. Joined(pair) = [qual |-> JoinQualifiers(p.qual, q.qual), path |-> JoinPaths(p.path, q.path)]
    BY <1>6, Zenon DEF Joined, Parsed, Openings
<1>8. Joined(pair).qual = JoinQualifiers(p.qual, q.qual) /\ Joined(pair).path = JoinPaths(p.path, q.path)
    BY <1>7
<1>9. Joined(pair) \in Resources
    BY <1>4, <1>5, <1>7 DEF Resources
<1>10. ASSUME NEW c \in Paths, MatchResource(Joined(pair), c)
      PROVE  MatchResource(p, c) /\ MatchResource(q, c)
    <2>1. QualifierMatches(JoinQualifiers(p.qual, q.qual), "") /\ PathsMatch(JoinPaths(p.path, q.path), c)
        BY <1>8, <1>10, Zenon DEF MatchResource
    <2>2. PathsMatch(p.path, c) /\ PathsMatch(q.path, c)
        BY <1>1, <1>3, <2>1, JoinPathsMatch, Zenon
    <2>3. QualifierMatches(p.qual, "") /\ QualifierMatches(q.qual, "")
        BY <1>1, <2>1, Zenon DEF QualifierMatches, QualifiersMeet, JoinQualifiers
    <2> QED
        BY <2>2, <2>3, Zenon DEF MatchResource
<1> QED
    BY <1>1, <1>8, <1>9, <1>10, <1>6, Zenon

\* Of capabilities with plain names, Intersect yields one with plain names that permits an
\* operation on a channel only when both of its arguments do. A name that opens with a
\* bracket is left out: encodeResource writes it so that parseResource takes the bracket for
\* a qualifier, and the result speaks of another resource.
THEOREM IntersectSound ==
    ASSUME NEW l, NEW r, IsCapability(l), IsCapability(r), PlainNames(l), PlainNames(r)
    PROVE  /\ IsCapability(Intersect(l, r)) /\ PlainNames(Intersect(l, r))
           /\ \A channel \in Paths, op \in STRING :
                Permits(Intersect(l, r), channel, op) => Permits(l, channel, op) /\ Permits(r, channel, op)
<1> DEFINE I == Intersect(l, r)
<1>1. DOMAIN I = {Joined(pair) : pair \in Meeting(l, r)}
    BY Zenon DEF Intersect
<1>2. \A res \in DOMAIN I :
        I[res] = UNION {IntersectOps(l[pair[1]], r[pair[2]]) : pair \in {p \in Meeting(l, r) : Joined(p) = res}}
    BY Zenon DEF Intersect
<1>3. IsCapability(I)
    <2>1. I = [res \in DOMAIN I |-> I[res]]
        BY Zenon DEF Intersect
    <2>2. DOMAIN I \subseteq Resources
        BY <1>1, JoinedResource
    <2>3. ASSUME NEW res \in DOMAIN I, NEW op \in I[res]
          PROVE  op \in STRING
        <3>1. PICK pair \in Meeting(l, r) : op \in IntersectOps(l[pair[1]], r[pair[2]])
            BY <1>2, <2>3
        <3>2. pair[1] \in DOMAIN l /\ pair[2] \in DOMAIN r
            BY JoinedResource, Zenon
        <3>3. l[pair[1]] \subseteq STRING /\ r[pair[2]] \subseteq STRING
            BY <3>2, Zenon DEF IsCapability
        <3>4. IntersectOps(l[pair[1]], r[pair[2]]) \subseteq STRING
            BY <3>3, Zenon DEF IntersectOps, Wild
        <3> QED
            BY <3>1, <3>4, Zenon
    <2> QED
        BY <2>1, <2>2, <2>3, Zenon DEF IsCapability
<1>4. ASSUME NEW channel \in Paths, NEW op \in STRING, Permits(I, channel, op)
      PROVE  Permits(l, channel, op) /\ Permits(r, channel, op)
    <2>1. PICK res \in DOMAIN I : MatchResource(res, channel) /\ I[res] \cap {Wild, op} # {}
        BY <1>4, Zenon DEF Permits
    <2>2. PICK o \in {Wild, op} : o \in I[res]
        BY <2>1, Zenon
    <2>3. PICK pair \in Meeting(l, r) : Joined(pair) = res /\ o \in IntersectOps(l[pair[1]], r[pair[2]])
        BY <1>2, <2>2
    <2>4. l[pair[1]] \cap {Wild, op} # {} /\ r[pair[2]] \cap {Wild, op} # {}
        BY <2>2, <2>3, IntersectOpsSound, Zenon
    <2>5. /\ pair[1] \in DOMAIN l /\ pair[2] \in DOMAIN r
          /\ MatchResource(pair[1], channel) /\ MatchResource(pair[2], channel)
        BY <2>1, <2>3, JoinedResource, Zenon
    <2> QED
        BY <2>4, <2>5, Zenon DEF Permits
<1>5. PlainNames(I)
    BY <1>1, JoinedResource DEF PlainNames
<1> QED
    BY <1>3, <1>4, <1>5, Zenon

\* A token permits no more than its request did, and a connection holds the token that was
\* minted last.
Provenance ==
    /\ \A c \in token.cap :
        /\ IsCapability(c) /\ PlainNames(c)
        /\ \A d \in request.cap, channel \in Channels, op \in Ops : Permits(c, channel, op) => Permits(d, channel, op)
    /\ token # NoToken /\ request.cap # {} => token.cap # {}
    /\ conn.method = "token" => conn.token = token /\ token # NoToken

\* A token has the clientId claim exactly when it was minted for a clientId; a connection
\* has the identity its token resolves to; nothing is stamped without a connection.
Claimed(t) == t.hasClientId <=> t.clientId # Anonymous
Resolved(c) == Claimed(c.token) /\ c.clientId = ResolveClientID(c.token, c.param) /\ c.clientId # Rejected

IdentityInv ==
    /\ Claimed(token)
    /\ conn.method = "token" => Resolved(conn)
    /\ conn = NoConnection => stamp = NoStamp
    /\ StampedAsCredential

\* The inductive invariant: where the token's capability comes from, and what it bounds.
TokenInv ==
    /\ key \in KeyCapabilities
    /\ request.cap \subseteq Requested
    /\ Provenance
    /\ GrantedByBoth

\* Nothing is granted before the first token and the first connection.
LEMMA InitInv == TokenInit => TokenInv
BY DEF TokenInit, TokenInv, Provenance, GrantedByBoth, NoRequest, NoToken, NoConnection, NoCapability

\* MintToken narrows the request by the key, so the new token is bounded by both.
LEMMA RequestTokenInv ==
    ASSUME PlainCredentials, TokenInv, NEW r \in Requests, RequestToken(r)
    PROVE  TokenInv'
<1>1. r.cap \subseteq Requested
    BY Zenon DEF Requests, NoCapability
<1>2. conn = NoConnection /\ conn' = conn /\ key' = key /\ request' = r
    BY Zenon DEF RequestToken
<1>3. \A c \in MintedCapability(r) :
        /\ IsCapability(c) /\ PlainNames(c)
        /\ \A d \in r.cap, channel \in Channels, op \in Ops : Permits(c, channel, op) => Permits(d, channel, op)
    \* r.cap holds at most one capability
    <2>1. \A d, e \in r.cap : d = e
        BY Zenon DEF Requests, NoCapability
    <2>2. ASSUME NEW d \in r.cap
          PROVE  /\ IsCapability(Intersect(d, key)) /\ PlainNames(Intersect(d, key))
                 /\ \A channel \in Channels, op \in Ops :
                        Permits(Intersect(d, key), channel, op) => Permits(d, channel, op)
        <3>1. IsCapability(d) /\ IsCapability(key) /\ PlainNames(d) /\ PlainNames(key)
            BY <1>1, TokenAssumption, Zenon DEF TokenInv, PlainCredentials
        <3> QED
            BY <3>1, IntersectSound, TokenAssumption, Zenon
    <2> QED
        BY <2>1, <2>2 DEF MintedCapability
<1>4. r.cap # {} => MintedCapability(r) # {}
    BY Zenon DEF MintedCapability
<1>5. token' = NoToken \/ token'.cap = MintedCapability(r)
    BY Zenon DEF RequestToken
<1>6. Provenance'
    <2>1. conn.method = "none"
        BY <1>2, Zenon DEF NoConnection
    <2> QED
        BY <1>2, <1>3, <1>4, <1>5, <2>1 DEF Provenance, NoToken, NoCapability
<1> QED
    BY <1>1, <1>2, <1>6, Zenon DEF TokenInv, GrantedByBoth

\* What verifyToken grants a token is bounded by the key and by the token's request.
LEMMA VerifiedBounded ==
    ASSUME PlainCredentials, TokenInv, token # NoToken
    PROVE  \A channel \in Channels, op \in Ops : Permits(VerifiedCapability(token), channel, op) =>
            /\ Permits(key, channel, op)
            /\ \A c \in request.cap : Permits(c, channel, op)
<1>1. CASE token.cap = {}
    BY <1>1, Zenon DEF VerifiedCapability, TokenInv, Provenance, NoCapability
<1>2. CASE token.cap # {}
    <2>1. VerifiedCapability(token) \in {Intersect(d, key) : d \in token.cap}
        BY <1>2, Zenon DEF VerifiedCapability, NoCapability
    <2>2. PICK d \in token.cap : VerifiedCapability(token) = Intersect(d, key)
        BY <2>1, Zenon
    <2>3. IsCapability(d) /\ IsCapability(key) /\ PlainNames(d) /\ PlainNames(key)
        BY TokenAssumption, Zenon DEF TokenInv, Provenance, PlainCredentials
    <2>4. \A channel \in Channels, op \in Ops : Permits(Intersect(d, key), channel, op) =>
            Permits(d, channel, op) /\ Permits(key, channel, op)
        BY <2>3, IntersectSound, TokenAssumption, Zenon
    <2> QED
        BY <2>2, <2>4, Zenon DEF TokenInv, Provenance
<1> QED
    BY <1>1, <1>2, Zenon

\* A connection has the capability of its key, or what verifyToken leaves of its token.
LEMMA ConnectInv ==
    ASSUME PlainCredentials, TokenInv, NEW param \in Identities, ConnectBasic(param) \/ ConnectToken(param)
    PROVE  TokenInv'
<1>1. CASE ConnectBasic(param)
    BY <1>1, Zenon DEF ConnectBasic, TokenInv, Provenance, GrantedByBoth
<1>2. CASE ConnectToken(param)
    <2>1. token # NoToken /\ conn'.cap = VerifiedCapability(token) /\ conn'.token = token
        BY <1>2, Zenon DEF ConnectToken
    <2>2. UNCHANGED <<key, request, token>>
        BY <1>2, Zenon DEF ConnectToken
    <2>3. GrantedByBoth'
        BY <2>1, <2>2, VerifiedBounded, Zenon DEF GrantedByBoth
    <2> QED
        BY <2>1, <2>2, <2>3, Zenon DEF TokenInv, Provenance
<1> QED
    BY <1>1, <1>2, Zenon

\* A renewal in band gives the connection what verifyToken leaves of the new token.
LEMMA ReauthInv ==
    ASSUME PlainCredentials, TokenInv, Reauth
    PROVE  TokenInv'
<1>1. UNCHANGED <<key, request, token>> /\ conn.method = "token"
    BY Zenon DEF Reauth
<1>2. conn.token = token /\ token # NoToken
    BY <1>1, Zenon DEF TokenInv, Provenance
<1>3. CASE conn' = conn
    BY <1>1, <1>3, Zenon DEF TokenInv, Provenance, GrantedByBoth
<1>4. CASE conn' = [conn EXCEPT !.cap = VerifiedCapability(conn.token)]
    <2>1. conn'.cap = VerifiedCapability(token) /\ conn'.method = conn.method /\ conn'.token = conn.token
        BY <1>2, <1>4
    <2>2. GrantedByBoth'
        BY <1>1, <1>2, <2>1, VerifiedBounded, Zenon DEF GrantedByBoth
    <2> QED
        BY <1>1, <1>2, <2>1, <2>2, Zenon DEF TokenInv, Provenance
<1> QED
    BY <1>3, <1>4, Zenon DEF Reauth

\* What MessageClientID and resolvePresenceClientID make of an identity.
LEMMA StampBinds ==
    ASSUME NEW id, NEW asserted, NEW kind,
           NEW s, s = IF kind = "presence" THEN PresenceClientID(id, asserted) ELSE MessageClientID(id, asserted),
           s # Rejected
    PROVE  /\ s # Wild
           /\ kind = "presence" => s # Anonymous
           /\ id = Anonymous => s = Anonymous
           /\ id \notin {Anonymous, Wild} => s = id
BY Zenon DEF PresenceClientID, MessageClientID, Anonymous, Wild, Rejected

\* What ResolveClientID makes of a token.
LEMMA ResolveBinds ==
    ASSUME NEW t, NEW param, ResolveClientID(t, param) # Rejected
    PROVE  /\ ~t.hasClientId => ResolveClientID(t, param) = Anonymous
           /\ t.hasClientId /\ t.clientId \in ClientIds => ResolveClientID(t, param) = t.clientId
           /\ t.hasClientId /\ t.clientId \notin ClientIds /\ param # Anonymous =>
                ResolveClientID(t, param) = param /\ param # Wild
BY TokenAssumption, Zenon DEF ResolveClientID, Anonymous, Wild, Rejected

\* The identity of a connection and of what it sends follow its token.
LEMMA IdentityStep == IdentityInv /\ [TokenNext]_tokenVars => IdentityInv'
<1> SUFFICES ASSUME IdentityInv, [TokenNext]_tokenVars PROVE IdentityInv'
    OBVIOUS
<1>1. ASSUME UNCHANGED conn, UNCHANGED stamp, Claimed(token)' PROVE IdentityInv'
    BY <1>1, Zenon DEF IdentityInv, StampedAsCredential, Resolved, Claimed
<1>2. ASSUME NEW r \in Requests, RequestToken(r) PROVE IdentityInv'
    <2>1. Claimed(token)' /\ UNCHANGED conn /\ UNCHANGED stamp
        BY <1>2, Zenon DEF RequestToken, Claimed, NoToken
    <2> QED
        BY <1>1, <2>1, Zenon
<1>3. ASSUME NEW param \in Identities, ConnectBasic(param) \/ ConnectToken(param) PROVE IdentityInv'
    <2>1. stamp' = NoStamp /\ token' = token
        BY <1>3, Zenon DEF ConnectBasic, ConnectToken, IdentityInv
    <2>2. conn'.method = "token" => Resolved(conn')
        BY <1>3 DEF ConnectBasic, ConnectToken, Resolved, IdentityInv
    <2> QED
        BY <2>1, <2>2, Zenon DEF IdentityInv, StampedAsCredential, Claimed
<1>4. CASE Reauth
    <2>1. conn.method = "token" /\ stamp' = stamp /\ token' = token
        BY <1>4, Zenon DEF Reauth
    <2>2. CASE conn' = conn
        BY <1>1, <2>1, <2>2, Zenon DEF IdentityInv, Claimed
    <2>3. CASE conn' = [conn EXCEPT !.cap = VerifiedCapability(conn.token)]
        <3>1. /\ conn'.method = conn.method /\ conn'.token = conn.token
              /\ conn'.clientId = conn.clientId /\ conn'.param = conn.param
            BY <2>3
        <3>2. conn' # NoConnection
            BY <2>1, <3>1 DEF NoConnection
        <3> QED
            BY <2>1, <3>1, <3>2, Zenon DEF IdentityInv, StampedAsCredential, Resolved, Claimed
    <2> QED
        BY <1>4, <2>2, <2>3, Zenon DEF Reauth
<1>5. CASE Reconfigure
    BY <1>5, Zenon DEF Reconfigure, IdentityInv, StampedAsCredential, NoConnection, Claimed
<1>6. ASSUME NEW kind, NEW asserted, Operate(kind, asserted) PROVE IdentityInv'
    <2>1. PICK s : /\ s = IF kind = "presence" THEN PresenceClientID(conn.clientId, asserted)
                         ELSE MessageClientID(conn.clientId, asserted)
                   /\ s # Rejected /\ conn # NoConnection /\ UNCHANGED <<conn, token>>
                   /\ stamp' = [kind |-> kind, asserted |-> asserted, stamped |-> s]
        BY <1>6, Zenon DEF Operate
    <2>2. /\ s # Wild /\ (kind = "presence" => s # Anonymous)
          /\ (conn.clientId = Anonymous => s = Anonymous)
          /\ (conn.clientId \notin {Anonymous, Wild} => s = conn.clientId)
        BY <2>1, StampBinds
    <2>3. ASSUME conn.method = "token"
          PROVE  /\ ~conn.token.hasClientId => s = Anonymous
                 /\ conn.token.hasClientId /\ conn.token.clientId \in ClientIds => s = conn.token.clientId
                 /\ conn.token.hasClientId /\ conn.token.clientId \notin ClientIds /\ conn.param # Anonymous =>
                        s = conn.param
        BY <2>2, <2>3, ResolveBinds, TokenAssumption DEF IdentityInv, Resolved
    <2>4. stamp'.kind = kind /\ stamp'.stamped = s
        BY <2>1, Zenon
    <2>5. StampedAsCredential'
        <3>1. conn.method = "token" => Claimed(conn.token)
            BY Zenon DEF IdentityInv, Resolved
        <3> QED
            BY <2>1, <2>2, <2>3, <2>4, <3>1, TokenAssumption, Zenon DEF StampedAsCredential, Claimed
    <2> QED
        BY <2>1, <2>5, Zenon DEF IdentityInv, Resolved, Claimed
<1>7. CASE UNCHANGED tokenVars
    BY <1>1, <1>7, Zenon DEF IdentityInv, Claimed, tokenVars
<1> QED
    BY <1>2, <1>3, <1>4, <1>5, <1>6, <1>7, Zenon DEF TokenNext

\* For every key, request, channel and operation, when the names in the capabilities are
\* plain: a connection has only what its key and the request of its token both grant, and
\* acts under the identity they name.
THEOREM CredentialsBound ==
    ASSUME PlainCredentials
    PROVE  TokenSpec => []CredentialBinds
<1>1. TokenInv /\ [TokenNext]_tokenVars => TokenInv'
    <2> SUFFICES ASSUME TokenInv, [TokenNext]_tokenVars
                 PROVE  TokenInv'
        OBVIOUS
    <2>1. ASSUME NEW r \in Requests, RequestToken(r)
          PROVE  TokenInv'
        BY <2>1, RequestTokenInv, Zenon
    <2>2. ASSUME NEW param \in Identities, ConnectBasic(param) \/ ConnectToken(param)
          PROVE  TokenInv'
        BY <2>2, ConnectInv, Zenon
    <2>3. CASE Reauth
        BY <2>3, ReauthInv, Zenon
    <2>4. CASE Reconfigure
        BY <2>4, Zenon DEF Reconfigure, TokenInv, Provenance, GrantedByBoth, NoConnection
    <2>5. ASSUME NEW kind, NEW asserted, Operate(kind, asserted)
          PROVE  TokenInv'
        BY <2>5, Zenon DEF Operate, TokenInv, Provenance, GrantedByBoth
    <2>6. CASE UNCHANGED tokenVars
        BY <2>6, Zenon DEF tokenVars, TokenInv, Provenance, GrantedByBoth
    <2> QED
        BY <2>1, <2>2, <2>3, <2>4, <2>5, <2>6, Zenon DEF TokenNext
<1>2. TokenInit => IdentityInv
    BY DEF TokenInit, IdentityInv, StampedAsCredential, NoConnection, NoToken, Claimed
<1>3. TokenInv /\ IdentityInv => CredentialBinds
    BY Zenon DEF TokenInv, IdentityInv, CredentialBinds
<1> QED
    BY InitInv, IdentityStep, <1>1, <1>2, <1>3, PTL DEF TokenSpec

-----------------------------------------------------------------------------
(***************************************************************************)
(* Operations: what is carried out was permitted. The read loop and the    *)
(* worker look at different times, while the token is renewed and other    *)
(* requests write.                                                         *)
(***************************************************************************)
\* The types of what Operations keeps.
Stamps == {Stamp(id, op) : id \in ConnectionIds \cup {p.id : p \in Principals}, op \in Operations}
Versions == [creator : Stamps, by : Stamps, data : {op.data : op \in Operations}]
Jobs == [n : Nat, op : Operations, good : BOOLEAN, held : SUBSET Capabilities]
Sessions == [id : ConnectionIds, cap : Capabilities, requested : RequestedModes \cup {{}},
             modes : SUBSET DOMAIN ModeOps]
RestStates == [pc : {"idle", "authorize", "store", "done", "refused"}, op : SUBSET Operations,
               by : Principals \cup {NoPrincipal}]

OpTypes ==
    /\ session \in Sessions
    /\ jobs \in Seq(Jobs) /\ working \in SUBSET Jobs
    /\ rest \in [RestRequests -> RestStates]
    /\ \A r \in RestRequests : rest[r].pc \in {"authorize", "store"} => rest[r].by \in Principals
    /\ msgs \in Seq(Versions)
    /\ asked \in Nat /\ acked \in SUBSET Nat /\ nacked \in SUBSET Nat

LEMMA CommitTypes ==
    ASSUME OpTypes, NEW n, NEW op \in Operations, NEW id \in ConnectionIds \cup {p.id : p \in Principals},
           NEW held, Accepts(op), Commit(n, op, id, held)
    PROVE  msgs' \in Seq(Versions)
<1>1. msgs \in Seq(Versions) /\ Stamp(id, op) \in Stamps
  <2>1. Stamp(id, op) \in Stamps
    BY DEF Stamps
  <2> QED
    BY <2>1, Zenon DEF OpTypes
<1>2. CASE op.kind = "publish"
  <2>1. [creator |-> Stamp(id, op), by |-> Stamp(id, op), data |-> op.data] \in Versions
    BY <1>1, Zenon DEF Versions
  <2> QED
    BY <1>1, <1>2, <2>1 DEF Commit
<1>3. CASE op.kind = "mutate"
  <2>1. op.target \in DOMAIN msgs /\ msgs[op.target] \in Versions
    BY <1>1, <1>3 DEF Accepts, Mutates
  <2>2. MergeVersion(msgs[op.target], op, Stamp(id, op)) \in Versions
    BY <1>1, <2>1, Zenon DEF MergeVersion, Versions
  <2>3. msgs' = [msgs EXCEPT ![op.target] = MergeVersion(msgs[op.target], op, Stamp(id, op))]
    BY <1>3, Zenon DEF Commit
  <2> QED
    BY <1>1, <2>1, <2>2, <2>3
<1>4. CASE op.kind \notin {"publish", "mutate"}
  BY <1>1, <1>4, Zenon DEF Commit
<1> QED
  BY <1>2, <1>3, <1>4, Zenon

LEMMA EnqueueTypes ==
    ASSUME OpTypes, NEW op \in Operations, NEW good \in BOOLEAN, Reads, Enqueue(op, good),
           UNCHANGED <<session, working, rest, msgs, acked, nacked>>
    PROVE  OpTypes'
<1>1. [n |-> asked + 1, op |-> op, good |-> good, held |-> {session.cap}] \in Jobs
  BY DEF OpTypes, Jobs, Sessions
<1>2. jobs' \in Seq(Jobs)
  BY <1>1 DEF OpTypes, Enqueue
<1>3. asked' \in Nat
  BY DEF OpTypes, Reads
<1> QED
  BY <1>2, <1>3, Zenon DEF OpTypes

LEMMA AnswerTypes ==
    ASSUME OpTypes, NEW job \in Jobs, Nack(job) \/ (Ack(job) /\ Accepts(job.op))
    PROVE  msgs' \in Seq(Versions) /\ acked' \in SUBSET Nat /\ nacked' \in SUBSET Nat
<1>1. job.n \in Nat /\ job.op \in Operations /\ session.id \in ConnectionIds
  BY Zenon DEF OpTypes, Jobs, Sessions
<1>2. CASE Nack(job)
  BY <1>1, <1>2, Zenon DEF OpTypes, Nack
<1>3. CASE Ack(job) /\ Accepts(job.op)
  BY <1>1, <1>3, CommitTypes, Zenon DEF OpTypes, Ack
<1> QED
  BY <1>2, <1>3, Zenon

LEMMA OpTypesStep == ASSUME OpTypes, [OperationsNext]_operationVars PROVE OpTypes'
<1>1. CASE UNCHANGED operationVars
  BY <1>1, Zenon DEF operationVars, OpTypes
<1>2. ASSUME NEW op \in Operations,
             HandleMessage(op) \/ HandleMutation(op) \/ HandleAnnotation(op) \/ HandlePresence(op)
      PROVE  OpTypes'
  <2>1. \E good \in BOOLEAN : Reads /\ Enqueue(op, good) /\ UNCHANGED <<session, working, rest, msgs, acked, nacked>>
    BY <1>2, Zenon DEF HandleMessage, HandleMutation, HandleAnnotation, HandlePresence
  <2> QED
    BY <2>1, EnqueueTypes, Zenon
<1>3. ASSUME NEW op \in Operations, NEW r \in RestRequests, NEW p \in Principals, Begin(r, p, op)
      PROVE  OpTypes'
  <2>1. rest' \in [RestRequests -> RestStates] /\ \A q \in RestRequests : q # r => rest'[q] = rest[q]
    BY <1>3 DEF Begin, OpTypes, RestStates
  <2>2. rest'[r].by = p
    BY <1>3, Zenon DEF Begin, OpTypes
  <2> QED
    BY <1>3, <2>1, <2>2, Zenon DEF Begin, OpTypes
<1>4. ASSUME NEW requested \in RequestedModes, HandleAttach(requested)
      PROVE  OpTypes'
  <2>1. session' \in Sessions
    BY <1>4, Zenon DEF HandleAttach, OpTypes, Sessions, PermittedModes
  <2> QED
    BY <1>4, <2>1, Zenon DEF HandleAttach, OpTypes
<1>5. ASSUME NEW cap \in Capabilities, ReconcileCapabilities(cap)
      PROVE  OpTypes'
  <2>1. session' \in Sessions
    BY <1>5, Zenon DEF ReconcileCapabilities, OpTypes, Sessions, PermittedModes
  <2>2. \A job \in Jobs : [job EXCEPT !.held = @ \cup {cap}] \in Jobs
    BY Zenon DEF Jobs
  <2>3. jobs' \in Seq(Jobs) /\ working' \in SUBSET Jobs
    BY <1>5, <2>2 DEF ReconcileCapabilities, OpTypes
  <2> QED
    BY <1>5, <2>1, <2>3, Zenon DEF ReconcileCapabilities, OpTypes
<1>6. CASE RunJob
  <2>1. Head(jobs) \in Jobs /\ jobs' \in Seq(Jobs)
    BY <1>6 DEF RunJob, OpTypes
  <2>2. \/ (Nack(Head(jobs)) \/ (Ack(Head(jobs)) /\ Accepts(Head(jobs).op))) /\ UNCHANGED working
        \/ working' = {Head(jobs)} /\ UNCHANGED <<msgs, acked, nacked>>
    BY <1>6, Zenon DEF RunJob, Outcomes
  <2> QED
    BY <1>6, <2>1, <2>2, AnswerTypes, Zenon DEF RunJob, OpTypes
<1>7. CASE Mutate
  <2>1. PICK job \in working : Nack(job) \/ (Ack(job) /\ Accepts(job.op))
    BY <1>7, Zenon DEF Mutate, Outcomes
  <2>2. job \in Jobs
    BY Zenon DEF OpTypes
  <2> QED
    BY <1>7, <2>1, <2>2, AnswerTypes, Zenon DEF Mutate, OpTypes
<1>8. ASSUME NEW r \in RestRequests, AuthorizeRequest(r)
      PROVE  OpTypes'
  <2>1. rest' \in [RestRequests -> RestStates] /\ \A q \in RestRequests : rest'[q].by = rest[q].by
    BY <1>8, SMTT(30) DEF AuthorizeRequest, OpTypes, RestStates
  <2>2. \A q \in RestRequests : q # r => rest'[q] = rest[q]
    BY <1>8, Zenon DEF AuthorizeRequest, OpTypes
  <2> QED
    BY <1>8, <2>1, <2>2, Zenon DEF AuthorizeRequest, OpTypes
<1>9. ASSUME NEW r \in RestRequests, Store(r)
      PROVE  OpTypes'
  <2>1. PICK op \in rest[r].op, ok \in BOOLEAN :
            /\ ok \in Outcomes(op)
            /\ IF ok THEN Commit(0, op, rest[r].by.id, {rest[r].by.cap}) ELSE UNCHANGED <<msgs, ledger>>
            /\ rest' = [rest EXCEPT ![r].pc = IF ok THEN "done" ELSE "refused"]
    BY <1>9, Zenon DEF Store
  <2>2. op \in Operations /\ rest[r].by \in Principals /\ (ok => Accepts(op))
    BY <1>9, <2>1, Zenon DEF Store, OpTypes, RestStates, Outcomes
  <2>3. msgs' \in Seq(Versions)
    BY <2>1, <2>2, CommitTypes, Zenon DEF OpTypes
  <2>4. PICK x \in {"done", "refused"} : rest' = [rest EXCEPT ![r].pc = x]
    BY <2>1, Zenon
  <2>5. /\ rest' \in [RestRequests -> RestStates] /\ \A q \in RestRequests : q # r => rest'[q] = rest[q]
        /\ rest'[r].pc \notin {"authorize", "store"}
    BY <2>4, SMTT(30) DEF OpTypes, RestStates
  <2> QED
    BY <1>9, <2>3, <2>5, Zenon DEF Store, OpTypes
<1> QED
  BY <1>1, <1>2, <1>3, <1>4, <1>5, <1>6, <1>7, <1>8, <1>9, Zenon DEF OperationsNext

-----------------------------------------------------------------------------
\* Whether a capability lets a caller do op while the messages are ms.
Cleared(ms, op, id, cap) ==
    IF op.kind = "mutate"
    THEN LET grant == MutationGrant(cap, Channel, MutationOps(op.act)[1], MutationOps(op.act)[2]) IN
         \/ grant = "allowed"
         \/ grant = "needsOwnership" /\ op.target \in DOMAIN ms /\ OwnsMessage(id, ms[op.target].creator)
    ELSE Permitted([op |-> op, id |-> id, creator |-> {}], cap)

\* A job that the read loop let through is cleared by a capability it was held under;
\* only mutations are left to the worker, which looks at the current one.
JobCleared(ms, s, job) ==
    /\ s.cap \in job.held
    /\ job.good /\ job.op.kind # "mutate" => \E cap \in job.held : Cleared(ms, job.op, s.id, cap)

WorkCleared(ms, s, job) ==
    s.cap \in job.held /\ \E cap \in job.held : Cleared(ms, job.op, s.id, cap)

RequestCleared(ms, q) ==
    \A op \in q.op : /\ q.op = {op}
                     /\ q.pc = "authorize" => op.kind = "mutate"
                     /\ q.pc = "store" => Cleared(ms, op, q.by.id, q.by.cap)

PermitInv ==
    /\ session.modes \subseteq PermittedModes(session.cap)
    /\ \A i \in DOMAIN jobs : JobCleared(msgs, session, jobs[i])
    /\ \A job \in working : WorkCleared(msgs, session, job)
    /\ \A r \in RestRequests : RequestCleared(msgs, rest[r])
    /\ CommittedWasPermitted

\* Messages stay, and keep their creators.
Kept(ms, later) == \A k \in DOMAIN ms : k \in DOMAIN later /\ later[k].creator = ms[k].creator

\* authorizeMutation clears mutations.
LEMMA Authorized ==
    ASSUME NEW op, NEW id, NEW cap, op.kind = "mutate", AuthorizeMutation(id, cap, op)
    PROVE  Cleared(msgs, op, id, cap)
BY Zenon DEF AuthorizeMutation, Cleared

\* What is cleared stays so while others write.
LEMMA ClearedKept ==
    ASSUME NEW ms, NEW later, Kept(ms, later)
    PROVE  /\ \A op, id, cap : Cleared(ms, op, id, cap) => Cleared(later, op, id, cap)
           /\ \A s, job : JobCleared(ms, s, job) => JobCleared(later, s, job)
           /\ \A s, job : WorkCleared(ms, s, job) => WorkCleared(later, s, job)
           /\ \A q : RequestCleared(ms, q) => RequestCleared(later, q)
<1>1. \A op, id, cap : Cleared(ms, op, id, cap) => Cleared(later, op, id, cap)
  BY DEF Kept, Cleared
<1> QED
  BY <1>1, Zenon DEF JobCleared, WorkCleared, RequestCleared

\* What the store carries out for a caller who is cleared, is permitted.
LEMMA CommitPermitted ==
    ASSUME OpTypes, CommittedWasPermitted, NEW n, NEW op \in Operations, NEW id, NEW held, NEW cap \in held,
           Cleared(msgs, op, id, cap), Accepts(op), Commit(n, op, id, held)
    PROVE  Kept(msgs, msgs') /\ CommittedWasPermitted'
<1> DEFINE e == [n |-> n, op |-> op, id |-> id, held |-> held,
                 creator |-> IF op.kind = "mutate" THEN {msgs[op.target].creator} ELSE {}]
<1>1. ledger' = ledger \cup {e} /\ cap \in e.held
  BY Zenon DEF Commit
<1>2. op.kind \in Kinds
  BY OperationsAssumption, Zenon
<1>3. ASSUME op.kind = "mutate" PROVE Kept(msgs, msgs') /\ Permitted(e, cap)
  <2>1. op.target \in DOMAIN msgs /\ msgs \in Seq(Versions) /\ msgs[op.target] \in Versions
    BY <1>3 DEF Accepts, Mutates, OpTypes
  <2>2. msgs' = [msgs EXCEPT ![op.target] = MergeVersion(msgs[op.target], op, Stamp(id, op))]
    BY <1>3, Zenon DEF Commit
  <2>3. MergeVersion(msgs[op.target], op, Stamp(id, op)).creator = msgs[op.target].creator
    BY <2>1, Zenon DEF MergeVersion, Versions
  <2>4. Kept(msgs, msgs')
    BY <2>1, <2>2, <2>3, Zenon DEF Kept
  <2>5. Permitted(e, cap)
    BY <1>3, Zenon DEF Cleared, MutationGrant, OwnsMessage, Permitted
  <2> QED
    BY <2>4, <2>5, Zenon
<1>4. ASSUME op.kind # "mutate" PROVE Kept(msgs, msgs') /\ Permitted(e, cap)
  <2>1. Kept(msgs, msgs')
    BY <1>4 DEF Commit, Kept, OpTypes
  <2>2. Permitted(e, cap)
    BY <1>2, <1>4, Zenon DEF Cleared, Permitted, Kinds
  <2> QED
    BY <2>1, <2>2, Zenon
<1>5. Kept(msgs, msgs') /\ Permitted(e, cap)
  BY <1>3, <1>4, Zenon
<1> HIDE DEF e
<1> QED
  BY <1>1, <1>5, Zenon DEF CommittedWasPermitted

\* A frame that the read loop lets through has been cleared.
LEMMA ReadCleared ==
    ASSUME OpTypes, PermitInv, NEW op \in Operations,
           HandleMessage(op) \/ HandleMutation(op) \/ HandleAnnotation(op) \/ HandlePresence(op)
    PROVE  PermitInv'
<1>1. PICK good \in BOOLEAN :
          /\ Enqueue(op, good) /\ UNCHANGED <<session, working, rest, msgs, ledger>>
          /\ good /\ op.kind # "mutate" => Cleared(msgs, op, session.id, session.cap)
  <2>1. \A mode \in session.modes : Permits(session.cap, Channel, ModeOps[mode])
    BY Zenon DEF PermitInv, PermittedModes
  <2>2. CASE HandleMessage(op)
    <3>1. Permits(session.cap, Channel, "publish") => Cleared(msgs, op, session.id, session.cap)
      BY <2>2, Zenon DEF HandleMessage, Cleared, Permitted
    <3> QED
      BY <2>2, <3>1, Zenon DEF HandleMessage
  <2>3. CASE HandleMutation(op)
    BY <2>3, Zenon DEF HandleMutation
  <2>4. CASE HandleAnnotation(op)
    <3>1. Permits(session.cap, Channel, "annotation-publish") => Cleared(msgs, op, session.id, session.cap)
      BY <2>4, Zenon DEF HandleAnnotation, Cleared, Permitted
    <3> QED
      BY <2>4, <3>1, Zenon DEF HandleAnnotation
  <2>5. CASE HandlePresence(op)
    <3>1. "presence" \in session.modes => Cleared(msgs, op, session.id, session.cap)
      BY <2>1, <2>5, Zenon DEF HandlePresence, Cleared, Permitted, ModeOps
    <3> QED
      BY <2>5, <3>1, Zenon DEF HandlePresence
  <2> QED
    BY <2>2, <2>3, <2>4, <2>5, Zenon
<1> DEFINE job == [n |-> asked + 1, op |-> op, good |-> good, held |-> {session.cap}]
<1>2. JobCleared(msgs, session, job)
  BY <1>1, Zenon DEF JobCleared
<1>3. \A i \in DOMAIN jobs' : JobCleared(msgs, session, jobs'[i])
  BY <1>1, <1>2 DEF Enqueue, PermitInv, OpTypes
<1> QED
  BY <1>1, <1>3, Zenon DEF PermitInv, CommittedWasPermitted

\* What is left of the queue, the worker's job and the requests after a write.
LEMMA PermitRest ==
    ASSUME PermitInv, Kept(msgs, msgs'), UNCHANGED session, CommittedWasPermitted',
           \A i \in DOMAIN jobs' : \E k \in DOMAIN jobs : jobs'[i] = jobs[k],
           \A job \in working' : WorkCleared(msgs, session, job),
           \A r \in RestRequests : RequestCleared(msgs, rest'[r])
    PROVE  PermitInv'
<1>1. \A i \in DOMAIN jobs' : JobCleared(msgs, session, jobs'[i])
  BY Zenon DEF PermitInv
<1>2. /\ \A i \in DOMAIN jobs' : JobCleared(msgs', session, jobs'[i])
      /\ \A job \in working' : WorkCleared(msgs', session, job)
      /\ \A r \in RestRequests : RequestCleared(msgs', rest'[r])
  BY <1>1, ClearedKept, Zenon
<1> QED
  BY <1>2, Zenon DEF PermitInv

LEMMA WorkStep == ASSUME OpTypes, PermitInv, RunJob \/ Mutate PROVE PermitInv'
<1>1. \A job \in Jobs : Nack(job) => Kept(msgs, msgs') /\ CommittedWasPermitted'
  BY Zenon DEF Nack, Kept, PermitInv, CommittedWasPermitted
<1>2. \A job \in Jobs, cap \in Capabilities :
          /\ Ack(job) /\ Accepts(job.op) /\ cap \in job.held /\ Cleared(msgs, job.op, session.id, cap)
          => Kept(msgs, msgs') /\ CommittedWasPermitted'
  BY CommitPermitted, Zenon DEF Ack, PermitInv, Jobs
<1>3. CASE RunJob
  <2> DEFINE job == Head(jobs)
  <2>1. /\ job \in Jobs /\ JobCleared(msgs, session, job) /\ UNCHANGED <<session, rest>> /\ working = {}
        /\ \A i \in DOMAIN jobs' : \E k \in DOMAIN jobs : jobs'[i] = jobs[k]
    <3>1. /\ jobs # <<>> /\ jobs' = Tail(jobs) /\ working = {} /\ UNCHANGED <<session, rest>>
          /\ jobs \in Seq(Jobs) /\ \A i \in DOMAIN jobs : JobCleared(msgs, session, jobs[i])
      BY <1>3, Zenon DEF RunJob, OpTypes, PermitInv
    <3> QED
      BY <3>1
  <2>2. \/ UNCHANGED working /\ Nack(job)
        \/ UNCHANGED working /\ job.good /\ job.op.kind # "mutate" /\ Ack(job) /\ Accepts(job.op)
        \/ /\ working' = {job} /\ UNCHANGED <<msgs, ledger>>
           /\ job.op.kind = "mutate" /\ AuthorizeMutation(session.id, session.cap, job.op)
    BY <1>3, Zenon DEF RunJob, Outcomes
  <2>3. Kept(msgs, msgs') /\ CommittedWasPermitted'
    BY <1>1, <1>2, <2>1, <2>2, Zenon DEF JobCleared, Kept, PermitInv, CommittedWasPermitted, Jobs
  <2>4. \A j \in working' : WorkCleared(msgs, session, j)
    BY <2>1, <2>2, Authorized, Zenon DEF JobCleared, WorkCleared
  <2> QED
    BY <2>1, <2>3, <2>4, PermitRest, Zenon DEF PermitInv
<1>4. CASE Mutate
  <2>1. PICK job \in working : Nack(job) \/ (Ack(job) /\ Accepts(job.op))
    BY <1>4, Zenon DEF Mutate, Outcomes
  <2>2. Kept(msgs, msgs') /\ CommittedWasPermitted'
    BY <1>1, <1>2, <2>1, Zenon DEF PermitInv, OpTypes, Jobs, WorkCleared
  <2> QED
    BY <1>4, <2>2, PermitRest, Zenon DEF Mutate, PermitInv
<1> QED
  BY <1>3, <1>4, Zenon

\* A renewal adds to what jobs were held under, and takes modes away.
LEMMA RenewStep ==
    ASSUME OpTypes, PermitInv,
           \/ \E requested \in RequestedModes : HandleAttach(requested)
           \/ \E cap \in Capabilities : ReconcileCapabilities(cap)
    PROVE  PermitInv'
<1>1. ASSUME NEW requested \in RequestedModes, HandleAttach(requested) PROVE PermitInv'
  <2>1. /\ session'.id = session.id /\ session'.cap = session.cap
        /\ session'.modes = requested \cap PermittedModes(session.cap)
    BY <1>1, Zenon DEF HandleAttach, OpTypes, Sessions
  <2>2. /\ \A job : JobCleared(msgs, session, job) => JobCleared(msgs, session', job)
        /\ \A job : WorkCleared(msgs, session, job) => WorkCleared(msgs, session', job)
    BY <2>1, Zenon DEF JobCleared, WorkCleared
  <2>3. session'.modes \subseteq PermittedModes(session'.cap)
    BY <2>1, Zenon
  <2> QED
    BY <1>1, <2>2, <2>3, Zenon DEF HandleAttach, PermitInv, CommittedWasPermitted
<1>2. ASSUME NEW cap \in Capabilities, ReconcileCapabilities(cap) PROVE PermitInv'
  <2> DEFINE Hold(job) == [job EXCEPT !.held = @ \cup {cap}]
  <2>1. /\ session'.id = session.id /\ session'.cap = cap
        /\ session'.modes = session.requested \cap PermittedModes(cap)
    BY <1>2, Zenon DEF ReconcileCapabilities, OpTypes, Sessions
  <2>2. ASSUME NEW job \in Jobs
        PROVE  Hold(job).held = job.held \cup {cap} /\ Hold(job).good = job.good /\ Hold(job).op = job.op
    BY Zenon DEF Jobs
  <2>3. /\ jobs' = [i \in DOMAIN jobs |-> Hold(jobs[i])] /\ working' = {Hold(job) : job \in working}
        /\ UNCHANGED <<rest, msgs, ledger>>
    BY <1>2, Zenon DEF ReconcileCapabilities
  <2> HIDE DEF Hold
  <2>4. \A job \in Jobs :
            /\ JobCleared(msgs, session, job) => JobCleared(msgs, session', Hold(job))
            /\ WorkCleared(msgs, session, job) => WorkCleared(msgs, session', Hold(job))
    BY <2>1, <2>2, Zenon DEF JobCleared, WorkCleared
  <2>5. (\A i \in DOMAIN jobs : jobs[i] \in Jobs) /\ working \subseteq Jobs
    BY DEF OpTypes
  <2>6. session'.modes \subseteq PermittedModes(session'.cap)
    BY <2>1, Zenon
  <2>7. /\ \A i \in DOMAIN jobs' : JobCleared(msgs, session', jobs'[i])
        /\ \A job \in working' : WorkCleared(msgs, session', job)
    BY <2>3, <2>4, <2>5, Zenon DEF PermitInv
  <2> QED
    BY <2>3, <2>6, <2>7, Zenon DEF PermitInv, CommittedWasPermitted
<1> QED
  BY <1>1, <1>2, Zenon

\* A request is cleared by the capability it came with.
LEMMA RequestStep ==
    ASSUME OpTypes, PermitInv, NEW r \in RestRequests,
           \/ \E op \in Operations, p \in Principals : Begin(r, p, op)
           \/ AuthorizeRequest(r) \/ Store(r)
    PROVE  PermitInv'
<1>1. ASSUME NEW op \in Operations, NEW p \in Principals, Begin(r, p, op) PROVE PermitInv'
  <2>1. op.kind \in Kinds \ {"presence"}
    BY <1>1, OperationsAssumption, Zenon DEF Begin
  <2>2. rest'[r].op = {op} /\ rest'[r].by = p /\ \A q \in RestRequests : q # r => rest'[q] = rest[q]
    BY <1>1, Zenon DEF Begin, OpTypes
  <2>3. /\ rest'[r].pc = "authorize" => op.kind = "mutate"
        /\ rest'[r].pc = "store" =>
              CASE op.kind = "publish"  -> Permits(p.cap, Channel, "publish")
                [] op.kind = "mutate"   -> FALSE
                [] op.kind = "annotate" -> Permits(p.cap, Channel, "annotation-publish")
                [] op.kind = "read"     -> Permits(p.cap, Channel, "history")
    BY <1>1, <2>1, Zenon DEF Begin, OpTypes, Kinds, HandlePublish, HandlePublishAnnotation, HandleGet, Authorize
  <2>4. rest'[r].pc = "store" => Cleared(msgs, op, p.id, p.cap)
    BY <2>1, <2>3, Zenon DEF Cleared, Permitted, Kinds
  <2>5. RequestCleared(msgs, rest'[r])
    BY <2>2, <2>3, <2>4, Zenon DEF RequestCleared
  <2> QED
    BY <1>1, <2>2, <2>5, Zenon DEF Begin, PermitInv, CommittedWasPermitted
<1>2. CASE AuthorizeRequest(r)
  <2>1. PICK op \in rest[r].op :
            rest' = [rest EXCEPT ![r].pc =
                       IF AuthorizeMutation(rest[r].by.id, rest[r].by.cap, op) THEN "store" ELSE "refused"]
    BY <1>2, Zenon DEF AuthorizeRequest
  <2>2. /\ rest'[r].op = {op} /\ rest'[r].by = rest[r].by /\ op.kind = "mutate"
        /\ \A q \in RestRequests : q # r => rest'[q] = rest[q]
    BY <1>2, <2>1 DEF AuthorizeRequest, PermitInv, RequestCleared, OpTypes, RestStates
  <2>3. rest'[r].pc = "refused" \/ (rest'[r].pc = "store" /\ AuthorizeMutation(rest[r].by.id, rest[r].by.cap, op))
    BY <2>1, Zenon DEF OpTypes, RestStates
  <2>4. RequestCleared(msgs, rest'[r])
    BY <2>2, <2>3, Authorized, Zenon DEF RequestCleared
  <2> QED
    BY <1>2, <2>2, <2>4, Zenon DEF AuthorizeRequest, PermitInv, CommittedWasPermitted
<1>3. CASE Store(r)
  <2>1. PICK op \in rest[r].op, ok \in BOOLEAN :
            /\ ok \in Outcomes(op)
            /\ IF ok THEN Commit(0, op, rest[r].by.id, {rest[r].by.cap}) ELSE UNCHANGED <<msgs, ledger>>
            /\ rest' = [rest EXCEPT ![r].pc = IF ok THEN "done" ELSE "refused"]
    BY <1>3, Zenon DEF Store
  <2>2. op \in Operations /\ Cleared(msgs, op, rest[r].by.id, rest[r].by.cap) /\ (ok => Accepts(op))
    BY <1>3, <2>1, Zenon DEF Store, OpTypes, RestStates, PermitInv, RequestCleared, Outcomes
  <2>3. Kept(msgs, msgs') /\ CommittedWasPermitted'
    <3>1. CASE ok
      BY <2>1, <2>2, <3>1, CommitPermitted, Zenon DEF PermitInv
    <3>2. CASE ~ok
      BY <2>1, <3>2, Zenon DEF PermitInv, Kept, CommittedWasPermitted
    <3> QED
      BY <3>1, <3>2, Zenon
  <2>4. PICK x \in {"done", "refused"} : rest' = [rest EXCEPT ![r].pc = x]
    BY <2>1, Zenon
  <2>5. \A q \in RestRequests : RequestCleared(msgs, rest'[q])
    <3>1. rest \in [RestRequests -> RestStates] /\ \A q \in RestRequests : RequestCleared(msgs, rest[q])
      BY Zenon DEF OpTypes, PermitInv
    <3>2. rest'[r].op = rest[r].op /\ rest'[r].pc = x /\ \A q \in RestRequests : q # r => rest'[q] = rest[q]
      BY <2>4, <3>1, Zenon DEF RestStates
    <3>3. RequestCleared(msgs, rest'[r])
      BY <3>1, <3>2, Zenon DEF RequestCleared
    <3> QED
      BY <3>1, <3>2, <3>3, Zenon
  <2>6. UNCHANGED <<session, jobs, working>>
    BY <1>3, Zenon DEF Store
  <2> QED
    BY <2>3, <2>5, <2>6, PermitRest, Zenon DEF PermitInv
<1> QED
  BY <1>1, <1>2, <1>3, Zenon

LEMMA PermitStep == ASSUME OpTypes, PermitInv, [OperationsNext]_operationVars PROVE PermitInv'
<1>1. CASE UNCHANGED operationVars
  BY <1>1, Zenon DEF operationVars, PermitInv, CommittedWasPermitted
<1> QED
  BY <1>1, ReadCleared, RenewStep, WorkStep, RequestStep, Zenon DEF OperationsNext

-----------------------------------------------------------------------------
\* The first d frames have been answered; the next one may be in the worker's hands, and
\* the others are queued in order.
QueueInv(d) ==
    /\ asked = d + (IF working = {} THEN 0 ELSE 1) + Len(jobs)
    /\ \A job \in working : working = {job} /\ job.n = d + 1
    /\ \A i \in DOMAIN jobs : jobs[i].n = asked - Len(jobs) + i

LedgerInv(d) ==
    /\ acked \cup nacked = 1..d /\ acked \cap nacked = {}
    /\ \A e \in ledger : e.n \in acked \cup {0}
    /\ \A n \in acked : \E e \in ledger : e.n = n
    /\ \A e, f \in ledger : e.n = f.n => e.n = 0 \/ e = f

\* Carrying out one operation adds one entry.
LEMMA CommitEntry ==
    ASSUME NEW n, NEW op, NEW id, NEW held, Commit(n, op, id, held)
    PROVE  \E e : ledger' = ledger \cup {e} /\ e.n = n
<1> DEFINE e == [n |-> n, op |-> op, id |-> id, held |-> held,
                 creator |-> IF op.kind = "mutate" THEN {msgs[op.target].creator} ELSE {}]
<1>1. ledger' = ledger \cup {e} /\ e.n = n
  BY Zenon DEF Commit
<1> HIDE DEF e
<1> QED
  BY <1>1, Zenon

\* Answering frame d + 1.
LEMMA AnswerCounted ==
    ASSUME NEW d \in Nat, LedgerInv(d), NEW job, job.n = d + 1, Nack(job) \/ Ack(job)
    PROVE  LedgerInv(d + 1)'
<1>1. d + 1 \notin 1..d /\ 1..(d + 1) = (1..d) \cup {d + 1} /\ d + 1 # 0
  OBVIOUS
<1>2. CASE Nack(job)
  <2>1. nacked' = nacked \cup {d + 1} /\ UNCHANGED <<acked, ledger>>
    BY <1>2, Zenon DEF Nack
  <2>2. acked \cup nacked' = 1..(d + 1) /\ acked \cap nacked' = {}
    BY <1>1, <2>1 DEF LedgerInv
  <2> QED
    BY <2>1, <2>2, Zenon DEF LedgerInv
<1>3. CASE Ack(job)
  <2>1. PICK e : ledger' = ledger \cup {e} /\ e.n = d + 1
    BY <1>3, CommitEntry, Zenon DEF Ack
  <2>2. acked' = acked \cup {d + 1} /\ UNCHANGED nacked
    BY <1>3, Zenon DEF Ack
  <2>3. acked' \cup nacked = 1..(d + 1) /\ acked' \cap nacked = {}
    BY <1>1, <2>2 DEF LedgerInv
  <2>4. \A f \in ledger : f.n # d + 1
    BY <1>1, Zenon DEF LedgerInv
  <2> QED
    BY <2>1, <2>2, <2>3, <2>4, Zenon DEF LedgerInv
<1> QED
  BY <1>2, <1>3, Zenon

LEMMA CountStep ==
    ASSUME OpTypes, [OperationsNext]_operationVars, NEW d \in Nat, QueueInv(d), LedgerInv(d)
    PROVE  \E k \in Nat : QueueInv(k)' /\ LedgerInv(k)'
<1>1. jobs \in Seq(Jobs) /\ Len(jobs) \in Nat /\ asked \in Nat /\ working \subseteq Jobs
  BY DEF OpTypes
<1>2. ASSUME UNCHANGED <<acked, nacked>>, UNCHANGED ledger PROVE LedgerInv(d)'
  BY <1>2, Zenon DEF LedgerInv
<1>3. ASSUME UNCHANGED <<jobs, working, asked>> PROVE QueueInv(d)'
  BY <1>3, Zenon DEF QueueInv
<1>4. CASE UNCHANGED operationVars
  BY <1>2, <1>3, <1>4, Zenon DEF operationVars
<1>5. ASSUME NEW op \in Operations,
             HandleMessage(op) \/ HandleMutation(op) \/ HandleAnnotation(op) \/ HandlePresence(op)
      PROVE  QueueInv(d)' /\ LedgerInv(d)'
  <2>1. PICK good : Reads /\ Enqueue(op, good) /\ UNCHANGED <<working, ledger, acked, nacked>>
    BY <1>5, Zenon DEF HandleMessage, HandleMutation, HandleAnnotation, HandlePresence
  <2>2. PICK job : job.n = asked + 1 /\ jobs' = Append(jobs, job) /\ asked' = asked + 1
    BY <2>1, Zenon DEF Reads, Enqueue
  <2>3. /\ Len(jobs') = Len(jobs) + 1 /\ DOMAIN jobs' = 1..(Len(jobs) + 1)
        /\ \A i \in 1..Len(jobs) : jobs'[i] = jobs[i]
        /\ jobs'[Len(jobs) + 1] = job
    BY <1>1, <2>2
  <2>4. DOMAIN jobs = 1..Len(jobs)
    BY <1>1
  <2>5. working' = working
    BY <2>1, Zenon
  <2>6. asked' = d + (IF working = {} THEN 0 ELSE 1) + Len(jobs')
    BY <1>1, <2>2, <2>3, SMTT(30) DEF QueueInv
  <2>7. ASSUME NEW i \in DOMAIN jobs' PROVE jobs'[i].n = asked' - Len(jobs') + i
    <3>1. asked' - Len(jobs') = asked - Len(jobs) /\ i \in Nat
      BY <1>1, <2>2, <2>3
    <3>2. CASE i \in 1..Len(jobs)
      BY <2>3, <2>4, <3>1, <3>2, Zenon DEF QueueInv
    <3>3. CASE i = Len(jobs) + 1
      BY <1>1, <2>2, <2>3, <3>1, <3>3
    <3> QED
      BY <1>1, <2>3, <3>2, <3>3
  <2>8. QueueInv(d)'
    BY <2>5, <2>6, <2>7, Zenon DEF QueueInv
  <2> QED
    BY <1>2, <2>1, <2>8, Zenon
<1>6. ASSUME NEW r \in RestRequests,
             (\E op \in Operations, p \in Principals : Begin(r, p, op)) \/ AuthorizeRequest(r)
      PROVE  QueueInv(d)' /\ LedgerInv(d)'
  BY <1>2, <1>3, <1>6, Zenon DEF Begin, AuthorizeRequest
<1>7. ASSUME NEW requested \in RequestedModes, HandleAttach(requested)
      PROVE  QueueInv(d)' /\ LedgerInv(d)'
  BY <1>2, <1>3, <1>7, Zenon DEF HandleAttach
<1>8. ASSUME NEW cap \in Capabilities, ReconcileCapabilities(cap)
      PROVE  QueueInv(d)' /\ LedgerInv(d)'
  <2> DEFINE Hold(job) == [job EXCEPT !.held = @ \cup {cap}]
  <2>1. /\ jobs' = [i \in DOMAIN jobs |-> Hold(jobs[i])] /\ working' = {Hold(job) : job \in working}
        /\ UNCHANGED <<ledger, asked, acked, nacked>>
    BY <1>8, Zenon DEF ReconcileCapabilities
  <2>2. \A job \in Jobs : Hold(job).n = job.n
    BY Zenon DEF Jobs
  <2> HIDE DEF Hold
  <2>3. Len(jobs') = Len(jobs) /\ DOMAIN jobs' = DOMAIN jobs /\ \A i \in DOMAIN jobs : jobs'[i].n = jobs[i].n
    BY <1>1, <2>1, <2>2
  <2>4. QueueInv(d)'
    <3>1. CASE working = {}
      <4>1. working' = {}
        BY <2>1, <3>1, Zenon
      <4> QED
        BY <2>1, <2>3, <3>1, <4>1, Zenon DEF QueueInv
    <3>2. ASSUME NEW job \in working PROVE QueueInv(d)'
      <4>1. working' = {Hold(job)} /\ Hold(job).n = d + 1 /\ working # {}
        BY <1>1, <2>1, <2>2, Zenon DEF QueueInv
      <4> QED
        BY <2>1, <2>3, <4>1, Zenon DEF QueueInv
    <3> QED
      BY <3>1, <3>2, Zenon
  <2> QED
    BY <1>2, <2>1, <2>4, Zenon
<1>9. CASE RunJob
  <2> DEFINE job == Head(jobs)
  <2>1. /\ working = {} /\ jobs # <<>> /\ jobs' = Tail(jobs) /\ UNCHANGED asked
        /\ \/ (Nack(job) \/ Ack(job)) /\ UNCHANGED working
           \/ working' = {job} /\ UNCHANGED <<acked, nacked>> /\ UNCHANGED ledger
    BY <1>9, Zenon DEF RunJob
  <2>2. /\ Len(jobs) > 0 /\ Len(jobs') = Len(jobs) - 1 /\ job = jobs[1] /\ 1 \in DOMAIN jobs
        /\ \A i \in DOMAIN jobs' : i + 1 \in DOMAIN jobs /\ jobs'[i] = jobs[i + 1]
    BY <1>1, <2>1
  <2>3. /\ asked = d + Len(jobs) /\ job.n = d + 1
        /\ \A i \in DOMAIN jobs' : jobs'[i].n = asked - (Len(jobs) - 1) + i
    BY <1>1, <2>1, <2>2 DEF QueueInv
  <2> HIDE DEF job
  <2>4. CASE (Nack(job) \/ Ack(job)) /\ UNCHANGED working
    <3>1. LedgerInv(d + 1)'
      BY <2>3, <2>4, AnswerCounted, Zenon
    <3>2. QueueInv(d + 1)'
      BY <1>1, <2>1, <2>2, <2>3, <2>4 DEF QueueInv
    <3> QED
      BY <3>1, <3>2
  <2>5. CASE working' = {job} /\ UNCHANGED <<acked, nacked>> /\ UNCHANGED ledger
    <3>1. QueueInv(d)'
      BY <1>1, <2>1, <2>2, <2>3, <2>5 DEF QueueInv
    <3> QED
      BY <1>2, <2>5, <3>1, Zenon
  <2> QED
    BY <2>1, <2>4, <2>5, Zenon
<1>10. CASE Mutate
  <2>1. PICK job \in working : Nack(job) \/ Ack(job)
    BY <1>10, Zenon DEF Mutate
  <2>2. working' = {} /\ UNCHANGED <<jobs, asked>>
    BY <1>10, Zenon DEF Mutate
  <2>3. LedgerInv(d + 1)'
    BY <2>1, AnswerCounted, Zenon DEF QueueInv
  <2>4. QueueInv(d + 1)'
    BY <1>1, <2>1, <2>2 DEF QueueInv
  <2> QED
    BY <2>3, <2>4
<1>11. ASSUME NEW r \in RestRequests, Store(r) PROVE QueueInv(d)' /\ LedgerInv(d)'
  <2>1. UNCHANGED ledger \/ \E e : ledger' = ledger \cup {e} /\ e.n = 0
    BY <1>11, CommitEntry, Zenon DEF Store
  <2>2. UNCHANGED <<jobs, working, asked>> /\ UNCHANGED <<acked, nacked>>
    BY <1>11, Zenon DEF Store
  <2>3. LedgerInv(d)'
    BY <2>1, <2>2, Zenon DEF LedgerInv
  <2> QED
    BY <1>3, <2>2, <2>3, Zenon
<1> QED
  BY <1>4, <1>5, <1>6, <1>7, <1>8, <1>9, <1>10, <1>11, Zenon DEF OperationsNext

OperationsInv == OpTypes /\ PermitInv /\ \E d \in Nat : QueueInv(d) /\ LedgerInv(d)

\* Operations of a connection and of REST requests keep their invariant.
THEOREM OperationsCorrect == OperationsSpec => []OperationsInv
<1>1. ASSUME OperationsInit PROVE OperationsInv
  <2>1. OpTypes
    <3>1. session \in Sessions
      BY <1>1, Zenon DEF OperationsInit, Sessions
    <3>2. rest \in [RestRequests -> RestStates] /\ \A r \in RestRequests : rest[r].pc = "idle"
      BY <1>1, Zenon DEF OperationsInit, RestStates
    <3>3. /\ jobs \in Seq(Jobs) /\ working \in SUBSET Jobs /\ msgs \in Seq(Versions)
          /\ asked \in Nat /\ acked \in SUBSET Nat /\ nacked \in SUBSET Nat
      BY <1>1 DEF OperationsInit
    <3>4. \A r \in RestRequests : rest[r].pc \notin {"authorize", "store"}
      BY <3>2, Zenon
    <3> QED
      BY <3>1, <3>2, <3>3, <3>4, Zenon DEF OpTypes
  <2>2. PermitInv
    BY <1>1 DEF OperationsInit, PermitInv, CommittedWasPermitted, RequestCleared
  <2>3. QueueInv(0) /\ LedgerInv(0)
    BY <1>1 DEF OperationsInit, QueueInv, LedgerInv
  <2> QED
    BY <2>1, <2>2, <2>3, Zenon DEF OperationsInv
<1>2. ASSUME OperationsInv, [OperationsNext]_operationVars PROVE OperationsInv'
  BY <1>2, OpTypesStep, PermitStep, CountStep, Zenon DEF OperationsInv
<1> QED
  BY <1>1, <1>2, PTL DEF OperationsSpec

\* Whatever is carried out, for a connection or a REST request, was permitted by a
\* capability its caller had, although the read loop and the worker look at different
\* times while the token is renewed and others write; and every frame is carried out at
\* most once and answered accordingly.
THEOREM OperationsPermitted == OperationsSpec => []PermittedOnce
<1>1. ASSUME OperationsInv PROVE PermittedOnce
  <2>1. PICK d \in Nat : QueueInv(d) /\ LedgerInv(d)
    BY <1>1, Zenon DEF OperationsInv
  <2>2. jobs \in Seq(Jobs) /\ asked \in Nat /\ CommittedWasPermitted
    BY <1>1, Zenon DEF OperationsInv, OpTypes, PermitInv
  <2>3. {jobs[i].n : i \in DOMAIN jobs} \cup {job.n : job \in working} = (d + 1)..asked
    <3> DEFINE base == asked - Len(jobs)
    <3>1. /\ Len(jobs) \in Nat /\ DOMAIN jobs = 1..Len(jobs) /\ base \in Nat
          /\ \A i \in DOMAIN jobs : jobs[i].n = base + i
          /\ base = d + (IF working = {} THEN 0 ELSE 1)
      <4>1. Len(jobs) \in Nat /\ DOMAIN jobs = 1..Len(jobs)
        BY <2>2
      <4> QED
        BY <2>1, <2>2, <4>1, SMTT(30) DEF QueueInv
    <3> HIDE DEF base
    <3>2. ASSUME NEW s \in (base + 1)..asked PROVE \E i \in DOMAIN jobs : jobs[i].n = s
      <4>1. s - base \in DOMAIN jobs /\ base + (s - base) = s
        BY <2>2, <3>1 DEF base
      <4> QED
        BY <3>1, <4>1, Zenon
    <3>3. \A i \in DOMAIN jobs : jobs[i].n \in (base + 1)..asked
      BY <2>2, <3>1, SMTT(30) DEF base
    <3>4. {jobs[i].n : i \in DOMAIN jobs} = (base + 1)..asked
      BY <3>2, <3>3, Zenon
    <3>5. CASE working = {}
      BY <3>1, <3>4, <3>5
    <3>6. ASSUME NEW job \in working
          PROVE  {jobs[i].n : i \in DOMAIN jobs} \cup {j.n : j \in working} = (d + 1)..asked
      <4>1. {j.n : j \in working} = {d + 1} /\ base = d + 1
        BY <2>1, <3>1 DEF QueueInv
      <4>2. d + 1 <= asked
        BY <2>1, <2>2, <3>1 DEF QueueInv
      <4>3. ((d + 2)..asked) \cup {d + 1} = (d + 1)..asked
        BY <2>2, <4>2
      <4> QED
        BY <3>4, <4>1, <4>3, SMTT(30)
    <3> QED
      BY <3>5, <3>6, Zenon
  <2>4. acked = {e.n : e \in ledger} \ {0}
    BY <2>1 DEF LedgerInv
  <2>5. AnsweredOnce
    <3>1. d <= asked
      BY <2>1, <2>2 DEF QueueInv
    <3>2. (1..d) \cup ((d + 1)..asked) = 1..asked /\ (1..d) \cap ((d + 1)..asked) = {}
      BY <2>2, <3>1
    <3> QED
      BY <2>1, <2>3, <2>4, <3>2, Zenon DEF AnsweredOnce, LedgerInv
  <2> QED
    BY <2>2, <2>5, Zenon DEF PermittedOnce
<1> QED
  BY <1>1, OperationsCorrect, PTL
=============================================================================
