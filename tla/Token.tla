------------------------------- MODULE Token -------------------------------
\* auth: one API key, the tokens minted from it, and the capability and identity of a
\* connection that presents the key or a token. Signatures, the mac, timestamps and
\* nonces of token requests are taken as good; what is followed is what a credential
\* grants.

EXTENDS Identity, Integers

CONSTANTS
    KeyCapabilities,    \* capabilities the key may be configured with
    Requested,          \* capabilities token requests ask for
    Channels,           \* channel names, as paths
    Ops,                \* operations
    UnknownOps,         \* operation names Ably does not have
    ClientIds,          \* concrete clientIds
    TTLs,               \* ttls token requests ask for, in milliseconds
    Millisecond,        \* of a time.Duration
    DurationWidth,      \* bits of a time.Duration
    DefaultTokenTTL, MaxTokenTTL  \* as a time.Duration

Identities == ClientIds \cup {Anonymous, Wild}
\* A capability that may be left out is a set of at most one.
NoCapability == {}
NoToken == [clientId |-> Anonymous, hasClientId |-> FALSE, cap |-> NoCapability, ttl |-> 0]
NoConnection == [method |-> "none", clientId |-> Anonymous, cap |-> << >>, token |-> NoToken, param |-> Anonymous]
NoStamp == [kind |-> "none", asserted |-> Anonymous, stamped |-> Anonymous]

ASSUME TokenAssumption ==
    /\ Millisecond \in Nat \ {0} /\ DurationWidth \in Nat \ {0}
    /\ DefaultTokenTTL \in 1..MaxTokenTTL /\ MaxTokenTTL < 2^(DurationWidth - 1)
    /\ ClientIds \cap {Anonymous, Wild} = {}
    /\ \A c \in KeyCapabilities \cup Requested : IsCapability(c)
    /\ Channels \subseteq Paths /\ Ops \subseteq STRING

\* The names in the capabilities are plain, so that Intersect's results read as written.
PlainCredentials == \A c \in KeyCapabilities \cup Requested : PlainNames(c)

VARIABLES
    key,        \* the key's capability
    request,    \* the token request that was answered last
    token,      \* the token it was answered with, or NoToken
    conn,       \* the connection, or NoConnection
    answer,     \* answer to the last token request or AUTH
    stamp       \* the identity stamped on the last operation

tokenVars == <<key, request, token, conn, answer, stamp>>

Requests == [cap : {NoCapability} \cup {{c} : c \in Requested}, clientId : Identities, ttl : TTLs]
NoRequest == [cap |-> NoCapability, clientId |-> Anonymous, ttl |-> 0]

TokenInit ==
    /\ key \in KeyCapabilities
    /\ request = NoRequest
    /\ token = NoToken
    /\ conn = NoConnection
    /\ answer = "none"
    /\ stamp = NoStamp

------------------------------------------------------------------------------
\* Token requests.

\* ValidateCapability.
ValidCapability(cap) ==
    \A res \in DOMAIN cap :
        /\ cap[res] # {}
        /\ Wild \in cap[res] => cap[res] = {Wild}
        /\ cap[res] \cap UnknownOps = {}

\* time.Duration(ttl) * time.Millisecond, in two's complement.
Duration(ttl) == ((ttl * Millisecond + 2^(DurationWidth - 1)) % 2^DurationWidth) - 2^(DurationWidth - 1)

\* ValidateTTL.
ValidTTL(ttl) == ttl >= 0 /\ Duration(ttl) <= MaxTokenTTL

\* MintToken narrows a requested capability; no capability leaves the claim out.
MintedCapability(r) == {Intersect(c, key) : c \in r.cap}

\* MintToken.
MintedTTL(r) == IF Duration(r.ttl) <= 0 THEN DefaultTokenTTL ELSE Duration(r.ttl)

\* HandleRequestToken.
RequestToken(r) ==
    LET cap == MintedCapability(r)
        code == IF \E c \in r.cap : ~ValidCapability(c) THEN "40000"
                ELSE IF ~ValidTTL(r.ttl) THEN "40003"
                ELSE IF \E c \in cap : IsEmpty(c) THEN "40160" ELSE "minted" IN
    /\ conn = NoConnection
    /\ request' = r
    /\ answer' = code
    /\ token' = IF code # "minted" THEN NoToken
                ELSE [clientId |-> r.clientId, hasClientId |-> r.clientId # Anonymous, cap |-> cap, ttl |-> MintedTTL(r)]
    /\ UNCHANGED <<key, conn, stamp>>

------------------------------------------------------------------------------
\* Connections.

\* Faulty VerifiedCapability: the claim counts, whatever the key was narrowed to since.
VerifiedCapability_ClaimOnly(t) == IF t.cap = NoCapability THEN key ELSE CHOOSE c \in t.cap : TRUE

\* verifyToken bounds the claim by the key as it is configured now.
VerifiedCapability(t) == IF t.cap = NoCapability THEN key ELSE CHOOSE c \in {Intersect(d, key) : d \in t.cap} : TRUE

\* ResolveClientID, for Basic auth and for a token; Rejected is ErrClientIDMismatch.
ResolveBasic(param) == IF param = Anonymous THEN Wild ELSE param

ResolveClientID(t, param) ==
    CASE ~t.hasClientId -> IF param = Anonymous THEN Anonymous ELSE Rejected
      [] t.hasClientId /\ t.clientId = Wild ->
            IF param = Anonymous THEN Wild ELSE IF param = Wild THEN Rejected ELSE param
      [] OTHER -> IF param \in {Anonymous, t.clientId} THEN t.clientId ELSE Rejected

ConnectBasic(param) ==
    /\ conn = NoConnection
    /\ conn' = [method |-> "basic", clientId |-> ResolveBasic(param), cap |-> key, token |-> NoToken, param |-> param]
    /\ UNCHANGED <<key, request, token, answer, stamp>>

ConnectToken(param) ==
    /\ conn = NoConnection
    /\ token # NoToken
    /\ ResolveClientID(token, param) # Rejected
    /\ conn' = [method |-> "token", clientId |-> ResolveClientID(token, param),
                cap |-> VerifiedCapability(token), token |-> token, param |-> param]
    /\ UNCHANGED <<key, request, token, answer, stamp>>

\* handleAuth, with a token that has the claims of the one the connection came with: the
\* identity is resolved without the clientId param.
Reauth ==
    /\ conn.method = "token"
    /\ IF ResolveClientID(conn.token, Anonymous) = conn.clientId
       THEN /\ conn' = [conn EXCEPT !.cap = VerifiedCapability(conn.token)]
            /\ answer' = "CONNECTED"
       ELSE /\ answer' = "40102"
            /\ UNCHANGED conn
    /\ UNCHANGED <<key, request, token, stamp>>

\* The server restarts with another capability for the key; tokens stay valid.
Reconfigure ==
    /\ key' \in KeyCapabilities
    /\ conn' = NoConnection
    /\ stamp' = NoStamp
    /\ UNCHANGED <<request, token, answer>>

------------------------------------------------------------------------------
\* Operations: the identity they are stamped with.

Operate(kind, asserted) ==
    LET stamped == IF kind = "presence" THEN PresenceClientID(conn.clientId, asserted)
                   ELSE MessageClientID(conn.clientId, asserted) IN
    /\ conn # NoConnection
    /\ stamped # Rejected
    /\ stamp' = [kind |-> kind, asserted |-> asserted, stamped |-> stamped]
    /\ UNCHANGED <<key, request, token, conn, answer>>

------------------------------------------------------------------------------
TokenNext ==
    \/ \E r \in Requests : RequestToken(r)
    \/ \E param \in Identities : ConnectBasic(param) \/ ConnectToken(param)
    \/ Reauth
    \/ Reconfigure
    \/ \E kind \in {"message", "presence"}, asserted \in Identities : Operate(kind, asserted)

TokenSpec == TokenInit /\ [][TokenNext]_tokenVars

------------------------------------------------------------------------------
\* Every variable has its type; a token that MintToken made has a positive lifetime
\* within the maximum.
TokenTypeOK ==
    /\ key \in KeyCapabilities
    /\ request \in Requests \cup {NoRequest}
    /\ token.clientId \in Identities /\ token.hasClientId = (token.clientId # Anonymous)
    /\ token # NoToken => token.ttl \in 1..MaxTokenTTL
    /\ conn.method \in {"none", "basic", "token"} /\ conn.clientId \in Identities
    /\ answer \in {"none", "minted", "40000", "40003", "40160", "40102", "CONNECTED"}
    /\ stamp.stamped \in Identities

\* A connection is granted no operation on any channel that the key, as configured now,
\* and the token request do not both grant: MintToken narrows the request, verifyToken
\* narrows the claim again.
GrantedByBoth ==
    conn # NoConnection =>
        \A channel \in Channels, op \in Ops : Permits(conn.cap, channel, op) =>
            /\ Permits(key, channel, op)
            /\ conn.method = "token" => \A c \in request.cap : Permits(c, channel, op)

\* What the request and the key both grant on a channel, the token grants: nothing that
\* both permit is lost on the way.
NothingLost ==
    conn.method = "token" =>
        \A c \in request.cap, channel \in Channels, op \in Ops :
            Permits(key, channel, op) /\ Permits(c, channel, op) => Permits(conn.cap, channel, op)

\* No operation is stamped with the wildcard, a concrete token with anything but its own
\* clientId, a token without a clientId with any; a presence member has a clientId.
StampedAsCredential ==
    stamp # NoStamp =>
        /\ stamp.stamped # Wild
        /\ stamp.kind = "presence" => stamp.stamped # Anonymous
        /\ conn.method = "token" =>
            CASE ~conn.token.hasClientId -> stamp.stamped = Anonymous
              [] conn.token.clientId \in ClientIds -> stamp.stamped = conn.token.clientId
              [] OTHER -> conn.param # Anonymous => stamp.stamped = conn.param

\* A connection may do what its credential grants, and only under its identity.
CredentialBinds == GrantedByBoth /\ StampedAsCredential

\* A ttl above the maximum is rejected.
ExcessiveTTLRejected == token # NoToken => request.ttl * Millisecond <= MaxTokenTTL

\* A connection can renew its token with one that has the same claims.
RenewalAccepted == conn # NoConnection => answer # "40102"
==============================================================================
