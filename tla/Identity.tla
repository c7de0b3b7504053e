------------------------------ MODULE Identity ------------------------------
\* auth: the identity an operation is stamped with, from the identity of the connection
\* or request and the clientId the operation asserts.

EXTENDS Capability

Anonymous == ""
Rejected == "rejected"

\* MessageClientID: messages, annotations, mutations.
MessageClientID(connClientId, asserted) ==
    CASE connClientId = Anonymous -> IF asserted = Anonymous THEN Anonymous ELSE Rejected
      [] connClientId = Wild -> IF asserted = Wild THEN Rejected ELSE asserted
      [] OTHER -> IF asserted \in {Anonymous, connClientId} THEN connClientId ELSE Rejected

\* resolvePresenceClientID.
PresenceClientID(connClientId, asserted) ==
    CASE connClientId = Anonymous -> Rejected
      [] connClientId = Wild -> IF asserted \in {Anonymous, Wild} THEN Rejected ELSE asserted
      [] OTHER -> IF asserted \in {Anonymous, connClientId} THEN connClientId ELSE Rejected
=============================================================================
