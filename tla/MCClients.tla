------------------------------ MODULE MCClients ------------------------------
EXTENDS Clients

Alike == Permutations(Clients)

\* A run goes no further where a client has lost an event.
NobodyLags == \A c \in Clients : ~client[c].lagged
=============================================================================
