----------------------------- MODULE MCServerClients ----------------------------
\* Small instances of ServerClients.
EXTENDS ServerClients, TLC

Symmetric == Permutations(Conns)
================================================================================
