---------------------------- MODULE MCMessageQueue -----------------------------
\* Small instances of MessageQueue: one callback thread per endpoint.
EXTENDS MessageQueue, TLC

CONSTANTS t1, t2, e1, e2

MCEndpointOf == (t1 :> e1) @@ (t2 :> e2)
================================================================================
