-------------------------- MODULE MCWorkerRegistry --------------------------
EXTENDS WorkerRegistry

Lag == [h \in Hosts |-> 1]
=============================================================================
