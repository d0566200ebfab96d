--------------------- MODULE MCThreadEventStreamRegistry ---------------------
(* A small instance of the registry: three streams of one thread.          *)
EXTENDS ThreadEventStreamRegistry

CONSTANTS c1, c2, c3, t1

MCClients == {c1, c2, c3}
MCThreads == {t1}
MCThreadOf == [c \in MCClients |-> t1]
=============================================================================
