---------------------------- MODULE MCProxyServer ----------------------------
(* Small instances of ProxyServer for TLC. *)
EXTENDS ProxyServer, FiniteSets

CONSTANTS i1, r1, r2, t1, a1, a2

OneInstance == [c \in Caller |-> i1]

ListOfTwo == <<a1, a2>>

\* MemoryIPPoolBackend: the timeout it is asked for
MemoryBudget == [t \in 0 .. MaxQueueWait |-> t]

\* bound: how many clients are served at a time
MaxClients == 2
Served == {r \in Request : future[r] # "none"} \cup {t \in Tunnel : stage[t] # "none"}

MCNext == PSNext /\ Cardinality(Served') <= MaxClients

\* only Submit and Connect meet the bound, and fairness asks for neither
MCSpec == PSInit /\ [][MCNext]_psVars /\ PSFairness
=============================================================================
