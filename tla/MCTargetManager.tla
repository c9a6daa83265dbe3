--------------------------- MODULE MCTargetManager ---------------------------
(* Small instances of TargetManager for TLC. *)
EXTENDS TargetManager

CONSTANTS i1, r1, r2, a1, a2

OneInstance == [r \in {r1, r2} |-> i1]

ListOfOne == <<a1>>
ListOfTwo == <<a1, a2>>

\* MemoryIPPoolBackend: the timeout it is asked for
MemoryBudget == [t \in 0 .. MaxQueueWait |-> t]

\* RedisIPPoolBackend, in half seconds: max(1, int(timeout)) seconds
RedisBudget == [t \in 0 .. MaxQueueWait |-> IF t < 2 THEN 2 ELSE 2 * (t \div 2)]
=============================================================================
