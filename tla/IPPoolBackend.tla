--------------------------- MODULE IPPoolBackend ---------------------------
(***************************************************************************)
(* The storage behind the pool of ONE target: what an IPPoolBackend keeps  *)
(* and what each of its primitives does to it.  The memory backend keeps   *)
(* it in a queue and two dicts of one process; the Redis backend keeps it  *)
(* in a list, a counter per address and a sorted set that every instance   *)
(* of the server shares.  Each primitive is one step here: a method of the *)
(* memory backend that does not suspend, one Redis command.                *)
(*                                                                         *)
(* Wall-clock release times are kept as the time that is left until then,  *)
(* so that the state space stays finite: `release_at <= now' is a          *)
(* countdown that has reached 0.                                           *)
(***************************************************************************)
EXTENDS Integers, Sequences

CONSTANT Address    \* the "host:port" strings of the target's external proxies

VARIABLES
    initKey,        \* "set" once the target is marked initialised, else "absent"
    pool,           \* the queue of addresses ready to be issued
    failures,       \* consecutive failures of each address, 0 when absent
    quarantine      \* time left before each entry is due, NoEntry when absent

backendVars == <<initKey, pool, failures, quarantine>>

NoEntry == -1

Initialised == initKey = "set"

BackendTypeOK ==
    /\ initKey \in {"absent", "set"}
    /\ pool \in Seq(Address)
    /\ failures \in [Address -> Nat]
    /\ quarantine \in [Address -> Nat \cup {NoEntry}]

BackendInit ==
    /\ initKey = "absent"
    /\ pool = <<>>
    /\ failures = [a \in Address |-> 0]
    /\ quarantine = [a \in Address |-> NoEntry]

----------------------------------------------------------------------------
(* The primitives.  Each constrains only the variable it writes. *)

\* put at the tail: Queue.put, RPUSH
PushIp(a) == pool' = Append(pool, a)

\* take the head, once there is one: Queue.get, BLPOP
PopIp(a) ==
    /\ pool # <<>>
    /\ a = Head(pool)
    /\ pool' = Tail(pool)

\* variant: the counter runs backwards
DecrementFailures(a) == failures' = [failures EXCEPT ![a] = @ - 1]

IncrementFailures(a) == failures' = [failures EXCEPT ![a] = @ + 1]

\* variant: the counter is never reset
KeepFailures(a) == UNCHANGED failures

ResetFailures(a) == failures' = [failures EXCEPT ![a] = 0]

\* an address already listed gets the new release time, as in a dict or a ZSET
QuarantineAdd(a, delay) == quarantine' = [quarantine EXCEPT ![a] = delay]

\* variant: the comparison with the release time the wrong way round
NotYetExpired == {a \in Address : quarantine[a] > 0}

\* the entries whose release time has come
Expired == {a \in Address : quarantine[a] = 0}

\* variant: the entries are returned but not deleted
QuarantineKeep(claim) == UNCHANGED quarantine

QuarantineRemove(claim) ==
    quarantine' = [a \in Address |-> IF a \in claim THEN NoEntry ELSE quarantine[a]]

\* claim everything that is due, in one atomic step
QuarantinePopExpired(claim) ==
    /\ claim = Expired
    /\ QuarantineRemove(claim)

----------------------------------------------------------------------------
(* Time. *)

\* a countdown after one more unit of time; 0 and the absent mark stay
Elapsed(t) == IF t > 0 THEN t - 1 ELSE t

QuarantineElapses ==
    quarantine' = [a \in Address |-> Elapsed(quarantine[a])]
=============================================================================
