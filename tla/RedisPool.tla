------------------------------ MODULE RedisPool ------------------------------
(***************************************************************************)
(* IPPool on the Redis backend, whose calls are not all one command, with  *)
(* what a deployment of several instances goes through: init_target is     *)
(* SETNX and then EXPIRE; quarantine_pop_expired reads the due entries     *)
(* (ZRANGEBYSCORE) and removes them one by one (ZREM); instances stop or   *)
(* die and are started again; the init key expires; a command fails.       *)
(***************************************************************************)
EXTENDS IPPoolRotation

CONSTANTS
    MaxFaults       \* bound: how often an instance stops or dies, or a sweep's
                    \* command fails

ASSUME FaultAssumption == MaxFaults \in Nat

VARIABLES
    unarmed,        \* instances between SETNX and EXPIRE
    keyTtl,         \* whether the init key has an expiry: "none", "armed"
    candidates,     \* what a sweep has read and not yet tried to remove
    sweeping,       \* instances whose sweep task is alive
    faults          \* stops, deaths and failed commands so far

redisVars == <<unarmed, keyTtl, candidates, sweeping>>
rpVars == <<vars, redisVars, faults>>

RPTypeOK ==
    /\ TypeOK
    /\ unarmed \subseteq Instance
    /\ keyTtl \in {"none", "armed"}
    /\ candidates \in [Instance -> SUBSET Address]
    /\ sweeping \subseteq Instance
    /\ faults \in 0 .. MaxFaults

RPInit ==
    /\ Init
    /\ unarmed = {}
    /\ keyTtl = "none"
    /\ candidates = [i \in Instance |-> {}]
    /\ sweeping = {}
    /\ faults = 0

----------------------------------------------------------------------------
(* start *)

SetNx(i) ==
    /\ InitTarget(i)
    /\ IF Initialised
       THEN /\ sweeping' = sweeping \cup {i}
            /\ UNCHANGED unarmed
       ELSE /\ unarmed' = unarmed \cup {i}
            /\ UNCHANGED sweeping
    /\ UNCHANGED <<keyTtl, candidates, faults>>

Expire(i) ==
    /\ i \in unarmed
    /\ unarmed' = unarmed \ {i}
    /\ keyTtl' = "armed"
    /\ UNCHANGED <<vars, candidates, sweeping, faults>>

SeedPush(i) ==
    /\ i \notin unarmed
    /\ Seed(i)
    /\ sweeping' = IF phase'[i] = "running" THEN sweeping \cup {i} ELSE sweeping
    /\ UNCHANGED <<unarmed, keyTtl, candidates, faults>>

\* 24 hours after EXPIRE, long after the seeding; nothing renews it
InitKeyExpires ==
    /\ \A i \in Instance : phase[i] # "seeding"
    /\ keyTtl = "armed"
    /\ initKey' = "absent"
    /\ keyTtl' = "none"
    /\ UNCHANGED <<pool, failures, quarantine, instanceVars, callerVars, cooldown,
                   sweepVars, sinceUse, unarmed, candidates, sweeping, faults>>

----------------------------------------------------------------------------
(* quarantine_pop_expired, then the loop over what it claimed *)

SweepRead(i) ==
    /\ i \in sweeping
    /\ candidates[i] = {} /\ claimed[i] = {}
    /\ Expired # {}
    /\ candidates' = [candidates EXCEPT ![i] = Expired]
    /\ UNCHANGED <<vars, unarmed, keyTtl, sweeping, faults>>

\* variant: the answer of ZREM is not looked at
SweepRemoveUnchecked(i, a) ==
    /\ i \in sweeping
    /\ a \in candidates[i]
    /\ candidates' = [candidates EXCEPT ![i] = @ \ {a}]
    /\ QuarantineRemove({a})
    /\ claimed' = [claimed EXCEPT ![i] = @ \cup {a}]
    /\ UNCHANGED <<initKey, pool, failures, instanceVars, callerVars, cooldown,
                   releasing, sinceUse, unarmed, keyTtl, sweeping, faults>>

\* ZREM answers 0 for an entry that is gone; it does not look at the score
SweepRemove(i, a) ==
    /\ i \in sweeping
    /\ a \in candidates[i]
    /\ candidates' = [candidates EXCEPT ![i] = @ \ {a}]
    /\ QuarantineRemove({a})
    /\ claimed' = [claimed EXCEPT ![i] = IF Listed(a) THEN @ \cup {a} ELSE @]
    /\ UNCHANGED <<initKey, pool, failures, instanceVars, callerVars, cooldown,
                   releasing, sinceUse, unarmed, keyTtl, sweeping, faults>>

SweepReturn(i) ==
    /\ i \in sweeping
    /\ candidates[i] = {}
    /\ SweepPush(i) \/ \E a \in Address : SweepReset(i, a)
    /\ UNCHANGED <<redisVars, faults>>

\* a command of the sweep raises: nothing catches it, the task is over, and
\* with it what it had claimed
SweepError(i) ==
    /\ i \in sweeping
    /\ faults < MaxFaults
    /\ faults' = faults + 1
    /\ sweeping' = sweeping \ {i}
    /\ candidates' = [candidates EXCEPT ![i] = {}]
    /\ claimed' = [claimed EXCEPT ![i] = {}]
    /\ releasing' = [releasing EXCEPT ![i] = None]
    /\ UNCHANGED <<backendVars, instanceVars, callerVars, cooldown, sinceUse,
                   unarmed, keyTtl>>

----------------------------------------------------------------------------
(* An instance stops or dies: its tasks are gone, and with them every       *)
(* address they had in their hands.  Neither stop() nor the next start()    *)
(* gives one back.  It may be started again.                                *)

Stop(i) ==
    /\ phase[i] # "new"
    /\ faults < MaxFaults
    /\ faults' = faults + 1
    /\ phase' = [phase EXCEPT ![i] = "new"]
    /\ pc' = [c \in Caller |-> IF Home[c] = i THEN "idle" ELSE pc[c]]
    /\ ip' = [c \in Caller |-> IF Home[c] = i THEN None ELSE ip[c]]
    /\ count' = [c \in Caller |-> IF Home[c] = i THEN 0 ELSE count[c]]
    /\ cooldown' = [cooldown EXCEPT ![i] = [a \in Address |-> NoTask]]
    /\ claimed' = [claimed EXCEPT ![i] = {}]
    /\ releasing' = [releasing EXCEPT ![i] = None]
    /\ candidates' = [candidates EXCEPT ![i] = {}]
    /\ unarmed' = unarmed \ {i}
    /\ sweeping' = sweeping \ {i}
    /\ UNCHANGED <<backendVars, nextSeed, sinceUse, keyTtl>>

----------------------------------------------------------------------------
PoolUse ==
    /\ \/ \E c \in Caller : CallerStep(c)
       \/ \E i \in Instance, a \in Address : ReturnAfterCooldown(i, a)
       \/ Tick
    /\ UNCHANGED <<redisVars, faults>>

Start(i) == SetNx(i) \/ Expire(i) \/ SeedPush(i)

Sweep(i) ==
    \/ SweepRead(i)
    \/ \E a \in Address : SweepRemove(i, a)
    \/ SweepReturn(i)

RPNext ==
    \/ PoolUse
    \/ \E i \in Instance : Start(i) \/ Sweep(i) \/ SweepError(i) \/ Stop(i)

RPSpec == RPInit /\ [][RPNext]_rpVars

\* a deployment that runs for more than a day
ExpirySpec == RPInit /\ [][RPNext \/ InitKeyExpires]_rpVars

(* The tasks of a running instance get their turn; nothing makes a caller   *)
(* use the pool, and nothing makes an instance start.                       *)
RPFairness ==
    /\ WF_rpVars(Tick /\ UNCHANGED <<redisVars, faults>>)
    /\ \A i \in Instance :
          /\ WF_rpVars(Expire(i) \/ SeedPush(i))
          /\ WF_rpVars(Sweep(i))
          /\ \A a \in Address :
                WF_rpVars(ReturnAfterCooldown(i, a) /\ UNCHANGED <<redisVars, faults>>)
    /\ \A c \in Caller :
          WF_rpVars(/\ RestAfterSuccess(c) \/ RestAfterFailure(c) \/ QuarantineIp(c)
                    /\ UNCHANGED <<redisVars, faults>>)

RPFairSpec == RPSpec /\ RPFairness

----------------------------------------------------------------------------
InRotation(a) == InPool(a) \/ Leased(a) \/ Resting(a) \/ Listed(a) \/ Claimed(a)

\* pushed once, or skipped by a seeding that was cut short, and now nowhere
Gone(a) == ~Unseeded(a) /\ ~InRotation(a)

Lossy == INSTANCE LossyRotation WITH
    NoHolder <- None,
    StrikeLimit <- IpFailuresUntilQuarantine,
    status <- [a \in Address |-> IF Gone(a) THEN "gone" ELSE absStatus[a]],
    holder <- absHolder,
    strikes <- [a \in Address |-> IF Gone(a) THEN 0 ELSE absStrikes[a]]

(* With instances that stop in the middle of a seeding, a use, a cooldown   *)
(* or a sweep, and start again, the pool is still one rotation in which     *)
(* addresses may get lost: no restart issues an address a second time,      *)
(* brings a lost one back, or clears a strike that counts.                  *)
ImplementsLossyRotation == Lossy!LossySpec

(* An address nobody uses is available again sooner or later, or it was     *)
(* lost with a process, or no sweep task is left to release anything.       *)
ComesBackOrLost ==
    \A a \in Address :
       (Initialised /\ ~InUse(a)) ~> (InPool(a) \/ Gone(a) \/ sweeping = {})

(* An entry leaves quarantine when its release time has come, and not       *)
(* before: quarantine_pop_expired claims "all quarantine entries whose      *)
(* release time <= now" (backend/base.py, 108).  ZREM takes an entry that   *)
(* was released, used, and listed again since the sweep read it.            *)
QuarantineServed ==
    [][\A a \in Address : Listed(a) /\ ~Listed(a)' => quarantine[a] = 0]_rpVars

(* The pool's state outlives processes (the Redis backend's README, 10) up  *)
(* to what a process has in its hands when it goes: an address leaves the   *)
(* rotation in no step but the end of an instance or of a sweep task, and   *)
(* then only if that one was using, resting or releasing it.                *)
LostOnlyWithHolder ==
    [][\A a \in Address :
         InRotation(a) /\ ~InRotation(a)' =>
            \E i \in Instance :
               \/ /\ phase[i] # "new" /\ phase'[i] = "new"
                  /\ \/ Cooling(i, a)
                     \/ a \in claimed[i]
                     \/ \E c \in Caller : Home[c] = i /\ Holds(c, a)
               \/ i \in sweeping /\ i \notin sweeping' /\ a \in claimed[i]]_rpVars

(* "Each external proxy IP is issued to exactly one request at a time,      *)
(* across all instances" (the Redis backend's README, 11).  Once the init   *)
(* key has expired, an instance that starts pushes the list again.          *)
IssuedOnce ==
    \A c, d \in Caller :
       pc[c] = "holding" /\ pc[d] = "holding" /\ ip[c] = ip[d] => c = d
=============================================================================
