------------------------------- MODULE IPPool -------------------------------
(***************************************************************************)
(* The rotation policy of one target (class IPPool), run by every instance *)
(* of the server against the storage they share.  An instance seeds the    *)
(* pool if it is the first to mark the target initialised, then serves     *)
(* callers (request executions, CONNECT handlers): a caller acquires an    *)
(* address, uses it, and reports success or failure.  The address comes    *)
(* back through a cooldown task, or through quarantine and the instances'  *)
(* sweep tasks once it has failed too often in a row.                      *)
(*                                                                         *)
(* A step ends at each call into the backend, which is where a coroutine   *)
(* of the Redis deployment suspends.  With the memory backend (a single    *)
(* instance) the calls do not suspend, so its runs are those in which such *)
(* steps follow each other immediately.                                    *)
(***************************************************************************)
EXTENDS IPPoolBackend

CONSTANTS
    Instance,           \* processes that serve the target from the same storage
    Caller,             \* coroutines that acquire addresses
    Home,               \* the instance each caller runs in
    IpList,             \* the configured addresses, in order
    None,               \* no address, as in the code
    IpFailuresUntilQuarantine,
    MinRequestInterval, \* cooldown after each use
    QuarantineTime

ASSUME IpListAssumption ==
    /\ IpList \in Seq(Address)
    /\ IpList # <<>>
    /\ \A m, n \in DOMAIN IpList : IpList[m] = IpList[n] => m = n
    /\ \A a \in Address : \E n \in DOMAIN IpList : IpList[n] = a
    /\ None \notin Address \cup Caller

ASSUME HomeAssumption == Home \in [Caller -> Instance]

ASSUME PolicyAssumption ==
    /\ IpFailuresUntilQuarantine \in Nat \ {0}
    /\ MinRequestInterval \in Nat
    /\ QuarantineTime \in Nat

VARIABLES
    phase,      \* of each instance: "new", "seeding", "running"
    nextSeed,   \* index in IpList of the next address an instance pushes
    pc,         \* where each caller is, see CallerState
    ip,         \* the address a caller was given, None when it has none
    count,      \* what increment_failures returned to a caller
    cooldown,   \* time left of the cooldown task an instance runs for an address
    claimed,    \* expired entries a sweep has taken out of quarantine, not yet pushed
    releasing,  \* the one of them whose failures the sweep has just reset
    sinceUse    \* history: time since the last use ended, up to MinRequestInterval

instanceVars == <<phase, nextSeed>>
callerVars == <<pc, ip, count>>
sweepVars == <<claimed, releasing>>
vars == <<backendVars, instanceVars, callerVars, cooldown, sweepVars, sinceUse>>

NoTask == -1

CallerState == {"idle", "waiting", "holding", "succeeded", "failed"}

TypeOK ==
    /\ BackendTypeOK
    /\ phase \in [Instance -> {"new", "seeding", "running"}]
    /\ nextSeed \in [Instance -> DOMAIN IpList]
    /\ pc \in [Caller -> CallerState]
    /\ ip \in [Caller -> Address \cup {None}]
    /\ count \in [Caller -> Nat]
    /\ cooldown \in [Instance -> [Address -> Nat \cup {NoTask}]]
    /\ claimed \in [Instance -> SUBSET Address]
    /\ releasing \in [Instance -> Address \cup {None}]
    /\ sinceUse \in [Address -> Nat]

Init ==
    /\ BackendInit
    /\ phase = [i \in Instance |-> "new"]
    /\ nextSeed = [i \in Instance |-> 1]
    /\ pc = [c \in Caller |-> "idle"]
    /\ ip = [c \in Caller |-> None]
    /\ count = [c \in Caller |-> 0]
    /\ cooldown = [i \in Instance |-> [a \in Address |-> NoTask]]
    /\ claimed = [i \in Instance |-> {}]
    /\ releasing = [i \in Instance |-> None]
    /\ sinceUse = [a \in Address |-> MinRequestInterval]

----------------------------------------------------------------------------
(* start: the first instance to mark the target pushes the whole list.  The *)
(* others start serving at once, also while it is still pushing.            *)

\* variant: SET in place of SETNX, every instance takes itself for the first
InitTargetUnchecked(i) ==
    /\ phase[i] = "new"
    /\ initKey' = "set"
    /\ phase' = [phase EXCEPT ![i] = "seeding"]
    /\ nextSeed' = [nextSeed EXCEPT ![i] = 1]
    /\ UNCHANGED <<pool, failures, quarantine, callerVars, cooldown, sweepVars, sinceUse>>

InitTarget(i) ==
    /\ phase[i] = "new"
    /\ initKey' = "set"
    /\ phase' = [phase EXCEPT ![i] = IF Initialised THEN "running" ELSE "seeding"]
    /\ nextSeed' = [nextSeed EXCEPT ![i] = 1]
    /\ UNCHANGED <<pool, failures, quarantine, callerVars, cooldown, sweepVars, sinceUse>>

Seed(i) ==
    /\ phase[i] = "seeding"
    /\ PushIp(IpList[nextSeed[i]])
    /\ IF nextSeed[i] = Len(IpList)
       THEN /\ phase' = [phase EXCEPT ![i] = "running"]
            /\ UNCHANGED nextSeed
       ELSE /\ nextSeed' = [nextSeed EXCEPT ![i] = @ + 1]
            /\ UNCHANGED phase
    /\ UNCHANGED <<initKey, failures, quarantine, callerVars, cooldown,
                   sweepVars, sinceUse>>

----------------------------------------------------------------------------
(* acquire: wait for an address until the timeout passes.  Which of several *)
(* waiting callers gets the next address is the storage's choice.           *)

Acquire(c) ==
    /\ pc[c] = "idle"
    /\ phase[Home[c]] = "running"
    /\ pc' = [pc EXCEPT ![c] = "waiting"]
    /\ UNCHANGED <<backendVars, instanceVars, ip, count, cooldown, sweepVars, sinceUse>>

Pop(c) ==
    /\ pc[c] = "waiting"
    /\ \E a \in Address :
          /\ PopIp(a)
          /\ ip' = [ip EXCEPT ![c] = a]
          /\ sinceUse' = [sinceUse EXCEPT ![a] = 0]
    /\ pc' = [pc EXCEPT ![c] = "holding"]
    /\ UNCHANGED <<initKey, failures, quarantine, instanceVars, count, cooldown, sweepVars>>

AcquireTimeout(c) ==
    /\ pc[c] = "waiting"
    /\ pc' = [pc EXCEPT ![c] = "idle"]
    /\ UNCHANGED <<backendVars, instanceVars, ip, count, cooldown, sweepVars, sinceUse>>

----------------------------------------------------------------------------
(* record_success and record_failure: one backend call, then the task that *)
(* brings the address back or the quarantine entry that keeps it out.      *)

\* variant: the task is not created
ReturnNever(c) ==
    /\ UNCHANGED cooldown
    /\ ip' = [ip EXCEPT ![c] = None]
    /\ pc' = [pc EXCEPT ![c] = "idle"]

\* variant: the task does not sleep
ReturnAtOnce(c) ==
    /\ cooldown' = [cooldown EXCEPT ![Home[c]][ip[c]] = 0]
    /\ ip' = [ip EXCEPT ![c] = None]
    /\ pc' = [pc EXCEPT ![c] = "idle"]

\* create_task(_return_after_cooldown(...)) in the caller's instance
ReturnLater(c) ==
    /\ cooldown' = [cooldown EXCEPT ![Home[c]][ip[c]] = MinRequestInterval]
    /\ ip' = [ip EXCEPT ![c] = None]
    /\ pc' = [pc EXCEPT ![c] = "idle"]

\* variant: failures add up over successes
RecordSuccessKeepsFailures(c) ==
    /\ pc[c] = "holding"
    /\ pc' = [pc EXCEPT ![c] = "succeeded"]
    /\ UNCHANGED <<backendVars, instanceVars, ip, count, cooldown, sweepVars, sinceUse>>

RecordSuccess(c) ==
    /\ pc[c] = "holding"
    /\ ResetFailures(ip[c])
    /\ pc' = [pc EXCEPT ![c] = "succeeded"]
    /\ UNCHANGED <<initKey, pool, quarantine, instanceVars, ip, count, cooldown,
                   sweepVars, sinceUse>>

RestAfterSuccess(c) ==
    /\ pc[c] = "succeeded"
    /\ ReturnLater(c)
    /\ UNCHANGED <<backendVars, instanceVars, count, sweepVars, sinceUse>>

RecordFailure(c) ==
    /\ pc[c] = "holding"
    /\ IncrementFailures(ip[c])
    /\ count' = [count EXCEPT ![c] = failures'[ip[c]]]
    /\ pc' = [pc EXCEPT ![c] = "failed"]
    /\ UNCHANGED <<initKey, pool, quarantine, instanceVars, ip, cooldown,
                   sweepVars, sinceUse>>

RestAfterFailure(c) ==
    /\ pc[c] = "failed"
    /\ count[c] < IpFailuresUntilQuarantine
    /\ ReturnLater(c)
    /\ count' = [count EXCEPT ![c] = 0]
    /\ UNCHANGED <<backendVars, instanceVars, sweepVars, sinceUse>>

QuarantineIp(c) ==
    /\ pc[c] = "failed"
    /\ count[c] >= IpFailuresUntilQuarantine
    /\ QuarantineAdd(ip[c], QuarantineTime)
    /\ pc' = [pc EXCEPT ![c] = "idle"]
    /\ ip' = [ip EXCEPT ![c] = None]
    /\ count' = [count EXCEPT ![c] = 0]
    /\ UNCHANGED <<initKey, pool, failures, instanceVars, cooldown, sweepVars, sinceUse>>

----------------------------------------------------------------------------
(* The tasks an instance runs in the background. *)

\* _return_after_cooldown, once its sleep is over
ReturnAfterCooldown(i, a) ==
    /\ cooldown[i][a] = 0
    /\ PushIp(a)
    /\ cooldown' = [cooldown EXCEPT ![i][a] = NoTask]
    /\ UNCHANGED <<initKey, failures, quarantine, instanceVars, callerVars,
                   sweepVars, sinceUse>>

\* _sweep_quarantine: claim what is due (an empty claim changes nothing)
SweepClaim(i) ==
    /\ phase[i] = "running"
    /\ claimed[i] = {}
    /\ \E claim \in SUBSET Address \ {{}} :
          /\ QuarantinePopExpired(claim)
          /\ claimed' = [claimed EXCEPT ![i] = claim]
    /\ UNCHANGED <<initKey, pool, failures, instanceVars, callerVars, cooldown,
                   releasing, sinceUse>>

\* ... then, for each claimed address, reset its failures and push it
SweepReset(i, a) ==
    /\ a \in claimed[i]
    /\ releasing[i] = None
    /\ ResetFailures(a)
    /\ releasing' = [releasing EXCEPT ![i] = a]
    /\ UNCHANGED <<initKey, pool, quarantine, instanceVars, callerVars, cooldown,
                   claimed, sinceUse>>

SweepPush(i) ==
    /\ releasing[i] # None
    /\ PushIp(releasing[i])
    /\ claimed' = [claimed EXCEPT ![i] = @ \ {releasing[i]}]
    /\ releasing' = [releasing EXCEPT ![i] = None]
    /\ UNCHANGED <<initKey, failures, quarantine, instanceVars, callerVars, cooldown,
                   sinceUse>>

----------------------------------------------------------------------------
(* Time passes for every sleeping task and every quarantine entry.  A task *)
(* whose sleep is over may still be late: the loop may be busy.            *)

InUse(a) == \E c \in Caller : pc[c] = "holding" /\ ip[c] = a

\* some countdown has not reached its end
TimeMatters ==
    \/ \E a \in Address : quarantine[a] > 0
    \/ \E i \in Instance, a \in Address : cooldown[i][a] > 0
    \/ \E a \in Address : ~InUse(a) /\ sinceUse[a] < MinRequestInterval

Elapse ==
    /\ QuarantineElapses
    /\ cooldown' = [i \in Instance |-> [a \in Address |-> Elapsed(cooldown[i][a])]]
    /\ sinceUse' = [a \in Address |->
                      IF InUse(a) \/ sinceUse[a] >= MinRequestInterval
                      THEN sinceUse[a] ELSE sinceUse[a] + 1]

Tick ==
    /\ TimeMatters
    /\ Elapse
    /\ UNCHANGED <<initKey, pool, failures, instanceVars, callerVars, sweepVars>>

----------------------------------------------------------------------------
InstanceStep(i) ==
    \/ InitTarget(i)
    \/ Seed(i)
    \/ SweepClaim(i)
    \/ SweepPush(i)
    \/ \E a \in Address : ReturnAfterCooldown(i, a) \/ SweepReset(i, a)

CallerStep(c) ==
    \/ Acquire(c)
    \/ Pop(c)
    \/ AcquireTimeout(c)
    \/ RecordSuccess(c)
    \/ RestAfterSuccess(c)
    \/ RecordFailure(c)
    \/ RestAfterFailure(c)
    \/ QuarantineIp(c)

Next ==
    \/ \E i \in Instance : InstanceStep(i)
    \/ \E c \in Caller : CallerStep(c)
    \/ Tick

Spec == Init /\ [][Next]_vars

(* The event loops keep running: time passes, a started pool finishes its   *)
(* seeding, the background tasks and a caller that has begun to report its  *)
(* outcome get their turn.  Nothing makes an instance start, or a caller    *)
(* acquire or report.                                                       *)
Fairness ==
    /\ WF_vars(Tick)
    /\ \A i \in Instance :
          /\ WF_vars(Seed(i))
          /\ WF_vars(SweepClaim(i))
          /\ WF_vars(SweepPush(i))
          /\ WF_vars(\E a \in Address : SweepReset(i, a))
          /\ \A a \in Address : WF_vars(ReturnAfterCooldown(i, a))
    /\ \A c \in Caller :
          WF_vars(RestAfterSuccess(c) \/ RestAfterFailure(c) \/ QuarantineIp(c))

FairSpec == Spec /\ Fairness

----------------------------------------------------------------------------
(* Where an address can be. *)

Unseeded(a) ==
    \/ ~Initialised
    \/ \E i \in Instance : /\ phase[i] = "seeding"
                           /\ \E n \in nextSeed[i] .. Len(IpList) : IpList[n] = a

InPool(a) == \E n \in DOMAIN pool : pool[n] = a

Holds(c, a) == pc[c] \in {"holding", "succeeded", "failed"} /\ ip[c] = a
Leased(a) == \E c \in Caller : Holds(c, a)

Cooling(i, a) == cooldown[i][a] # NoTask
Resting(a) == \E i \in Instance : Cooling(i, a)

Listed(a) == quarantine[a] # NoEntry

Claimed(a) == \E i \in Instance : a \in claimed[i]

----------------------------------------------------------------------------
\* nothing holds an address twice
NoDuplicates ==
    /\ \A m, n \in DOMAIN pool : pool[m] = pool[n] => m = n
    /\ \A a \in Address :
          /\ \A c, d \in Caller : Holds(c, a) /\ Holds(d, a) => c = d
          /\ \A i, j \in Instance : Cooling(i, a) /\ Cooling(j, a) => i = j
          /\ \A i, j \in Instance : a \in claimed[i] /\ a \in claimed[j] => i = j

\* no two kinds of places have the same address
OnePlace(a) ==
    /\ InPool(a) => ~(Leased(a) \/ Resting(a) \/ Listed(a) \/ Claimed(a) \/ Unseeded(a))
    /\ Leased(a) => ~(Resting(a) \/ Listed(a) \/ Claimed(a) \/ Unseeded(a))
    /\ Resting(a) => ~(Listed(a) \/ Claimed(a) \/ Unseeded(a))
    /\ Listed(a) => ~(Claimed(a) \/ Unseeded(a))
    /\ Claimed(a) => ~Unseeded(a)

(* Each address is in one place at most: twice in the queue, two callers,   *)
(* two cooldown tasks, two sweeps, or any two of queue, caller, cooldown,   *)
(* quarantine, sweep and the rest of the seeding never have it at once.     *)
(* This is what "issued to exactly one request at a time" rests on, since   *)
(* a second copy would be handed to a second caller.                        *)
OneHolder == NoDuplicates /\ \A a \in Address : OnePlace(a)

(* While no instance stops, no address falls out of the rotation: every     *)
(* path through record_success, record_failure and the sweep keeps it       *)
(* somewhere from which it comes back.                                      *)
NoneLost ==
    \A a \in Address :
       Unseeded(a) \/ InPool(a) \/ Leased(a) \/ Resting(a) \/ Listed(a) \/ Claimed(a)

(* The failure counter tells the truth about the rotation: an address that  *)
(* can be issued or rests has fewer failures than the threshold, and one in *)
(* quarantine has exactly the threshold -- no failure is counted twice, and *)
(* none survives the release.                                               *)
StrikesAgree ==
    \A a \in Address :
       /\ Unseeded(a) => failures[a] = 0
       /\ InPool(a) \/ Resting(a) => failures[a] < IpFailuresUntilQuarantine
       /\ Listed(a) => failures[a] = IpFailuresUntilQuarantine

(* An address waiting in the queue has been out of use for at least         *)
(* minRequestInterval, whichever way it came back (config.py, 38: "After    *)
(* each request (success or failure) an IP is held off the pool for         *)
(* minRequestInterval seconds").  It needs quarantine_time >=               *)
(* min_request_interval, because the sweep pushes without a cooldown.       *)
RateLimited ==
    \A a \in Address : InPool(a) => sinceUse[a] >= MinRequestInterval

(* Once its holder starts to report the outcome, an address is available    *)
(* again sooner or later, whatever the outcome was and whatever the other   *)
(* instances do; and from the first start on every address is seeded.       *)
ComesBack ==
    \A a \in Address : (Initialised /\ ~InUse(a)) ~> InPool(a)
=============================================================================
