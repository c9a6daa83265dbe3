------------------------ MODULE TargetManagerFaults ------------------------
(***************************************************************************)
(* TargetManager on a backend whose calls may raise: a Redis that drops    *)
(* the connection, before it has done what it was asked or after.  Nothing *)
(* retries a call.  Where it was made decides what an error does: in       *)
(* acquire it ends the instance's only dispatcher for good; in a report it *)
(* sends the execution into the except branch that reports a failure; and  *)
(* in the report of an except branch, or in a cooldown task, it ends the   *)
(* task with the address in its hands.  Errors of a sweep are RedisPool's. *)
(***************************************************************************)
EXTENDS TargetManager, FiniteSets

CONSTANT MaxErrors      \* bound: how many calls fail

ASSUME ErrorAssumption == MaxErrors \in Nat

VARIABLES
    dead,       \* instances whose dispatcher has ended
    reported,   \* requests whose execution is past an error of its first report
    errors      \* calls that have failed

errorVars == <<dead, reported, errors>>
tmfVars == <<tmVars, errorVars>>

TMFInit ==
    /\ TMInit
    /\ dead = {}
    /\ reported = {}
    /\ errors = 0

CallFails ==
    /\ errors < MaxErrors
    /\ errors' = errors + 1

----------------------------------------------------------------------------
(* The dispatcher. *)

\* the call of acquire raises, with or without an address taken: nothing in
\* _dispatcher_worker catches it, and nobody resolves the request's future
AcquireError(i, r) ==
    /\ dispatching[i] = r
    /\ pc[r] = "waiting"
    /\ CallFails
    /\ (\E a \in Address : PopIp(a)) \/ UNCHANGED pool
    /\ pc' = [pc EXCEPT ![r] = "idle"]
    /\ dispatching' = [dispatching EXCEPT ![i] = None]
    /\ popLeft' = [popLeft EXCEPT ![i] = 0]
    /\ dead' = dead \cup {i}
    /\ UNCHANGED <<initKey, failures, quarantine, instanceVars, ip, count, cooldown,
                   sweepVars, sinceUse, queue, requestVars, reported>>

----------------------------------------------------------------------------
(* The execution. *)

\* the reports that are made inside the try: of a success, of a status that
\* is retried
InsideTry(kind) == kind \in {"ok", "retriable_status"}

\* what the call does to the failure counter, if it is done at all
Counts(r, kind) ==
    \/ UNCHANGED failures
    \/ IF kind = "ok" THEN ResetFailures(ip[r]) ELSE IncrementFailures(ip[r])

\* the execution ends with an exception of its own; the address is nowhere
Abandon(r) ==
    /\ pc' = [pc EXCEPT ![r] = "idle"]
    /\ ip' = [ip EXCEPT ![r] = None]
    /\ count' = [count EXCEPT ![r] = 0]
    /\ outcome' = [outcome EXCEPT ![r] = None]
    /\ reported' = reported \ {r}
    /\ UNCHANGED <<initKey, pool, instanceVars, cooldown, sweepVars, sinceUse, dispatchVars,
                   future, patience, failureCount, attempts, dead>>

\* variant: the retry is put in the queue before the failure is reported
TakenOverWithRetry(r) ==
    /\ pc' = [pc EXCEPT ![r] = "holding"]
    /\ count' = [count EXCEPT ![r] = 0]
    /\ outcome' = [outcome EXCEPT ![r] = None]
    /\ reported' = reported \cup {r}
    /\ queue' = [queue EXCEPT ![Home[r]] = Append(@, r)]
    /\ UNCHANGED <<initKey, pool, instanceVars, ip, cooldown, sweepVars, sinceUse, dispatching,
                   popLeft, future, patience, failureCount, attempts, dead>>

\* `except Exception' takes over and will report a failure
TakenOver(r) ==
    /\ pc' = [pc EXCEPT ![r] = "holding"]
    /\ count' = [count EXCEPT ![r] = 0]
    /\ outcome' = [outcome EXCEPT ![r] = None]
    /\ reported' = reported \cup {r}
    /\ UNCHANGED <<initKey, pool, instanceVars, ip, cooldown, sweepVars, sinceUse, dispatchVars,
                   future, patience, failureCount, attempts, dead>>

\* reset_failures or increment_failures raises
ReportError(r) ==
    /\ pc[r] = "holding"
    /\ CallFails
    /\ \E kind \in Outcome :
          /\ r \in reported => kind = "other_error"
          /\ Counts(r, kind)
          /\ IF InsideTry(kind) THEN TakenOver(r) ELSE Abandon(r)
    /\ UNCHANGED quarantine

\* quarantine_add raises
QuarantineError(r) ==
    /\ pc[r] = "failed"
    /\ count[r] >= IpFailuresUntilQuarantine
    /\ CallFails
    /\ QuarantineAdd(ip[r], QuarantineTime) \/ UNCHANGED quarantine
    /\ IF InsideTry(outcome[r]) THEN TakenOver(r) ELSE Abandon(r)
    /\ UNCHANGED failures

\* an execution past an error reports a failure, once more
ReportAgain(r) ==
    /\ r \in reported
    /\ Fail(r, "other_error")

----------------------------------------------------------------------------
\* push_ip raises in a cooldown task
ReturnError(i, a) ==
    /\ cooldown[i][a] = 0
    /\ CallFails
    /\ PushIp(a) \/ UNCHANGED pool
    /\ cooldown' = [cooldown EXCEPT ![i][a] = NoTask]
    /\ UNCHANGED <<initKey, failures, quarantine, instanceVars, callerVars, sweepVars,
                   sinceUse, dispatchVars, requestVars, dead, reported>>

----------------------------------------------------------------------------
\* what waits in the queue of an ended dispatcher is no work
TMFTick ==
    /\ \A i \in Instance :
          /\ ~(phase[i] = "running" /\ dispatching[i] = None /\ queue[i] # <<>>) \/ i \in dead
          /\ ~(dispatching[i] # None /\ popLeft[i] = 0)
    /\ \A r \in Request : ~(future[r] = "pending" /\ patience[r] = 0)
    /\ TimeMatters \/ \E r \in Request : patience[r] > 0
    /\ Elapses
    /\ UNCHANGED errorVars

InstanceTasks(i) == InstanceStep(i) /\ UNCHANGED <<dispatchVars, requestVars, errorVars>>

Dispatches(i) == i \notin dead /\ DispatcherStep(i) /\ UNCHANGED errorVars

Reports(r) ==
    /\ IF r \in reported THEN ReportAgain(r) ELSE Report(r)
    /\ UNCHANGED errorVars

Finishes(r) ==
    /\ FinishSuccess(r) \/ FinishFailure(r)
    /\ reported' = reported \ {r}
    /\ UNCHANGED <<dead, errors>>

\* bound: no Forget, a client sends one request
ClientStep(r) ==
    /\ Submit(r) \/ HandlerTimeout(r)
    /\ UNCHANGED errorVars

Error ==
    \/ \E i \in Instance, r \in Request : AcquireError(i, r)
    \/ \E r \in Request : ReportError(r) \/ QuarantineError(r)
    \/ \E i \in Instance, a \in Address : ReturnError(i, a)

TMFNext ==
    \/ \E i \in Instance : InstanceTasks(i) \/ Dispatches(i)
    \/ \E r \in Request : ClientStep(r) \/ Reports(r) \/ Finishes(r)
    \/ Error
    \/ TMFTick

TMFSpec == TMFInit /\ [][TMFNext]_tmfVars

(* Time passes, an instance's tasks and a request's run; no call has to     *)
(* fail.                                                                    *)
TMFFairness ==
    /\ WF_tmfVars(TMFTick)
    /\ \A i \in Instance :
          WF_tmfVars(InstanceTasks(i) \/ Dispatches(i))
    /\ \A r \in Request :
          WF_tmfVars((HandlerTimeout(r) /\ UNCHANGED errorVars) \/ Reports(r) \/ Finishes(r))

TMFFairSpec == TMFSpec /\ TMFFairness

----------------------------------------------------------------------------
(* Whichever calls fail, every client is answered, by the manager or by its *)
(* handler's timeout, and no execution goes on for ever: what an error      *)
(* leaves behind is at most a request in the queue of an ended dispatcher.  *)
RequestsAnswered ==
    \A r \in Request :
       future[r] = "pending" ~> /\ future[r] # "pending"
                                /\ Live(r) => Queued(r) /\ Home[r] \in dead

(* No error doubles a request: the second report of an execution and the    *)
(* retry it would have queued exclude each other, so there is never a       *)
(* second incarnation; and a client is left to its timeout only by an error.*)
NeverDoubled ==
    \A r \in Request :
       /\ future[r] = "pending" /\ ~Live(r) => errors > 0
       /\ \A m, n \in DOMAIN queue[Home[r]] :
             queue[Home[r]][m] = r /\ queue[Home[r]][n] = r => m = n
       /\ Queued(r) => ~Executing(r) /\ dispatching[Home[r]] # r
       /\ dispatching[Home[r]] = r => ~Executing(r)

(* A failed call costs the pool one address at the most, and puts one       *)
(* strike too many on an address at the most.                               *)
DamageBounded ==
    LET lost == {a \in Address :
                   ~(Unseeded(a) \/ InPool(a) \/ Leased(a) \/ Resting(a) \/ Listed(a)
                     \/ Claimed(a))}
    IN  /\ Cardinality(lost) <= errors
        /\ \A a \in Address : failures[a] <= IpFailuresUntilQuarantine + errors
=============================================================================
