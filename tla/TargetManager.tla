---------------------------- MODULE TargetManager ----------------------------
(***************************************************************************)
(* The requests of one target: class TargetManager with the part of        *)
(* ProxyServer._handle_http that submits a request and waits for its       *)
(* future.  Each instance has a FIFO of pending requests and ONE           *)
(* dispatcher, which takes the head, waits for an address and starts an    *)
(* execution; executions run concurrently, report to the pool, and resolve *)
(* the request's future or put a retry at the tail of the queue.           *)
(*                                                                         *)
(* A request is a Caller of IPPool: the dispatcher acquires for it, its    *)
(* execution reports for it.  Time is in ticks; the clocks a request is    *)
(* measured with are one countdown, which starts at MaxQueueWait + Grace,  *)
(* passes the deadline at Grace and the patience of the handler at 0.      *)
(***************************************************************************)
EXTENDS IPPool

CONSTANTS
    Request,        \* the callers that are HTTP requests
    MaxQueueWait,
    Grace,          \* what the handler waits beyond the deadline (5 s)
    NumRetries,
    PopBudget       \* how long pop_ip blocks when asked for a given timeout

ASSUME RequestAssumption ==
    /\ Request \subseteq Caller
    /\ MaxQueueWait \in Nat \ {0}
    /\ Grace \in Nat \ {0}
    /\ NumRetries \in Nat
    /\ PopBudget \in [0 .. MaxQueueWait -> Nat]

VARIABLES
    queue,          \* of each instance: the pending requests, oldest first
    dispatching,    \* the request its dispatcher acquires for, None when idle
    popLeft,        \* time left before that acquire gives up
    future,         \* of each request: state of its future
    patience,       \* time left before the handler stops waiting for it
    failureCount,   \* failure_count of the request's current incarnation
    outcome,        \* how its execution ended, while that is being reported
    attempts        \* history: executions started for the request

requestVars == <<future, patience, failureCount, outcome, attempts>>
dispatchVars == <<queue, dispatching, popLeft>>
tmVars == <<vars, dispatchVars, requestVars>>

\* "none": no such request; otherwise the client's answer once not "pending"
FutureState == {"none", "pending", "result", "exception", "timeout", "cancelled"}

\* a response, one with a status in _RETRIABLE_STATUSES, aiohttp.ClientError,
\* any other exception (the total timeout of the session among them)
Outcome == {"ok", "retriable_status", "client_error", "other_error"}

TMTypeOK ==
    /\ TypeOK
    /\ queue \in [Instance -> Seq(Request)]
    /\ dispatching \in [Instance -> Request \cup {None}]
    /\ popLeft \in [Instance -> Nat]
    /\ future \in [Request -> FutureState]
    /\ patience \in [Request -> 0 .. MaxQueueWait + Grace]
    /\ failureCount \in [Request -> 0 .. NumRetries]
    /\ outcome \in [Request -> Outcome \cup {None}]
    /\ attempts \in [Request -> Nat]

TMInit ==
    /\ Init
    /\ queue = [i \in Instance |-> <<>>]
    /\ dispatching = [i \in Instance |-> None]
    /\ popLeft = [i \in Instance |-> 0]
    /\ future = [r \in Request |-> "none"]
    /\ patience = [r \in Request |-> 0]
    /\ failureCount = [r \in Request |-> 0]
    /\ outcome = [r \in Request |-> None]
    /\ attempts = [r \in Request |-> 0]

----------------------------------------------------------------------------
\* variant: the dispatcher does not look at the deadline
NeverExpired(r) == FALSE

IsExpired(r) == patience[r] <= Grace
\* variant: every acquire may take max_queue_wait
FullWait(r) == MaxQueueWait

TimeRemaining(r) == IF patience[r] > Grace THEN patience[r] - Grace ELSE 0
\* variant: one retry too many
CanRetryOnceMore(r) == failureCount[r] <= NumRetries

CanRetry(r) == failureCount[r] < NumRetries

\* if not future.done(): set_result / set_exception
Resolve(r, value) ==
    future' = IF future[r] = "pending" THEN [future EXCEPT ![r] = value] ELSE future

Queued(r) == \E n \in DOMAIN queue[Home[r]] : queue[Home[r]][n] = r
Executing(r) == pc[r] \in {"holding", "succeeded", "failed"}

\* some incarnation of the request is still in the hands of the manager
Live(r) == Queued(r) \/ dispatching[Home[r]] = r \/ Executing(r)

----------------------------------------------------------------------------
(* The handler: submit with a new future, and give up in the end.           *)

Submit(r) ==
    /\ phase[Home[r]] = "running"
    /\ future[r] = "none"
    /\ future' = [future EXCEPT ![r] = "pending"]
    /\ patience' = [patience EXCEPT ![r] = MaxQueueWait + Grace]
    /\ queue' = [queue EXCEPT ![Home[r]] = Append(@, r)]
    /\ UNCHANGED <<vars, dispatching, popLeft, failureCount, outcome, attempts>>

\* variant: the handler waits on for a request the manager has lost
HandlerTimeoutWhileLive(r) ==
    /\ future[r] = "pending"
    /\ patience[r] = 0
    /\ Live(r)
    /\ future' = [future EXCEPT ![r] = "cancelled"]
    /\ UNCHANGED <<vars, dispatchVars, patience, failureCount, outcome, attempts>>

\* wait_for(future, max_queue_wait + 5) times out and cancels the future: 504
HandlerTimeout(r) ==
    /\ future[r] = "pending"
    /\ patience[r] = 0
    /\ future' = [future EXCEPT ![r] = "cancelled"]
    /\ UNCHANGED <<vars, dispatchVars, patience, failureCount, outcome, attempts>>

\* an answered request with nothing left running makes room for a new one
Forget(r) ==
    /\ future[r] \notin {"none", "pending"}
    /\ ~Live(r)
    /\ future' = [future EXCEPT ![r] = "none"]
    /\ patience' = [patience EXCEPT ![r] = 0]
    /\ failureCount' = [failureCount EXCEPT ![r] = 0]
    /\ attempts' = [attempts EXCEPT ![r] = 0]
    /\ UNCHANGED <<vars, dispatchVars, outcome>>

----------------------------------------------------------------------------
(* The dispatcher. *)

\* variant: the request stays at the head
PeekHead(i, r) ==
    /\ phase[i] = "running"
    /\ dispatching[i] = None
    /\ queue[i] # <<>>
    /\ r = Head(queue[i])
    /\ UNCHANGED queue

TakeHead(i, r) ==
    /\ phase[i] = "running"
    /\ dispatching[i] = None
    /\ queue[i] # <<>>
    /\ r = Head(queue[i])
    /\ queue' = [queue EXCEPT ![i] = Tail(@)]

DropExpired(i, r) ==
    /\ TakeHead(i, r)
    /\ IsExpired(r)
    /\ Resolve(r, "timeout")
    /\ UNCHANGED <<vars, dispatching, popLeft, patience, failureCount, outcome,
                   attempts>>

StartAcquire(i, r) ==
    /\ TakeHead(i, r)
    /\ ~IsExpired(r)
    /\ Acquire(r)
    /\ dispatching' = [dispatching EXCEPT ![i] = r]
    /\ popLeft' = [popLeft EXCEPT ![i] = PopBudget[TimeRemaining(r)]]
    /\ UNCHANGED requestVars

\* the address came: start the execution and go on with the queue
Dispatch(i, r) ==
    /\ dispatching[i] = r
    /\ Pop(r)
    /\ dispatching' = [dispatching EXCEPT ![i] = None]
    /\ popLeft' = [popLeft EXCEPT ![i] = 0]
    /\ attempts' = [attempts EXCEPT ![r] = @ + 1]
    /\ UNCHANGED <<queue, future, patience, failureCount, outcome>>

\* no address came in time
DropNoIp(i, r) ==
    /\ dispatching[i] = r
    /\ popLeft[i] = 0
    /\ AcquireTimeout(r)
    /\ Resolve(r, "timeout")
    /\ dispatching' = [dispatching EXCEPT ![i] = None]
    /\ UNCHANGED <<queue, popLeft, patience, failureCount, outcome, attempts>>

----------------------------------------------------------------------------
(* The execution: an answer or an error from the external proxy, its report *)
(* to the pool, and then the future or a retry.                             *)

Succeed(r) ==
    /\ RecordSuccess(r)
    /\ outcome' = [outcome EXCEPT ![r] = "ok"]
    /\ UNCHANGED <<dispatchVars, future, patience, failureCount, attempts>>

Fail(r, kind) ==
    /\ RecordFailure(r)
    /\ outcome' = [outcome EXCEPT ![r] = kind]
    /\ UNCHANGED <<dispatchVars, future, patience, failureCount, attempts>>

Finished(r) ==
    /\ outcome' = [outcome EXCEPT ![r] = None]
    /\ UNCHANGED <<dispatching, popLeft, patience, attempts>>

\* variant: the clone starts counting anew
RetryUncounted(r) ==
    /\ queue' = [queue EXCEPT ![Home[r]] = Append(@, r)]
    /\ UNCHANGED <<future, failureCount>>

\* clone_for_retry keeps the future and the arrival time, and so the deadline
Retry(r) ==
    /\ queue' = [queue EXCEPT ![Home[r]] = Append(@, r)]
    /\ failureCount' = [failureCount EXCEPT ![r] = @ + 1]
    /\ UNCHANGED future

\* variant: the last failure is not passed on
GiveUpSilently(r) == UNCHANGED <<future, queue, failureCount>>

GiveUp(r) ==
    /\ Resolve(r, IF outcome[r] = "retriable_status" THEN "result" ELSE "exception")
    /\ UNCHANGED <<queue, failureCount>>

FinishSuccess(r) ==
    /\ RestAfterSuccess(r)
    /\ Resolve(r, "result")
    /\ Finished(r)
    /\ UNCHANGED <<queue, failureCount>>

FinishFailure(r) ==
    /\ RestAfterFailure(r) \/ QuarantineIp(r)
    /\ IF CanRetry(r) /\ outcome[r] # "other_error" THEN Retry(r) ELSE GiveUp(r)
    /\ Finished(r)

----------------------------------------------------------------------------
(* Time.  A loop that has work ready, or a timer that is due, runs before   *)
(* the next tick: a dispatcher with a request to take, a pop whose timeout  *)
(* has passed, a handler whose patience has.                                *)

LoopsIdle ==
    /\ \A i \in Instance :
          /\ ~(phase[i] = "running" /\ dispatching[i] = None /\ queue[i] # <<>>)
          /\ ~(dispatching[i] # None /\ popLeft[i] = 0)
    /\ \A r \in Request : ~(future[r] = "pending" /\ patience[r] = 0)

\* one tick for the pool and for the clocks of requests and pops
Elapses ==
    /\ Elapse
    /\ patience' = [r \in Request |-> Elapsed(patience[r])]
    /\ popLeft' = [i \in Instance |-> Elapsed(popLeft[i])]
    /\ UNCHANGED <<initKey, pool, failures, instanceVars, callerVars, sweepVars,
                   queue, dispatching, future, failureCount, outcome, attempts>>

TMTick ==
    /\ LoopsIdle
    /\ TimeMatters \/ \E r \in Request : patience[r] > 0
    /\ Elapses

----------------------------------------------------------------------------
PoolStep == \E i \in Instance : InstanceStep(i) /\ UNCHANGED <<dispatchVars, requestVars>>

DispatcherStep(i) ==
    \E r \in Request : \/ DropExpired(i, r)
                       \/ StartAcquire(i, r)
                       \/ Dispatch(i, r)
                       \/ DropNoIp(i, r)

Report(r) ==
    \/ Succeed(r)
    \/ \E kind \in Outcome \ {"ok"} : Fail(r, kind)

RequestStep(r) ==
    \/ Submit(r)
    \/ HandlerTimeout(r)
    \/ Forget(r)
    \/ Report(r)
    \/ FinishSuccess(r)
    \/ FinishFailure(r)

TMNext ==
    \/ PoolStep
    \/ \E i \in Instance : DispatcherStep(i)
    \/ \E r \in Request : RequestStep(r)
    \/ TMTick

TMSpec == TMInit /\ [][TMNext]_tmVars

----------------------------------------------------------------------------
(* A request is never forgotten and never doubled: while its client waits   *)
(* there is one incarnation of it -- in the queue, with the dispatcher or   *)
(* executing -- and never a second, although retries are clones that share  *)
(* the future of the request they replace.                                  *)
OneIncarnation ==
    \A r \in Request :
       /\ future[r] = "pending" => Live(r)
       /\ \A m, n \in DOMAIN queue[Home[r]] :
             queue[Home[r]][m] = r /\ queue[Home[r]][n] = r => m = n
       /\ Queued(r) => ~Executing(r) /\ dispatching[Home[r]] # r
       /\ dispatching[Home[r]] = r => ~Executing(r)

(* No address is spent on a request whose client has its answer: a retry    *)
(* may be queued after the handler's 504, but the deadline stops it before  *)
(* the dispatcher acquires for it.                                          *)
NoWorkForTheAnswered ==
    \A i \in Instance : dispatching[i] # None => future[dispatching[i]] = "pending"

(* A request is sent num_retries + 1 times at most, counted over all its    *)
(* clones and both kinds of failure that are retried.                       *)
AttemptsBounded == \A r \in Request : attempts[r] <= NumRetries + 1

(* No execution starts after the request's deadline.                        *)
DispatchedInTime ==
    [][\A r \in Request :
         pc[r] = "waiting" /\ pc'[r] = "holding" => patience[r] >= Grace]_tmVars

\* the request waits for an address, in the queue or at its head
WaitsForIp(r) == future[r] = "pending" /\ ~Executing(r)

(* A request that has not been tried yet waits for an address until its     *)
(* deadline and no longer: whatever is ahead of it in the queue has an      *)
(* earlier deadline, so the single dispatcher gets to it in time.           *)
FirstWaitBounded ==
    \A r \in Request : WaitsForIp(r) /\ failureCount[r] = 0 => patience[r] >= Grace

(* The manager uses the pool as IPPool has it, so what is proved of the     *)
(* pool holds under the manager: every address acquired is reported once,   *)
(* with one outcome, by the execution it was given to.                      *)
UsesThePool == Spec

(* Every submitted request is answered, and all that was started for it     *)
(* ends: a chain of retries does not go on for ever.                        *)
RequestsEnd ==
    \A r \in Request : future[r] = "pending" ~> (future[r] # "pending" /\ ~Live(r))
=============================================================================
