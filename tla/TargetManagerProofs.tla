------------------------- MODULE TargetManagerProofs -------------------------
(***************************************************************************)
(* The manager uses the pool as IPPool has it, so every theorem of         *)
(* IPPoolProofs is one about the manager.                                  *)
(***************************************************************************)
EXTENDS TargetManager, IPPoolProofs

LEMMA IdleElapse ==
    ASSUME TypeInv, ~TimeMatters, Elapse,
           UNCHANGED <<initKey, pool, failures, instanceVars, callerVars, sweepVars>>
    PROVE  UNCHANGED vars
<1> USE DEF TypeInv, TypeOK, BackendTypeOK, TimeMatters, Elapse
<1>1. quarantine' = quarantine
  BY DEF QuarantineElapses, Elapsed, NoEntry
<1>2. cooldown' = cooldown
  BY DEF Elapsed, NoTask
<1>3. sinceUse' = sinceUse
  BY PolicyAssumption
<1> QED
  BY <1>1, <1>2, <1>3 DEF vars, backendVars

\* the manager's clock runs on when no timer of the pool is left: the pool stutters
LEMMA ElapsesIsPoolStep == ASSUME TypeInv, Elapses PROVE [Next]_vars
<1>1. /\ Elapse
      /\ UNCHANGED <<initKey, pool, failures, instanceVars, callerVars, sweepVars>>
  BY DEF Elapses
<1>2. TimeMatters => Tick
  BY <1>1 DEF Tick
<1>3. ~TimeMatters => UNCHANGED vars
  BY <1>1, IdleElapse
<1> QED
  BY <1>2, <1>3 DEF Next

LEMMA ManagerStepIsPoolStep == TypeInv /\ [TMNext]_tmVars => [Next]_vars
<1> SUFFICES ASSUME TypeInv, [TMNext]_tmVars PROVE [Next]_vars
  OBVIOUS
<1>1. CASE PoolStep
  BY <1>1 DEF PoolStep, Next
<1>2. ASSUME NEW i \in Instance, DispatcherStep(i) PROVE [Next]_vars
  <2> PICK r \in Request : \/ DropExpired(i, r) \/ StartAcquire(i, r)
                           \/ Dispatch(i, r) \/ DropNoIp(i, r)
    BY <1>2 DEF DispatcherStep
  <2>1. r \in Caller
    BY RequestAssumption
  <2>2. CASE DropExpired(i, r)
    BY <2>2 DEF DropExpired
  <2>3. CASE StartAcquire(i, r) \/ Dispatch(i, r) \/ DropNoIp(i, r)
    <3>1. CallerStep(r)
      BY <2>3 DEF StartAcquire, Dispatch, DropNoIp, CallerStep
    <3> QED
      BY <2>1, <3>1 DEF Next
  <2> QED
    BY <2>2, <2>3
<1>3. ASSUME NEW r \in Request, RequestStep(r) PROVE [Next]_vars
  <2>1. r \in Caller
    BY RequestAssumption
  <2>2. CASE Submit(r) \/ HandlerTimeout(r) \/ Forget(r)
    BY <2>2 DEF Submit, HandlerTimeout, Forget
  <2>3. CASE Report(r) \/ FinishSuccess(r) \/ FinishFailure(r)
    <3>1. CallerStep(r)
      BY <2>3 DEF Report, Succeed, Fail, FinishSuccess, FinishFailure, CallerStep
    <3> QED
      BY <2>1, <3>1 DEF Next
  <2> QED
    BY <1>3, <2>2, <2>3 DEF RequestStep
<1>4. CASE TMTick
  BY <1>4, ElapsesIsPoolStep DEF TMTick
<1>5. CASE UNCHANGED tmVars
  BY <1>5 DEF tmVars
<1> QED
  BY <1>1, <1>2, <1>3, <1>4, <1>5 DEF TMNext

(* Every behaviour of the manager is one of the pool: dispatcher and        *)
(* executions call the pool in the order acquire, one report, and each      *)
(* address acquired is reported once.                                       *)
THEOREM ManagerUsesThePool == TMSpec => UsesThePool
<1>1. Init => TypeInv
  BY InitTypeOK DEF TypeInv, HasAddress, Init
<1>2. TypeInv /\ [TMNext]_tmVars => TypeInv'
  BY ManagerStepIsPoolStep, NextTypeOK, NextHasAddress DEF TypeInv
<1>3. TMInit => Init
  BY DEF TMInit
<1> QED
  BY <1>1, <1>2, <1>3, ManagerStepIsPoolStep, PTL DEF TMSpec, Spec, UsesThePool

(* No address is given to two requests, whatever the manager does with      *)
(* retries, timeouts and drops.                                             *)
THEOREM ManagerOneHolder == TMSpec => []OneHolder
BY ManagerUsesThePool, OneHolderAlways, PTL DEF UsesThePool

----------------------------------------------------------------------------
(***************************************************************************)
(* What becomes of a request in the manager, for any requests, instances,  *)
(* settings and pop timeouts.  RInv says where the one incarnation of a    *)
(* request is and how often it has been sent; Headroom compares what is    *)
(* left of the dispatcher's pop with what is left of the request's time;   *)
(* InOrder is why the single dispatcher gets to a first attempt in time.   *)
(***************************************************************************)

LEMMA RequestIsCaller ==
    /\ Request \subseteq Caller
    /\ None \notin Request
    /\ \A r \in Request : Home[r] \in Instance
BY RequestAssumption, IpListAssumption, HomeAssumption

----------------------------------------------------------------------------
(* Type correctness. *)

RequestTypes ==
    /\ queue \in [Instance -> Seq(Request)]
    /\ dispatching \in [Instance -> Request \cup {None}]
    /\ popLeft \in [Instance -> Nat]
    /\ future \in [Request -> FutureState]
    /\ patience \in [Request -> 0 .. MaxQueueWait + Grace]
    /\ failureCount \in [Request -> 0 .. NumRetries]
    /\ outcome \in [Request -> Outcome \cup {None}]
    /\ attempts \in [Request -> Nat]

LEMMA RequestTypesInit == TMInit => RequestTypes
BY RequestAssumption, EmptySeq DEF TMInit, RequestTypes, FutureState

LEMMA HeadTypes ==
    ASSUME RequestTypes, NEW i \in Instance, NEW r, TakeHead(i, r)
    PROVE  /\ r \in Request
           /\ queue' \in [Instance -> Seq(Request)]
<1>1. queue[i] \in Seq(Request) /\ queue[i] # <<>>
  BY DEF RequestTypes, TakeHead
<1>2. Head(queue[i]) \in Request /\ Tail(queue[i]) \in Seq(Request)
  BY <1>1, HeadTailProperties
<1> QED
  BY <1>2 DEF TakeHead, RequestTypes

LEMMA AppendTypes ==
    ASSUME RequestTypes, NEW r \in Request,
           queue' = [queue EXCEPT ![Home[r]] = Append(@, r)]
    PROVE  queue' \in [Instance -> Seq(Request)]
<1>1. Append(queue[Home[r]], r) \in Seq(Request)
  BY RequestIsCaller, AppendProperties DEF RequestTypes
<1> QED
  BY <1>1 DEF RequestTypes

LEMMA ResolveTypes ==
    ASSUME RequestTypes, NEW r \in Request, NEW value \in FutureState, Resolve(r, value)
    PROVE  future' \in [Request -> FutureState]
BY DEF RequestTypes, Resolve

LEMMA ElapsesTypes == ASSUME RequestTypes, Elapses PROVE RequestTypes'
<1>1. /\ patience' = [r \in Request |-> Elapsed(patience[r])]
      /\ popLeft' = [i \in Instance |-> Elapsed(popLeft[i])]
      /\ UNCHANGED <<queue, dispatching, future, failureCount, outcome, attempts>>
  BY DEF Elapses
<1>2. patience' \in [Request -> 0 .. MaxQueueWait + Grace]
  BY <1>1, RequestAssumption DEF RequestTypes, Elapsed
<1>3. popLeft' \in [Instance -> Nat]
  BY <1>1 DEF RequestTypes, Elapsed
<1> QED
  BY <1>1, <1>2, <1>3 DEF RequestTypes

LEMMA RequestTypesNext == RequestTypes /\ [TMNext]_tmVars => RequestTypes'
<1> SUFFICES ASSUME RequestTypes, [TMNext]_tmVars PROVE RequestTypes'
  OBVIOUS
<1>1. ASSUME UNCHANGED <<dispatchVars, requestVars>> PROVE RequestTypes'
  BY <1>1 DEF RequestTypes, dispatchVars, requestVars
<1>2. ASSUME NEW i \in Instance, DispatcherStep(i) PROVE RequestTypes'
  <2> PICK r \in Request : \/ DropExpired(i, r) \/ StartAcquire(i, r)
                           \/ Dispatch(i, r) \/ DropNoIp(i, r)
    BY <1>2 DEF DispatcherStep
  <2>1. CASE DropExpired(i, r)
    <3>1. future' \in [Request -> FutureState]
      BY <2>1, ResolveTypes DEF DropExpired, FutureState
    <3>2. queue' \in [Instance -> Seq(Request)]
      BY <2>1, HeadTypes DEF DropExpired
    <3> QED
      BY <2>1, <3>1, <3>2 DEF DropExpired, RequestTypes
  <2>2. CASE StartAcquire(i, r)
    <3>1. queue' \in [Instance -> Seq(Request)]
      BY <2>2, HeadTypes DEF StartAcquire
    <3>2. PopBudget[TimeRemaining(r)] \in Nat
      <4>1. TimeRemaining(r) \in 0 .. MaxQueueWait
        BY RequestAssumption DEF TimeRemaining, RequestTypes
      <4> QED
        BY <4>1, RequestAssumption
    <3> QED
      BY <2>2, <3>1, <3>2 DEF StartAcquire, RequestTypes, requestVars
  <2>3. CASE Dispatch(i, r)
    BY <2>3 DEF Dispatch, RequestTypes
  <2>4. CASE DropNoIp(i, r)
    <3>1. future' \in [Request -> FutureState]
      BY <2>4, ResolveTypes DEF DropNoIp, FutureState
    <3> QED
      BY <2>4, <3>1 DEF DropNoIp, RequestTypes
  <2> QED
    BY <2>1, <2>2, <2>3, <2>4
<1>3. ASSUME NEW r \in Request, Submit(r) PROVE RequestTypes'
  <2>1. queue' \in [Instance -> Seq(Request)]
    BY <1>3, AppendTypes DEF Submit
  <2>2. patience' \in [Request -> 0 .. MaxQueueWait + Grace]
    BY <1>3, RequestAssumption DEF Submit, RequestTypes
  <2>3. future' \in [Request -> FutureState]
    BY <1>3 DEF Submit, RequestTypes, FutureState
  <2> QED
    BY <1>3, <2>1, <2>2, <2>3 DEF Submit, RequestTypes
<1>4. ASSUME NEW r \in Request, HandlerTimeout(r) PROVE RequestTypes'
  BY <1>4 DEF HandlerTimeout, RequestTypes, FutureState, dispatchVars
<1>5. ASSUME NEW r \in Request, Forget(r) PROVE RequestTypes'
  BY <1>5, RequestAssumption DEF Forget, RequestTypes, FutureState, dispatchVars
<1>6. ASSUME NEW r \in Request, Report(r) PROVE RequestTypes'
  <2>1. /\ \E kind \in Outcome : outcome' = [outcome EXCEPT ![r] = kind]
        /\ UNCHANGED <<dispatchVars, future, patience, failureCount, attempts>>
    BY <1>6 DEF Report, Succeed, Fail, Outcome
  <2> QED
    BY <2>1 DEF RequestTypes, dispatchVars
<1>7. ASSUME NEW r \in Request, FinishSuccess(r) PROVE RequestTypes'
  <2>1. future' \in [Request -> FutureState]
    BY <1>7, ResolveTypes DEF FinishSuccess, FutureState
  <2> QED
    BY <1>7, <2>1 DEF FinishSuccess, Finished, RequestTypes
<1>8. ASSUME NEW r \in Request, FinishFailure(r) PROVE RequestTypes'
  <2>1. CASE Retry(r) /\ CanRetry(r)
    <3>1. queue' \in [Instance -> Seq(Request)]
      BY <2>1, AppendTypes DEF Retry
    <3>2. failureCount' \in [Request -> 0 .. NumRetries]
      BY <2>1, RequestAssumption DEF Retry, CanRetry, RequestTypes
    <3> QED
      BY <1>8, <2>1, <3>1, <3>2 DEF FinishFailure, Finished, Retry, RequestTypes
  <2>2. CASE GiveUp(r)
    <3>1. future' \in [Request -> FutureState]
      BY <2>2, ResolveTypes DEF GiveUp, FutureState
    <3> QED
      BY <1>8, <2>2, <3>1 DEF FinishFailure, Finished, GiveUp, RequestTypes
  <2> QED
    BY <1>8, <2>1, <2>2 DEF FinishFailure
<1>9. CASE TMTick
  BY <1>9, ElapsesTypes DEF TMTick
<1> QED
  BY <1>1, <1>2, <1>3, <1>4, <1>5, <1>6, <1>7, <1>8, <1>9
     DEF TMNext, PoolStep, RequestStep, tmVars

(* Type correctness of the manager. *)
THEOREM ManagerTyping == TMSpec => []TMTypeOK
<1>1. TMSpec => []TypeOK
  BY ManagerUsesThePool, Typing, PTL DEF UsesThePool
<1>2. TMSpec => []RequestTypes
  BY RequestTypesInit, RequestTypesNext, PTL DEF TMSpec
<1>3. TypeOK /\ RequestTypes => TMTypeOK
  BY DEF TMTypeOK, RequestTypes
<1> QED
  BY <1>1, <1>2, <1>3, PTL

----------------------------------------------------------------------------
(* The queues. *)

In(s, x) == \E n \in DOMAIN s : s[n] = x
Distinct(s) == \A m, n \in DOMAIN s : s[m] = s[n] => m = n

LEMMA AppendPlaces ==
    ASSUME NEW S, NEW s \in Seq(S), NEW x \in S, ~In(s, x), Distinct(s)
    PROVE  /\ Distinct(Append(s, x))
           /\ \A y : In(Append(s, x), y) <=> In(s, y) \/ y = x
<1>1. /\ DOMAIN s = 1 .. Len(s)
      /\ DOMAIN Append(s, x) = 1 .. Len(s) + 1
      /\ Len(s) \in Nat
      /\ \A n \in 1 .. Len(s) : Append(s, x)[n] = s[n]
      /\ Append(s, x)[Len(s) + 1] = x
  BY LenProperties, AppendProperties
<1> QED
  BY <1>1 DEF In, Distinct

LEMMA TailPlaces ==
    ASSUME NEW S, NEW s \in Seq(S), s # <<>>, Distinct(s)
    PROVE  /\ Distinct(Tail(s))
           /\ In(s, Head(s))
           /\ \A y : In(Tail(s), y) <=> In(s, y) /\ y # Head(s)
<1>1. /\ DOMAIN s = 1 .. Len(s)
      /\ Len(s) \in Nat \ {0}
      /\ DOMAIN Tail(s) = 1 .. Len(s) - 1
      /\ \A n \in 1 .. Len(s) - 1 : Tail(s)[n] = s[n + 1]
      /\ Head(s) = s[1]
  BY LenProperties, EmptySeq, HeadTailProperties
<1>2. ASSUME NEW y, In(s, y), y # Head(s) PROVE In(Tail(s), y)
  <2>1. PICK n \in DOMAIN s : s[n] = y
    BY <1>2 DEF In
  <2>2. n - 1 \in DOMAIN Tail(s) /\ Tail(s)[n - 1] = y
    BY <1>1, <1>2, <2>1
  <2> QED
    BY <2>2 DEF In
<1>3. ASSUME NEW y, In(Tail(s), y) PROVE In(s, y) /\ y # Head(s)
  <2>1. PICK n \in DOMAIN Tail(s) : Tail(s)[n] = y
    BY <1>3 DEF In
  <2>2. n + 1 \in DOMAIN s /\ s[n + 1] = y /\ 1 \in DOMAIN s /\ n + 1 # 1
    BY <1>1, <2>1
  <2> QED
    BY <1>1, <2>2 DEF In, Distinct
<1>4. Distinct(Tail(s))
  <2> SUFFICES ASSUME NEW m \in DOMAIN Tail(s), NEW n \in DOMAIN Tail(s),
                      Tail(s)[m] = Tail(s)[n]
               PROVE  m = n
    BY DEF Distinct
  <2>1. m + 1 \in DOMAIN s /\ n + 1 \in DOMAIN s /\ s[m + 1] = s[n + 1]
    BY <1>1
  <2> QED
    BY <1>1, <2>1 DEF Distinct
<1>5. In(s, Head(s))
  BY <1>1 DEF In
<1> QED
  BY <1>2, <1>3, <1>4, <1>5

\* no request twice, and each in the queue of its own instance
QueueInv ==
    \A i \in Instance :
       /\ Distinct(queue[i])
       /\ \A r \in Request : In(queue[i], r) => Home[r] = i

LEMMA EnqueuePlaces ==
    ASSUME RequestTypes, QueueInv, NEW r \in Request, ~Queued(r),
           queue' = [queue EXCEPT ![Home[r]] = Append(@, r)]
    PROVE  /\ QueueInv'
           /\ Queued(r)'
           /\ \A q \in Request \ {r} : Queued(q)' <=> Queued(q)
<1> DEFINE s == queue[Home[r]]
<1>1. s \in Seq(Request) /\ ~In(s, r) /\ Distinct(s)
  BY RequestIsCaller DEF RequestTypes, QueueInv, Queued, In
<1>2. /\ queue'[Home[r]] = Append(s, r)
      /\ \A i \in Instance \ {Home[r]} : queue'[i] = queue[i]
  BY RequestIsCaller DEF RequestTypes
<1>3. /\ Distinct(Append(s, r))
      /\ \A y : In(Append(s, r), y) <=> In(s, y) \/ y = r
  BY <1>1, AppendPlaces
<1>4. QueueInv'
  <2> SUFFICES ASSUME NEW i \in Instance
               PROVE  /\ Distinct(queue'[i])
                      /\ \A q \in Request : In(queue'[i], q) => Home[q] = i
    BY DEF QueueInv
  <2> QED
    BY <1>2, <1>3 DEF QueueInv
<1>5. \A q \in Request : Queued(q)' <=> In(queue'[Home[q]], q)
  BY DEF Queued, In
<1>6. \A q \in Request : Queued(q) <=> In(queue[Home[q]], q)
  BY DEF Queued, In
<1> QED
  BY <1>2, <1>3, <1>4, <1>5, <1>6, RequestIsCaller

LEMMA DequeuePlaces ==
    ASSUME RequestTypes, QueueInv, NEW i \in Instance, NEW r, TakeHead(i, r)
    PROVE  /\ r \in Request
           /\ Home[r] = i
           /\ QueueInv'
           /\ Queued(r) /\ ~Queued(r)'
           /\ \A q \in Request \ {r} : Queued(q)' <=> Queued(q)
<1>1. /\ queue[i] \in Seq(Request) /\ queue[i] # <<>> /\ Distinct(queue[i])
      /\ r = Head(queue[i]) /\ r \in Request
  BY HeadTypes DEF RequestTypes, TakeHead, QueueInv
<1>2. /\ queue'[i] = Tail(queue[i])
      /\ \A j \in Instance \ {i} : queue'[j] = queue[j]
  BY DEF RequestTypes, TakeHead
<1>3. /\ Distinct(Tail(queue[i]))
      /\ In(queue[i], r)
      /\ \A y : In(Tail(queue[i]), y) <=> In(queue[i], y) /\ y # r
  BY <1>1, TailPlaces
<1>4. Home[r] = i
  BY <1>1, <1>3 DEF QueueInv
<1>5. QueueInv'
  <2> SUFFICES ASSUME NEW j \in Instance
               PROVE  /\ Distinct(queue'[j])
                      /\ \A q \in Request : In(queue'[j], q) => Home[q] = j
    BY DEF QueueInv
  <2> QED
    BY <1>2, <1>3 DEF QueueInv
<1>6. \A q \in Request : Queued(q)' <=> In(queue'[Home[q]], q)
  BY DEF Queued, In
<1>7. \A q \in Request : Queued(q) <=> In(queue[Home[q]], q)
  BY DEF Queued, In
<1> QED
  BY <1>1, <1>2, <1>3, <1>4, <1>5, <1>6, <1>7, RequestIsCaller

----------------------------------------------------------------------------
(* One incarnation, and how often it has been sent. *)

Placed(r) ==
    /\ Queued(r) => pc[r] = "idle"
    /\ \A i \in Instance : dispatching[i] = r => Home[r] = i /\ pc[r] = "waiting"
    /\ pc[r] = "waiting" => dispatching[Home[r]] = r

Answered(r) ==
    /\ future[r] = "none" => ~Live(r) /\ failureCount[r] = 0 /\ attempts[r] = 0
    /\ Live(r) /\ future[r] # "pending" => patience[r] = 0

Counted(r) ==
    /\ Executing(r) => attempts[r] = failureCount[r] + 1
    /\ Queued(r) \/ dispatching[Home[r]] = r => attempts[r] = failureCount[r]
    /\ attempts[r] <= NumRetries + 1

RInv(r) == Placed(r) /\ Answered(r) /\ Counted(r)

RequestInv == QueueInv /\ \A r \in Request : RInv(r)

\* its client waits, and the manager has it no more
Forgotten(r) == future[r] = "pending" /\ ~Live(r)

NoneForgotten == \A r \in Request : Forgotten(r)' => Forgotten(r)

\* what every step of the manager does, also when requests have been forgotten before
KeepsRequests == RequestInv' /\ NoneForgotten

\* nothing happens to request r
Same(r) ==
    /\ Queued(r)' <=> Queued(r)
    /\ \A i \in Instance : dispatching'[i] = r <=> dispatching[i] = r
    /\ pc'[r] = pc[r]
    /\ future'[r] = future[r]
    /\ patience'[r] = patience[r]
    /\ failureCount'[r] = failureCount[r]
    /\ attempts'[r] = attempts[r]

LEMMA SameKept ==
    ASSUME NEW r \in Request, RInv(r), Same(r)
    PROVE  RInv(r)' /\ (Forgotten(r)' => Forgotten(r))
<1>1. (Live(r)' <=> Live(r)) /\ (Executing(r)' <=> Executing(r))
  BY RequestIsCaller DEF Same, Live, Executing
<1>2. Placed(r)'
  BY RequestIsCaller DEF RInv, Placed, Same
<1>3. Answered(r)'
  BY <1>1 DEF RInv, Answered, Same
<1>4. Counted(r)'
  BY <1>1, RequestIsCaller DEF RInv, Counted, Same
<1>5. Forgotten(r)' => Forgotten(r)
  BY <1>1 DEF Same, Forgotten
<1> QED
  BY <1>2, <1>3, <1>4, <1>5 DEF RInv

LEMMA QueueFrame ==
    ASSUME QueueInv, UNCHANGED queue
    PROVE  QueueInv' /\ \A r \in Request : Queued(r)' <=> Queued(r)
BY DEF QueueInv, Queued

\* the others keep what they have when a step is one of request r
LEMMA OthersKept ==
    ASSUME TypeInv, RequestTypes, RequestInv, NEW r \in Request, QueueInv', RInv(r)',
           \A q \in Request \ {r} : Same(q)
    PROVE  /\ RequestInv'
           /\ (Forgotten(r)' => Forgotten(r)) => KeepsRequests
BY SameKept DEF RequestInv, KeepsRequests, NoneForgotten

LEMMA RequestInvInit == TMInit => RequestInv
<1> SUFFICES ASSUME TMInit PROVE RequestInv
  OBVIOUS
<1>1. \A i \in Instance : queue[i] = <<>> /\ DOMAIN queue[i] = {}
  BY EmptySeq, LenProperties DEF TMInit
<1>2. QueueInv
  BY <1>1 DEF QueueInv, In, Distinct
<1>3. ASSUME NEW r \in Request PROVE RInv(r)
  <2>1. /\ ~Queued(r) /\ pc[r] = "idle" /\ \A i \in Instance : dispatching[i] # r
        /\ future[r] = "none" /\ failureCount[r] = 0 /\ attempts[r] = 0
    BY <1>1, RequestIsCaller DEF TMInit, Init, Queued
  <2> QED
    BY <2>1, RequestIsCaller, RequestAssumption
       DEF RInv, Placed, Answered, Counted, Live, Executing
<1> QED
  BY <1>2, <1>3 DEF RequestInv

LEMMA DropExpiredInv ==
    ASSUME TypeInv, RequestTypes, RequestInv, NEW i \in Instance, NEW r, DropExpired(i, r)
    PROVE  KeepsRequests
<1>1. /\ r \in Request /\ Home[r] = i /\ QueueInv' /\ Queued(r) /\ ~Queued(r)'
      /\ \A q \in Request \ {r} : Queued(q)' <=> Queued(q)
  BY DequeuePlaces DEF DropExpired, RequestInv
<1>2. UNCHANGED <<pc, dispatching, patience, failureCount, attempts>>
  BY DEF DropExpired, vars, callerVars
<1>3. /\ \A q \in Request \ {r} : future'[q] = future[q]
      /\ future'[r] = IF future[r] = "pending" THEN "timeout" ELSE future[r]
  BY <1>1 DEF DropExpired, Resolve, RequestTypes
<1>4. \A q \in Request \ {r} : Same(q)
  BY <1>1, <1>2, <1>3 DEF Same
<1>5. RInv(r)
  BY <1>1 DEF RequestInv
<1>6. /\ pc[r] = "idle" /\ \A j \in Instance : dispatching[j] # r
      /\ future[r] # "none"
  BY <1>1, <1>5 DEF RInv, Placed, Answered, Live
<1>7. ~Live(r)'
  BY <1>1, <1>2, <1>6 DEF Live, Executing
<1>8. RInv(r)'
  BY <1>1, <1>2, <1>3, <1>5, <1>6, <1>7 DEF RInv, Placed, Answered, Counted, Live, Executing
<1> QED
  BY <1>1, <1>3, <1>4, <1>8, OthersKept DEF Forgotten

LEMMA StartAcquireInv ==
    ASSUME TypeInv, RequestTypes, RequestInv, NEW i \in Instance, NEW r, StartAcquire(i, r)
    PROVE  KeepsRequests
<1>1. /\ r \in Request /\ Home[r] = i /\ QueueInv' /\ Queued(r) /\ ~Queued(r)'
      /\ \A q \in Request \ {r} : Queued(q)' <=> Queued(q)
  BY DequeuePlaces DEF StartAcquire, RequestInv
<1>2. UNCHANGED <<future, patience, failureCount, attempts>>
  BY DEF StartAcquire, requestVars
<1>3. /\ pc'[r] = "waiting"
      /\ \A q \in Request \ {r} : pc'[q] = pc[q]
  BY <1>1, RequestIsCaller DEF StartAcquire, Acquire, TypeInv, TypeOK
<1>4. /\ dispatching'[i] = r /\ dispatching[i] = None
      /\ \A j \in Instance \ {i} : dispatching'[j] = dispatching[j]
  BY DEF StartAcquire, TakeHead, RequestTypes
<1>5. \A q \in Request \ {r} : Same(q)
  BY <1>1, <1>2, <1>3, <1>4, RequestIsCaller DEF Same
<1>6. RInv(r)
  BY <1>1 DEF RequestInv
<1>7. \A j \in Instance : dispatching[j] # r
  BY <1>1, <1>6 DEF RInv, Placed
<1>8. Live(r) /\ Live(r)' /\ ~Executing(r)'
  BY <1>1, <1>3, <1>4 DEF Live, Executing
<1>9. Placed(r)'
  BY <1>1, <1>3, <1>4, <1>7 DEF Placed
<1>10. Answered(r)'
  BY <1>2, <1>6, <1>8 DEF RInv, Answered
<1>11. Counted(r)'
  BY <1>1, <1>2, <1>6, <1>8 DEF RInv, Counted
<1> QED
  BY <1>1, <1>5, <1>8, <1>9, <1>10, <1>11, OthersKept DEF RInv, Forgotten

LEMMA DispatchInv ==
    ASSUME TypeInv, RequestTypes, RequestInv, NEW i \in Instance, NEW r \in Request,
           Dispatch(i, r)
    PROVE  KeepsRequests
<1>1. RInv(r)
  BY DEF RequestInv
<1>2. dispatching[i] = r /\ Home[r] = i /\ pc[r] = "waiting"
  BY <1>1 DEF Dispatch, RInv, Placed
<1>3. UNCHANGED <<queue, future, patience, failureCount>>
  BY DEF Dispatch
<1>4. /\ pc'[r] = "holding" /\ attempts'[r] = attempts[r] + 1
      /\ \A q \in Request \ {r} : pc'[q] = pc[q] /\ attempts'[q] = attempts[q]
  BY RequestIsCaller DEF Dispatch, Pop, TypeInv, TypeOK, RequestTypes
<1>5. /\ dispatching'[i] = None
      /\ \A j \in Instance \ {i} : dispatching'[j] = dispatching[j]
  BY DEF Dispatch, RequestTypes
<1>6. QueueInv' /\ \A q \in Request : Queued(q)' <=> Queued(q)
  BY <1>3, QueueFrame DEF RequestInv
<1>7. \A q \in Request \ {r} : Same(q)
  BY <1>2, <1>3, <1>4, <1>5, <1>6, RequestIsCaller DEF Same
<1>8. ~Queued(r) /\ ~Queued(r)' /\ \A j \in Instance : dispatching'[j] # r
  BY <1>1, <1>2, <1>5, <1>6, RequestIsCaller DEF RInv, Placed
<1>9. Live(r) /\ Live(r)' /\ Executing(r)'
  BY <1>2, <1>4 DEF Live, Executing
<1>10. Placed(r)'
  BY <1>4, <1>8 DEF Placed
<1>11. Answered(r)'
  BY <1>1, <1>3, <1>9 DEF RInv, Answered
<1>12. Counted(r)'
  <2>1. attempts[r] = failureCount[r] /\ failureCount[r] \in 0 .. NumRetries
    BY <1>1, <1>2 DEF RInv, Counted, RequestTypes
  <2> QED
    BY <1>3, <1>4, <1>8, <2>1, RequestIsCaller, RequestAssumption DEF Counted
<1> QED
  BY <1>6, <1>7, <1>9, <1>10, <1>11, <1>12, OthersKept DEF RInv, Forgotten

LEMMA DropNoIpInv ==
    ASSUME TypeInv, RequestTypes, RequestInv, NEW i \in Instance, NEW r \in Request,
           DropNoIp(i, r)
    PROVE  KeepsRequests
<1>1. RInv(r)
  BY DEF RequestInv
<1>2. dispatching[i] = r /\ Home[r] = i /\ pc[r] = "waiting"
  BY <1>1 DEF DropNoIp, RInv, Placed
<1>3. UNCHANGED <<queue, patience, failureCount, attempts>>
  BY DEF DropNoIp
<1>4. /\ pc'[r] = "idle"
      /\ \A q \in Request \ {r} : pc'[q] = pc[q]
  BY RequestIsCaller DEF DropNoIp, AcquireTimeout, TypeInv, TypeOK
<1>5. /\ dispatching'[i] = None
      /\ \A j \in Instance \ {i} : dispatching'[j] = dispatching[j]
  BY DEF DropNoIp, RequestTypes
<1>6. QueueInv' /\ \A q \in Request : Queued(q)' <=> Queued(q)
  BY <1>3, QueueFrame DEF RequestInv
<1>7. /\ \A q \in Request \ {r} : future'[q] = future[q]
      /\ future'[r] = IF future[r] = "pending" THEN "timeout" ELSE future[r]
  BY DEF DropNoIp, Resolve, RequestTypes
<1>8. \A q \in Request \ {r} : Same(q)
  BY <1>2, <1>3, <1>4, <1>5, <1>6, <1>7, RequestIsCaller DEF Same
<1>9. /\ ~Queued(r)' /\ \A j \in Instance : dispatching'[j] # r
      /\ future[r] # "none"
  BY <1>1, <1>2, <1>5, <1>6, RequestIsCaller DEF RInv, Placed, Answered, Live
<1>10. ~Live(r)' /\ ~Executing(r)'
  BY <1>4, <1>9, RequestIsCaller DEF Live, Executing
<1>11. RInv(r)'
  BY <1>1, <1>3, <1>4, <1>7, <1>9, <1>10, RequestIsCaller DEF RInv, Placed, Answered, Counted
<1> QED
  BY <1>6, <1>7, <1>8, <1>11, OthersKept DEF Forgotten

LEMMA SubmitInv ==
    ASSUME TypeInv, RequestTypes, RequestInv, NEW r \in Request, Submit(r)
    PROVE  KeepsRequests
<1>1. RInv(r) /\ future[r] = "none"
  BY DEF RequestInv, Submit
<1>2. /\ ~Queued(r) /\ pc[r] \notin {"holding", "succeeded", "failed"}
      /\ dispatching[Home[r]] # r /\ failureCount[r] = 0 /\ attempts[r] = 0
  BY <1>1 DEF RInv, Answered, Live, Executing
<1>3. /\ QueueInv' /\ Queued(r)'
      /\ \A q \in Request \ {r} : Queued(q)' <=> Queued(q)
  BY <1>2, EnqueuePlaces DEF Submit, RequestInv
<1>4. UNCHANGED <<pc, dispatching, failureCount, attempts>>
  BY DEF Submit, vars, callerVars
<1>5. /\ future'[r] = "pending"
      /\ \A q \in Request \ {r} : future'[q] = future[q] /\ patience'[q] = patience[q]
  BY DEF Submit, RequestTypes
<1>6. \A q \in Request \ {r} : Same(q)
  BY <1>3, <1>4, <1>5 DEF Same
<1>7. pc[r] = "idle"
  BY <1>1, <1>2, RequestIsCaller DEF RInv, Placed, TypeInv, TypeOK, CallerState
<1>8. RInv(r)'
  BY <1>1, <1>2, <1>3, <1>4, <1>5, <1>7, RequestIsCaller, RequestAssumption
     DEF RInv, Placed, Answered, Counted, Live, Executing
<1> QED
  BY <1>3, <1>6, <1>8, OthersKept DEF Forgotten, Live

LEMMA HandlerTimeoutInv ==
    ASSUME TypeInv, RequestTypes, RequestInv, NEW r \in Request, HandlerTimeout(r)
    PROVE  KeepsRequests
<1>1. RInv(r) /\ future[r] = "pending" /\ patience[r] = 0
  BY DEF RequestInv, HandlerTimeout
<1>2. UNCHANGED <<queue, dispatching, pc, patience, failureCount, attempts>>
  BY DEF HandlerTimeout, vars, callerVars, dispatchVars
<1>3. /\ future'[r] = "cancelled"
      /\ \A q \in Request \ {r} : future'[q] = future[q]
  BY DEF HandlerTimeout, RequestTypes
<1>4. QueueInv' /\ \A q \in Request : Queued(q)' <=> Queued(q)
  BY <1>2, QueueFrame DEF RequestInv
<1>5. \A q \in Request \ {r} : Same(q)
  BY <1>2, <1>3, <1>4 DEF Same
<1>6. (Live(r)' <=> Live(r)) /\ (Executing(r)' <=> Executing(r))
  BY <1>2, <1>4 DEF Live, Executing
<1>7. RInv(r)'
  BY <1>1, <1>2, <1>3, <1>4, <1>6 DEF RInv, Placed, Answered, Counted
<1> QED
  BY <1>3, <1>4, <1>5, <1>7, OthersKept DEF Forgotten

LEMMA ForgetInv ==
    ASSUME TypeInv, RequestTypes, RequestInv, NEW r \in Request, Forget(r)
    PROVE  KeepsRequests
<1>1. RInv(r) /\ ~Live(r)
  BY DEF RequestInv, Forget
<1>2. UNCHANGED <<queue, dispatching, pc>>
  BY DEF Forget, vars, callerVars, dispatchVars
<1>3. /\ future'[r] = "none" /\ failureCount'[r] = 0 /\ attempts'[r] = 0
      /\ \A q \in Request \ {r} :
            /\ future'[q] = future[q] /\ patience'[q] = patience[q]
            /\ failureCount'[q] = failureCount[q] /\ attempts'[q] = attempts[q]
  BY DEF Forget, RequestTypes
<1>4. QueueInv' /\ \A q \in Request : Queued(q)' <=> Queued(q)
  BY <1>2, QueueFrame DEF RequestInv
<1>5. \A q \in Request \ {r} : Same(q)
  BY <1>2, <1>3, <1>4 DEF Same
<1>6. ~Live(r)' /\ ~Executing(r)'
  BY <1>1, <1>2, <1>4 DEF Live, Executing
<1>7. RInv(r)'
  BY <1>1, <1>2, <1>3, <1>4, <1>6, RequestAssumption DEF RInv, Placed, Answered, Counted
<1> QED
  BY <1>3, <1>4, <1>5, <1>7, OthersKept DEF Forgotten

LEMMA ReportInv ==
    ASSUME TypeInv, RequestTypes, RequestInv, NEW r \in Request, Report(r)
    PROVE  KeepsRequests
<1>1. RInv(r) /\ pc[r] = "holding"
  BY DEF RequestInv, Report, Succeed, Fail, RecordSuccess, RecordFailure
<1>2. UNCHANGED <<queue, dispatching, future, patience, failureCount, attempts>>
  BY DEF Report, Succeed, Fail, dispatchVars
<1>3. /\ pc'[r] \in {"succeeded", "failed"}
      /\ \A q \in Request \ {r} : pc'[q] = pc[q]
  BY RequestIsCaller
     DEF Report, Succeed, Fail, RecordSuccess, RecordFailure, TypeInv, TypeOK
<1>4. QueueInv' /\ \A q \in Request : Queued(q)' <=> Queued(q)
  BY <1>2, QueueFrame DEF RequestInv
<1>5. \A q \in Request \ {r} : Same(q)
  BY <1>2, <1>3, <1>4 DEF Same
<1>6. Live(r) /\ Live(r)' /\ Executing(r) /\ Executing(r)'
  BY <1>1, <1>3 DEF Live, Executing
<1>7. /\ ~Queued(r) /\ \A i \in Instance : dispatching[i] # r
  BY <1>1 DEF RInv, Placed
<1>8. RInv(r)'
  BY <1>1, <1>2, <1>3, <1>4, <1>6, <1>7, RequestIsCaller DEF RInv, Placed, Answered, Counted
<1> QED
  BY <1>4, <1>5, <1>6, <1>8, OthersKept DEF Forgotten

\* the end of an execution: its request is nowhere, or it is queued again
LEMMA FinishKept ==
    ASSUME TypeInv, RequestTypes, RequestInv, NEW r \in Request,
           pc[r] \in {"succeeded", "failed"}, pc' = [pc EXCEPT ![r] = "idle"],
           UNCHANGED <<dispatching, patience, attempts>>,
           \/ /\ \E value \in {"result", "exception"} : Resolve(r, value)
              /\ UNCHANGED <<queue, failureCount>>
           \/ CanRetry(r) /\ Retry(r)
    PROVE  KeepsRequests
<1>1. RInv(r)
  BY DEF RequestInv
<1>2. /\ ~Queued(r) /\ \A i \in Instance : dispatching[i] # r
      /\ future[r] # "none" /\ attempts[r] = failureCount[r] + 1
  BY <1>1 DEF RInv, Placed, Answered, Counted, Live, Executing
<1>3. /\ pc'[r] = "idle"
      /\ \A q \in Request \ {r} : pc'[q] = pc[q]
  BY RequestIsCaller DEF TypeInv, TypeOK
<1>4. ASSUME NEW value \in {"result", "exception"}, Resolve(r, value),
             UNCHANGED <<queue, failureCount>>
      PROVE  KeepsRequests
  <2>1. /\ \A q \in Request \ {r} : future'[q] = future[q]
        /\ future'[r] = IF future[r] = "pending" THEN value ELSE future[r]
    BY <1>4 DEF Resolve, RequestTypes
  <2>2. QueueInv' /\ \A q \in Request : Queued(q)' <=> Queued(q)
    BY <1>4, QueueFrame DEF RequestInv
  <2>3. \A q \in Request \ {r} : Same(q)
    BY <1>3, <1>4, <2>1, <2>2 DEF Same
  <2>4. ~Live(r)' /\ ~Executing(r)'
    BY <1>2, <1>3, <2>2, RequestIsCaller DEF Live, Executing
  <2>5. RInv(r)'
    BY <1>1, <1>2, <1>3, <1>4, <2>1, <2>2, <2>4, RequestIsCaller
       DEF RInv, Placed, Answered, Counted
  <2> QED
    BY <2>1, <2>2, <2>3, <2>5, OthersKept DEF Forgotten
<1>5. CASE CanRetry(r) /\ Retry(r)
  <2>1. /\ QueueInv' /\ Queued(r)'
        /\ \A q \in Request \ {r} : Queued(q)' <=> Queued(q)
    BY <1>2, <1>5, EnqueuePlaces DEF Retry, RequestInv
  <2>2. /\ UNCHANGED future
        /\ failureCount'[r] = failureCount[r] + 1
        /\ \A q \in Request \ {r} : failureCount'[q] = failureCount[q]
    BY <1>5 DEF Retry, RequestTypes
  <2>3. \A q \in Request \ {r} : Same(q)
    BY <1>3, <2>1, <2>2 DEF Same
  <2>4. Live(r) /\ Live(r)' /\ ~Executing(r)'
    BY <1>3, <2>1 DEF Live, Executing
  <2>5. RInv(r)'
    BY <1>1, <1>2, <1>3, <2>1, <2>2, <2>4, RequestIsCaller
       DEF RInv, Placed, Answered, Counted
  <2> QED
    BY <2>1, <2>3, <2>4, <2>5, OthersKept DEF Forgotten
<1> QED
  BY <1>4, <1>5

LEMMA FinishInv ==
    ASSUME TypeInv, RequestTypes, RequestInv, NEW r \in Request,
           FinishSuccess(r) \/ FinishFailure(r)
    PROVE  KeepsRequests
<1>1. /\ pc[r] \in {"succeeded", "failed"} /\ pc' = [pc EXCEPT ![r] = "idle"]
      /\ UNCHANGED <<dispatching, patience, attempts>>
  BY DEF FinishSuccess, FinishFailure, Finished, RestAfterSuccess, RestAfterFailure,
         QuarantineIp, ReturnLater
<1>2. \/ /\ \E value \in {"result", "exception"} : Resolve(r, value)
         /\ UNCHANGED <<queue, failureCount>>
      \/ CanRetry(r) /\ Retry(r)
  BY DEF FinishSuccess, FinishFailure, GiveUp
<1> QED
  BY <1>1, <1>2, FinishKept

LEMMA ElapsesInv ==
    ASSUME TypeInv, RequestTypes, RequestInv, Elapses
    PROVE  KeepsRequests
<1>1. UNCHANGED <<queue, dispatching, pc, future, failureCount, attempts>>
  BY DEF Elapses, callerVars
<1>2. QueueInv' /\ \A q \in Request : Queued(q)' <=> Queued(q)
  BY <1>1, QueueFrame DEF RequestInv
<1>3. ASSUME NEW r \in Request PROVE RInv(r)' /\ (Forgotten(r)' => Forgotten(r))
  <2>1. (Live(r)' <=> Live(r)) /\ (Executing(r)' <=> Executing(r))
    BY <1>1, <1>2 DEF Live, Executing
  <2>2. patience[r] = 0 => patience'[r] = 0
    BY DEF Elapses, Elapsed
  <2>3. RInv(r)'
    BY <1>1, <1>2, <2>1, <2>2 DEF RequestInv, RInv, Placed, Answered, Counted
  <2> QED
    BY <1>1, <2>1, <2>3 DEF Forgotten
<1> QED
  BY <1>2, <1>3 DEF RequestInv, KeepsRequests, NoneForgotten

LEMMA UntouchedInv ==
    ASSUME RequestInv, UNCHANGED <<pc, dispatchVars, requestVars>>
    PROVE  KeepsRequests
<1>1. UNCHANGED <<queue, dispatching, pc, future, patience, failureCount, attempts>>
  BY DEF dispatchVars, requestVars
<1>2. QueueInv' /\ \A q \in Request : Queued(q)' <=> Queued(q)
  BY <1>1, QueueFrame DEF RequestInv
<1>3. \A r \in Request : Same(r)
  BY <1>1, <1>2 DEF Same
<1> QED
  BY <1>2, <1>3, SameKept DEF RequestInv, KeepsRequests, NoneForgotten

LEMMA RequestInvNext ==
    TypeInv /\ RequestTypes /\ RequestInv /\ [TMNext]_tmVars => KeepsRequests
<1> SUFFICES ASSUME TypeInv, RequestTypes, RequestInv, [TMNext]_tmVars PROVE KeepsRequests
  OBVIOUS
<1>1. CASE PoolStep
  <2>1. UNCHANGED <<pc, dispatchVars, requestVars>>
    BY <1>1 DEF PoolStep, InstanceStep, InitTarget, Seed, SweepClaim, SweepPush, SweepReset,
                ReturnAfterCooldown, callerVars
  <2> QED
    BY <2>1, UntouchedInv
<1>2. CASE UNCHANGED tmVars
  BY <1>2, UntouchedInv DEF tmVars, vars, callerVars
<1>3. ASSUME NEW i \in Instance, DispatcherStep(i) PROVE KeepsRequests
  BY <1>3, DropExpiredInv, StartAcquireInv, DispatchInv, DropNoIpInv DEF DispatcherStep
<1>4. ASSUME NEW r \in Request, RequestStep(r) PROVE KeepsRequests
  BY <1>4, SubmitInv, HandlerTimeoutInv, ForgetInv, ReportInv, FinishInv DEF RequestStep
<1>5. CASE TMTick
  BY <1>5, ElapsesInv DEF TMTick
<1> QED
  BY <1>1, <1>2, <1>3, <1>4, <1>5 DEF TMNext

LEMMA ManagerTypeInv == TMSpec => [](TypeInv /\ RequestTypes)
<1>1. Init => TypeInv
  BY InitTypeOK DEF TypeInv, HasAddress, Init
<1>2. TypeInv /\ [TMNext]_tmVars => TypeInv'
  BY ManagerStepIsPoolStep, NextTypeOK, NextHasAddress DEF TypeInv
<1>3. TMInit => Init
  BY DEF TMInit
<1> QED
  BY <1>1, <1>2, <1>3, RequestTypesInit, RequestTypesNext, PTL DEF TMSpec

LEMMA RequestInvariant == TMSpec => [](RequestInv /\ \A r \in Request : ~Forgotten(r))
<1> DEFINE AllKept == \A r \in Request : ~Forgotten(r)
<1>1. TMInit => AllKept
  BY DEF TMInit, Forgotten
<1>2. AllKept /\ KeepsRequests => RequestInv' /\ AllKept'
  BY DEF KeepsRequests, NoneForgotten
<1> HIDE DEF AllKept
<1>3. TMSpec => [](RequestInv /\ AllKept)
  BY <1>1, <1>2, ManagerTypeInv, RequestInvInit, RequestInvNext, PTL DEF TMSpec
<1> QED
  BY <1>3 DEF AllKept

(* A request whose client waits is in the queue, with the dispatcher or     *)
(* executing, in one of these places and once, although each retry is a     *)
(* clone with the future of the request it replaces.                        *)
THEOREM OneIncarnationAlways == TMSpec => []OneIncarnation
<1>1. RequestInv /\ (\A r \in Request : ~Forgotten(r)) => OneIncarnation
  <2> SUFFICES ASSUME RequestInv, NEW r \in Request, ~Forgotten(r)
               PROVE  /\ future[r] = "pending" => Live(r)
                      /\ \A m, n \in DOMAIN queue[Home[r]] :
                            queue[Home[r]][m] = r /\ queue[Home[r]][n] = r => m = n
                      /\ Queued(r) => ~Executing(r) /\ dispatching[Home[r]] # r
                      /\ dispatching[Home[r]] = r => ~Executing(r)
    BY DEF OneIncarnation
  <2>1. RInv(r) /\ Distinct(queue[Home[r]])
    BY RequestIsCaller DEF RequestInv, QueueInv
  <2> QED
    BY <2>1, RequestIsCaller DEF RInv, Placed, Forgotten, Executing, Distinct
<1> QED
  BY <1>1, RequestInvariant, PTL

(* A request is sent num_retries + 1 times at most, over all its clones.    *)
THEOREM AttemptsBoundedAlways == TMSpec => []AttemptsBounded
<1>1. RequestInv => AttemptsBounded
  BY DEF RequestInv, RInv, Counted, AttemptsBounded
<1> QED
  BY <1>1, RequestInvariant, PTL

----------------------------------------------------------------------------
(* What is left of the dispatcher's pop, and of its request's time. *)

Headroom(k) ==
    \A i \in Instance, r \in Request : dispatching[i] = r => popLeft[i] + k <= patience[r]

PopsWithin(k) == \A t \in 1 .. MaxQueueWait : PopBudget[t] + k <= t + Grace

LEMMA HeadroomFrame ==
    ASSUME NEW k \in Nat, Headroom(k), UNCHANGED <<dispatching, popLeft, patience>>
    PROVE  Headroom(k)'
BY DEF Headroom

\* a step that changes the time of r, which no dispatcher acquires for
LEMMA HeadroomOthers ==
    ASSUME NEW k \in Nat, Headroom(k), NEW r \in Request,
           \A i \in Instance : dispatching[i] # r,
           \A q \in Request \ {r} : patience'[q] = patience[q],
           UNCHANGED <<dispatching, popLeft>>
    PROVE  Headroom(k)'
BY DEF Headroom

\* a step that ends what the dispatcher of i does
LEMMA HeadroomIdle ==
    ASSUME RequestTypes, NEW k \in Nat, Headroom(k), NEW i \in Instance,
           dispatching' = [dispatching EXCEPT ![i] = None],
           \A j \in Instance \ {i} : popLeft'[j] = popLeft[j],
           UNCHANGED patience
    PROVE  Headroom(k)'
BY RequestIsCaller DEF Headroom, RequestTypes

LEMMA HeadroomStart ==
    ASSUME RequestTypes, NEW k \in Nat, PopsWithin(k), Headroom(k),
           NEW i \in Instance, NEW r, StartAcquire(i, r)
    PROVE  Headroom(k)'
<1>0. r \in Request
  BY HeadTypes DEF StartAcquire
<1>1. patience[r] \in 0 .. MaxQueueWait + Grace /\ patience[r] > Grace
  BY <1>0, RequestAssumption DEF StartAcquire, IsExpired, RequestTypes
<1> DEFINE t == patience[r] - Grace
<1>2. t \in 1 .. MaxQueueWait /\ TimeRemaining(r) = t
  BY <1>1, RequestAssumption DEF TimeRemaining
<1>3. PopBudget[t] + k <= patience[r]
  <2>1. PopBudget[t] + k <= t + Grace
    BY <1>2 DEF PopsWithin
  <2>2. t + Grace = patience[r]
    BY <1>1, RequestAssumption
  <2> QED
    BY <2>1, <2>2
<1>4. /\ dispatching'[i] = r /\ popLeft'[i] = PopBudget[t]
      /\ \A j \in Instance \ {i} : dispatching'[j] = dispatching[j] /\ popLeft'[j] = popLeft[j]
      /\ UNCHANGED patience
  BY <1>2 DEF StartAcquire, RequestTypes, requestVars
<1> HIDE DEF t
<1> QED
  BY <1>0, <1>3, <1>4 DEF Headroom

LEMMA HeadroomTick ==
    ASSUME RequestTypes, NEW k \in Nat, Headroom(k), Elapses,
           \A i \in Instance : ~(dispatching[i] # None /\ popLeft[i] = 0)
    PROVE  Headroom(k)'
<1> SUFFICES ASSUME NEW i \in Instance, NEW r \in Request, dispatching'[i] = r
             PROVE  popLeft'[i] + k <= patience'[r]
  BY DEF Headroom
<1>1. dispatching[i] = r /\ popLeft[i] # 0
  BY RequestIsCaller DEF Elapses
<1>2. popLeft[i] \in Nat \ {0} /\ patience[r] \in Nat /\ popLeft[i] + k <= patience[r]
  BY <1>1, RequestAssumption DEF RequestTypes, Headroom
<1>3. popLeft'[i] = popLeft[i] - 1 /\ patience'[r] = patience[r] - 1
  BY <1>2 DEF Elapses, Elapsed
<1> QED
  BY <1>2, <1>3

LEMMA HeadroomNext ==
    ASSUME NEW k \in Nat, PopsWithin(k)
    PROVE  RequestTypes /\ RequestInv /\ Headroom(k) /\ [TMNext]_tmVars => Headroom(k)'
<1> SUFFICES ASSUME RequestTypes, RequestInv, Headroom(k), [TMNext]_tmVars
             PROVE  Headroom(k)'
  OBVIOUS
<1>1. CASE UNCHANGED <<dispatching, popLeft, patience>>
  BY <1>1, HeadroomFrame
<1>2. ASSUME NEW i \in Instance, DispatcherStep(i) PROVE Headroom(k)'
  <2> PICK r \in Request : \/ DropExpired(i, r) \/ StartAcquire(i, r)
                           \/ Dispatch(i, r) \/ DropNoIp(i, r)
    BY <1>2 DEF DispatcherStep
  <2>1. CASE DropExpired(i, r)
    BY <1>1, <2>1 DEF DropExpired
  <2>2. CASE StartAcquire(i, r)
    BY <2>2, HeadroomStart
  <2>3. CASE Dispatch(i, r) \/ DropNoIp(i, r)
    <3>1. /\ dispatching' = [dispatching EXCEPT ![i] = None]
          /\ \A j \in Instance \ {i} : popLeft'[j] = popLeft[j]
          /\ UNCHANGED patience
      BY <2>3 DEF Dispatch, DropNoIp, RequestTypes
    <3> QED
      BY <3>1, HeadroomIdle
  <2> QED
    BY <2>1, <2>2, <2>3
<1>3. ASSUME NEW r \in Request, Submit(r) \/ Forget(r) PROVE Headroom(k)'
  <2>1. ~Live(r) /\ RInv(r)
    BY <1>3 DEF Submit, Forget, RequestInv, RInv, Answered
  <2>2. \A i \in Instance : dispatching[i] # r
    BY <2>1 DEF RInv, Placed, Live
  <2>3. /\ \A q \in Request \ {r} : patience'[q] = patience[q]
        /\ UNCHANGED <<dispatching, popLeft>>
    BY <1>3 DEF Submit, Forget, dispatchVars, RequestTypes
  <2> QED
    BY <2>2, <2>3, HeadroomOthers
<1>4. ASSUME NEW r \in Request,
             HandlerTimeout(r) \/ Report(r) \/ FinishSuccess(r) \/ FinishFailure(r)
      PROVE  Headroom(k)'
  BY <1>1, <1>4 DEF HandlerTimeout, Report, Succeed, Fail, FinishSuccess, FinishFailure,
                    Finished, dispatchVars
<1>5. CASE TMTick
  BY <1>5, HeadroomTick DEF TMTick, LoopsIdle
<1>6. CASE PoolStep \/ UNCHANGED tmVars
  BY <1>1, <1>6 DEF PoolStep, tmVars, dispatchVars, requestVars
<1> QED
  BY <1>2, <1>3, <1>4, <1>5, <1>6 DEF TMNext, RequestStep

LEMMA HeadroomInit == ASSUME NEW k \in Nat PROVE TMInit => Headroom(k)
BY RequestIsCaller DEF TMInit, Headroom

\* nobody has answered a request that has time left
LEMMA HeadroomAnswered == RequestTypes /\ RequestInv /\ Headroom(1) => NoWorkForTheAnswered
<1> SUFFICES ASSUME RequestTypes, RequestInv, Headroom(1),
                    NEW i \in Instance, dispatching[i] # None
             PROVE  future[dispatching[i]] = "pending"
  BY DEF NoWorkForTheAnswered
<1> DEFINE r == dispatching[i]
<1>1. r \in Request /\ RInv(r)
  BY DEF RequestTypes, RequestInv
<1>2. popLeft[i] + 1 <= patience[r] /\ popLeft[i] \in Nat
  BY <1>1 DEF Headroom, RequestTypes
<1>3. Live(r) /\ patience[r] # 0
  BY <1>1, <1>2 DEF RInv, Placed, Live
<1> QED
  BY <1>1, <1>3 DEF RInv, Answered

(* Where pop_ip overruns its timeout by less than the handler's grace, as   *)
(* both backends do, the dispatcher never waits for an address on behalf of *)
(* a request that has been answered, although a retry may be queued after   *)
(* the handler's 504.                                                       *)
THEOREM NoWorkForTheAnsweredAlways ==
    ASSUME \A t \in 1 .. MaxQueueWait : PopBudget[t] < t + Grace
    PROVE  TMSpec => []NoWorkForTheAnswered
<1>1. 1 \in Nat /\ PopsWithin(1)
  BY RequestAssumption DEF PopsWithin
<1>2. TMInit => Headroom(1)
  BY <1>1, HeadroomInit
<1>3. RequestTypes /\ RequestInv /\ Headroom(1) /\ [TMNext]_tmVars => Headroom(1)'
  BY <1>1, HeadroomNext
<1> QED
  BY <1>2, <1>3, HeadroomAnswered, ManagerTypeInv, RequestInvariant, PTL DEF TMSpec

(* No execution starts after its request's deadline, where pop_ip gives up  *)
(* when it was asked to: with the memory backend.                           *)
THEOREM DispatchedInTimeAlways ==
    ASSUME \A t \in 1 .. MaxQueueWait : PopBudget[t] <= t
    PROVE  TMSpec => DispatchedInTime
<1>1. Grace \in Nat /\ PopsWithin(Grace)
  BY RequestAssumption DEF PopsWithin
<1>2. TMInit => Headroom(Grace)
  BY <1>1, HeadroomInit
<1>3. RequestTypes /\ RequestInv /\ Headroom(Grace) /\ [TMNext]_tmVars => Headroom(Grace)'
  BY <1>1, HeadroomNext
<1>4. RequestTypes /\ RequestInv /\ Headroom(Grace) /\ [TMNext]_tmVars =>
         [\A r \in Request :
            pc[r] = "waiting" /\ pc'[r] = "holding" => patience[r] >= Grace]_tmVars
  <2> SUFFICES ASSUME RequestTypes, RequestInv, Headroom(Grace),
                      NEW r \in Request, pc[r] = "waiting"
               PROVE  patience[r] >= Grace
    OBVIOUS
  <2>1. dispatching[Home[r]] = r
    BY DEF RequestInv, RInv, Placed
  <2>2. popLeft[Home[r]] + Grace <= patience[r]
    BY <2>1, RequestIsCaller DEF Headroom
  <2>3. popLeft[Home[r]] \in Nat /\ patience[r] \in Nat
    BY RequestIsCaller, RequestAssumption DEF RequestTypes
  <2> QED
    BY <1>1, <2>2, <2>3
<1> QED
  BY <1>2, <1>3, <1>4, ManagerTypeInv, RequestInvariant, PTL DEF TMSpec, DispatchedInTime

----------------------------------------------------------------------------
(* The queue keeps the order of the deadlines for those not tried yet.      *)

\* nobody ahead of a first attempt has more time than it
Ordered(s) ==
    \A m, n \in DOMAIN s :
       m < n /\ failureCount[s[n]] = 0 => patience[s[m]] <= patience[s[n]]

NoMoreTimeThan(r, s) ==
    \A n \in DOMAIN s : failureCount[s[n]] = 0 => patience[r] <= patience[s[n]]

InOrder ==
    \A i \in Instance :
       /\ Ordered(queue[i])
       /\ \A r \in Request : dispatching[i] = r => NoMoreTimeThan(r, queue[i])

Serves == \A r \in Request : future[r] # "none" => phase[Home[r]] = "running"

Waits(r) == Queued(r) \/ dispatching[Home[r]] = r

FreshInTime == \A r \in Request : Waits(r) /\ failureCount[r] = 0 => patience[r] >= Grace

LEMMA InOrderInit == TMInit => InOrder /\ Serves /\ FreshInTime
<1> SUFFICES ASSUME TMInit PROVE InOrder /\ Serves /\ FreshInTime
  OBVIOUS
<1>1. \A i \in Instance : queue[i] = <<>> /\ DOMAIN queue[i] = {} /\ dispatching[i] = None
  BY EmptySeq, LenProperties DEF TMInit
<1>2. \A r \in Request : ~Waits(r)
  BY <1>1, RequestIsCaller DEF Waits, Queued
<1> QED
  BY <1>1, <1>2 DEF InOrder, Ordered, NoMoreTimeThan, Serves, FreshInTime, TMInit

LEMMA TailOrder ==
    ASSUME NEW s \in Seq(Request), s # <<>>, Ordered(s)
    PROVE  Ordered(Tail(s)) /\ NoMoreTimeThan(Head(s), Tail(s))
<1>1. /\ DOMAIN s = 1 .. Len(s)
      /\ Len(s) \in Nat \ {0}
      /\ DOMAIN Tail(s) = 1 .. Len(s) - 1
      /\ \A n \in 1 .. Len(s) - 1 : Tail(s)[n] = s[n + 1]
      /\ Head(s) = s[1]
  BY LenProperties, EmptySeq, HeadTailProperties
<1>2. ASSUME NEW m \in DOMAIN Tail(s), NEW n \in DOMAIN Tail(s), m < n,
             failureCount[Tail(s)[n]] = 0
      PROVE  patience[Tail(s)[m]] <= patience[Tail(s)[n]]
  <2>1. /\ m + 1 \in DOMAIN s /\ n + 1 \in DOMAIN s /\ m + 1 < n + 1
        /\ Tail(s)[m] = s[m + 1] /\ Tail(s)[n] = s[n + 1]
    BY <1>1, <1>2
  <2> QED
    BY <1>2, <2>1 DEF Ordered
<1>3. ASSUME NEW n \in DOMAIN Tail(s), failureCount[Tail(s)[n]] = 0
      PROVE  patience[Head(s)] <= patience[Tail(s)[n]]
  <2>1. /\ 1 \in DOMAIN s /\ n + 1 \in DOMAIN s /\ 1 < n + 1
        /\ Head(s) = s[1] /\ Tail(s)[n] = s[n + 1]
    BY <1>1
  <2> QED
    BY <1>3, <2>1 DEF Ordered
<1> QED
  BY <1>2, <1>3 DEF Ordered, NoMoreTimeThan

\* a step that changes no order: at most the time of a request that waits nowhere
LEMMA InOrderKept ==
    ASSUME RequestTypes, QueueInv, InOrder, UNCHANGED <<queue>>, NEW X \in SUBSET Request,
           \A r \in X : ~Waits(r) /\ \A i \in Instance : dispatching[i] # r,
           \A q \in Request \ X : /\ failureCount'[q] = failureCount[q]
                                  /\ patience'[q] = patience[q],
           \A i \in Instance : dispatching'[i] \in {None, dispatching[i]}
    PROVE  InOrder'
<1> SUFFICES ASSUME NEW i \in Instance
             PROVE  /\ Ordered(queue[i])'
                    /\ \A r \in Request : dispatching'[i] = r => NoMoreTimeThan(r, queue[i])'
  BY DEF InOrder
<1>1. \A n \in DOMAIN queue[i] : queue[i][n] \in Request \ X
  <2> SUFFICES ASSUME NEW n \in DOMAIN queue[i] PROVE queue[i][n] \in Request \ X
    OBVIOUS
  <2>1. queue[i][n] \in Request
    BY LenProperties DEF RequestTypes
  <2>2. Home[queue[i][n]] = i /\ Queued(queue[i][n])
    BY <2>1 DEF QueueInv, In, Queued
  <2> QED
    BY <2>1, <2>2 DEF Waits
<1>2. Ordered(queue[i])'
  BY <1>1 DEF InOrder, Ordered
<1>3. ASSUME NEW r \in Request, dispatching'[i] = r PROVE NoMoreTimeThan(r, queue[i])'
  <2>1. dispatching[i] = r /\ r \notin X
    BY <1>3, RequestIsCaller
  <2>2. NoMoreTimeThan(r, queue[i]) /\ patience'[r] = patience[r]
    BY <2>1 DEF InOrder
  <2> QED
    BY <1>1, <2>2 DEF NoMoreTimeThan
<1> QED
  BY <1>2, <1>3

LEMMA FreshKept ==
    ASSUME RequestTypes, FreshInTime, UNCHANGED <<queue>>, NEW X \in SUBSET Request,
           \A r \in X : ~Waits(r),
           \A q \in Request \ X : /\ failureCount'[q] = failureCount[q]
                                  /\ patience'[q] = patience[q],
           \A i \in Instance : dispatching'[i] \in {None, dispatching[i]}
    PROVE  FreshInTime'
<1> SUFFICES ASSUME NEW r \in Request, Waits(r)', failureCount'[r] = 0
             PROVE  patience'[r] >= Grace
  BY DEF FreshInTime
<1>1. Waits(r)
  BY RequestIsCaller DEF Waits, Queued
<1> QED
  BY <1>1 DEF FreshInTime

LEMMA DequeueOrder ==
    ASSUME RequestTypes, QueueInv, InOrder, FreshInTime,
           NEW i \in Instance, NEW r, TakeHead(i, r), UNCHANGED <<patience, failureCount>>,
           \/ UNCHANGED dispatching
           \/ dispatching' = [dispatching EXCEPT ![i] = r]
    PROVE  InOrder' /\ FreshInTime'
<1>1. /\ r \in Request /\ Home[r] = i /\ Queued(r)
      /\ \A q \in Request \ {r} : Queued(q)' <=> Queued(q)
  BY DequeuePlaces
<1>2. /\ queue[i] \in Seq(Request) /\ queue[i] # <<>> /\ r = Head(queue[i])
      /\ queue'[i] = Tail(queue[i])
      /\ \A j \in Instance \ {i} : queue'[j] = queue[j]
      /\ dispatching[i] = None
  BY DEF RequestTypes, TakeHead
<1>3. Ordered(queue'[i]) /\ NoMoreTimeThan(r, queue'[i])
  BY <1>2, TailOrder DEF InOrder
<1>4. /\ dispatching'[i] \in {None, r}
      /\ \A j \in Instance \ {i} : dispatching'[j] = dispatching[j]
  BY <1>2 DEF RequestTypes
<1>5. ASSUME NEW j \in Instance
      PROVE  /\ Ordered(queue[j])'
             /\ \A q \in Request : dispatching'[j] = q => NoMoreTimeThan(q, queue[j])'
  <2>1. CASE j = i
    BY <1>3, <1>4, <2>1, RequestIsCaller DEF Ordered, NoMoreTimeThan
  <2>2. CASE j # i
    BY <1>2, <1>4, <2>2 DEF InOrder, Ordered, NoMoreTimeThan
  <2> QED
    BY <2>1, <2>2
<1>6. ASSUME NEW q \in Request, Waits(q)', failureCount'[q] = 0
      PROVE  patience'[q] >= Grace
  <2>1. Waits(q)
    BY <1>1, <1>4, <1>6, RequestIsCaller DEF Waits
  <2> QED
    BY <1>6, <2>1 DEF FreshInTime
<1> QED
  BY <1>5, <1>6 DEF InOrder, FreshInTime

LEMMA EnqueueOrder ==
    ASSUME RequestTypes, RequestTypes', QueueInv, InOrder, FreshInTime,
           NEW r \in Request, ~Waits(r), \A i \in Instance : dispatching[i] # r,
           queue' = [queue EXCEPT ![Home[r]] = Append(@, r)],
           \A q \in Request \ {r} : /\ failureCount'[q] = failureCount[q]
                                    /\ patience'[q] = patience[q],
           failureCount'[r] = 0 => patience'[r] = MaxQueueWait + Grace,
           UNCHANGED dispatching
    PROVE  InOrder' /\ FreshInTime'
<1>1. failureCount'[r] = 0 => \A q \in Request : patience'[q] <= patience'[r]
  BY RequestAssumption DEF RequestTypes
<1> DEFINE h == Home[r]
           s == queue[h]
<1>2. /\ h \in Instance /\ s \in Seq(Request)
      /\ queue'[h] = Append(s, r)
      /\ \A j \in Instance \ {h} : queue'[j] = queue[j]
  BY RequestIsCaller DEF RequestTypes
<1>3. ASSUME NEW j \in Instance, NEW n \in DOMAIN queue[j]
      PROVE  queue[j][n] \in Request \ {r}
  <2>1. queue[j][n] \in Request
    BY LenProperties DEF RequestTypes
  <2>2. Home[queue[j][n]] = j /\ Queued(queue[j][n])
    BY <2>1 DEF QueueInv, In, Queued
  <2> QED
    BY <2>1, <2>2 DEF Waits
<1>4. /\ DOMAIN s = 1 .. Len(s)
      /\ DOMAIN Append(s, r) = 1 .. Len(s) + 1
      /\ Len(s) \in Nat
      /\ \A n \in 1 .. Len(s) : Append(s, r)[n] = s[n]
      /\ Append(s, r)[Len(s) + 1] = r
  BY <1>2, LenProperties, AppendProperties
<1>5. \A n \in DOMAIN Append(s, r) :
         \/ n \in DOMAIN s /\ Append(s, r)[n] = s[n] /\ s[n] \in Request \ {r}
         \/ n = Len(s) + 1 /\ Append(s, r)[n] = r
  BY <1>2, <1>3, <1>4
<1>6. \A m, n \in DOMAIN Append(s, r) : m < n => m \in DOMAIN s
  BY <1>4
<1> HIDE DEF s, h
<1>7. Ordered(queue[h])'
  <2> SUFFICES ASSUME NEW m \in DOMAIN Append(s, r), NEW n \in DOMAIN Append(s, r), m < n,
                      failureCount'[Append(s, r)[n]] = 0
               PROVE  patience'[Append(s, r)[m]] <= patience'[Append(s, r)[n]]
    BY <1>2 DEF Ordered
  <2>1. m \in DOMAIN s /\ Append(s, r)[m] = s[m] /\ s[m] \in Request \ {r}
    BY <1>2, <1>3, <1>4, <1>6 DEF s
  <2>2. CASE n \in DOMAIN s /\ Append(s, r)[n] = s[n] /\ s[n] \in Request \ {r}
    <3>1. Ordered(s)
      BY <1>2 DEF InOrder, s
    <3> QED
      BY <2>1, <2>2, <3>1 DEF Ordered
  <2>3. CASE Append(s, r)[n] = r
    BY <1>1, <2>1, <2>3
  <2> QED
    BY <1>5, <2>2, <2>3
<1>8. ASSUME NEW q \in Request, dispatching'[h] = q PROVE NoMoreTimeThan(q, queue[h])'
  <2> SUFFICES ASSUME NEW n \in DOMAIN Append(s, r), failureCount'[Append(s, r)[n]] = 0
               PROVE  patience'[q] <= patience'[Append(s, r)[n]]
    BY <1>2 DEF NoMoreTimeThan
  <2>1. q # r /\ NoMoreTimeThan(q, s)
    BY <1>2, <1>8 DEF InOrder, s
  <2>2. CASE n \in DOMAIN s /\ Append(s, r)[n] = s[n] /\ s[n] \in Request \ {r}
    BY <2>1, <2>2 DEF NoMoreTimeThan
  <2>3. CASE Append(s, r)[n] = r
    BY <1>1, <2>3
  <2> QED
    BY <1>5, <2>2, <2>3
<1>9. ASSUME NEW j \in Instance
      PROVE  /\ Ordered(queue[j])'
             /\ \A q \in Request : dispatching'[j] = q => NoMoreTimeThan(q, queue[j])'
  <2>1. CASE j = h
    BY <1>7, <1>8, <2>1
  <2>2. CASE j # h
    BY <1>2, <1>3, <2>2 DEF InOrder, Ordered, NoMoreTimeThan
  <2> QED
    BY <2>1, <2>2
<1>10. FreshInTime'
  <2> SUFFICES ASSUME NEW q \in Request, Waits(q)', failureCount'[q] = 0
               PROVE  patience'[q] >= Grace
    BY DEF FreshInTime
  <2>1. CASE q = r
    BY <2>1, RequestAssumption
  <2>2. CASE q # r
    <3>1. Queued(q)' <=> Queued(q)
      BY <2>2, EnqueuePlaces DEF Waits
    <3> QED
      BY <2>2, <3>1 DEF Waits, FreshInTime
  <2> QED
    BY <2>1, <2>2
<1> QED
  BY <1>9, <1>10 DEF InOrder

LEMMA TickOrder ==
    ASSUME RequestTypes, RequestInv, Headroom(Grace), InOrder, Serves, FreshInTime, TMTick
    PROVE  InOrder' /\ FreshInTime'
<1>1. /\ UNCHANGED <<queue, dispatching, failureCount>>
      /\ \A r \in Request : patience'[r] = Elapsed(patience[r]) /\ patience[r] \in Nat
  BY RequestAssumption DEF TMTick, Elapses, RequestTypes
<1>2. \A q, r \in Request : patience[q] <= patience[r] => patience'[q] <= patience'[r]
  BY <1>1 DEF Elapsed
<1>3. \A i \in Instance : \A n \in DOMAIN queue[i] : queue[i][n] \in Request
  BY LenProperties DEF RequestTypes
<1>4. InOrder'
  <2> SUFFICES ASSUME NEW i \in Instance
               PROVE  /\ Ordered(queue[i])'
                      /\ \A r \in Request : dispatching[i] = r => NoMoreTimeThan(r, queue[i])'
    BY <1>1 DEF InOrder
  <2> QED
    BY <1>1, <1>2, <1>3 DEF InOrder, Ordered, NoMoreTimeThan
<1>5. ASSUME NEW r \in Request, Waits(r), failureCount[r] = 0 PROVE patience[r] >= Grace + 1
  <2> DEFINE i == Home[r]
             d == dispatching[i]
  <2>1. i \in Instance /\ future[r] # "none"
    BY <1>5, RequestIsCaller DEF RequestInv, RInv, Answered, Waits, Live
  <2>2. d # None
    <3> SUFFICES ASSUME d = None PROVE FALSE
      OBVIOUS
    <3>1. PICK n \in DOMAIN queue[i] : queue[i][n] = r
      BY <1>5, RequestIsCaller DEF Waits, Queued
    <3>2. queue[i] # <<>>
      BY <2>1, <3>1, EmptySeq, LenProperties
    <3> QED
      BY <2>1, <3>2 DEF TMTick, LoopsIdle, Serves
  <2>3. d \in Request /\ popLeft[i] \in Nat \ {0}
    BY <2>1, <2>2 DEF RequestTypes, TMTick, LoopsIdle
  <2>4. patience[d] >= Grace + 1
    <3>1. popLeft[i] + Grace <= patience[d]
      BY <2>1, <2>3 DEF Headroom
    <3> QED
      BY <1>1, <2>3, <3>1, RequestAssumption
  <2>5. CASE d = r
    BY <2>4, <2>5
  <2>6. CASE Queued(r)
    <3>1. PICK n \in DOMAIN queue[i] : queue[i][n] = r
      BY <2>6 DEF Queued
    <3>2. patience[d] <= patience[r]
      BY <1>5, <2>1, <2>3, <3>1 DEF InOrder, NoMoreTimeThan
    <3> QED
      BY <1>1, <2>3, <2>4, <3>2, RequestAssumption
  <2> QED
    BY <1>5, <2>5, <2>6 DEF Waits
<1>6. FreshInTime'
  <2> SUFFICES ASSUME NEW r \in Request, Waits(r)', failureCount'[r] = 0
               PROVE  patience'[r] >= Grace
    BY DEF FreshInTime
  <2>1. Waits(r) /\ failureCount[r] = 0
    BY <1>1 DEF Waits, Queued
  <2> QED
    BY <1>1, <1>5, <2>1, RequestAssumption DEF Elapsed
<1> QED
  BY <1>4, <1>6

LEMMA ServesNext ==
    ASSUME TypeInv, RequestTypes, Serves, [TMNext]_tmVars PROVE Serves'
<1>1. \A i \in Instance : phase[i] = "running" => phase'[i] = "running"
  <2>1. [Next]_vars
    BY ManagerStepIsPoolStep
  <2>2. CASE UNCHANGED phase
    BY <2>2
  <2>3. ASSUME NEW i \in Instance, InitTarget(i) \/ Seed(i)
        PROVE  \A j \in Instance : phase[j] = "running" => phase'[j] = "running"
    BY <2>3 DEF InitTarget, Seed, TypeInv, TypeOK
  <2>4. UNCHANGED phase \/ \E i \in Instance : InitTarget(i) \/ Seed(i)
    BY <2>1 DEF Next, InstanceStep, CallerStep, Tick, vars, instanceVars, SweepClaim,
                SweepPush, SweepReset, ReturnAfterCooldown, Acquire, Pop, AcquireTimeout,
                RecordSuccess, RecordFailure, RestAfterSuccess, RestAfterFailure, QuarantineIp
  <2> QED
    BY <2>2, <2>3, <2>4
<1>2. ASSUME NEW r \in Request, future'[r] # "none", future[r] = "none"
      PROVE  phase[Home[r]] = "running"
  <2>1. \E q \in Request : Submit(q) /\ q = r
    <3>1. ASSUME NEW q \in Request, NEW value, Resolve(q, value) PROVE FALSE
      BY <1>2, <3>1 DEF Resolve, RequestTypes
    <3>2. ASSUME NEW i \in Instance, DispatcherStep(i) PROVE FALSE
      BY <1>2, <3>1, <3>2
         DEF DispatcherStep, DropExpired, StartAcquire, Dispatch, DropNoIp, requestVars
    <3>3. ASSUME NEW q \in Request, FinishSuccess(q) \/ FinishFailure(q) PROVE FALSE
      BY <1>2, <3>1, <3>3 DEF FinishSuccess, FinishFailure, Retry, GiveUp
    <3>4. ASSUME NEW q \in Request, HandlerTimeout(q) \/ Forget(q) PROVE FALSE
      BY <1>2, <3>4 DEF HandlerTimeout, Forget, RequestTypes
    <3>5. ASSUME NEW q \in Request, Report(q) PROVE FALSE
      BY <1>2, <3>5 DEF Report, Succeed, Fail
    <3>6. CASE PoolStep \/ TMTick \/ UNCHANGED tmVars
      BY <1>2, <3>6 DEF PoolStep, TMTick, Elapses, tmVars, requestVars
    <3>7. ASSUME NEW q \in Request, Submit(q) PROVE q = r
      BY <1>2, <3>7 DEF Submit, RequestTypes
    <3> QED
      BY <3>2, <3>3, <3>4, <3>5, <3>6, <3>7 DEF TMNext, RequestStep
  <2> QED
    BY <2>1 DEF Submit
<1> QED
  BY <1>1, <1>2, RequestIsCaller DEF Serves

LEMMA OrderNext ==
    ASSUME RequestTypes, RequestTypes', RequestInv, Headroom(Grace),
           InOrder, Serves, FreshInTime, [TMNext]_tmVars
    PROVE  InOrder' /\ FreshInTime'
<1> USE DEF RequestInv
<1>1. CASE /\ UNCHANGED <<queue, failureCount, patience>>
           /\ \A i \in Instance : dispatching'[i] \in {None, dispatching[i]}
  <2>1. /\ {} \in SUBSET Request
        /\ \A q \in Request \ {} : /\ failureCount'[q] = failureCount[q]
                                   /\ patience'[q] = patience[q]
    BY <1>1
  <2>2. InOrder'
    BY <1>1, <2>1, InOrderKept
  <2>3. FreshInTime'
    BY <1>1, <2>1, FreshKept
  <2> QED
    BY <2>2, <2>3
<1>2. ASSUME NEW i \in Instance, DispatcherStep(i) PROVE InOrder' /\ FreshInTime'
  <2> PICK r \in Request : \/ DropExpired(i, r) \/ StartAcquire(i, r)
                           \/ Dispatch(i, r) \/ DropNoIp(i, r)
    BY <1>2 DEF DispatcherStep
  <2>1. CASE DropExpired(i, r) \/ StartAcquire(i, r)
    <3>1. /\ TakeHead(i, r) /\ UNCHANGED <<patience, failureCount>>
          /\ \/ UNCHANGED dispatching
             \/ dispatching' = [dispatching EXCEPT ![i] = r]
      BY <2>1 DEF DropExpired, StartAcquire, requestVars
    <3> QED
      BY <3>1, DequeueOrder
  <2>2. CASE Dispatch(i, r) \/ DropNoIp(i, r)
    BY <1>1, <2>2 DEF Dispatch, DropNoIp, RequestTypes
  <2> QED
    BY <2>1, <2>2
<1>3. ASSUME NEW r \in Request, RInv(r), Submit(r) PROVE InOrder' /\ FreshInTime'
  <2>1. ~Waits(r) /\ \A i \in Instance : dispatching[i] # r
    BY <1>3 DEF Submit, RInv, Answered, Placed, Live, Waits
  <2>2. /\ queue' = [queue EXCEPT ![Home[r]] = Append(@, r)]
        /\ \A q \in Request \ {r} : /\ failureCount'[q] = failureCount[q]
                                    /\ patience'[q] = patience[q]
        /\ patience'[r] = MaxQueueWait + Grace
        /\ UNCHANGED dispatching
    BY <1>3 DEF Submit, RequestTypes
  <2> QED
    BY <2>1, <2>2, EnqueueOrder
<1>4. ASSUME NEW r \in Request, RInv(r), Forget(r) PROVE InOrder' /\ FreshInTime'
  <2>1. \A q \in {r} : ~Waits(q) /\ \A i \in Instance : dispatching[i] # q
    BY <1>4 DEF Forget, RInv, Placed, Live, Waits
  <2>2. /\ UNCHANGED <<queue, dispatching>>
        /\ \A q \in Request \ {r} : /\ failureCount'[q] = failureCount[q]
                                    /\ patience'[q] = patience[q]
    BY <1>4 DEF Forget, dispatchVars, RequestTypes
  <2>3. {r} \in SUBSET Request
    OBVIOUS
  <2>4. \A i \in Instance : dispatching'[i] \in {None, dispatching[i]}
    BY <2>2
  <2>5. InOrder'
    BY <2>1, <2>2, <2>3, <2>4, InOrderKept
  <2>6. FreshInTime'
    BY <2>1, <2>2, <2>3, <2>4, FreshKept
  <2> QED
    BY <2>5, <2>6
<1>5. ASSUME NEW r \in Request, RInv(r), FinishFailure(r) PROVE InOrder' /\ FreshInTime'
  <2>1. UNCHANGED <<dispatching, patience>> /\ Executing(r)
    BY <1>5 DEF FinishFailure, Finished, Executing, RestAfterFailure, QuarantineIp
  <2>2. CASE GiveUp(r)
    BY <1>1, <2>1, <2>2 DEF GiveUp
  <2>3. CASE Retry(r)
    <3>1. ~Waits(r) /\ \A i \in Instance : dispatching[i] # r
      BY <1>5, <2>1, RequestIsCaller DEF RInv, Placed, Executing, Waits
    <3>2. /\ queue' = [queue EXCEPT ![Home[r]] = Append(@, r)]
          /\ \A q \in Request \ {r} : failureCount'[q] = failureCount[q]
          /\ failureCount'[r] # 0
      BY <2>3, RequestAssumption DEF Retry, RequestTypes
    <3> QED
      BY <2>1, <3>1, <3>2, EnqueueOrder
  <2> QED
    BY <1>5, <2>2, <2>3 DEF FinishFailure
<1>6. ASSUME NEW r \in Request, HandlerTimeout(r) \/ Report(r) \/ FinishSuccess(r)
      PROVE  InOrder' /\ FreshInTime'
  BY <1>1, <1>6 DEF HandlerTimeout, Report, Succeed, Fail, FinishSuccess, Finished, dispatchVars
<1>7. CASE PoolStep \/ UNCHANGED tmVars
  BY <1>1, <1>7 DEF PoolStep, tmVars, dispatchVars, requestVars
<1>8. CASE TMTick
  BY <1>8, TickOrder
<1> QED
  BY <1>2, <1>3, <1>4, <1>5, <1>6, <1>7, <1>8 DEF TMNext, RequestStep

(* Where pop_ip gives up when it was asked to, a request that has not been  *)
(* tried yet waits for an address until its deadline and no longer: nobody  *)
(* ahead of it in the queue has more time left, so the single dispatcher    *)
(* drops or dispatches all of them before then.                             *)
THEOREM FirstWaitBoundedAlways ==
    ASSUME \A t \in 1 .. MaxQueueWait : PopBudget[t] <= t
    PROVE  TMSpec => []FirstWaitBounded
<1>1. Grace \in Nat /\ PopsWithin(Grace)
  BY RequestAssumption DEF PopsWithin
<1>2. TMInit => Headroom(Grace) /\ InOrder /\ Serves /\ FreshInTime
  BY <1>1, HeadroomInit, InOrderInit
<1>3. RequestTypes /\ RequestInv /\ Headroom(Grace) /\ [TMNext]_tmVars => Headroom(Grace)'
  BY <1>1, HeadroomNext
<1>4. /\ TypeInv /\ RequestTypes /\ RequestTypes' /\ RequestInv /\ Headroom(Grace)
      /\ InOrder /\ Serves /\ FreshInTime /\ [TMNext]_tmVars
      => InOrder' /\ Serves' /\ FreshInTime'
  BY OrderNext, ServesNext
<1>5. (\A r \in Request : ~Forgotten(r)) /\ FreshInTime => FirstWaitBounded
  BY DEF Forgotten, Live, FreshInTime, Waits, WaitsForIp, FirstWaitBounded
<1> QED
  BY <1>2, <1>3, <1>4, <1>5, ManagerTypeInv, RequestInvariant, PTL DEF TMSpec
=============================================================================
