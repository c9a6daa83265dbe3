---------------------- MODULE TargetManagerFaultsProofs ----------------------
(***************************************************************************)
(* What a failed call may break, for any instances, requests, settings and *)
(* any number of failures.  A step of TargetManagerFaults is a step of the *)
(* manager, of which everything is known, a tick, or an error; what an     *)
(* error does to the invariants of the manager is counted.                 *)
(***************************************************************************)
EXTENDS TargetManagerFaults, TargetManagerProofs, FiniteSetTheorems

LEMMA FaultStepKinds ==
    ASSUME [TMFNext]_tmfVars
    PROVE  \/ [TMNext]_tmVars /\ UNCHANGED errors
           \/ TMFTick
           \/ Error
<1>1. ASSUME NEW i \in Instance, InstanceTasks(i) \/ Dispatches(i)
      PROVE  [TMNext]_tmVars /\ UNCHANGED errors
  BY <1>1 DEF InstanceTasks, Dispatches, TMNext, PoolStep, errorVars
<1>2. ASSUME NEW r \in Request, ClientStep(r) \/ Reports(r) \/ Finishes(r)
      PROVE  [TMNext]_tmVars /\ UNCHANGED errors
  <2>1. ReportAgain(r) => Report(r)
    BY DEF ReportAgain, Report, Outcome
  <2>2. RequestStep(r)
    BY <1>2, <2>1 DEF ClientStep, Reports, Finishes, RequestStep
  <2> QED
    BY <1>2, <2>2 DEF TMNext, ClientStep, Reports, Finishes, errorVars
<1>3. CASE UNCHANGED tmfVars
  BY <1>3 DEF tmfVars, errorVars
<1> QED
  BY <1>1, <1>2, <1>3 DEF TMFNext

\* the ways an execution may go on after an error
LEMMA AfterError ==
    ASSUME NEW r \in Request, ReportError(r) \/ QuarantineError(r)
    PROVE  /\ pc[r] \in {"holding", "failed"}
           /\ \/ TakenOver(r)
              \/ Abandon(r)
BY DEF ReportError, QuarantineError

----------------------------------------------------------------------------
(* Types. *)

LEMMA AcquireErrorTypes ==
    ASSUME TypeInv, RequestTypes, NEW i \in Instance, NEW r \in Request, AcquireError(i, r)
    PROVE  TypeInv' /\ RequestTypes'
<1>1. pool' \in Seq(Address)
  <2>1. pool \in Seq(Address)
    BY DEF TypeInv, TypeOK, BackendTypeOK
  <2>2. UNCHANGED pool \/ (pool # <<>> /\ pool' = Tail(pool))
    BY DEF AcquireError, PopIp
  <2> QED
    BY <2>1, <2>2, HeadTailProperties
<1>2. TypeOK'
  BY <1>1 DEF AcquireError, TypeInv, TypeOK, BackendTypeOK, instanceVars, sweepVars, CallerState
<1>3. HasAddress'
  BY DEF AcquireError, HasAddress, TypeInv, TypeOK
<1>4. RequestTypes'
  BY DEF AcquireError, RequestTypes, requestVars
<1> QED
  BY <1>2, <1>3, <1>4 DEF TypeInv

LEMMA ExecutionErrorTypes ==
    ASSUME TypeInv, RequestTypes, NEW r \in Request, ReportError(r) \/ QuarantineError(r)
    PROVE  TypeInv' /\ RequestTypes'
<1>1. ip[r] \in Address
  BY RequestIsCaller, AfterError DEF TypeInv, HasAddress
<1>2. failures' \in [Address -> Nat]
  <2>1. failures \in [Address -> Nat]
    BY DEF TypeInv, TypeOK, BackendTypeOK
  <2>2. \/ UNCHANGED failures
        \/ ResetFailures(ip[r])
        \/ IncrementFailures(ip[r])
    BY DEF ReportError, QuarantineError, Counts
  <2> QED
    BY <1>1, <2>1, <2>2 DEF ResetFailures, IncrementFailures
<1>3. quarantine' \in [Address -> Nat \cup {NoEntry}]
  BY <1>1, PolicyAssumption
     DEF ReportError, QuarantineError, QuarantineAdd, TypeInv, TypeOK, BackendTypeOK
<1>4. CASE TakenOver(r)
  <2>1. TypeOK'
    BY <1>2, <1>3, <1>4 DEF TakenOver, TypeInv, TypeOK, BackendTypeOK, instanceVars, sweepVars,
                            CallerState
  <2>2. HasAddress'
    BY <1>1, <1>4 DEF TakenOver, HasAddress, TypeInv, TypeOK
  <2>3. RequestTypes'
    BY <1>4 DEF TakenOver, RequestTypes, dispatchVars
  <2> QED
    BY <2>1, <2>2, <2>3 DEF TypeInv
<1>5. CASE Abandon(r)
  <2>1. TypeOK'
    BY <1>2, <1>3, <1>5 DEF Abandon, TypeInv, TypeOK, BackendTypeOK, instanceVars, sweepVars,
                            CallerState
  <2>2. HasAddress'
    BY <1>5 DEF Abandon, HasAddress, TypeInv, TypeOK
  <2>3. RequestTypes'
    BY <1>5 DEF Abandon, RequestTypes, dispatchVars
  <2> QED
    BY <2>1, <2>2, <2>3 DEF TypeInv
<1> QED
  BY <1>4, <1>5, AfterError

LEMMA ReturnErrorTypes ==
    ASSUME TypeInv, RequestTypes, NEW i \in Instance, NEW a \in Address, ReturnError(i, a)
    PROVE  TypeInv' /\ RequestTypes'
<1>1. pool' \in Seq(Address)
  BY PushType DEF ReturnError, TypeInv, TypeOK, BackendTypeOK
<1>2. TypeOK'
  BY <1>1 DEF ReturnError, TypeInv, TypeOK, BackendTypeOK, instanceVars, callerVars, sweepVars,
              NoTask
<1>3. HasAddress'
  BY DEF ReturnError, HasAddress, TypeInv, callerVars
<1>4. RequestTypes'
  BY DEF ReturnError, RequestTypes, requestVars, dispatchVars
<1> QED
  BY <1>2, <1>3, <1>4 DEF TypeInv

LEMMA FaultTypesNext ==
    ASSUME TypeInv, RequestTypes, errors \in Nat, [TMFNext]_tmfVars
    PROVE  TypeInv' /\ RequestTypes' /\ errors' \in Nat
<1>1. ASSUME [Next]_vars PROVE TypeInv'
  BY <1>1, NextTypeOK, NextHasAddress DEF TypeInv
<1>2. CASE [TMNext]_tmVars /\ UNCHANGED errors
  BY <1>1, <1>2, ManagerStepIsPoolStep, RequestTypesNext
<1>3. CASE TMFTick
  BY <1>1, <1>3, ElapsesIsPoolStep, ElapsesTypes DEF TMFTick, errorVars
<1>4. CASE Error
  <2>1. errors' \in Nat
    BY <1>4 DEF Error, AcquireError, ReportError, QuarantineError, ReturnError, CallFails
  <2> QED
    BY <1>4, <2>1, AcquireErrorTypes, ExecutionErrorTypes, ReturnErrorTypes DEF Error
<1> QED
  BY <1>2, <1>3, <1>4, FaultStepKinds

----------------------------------------------------------------------------
(* Requests.  An error leaves every invariant of the manager as it is but  *)
(* one: the request of an acquire that fails, or of an execution that is   *)
(* abandoned, is nowhere, although its client waits.                       *)

LEMMA AcquireErrorInv ==
    ASSUME TypeInv, RequestTypes, RequestInv, NEW i \in Instance, NEW r \in Request,
           AcquireError(i, r)
    PROVE  RequestInv'
<1>1. RInv(r) /\ dispatching[i] = r
  BY DEF RequestInv, AcquireError
<1>2. Home[r] = i /\ ~Queued(r)
  BY <1>1 DEF RInv, Placed, AcquireError
<1>3. UNCHANGED <<queue, future, patience, failureCount, attempts>>
  BY DEF AcquireError, requestVars
<1>4. pc'[r] = "idle" /\ \A q \in Request \ {r} : pc'[q] = pc[q]
  BY RequestIsCaller DEF AcquireError, TypeInv, TypeOK
<1>5. /\ dispatching'[i] = None
      /\ \A j \in Instance \ {i} : dispatching'[j] = dispatching[j]
  BY DEF AcquireError, RequestTypes
<1>6. QueueInv' /\ \A q \in Request : Queued(q)' <=> Queued(q)
  BY <1>3, QueueFrame DEF RequestInv
<1>7. \A q \in Request \ {r} : Same(q)
  BY <1>1, <1>2, <1>3, <1>4, <1>5, <1>6, RequestIsCaller DEF Same
<1>8. ~Queued(r)' /\ \A j \in Instance : dispatching'[j] # r
  BY <1>1, <1>2, <1>5, <1>6, RequestIsCaller DEF RInv, Placed
<1>9. ~Live(r)' /\ ~Executing(r)' /\ Live(r)
  BY <1>1, <1>2, <1>4, <1>8 DEF Live, Executing
<1>10. RInv(r)'
  BY <1>1, <1>3, <1>4, <1>8, <1>9, RequestIsCaller DEF RInv, Placed, Answered, Counted
<1> QED
  BY <1>6, <1>7, <1>10, OthersKept

LEMMA ExecutionErrorInv ==
    ASSUME TypeInv, RequestTypes, RequestInv, NEW r \in Request,
           ReportError(r) \/ QuarantineError(r)
    PROVE  RequestInv'
<1>1. RInv(r) /\ Executing(r) /\ (TakenOver(r) \/ Abandon(r))
  BY AfterError DEF RequestInv, Executing
<1>2. ~Queued(r) /\ \A i \in Instance : dispatching[i] # r
  BY <1>1 DEF RInv, Placed, Executing
<1>3. UNCHANGED <<queue, dispatching, future, patience, failureCount, attempts>>
  BY <1>1 DEF TakenOver, Abandon, dispatchVars
<1>4. pc'[r] \in {"holding", "idle"} /\ \A q \in Request \ {r} : pc'[q] = pc[q]
  BY <1>1, RequestIsCaller DEF TakenOver, Abandon, TypeInv, TypeOK
<1>5. QueueInv' /\ \A q \in Request : Queued(q)' <=> Queued(q)
  BY <1>3, QueueFrame DEF RequestInv
<1>6. \A q \in Request \ {r} : Same(q)
  BY <1>3, <1>4, <1>5 DEF Same
<1>7. Live(r) /\ (Live(r)' <=> Executing(r)')
  BY <1>1, <1>2, <1>3, <1>5, RequestIsCaller DEF Live
<1>8. RInv(r)'
  BY <1>1, <1>2, <1>3, <1>4, <1>5, <1>7, RequestIsCaller
     DEF RInv, Placed, Answered, Counted, Executing
<1> QED
  BY <1>5, <1>6, <1>8, OthersKept

LEMMA ReturnErrorInv ==
    ASSUME RequestInv, NEW i \in Instance, NEW a \in Address, ReturnError(i, a)
    PROVE  RequestInv'
<1>1. UNCHANGED <<pc, dispatchVars, requestVars>>
  BY DEF ReturnError, callerVars
<1> QED
  BY <1>1, UntouchedInv DEF KeepsRequests

\* a request is forgotten by a failed call, and by nothing else
ForgottenByErrors == \A r \in Request : Forgotten(r) => errors > 0

FaultInv ==
    /\ TypeInv
    /\ RequestTypes
    /\ errors \in Nat
    /\ RequestInv
    /\ ForgottenByErrors

LEMMA FaultInvInit == TMFInit => FaultInv
<1>1. TMInit => TypeInv
  BY InitTypeOK DEF TypeInv, HasAddress, Init, TMInit
<1>2. TMInit => \A r \in Request : ~Forgotten(r)
  BY DEF TMInit, Forgotten
<1> QED
  BY <1>1, <1>2, RequestTypesInit, RequestInvInit DEF TMFInit, FaultInv, ForgottenByErrors

LEMMA FaultInvNext == FaultInv /\ [TMFNext]_tmfVars => FaultInv'
<1> SUFFICES ASSUME FaultInv, [TMFNext]_tmfVars PROVE FaultInv'
  OBVIOUS
<1> USE DEF FaultInv
<1>1. TypeInv' /\ RequestTypes' /\ errors' \in Nat
  BY FaultTypesNext
<1>2. CASE KeepsRequests /\ UNCHANGED errors
  BY <1>1, <1>2 DEF KeepsRequests, NoneForgotten, ForgottenByErrors
<1>3. CASE [TMNext]_tmVars /\ UNCHANGED errors
  BY <1>2, <1>3, RequestInvNext
<1>4. CASE TMFTick
  BY <1>2, <1>4, ElapsesInv DEF TMFTick, errorVars
<1>5. CASE Error
  <2>1. errors' = errors + 1
    BY <1>5 DEF Error, AcquireError, ReportError, QuarantineError, ReturnError, CallFails
  <2>2. RequestInv'
    BY <1>5, AcquireErrorInv, ExecutionErrorInv, ReturnErrorInv DEF Error
  <2> QED
    BY <1>1, <2>1, <2>2 DEF ForgottenByErrors
<1> QED
  BY <1>3, <1>4, <1>5, FaultStepKinds

LEMMA FaultInvariant == TMFSpec => []FaultInv
BY FaultInvInit, FaultInvNext, PTL DEF TMFSpec

(* Whichever calls fail, and however often, no request has a second         *)
(* incarnation: an execution that has been taken over by `except Exception' *)
(* gives up, so that the retry it might have queued and its second report   *)
(* exclude each other.  And a request without an incarnation is the work of *)
(* an error.                                                                *)
THEOREM NeverDoubledAlways == TMFSpec => []NeverDoubled
<1>1. FaultInv => NeverDoubled
  <2> SUFFICES ASSUME FaultInv, NEW r \in Request
               PROVE  /\ future[r] = "pending" /\ ~Live(r) => errors > 0
                      /\ \A m, n \in DOMAIN queue[Home[r]] :
                            queue[Home[r]][m] = r /\ queue[Home[r]][n] = r => m = n
                      /\ Queued(r) => ~Executing(r) /\ dispatching[Home[r]] # r
                      /\ dispatching[Home[r]] = r => ~Executing(r)
    BY DEF NeverDoubled
  <2>1. RInv(r) /\ Distinct(queue[Home[r]]) /\ ForgottenByErrors
    BY RequestIsCaller DEF FaultInv, RequestInv, QueueInv
  <2> QED
    BY <2>1, RequestIsCaller
       DEF RInv, Placed, ForgottenByErrors, Forgotten, Executing, Distinct
<1> QED
  BY <1>1, FaultInvariant, PTL

(* Failed calls and the retries they may bring about do not add attempts.   *)
THEOREM AttemptsBoundedDespiteErrors == TMFSpec => []AttemptsBounded
<1>1. FaultInv => AttemptsBounded
  BY DEF FaultInv, RequestInv, RInv, Counted, AttemptsBounded
<1> QED
  BY <1>1, FaultInvariant, PTL

(* The dispatcher waits for no address on behalf of an answered request,    *)
(* also when acquires fail and executions are abandoned or taken over.      *)
THEOREM NoWorkForTheAnsweredDespiteErrors ==
    ASSUME \A t \in 1 .. MaxQueueWait : PopBudget[t] < t + Grace
    PROVE  TMFSpec => []NoWorkForTheAnswered
<1>1. 1 \in Nat /\ PopsWithin(1)
  BY RequestAssumption DEF PopsWithin
<1>2. TMFInit => Headroom(1)
  BY <1>1, HeadroomInit DEF TMFInit
<1>3. FaultInv /\ Headroom(1) /\ [TMFNext]_tmfVars => Headroom(1)'
  <2> SUFFICES ASSUME FaultInv, Headroom(1), [TMFNext]_tmfVars PROVE Headroom(1)'
    OBVIOUS
  <2> USE DEF FaultInv
  <2>1. CASE [TMNext]_tmVars
    BY <1>1, <2>1, HeadroomNext
  <2>2. CASE TMFTick
    BY <1>1, <2>2, HeadroomTick DEF TMFTick
  <2>3. ASSUME NEW i \in Instance, NEW r \in Request, AcquireError(i, r)
        PROVE  Headroom(1)'
    <3>1. /\ dispatching' = [dispatching EXCEPT ![i] = None]
          /\ \A j \in Instance \ {i} : popLeft'[j] = popLeft[j]
          /\ UNCHANGED patience
      BY <2>3 DEF AcquireError, requestVars, RequestTypes
    <3> QED
      BY <1>1, <3>1, HeadroomIdle
  <2>4. ASSUME NEW r \in Request, ReportError(r) \/ QuarantineError(r)
        PROVE  Headroom(1)'
    <3>1. UNCHANGED <<dispatching, popLeft, patience>>
      BY <2>4, AfterError DEF TakenOver, Abandon, dispatchVars
    <3> QED
      BY <1>1, <3>1, HeadroomFrame
  <2>5. ASSUME NEW i \in Instance, NEW a \in Address, ReturnError(i, a)
        PROVE  Headroom(1)'
    BY <1>1, <2>5, HeadroomFrame DEF ReturnError, dispatchVars, requestVars
  <2> QED
    BY <2>1, <2>2, <2>3, <2>4, <2>5, FaultStepKinds DEF Error
<1>4. FaultInv /\ Headroom(1) => NoWorkForTheAnswered
  BY HeadroomAnswered DEF FaultInv
<1> QED
  BY <1>2, <1>3, <1>4, FaultInvariant, PTL DEF TMFSpec

----------------------------------------------------------------------------
(***************************************************************************)
(* Damage.  Once calls fail an address may be in several places at a time, *)
(* and OneHolder is of no use.  What takes its place is a count: the       *)
(* copies of an address are one more than the calls that have failed at    *)
(* the most, since a step that puts an address somewhere takes it from     *)
(* elsewhere, and an error adds one.  The failures of an address at or     *)
(* above the threshold, with the copies that may still be struck before    *)
(* the sweep resets the counter, exceed the threshold by no more.          *)
(***************************************************************************)

(* How often a sequence has an element. *)

Times(x, s) == Cardinality({n \in DOMAIN s : s[n] = x})

LEMMA Grows ==
    ASSUME NEW S, IsFiniteSet(S), NEW x, NEW T, T \subseteq S \cup {x}
    PROVE  IsFiniteSet(T) /\ Cardinality(T) <= Cardinality(S) + 1
<1>1. IsFiniteSet(S \cup {x}) /\ Cardinality(S \cup {x}) <= Cardinality(S) + 1
  <2>1. Cardinality(S) \in Nat
    BY FS_CardinalityType
  <2> QED
    BY <2>1, FS_AddElement
<1>2. IsFiniteSet(T) /\ Cardinality(T) <= Cardinality(S \cup {x})
  BY <1>1, FS_Subset
<1> QED
  BY <1>1, <1>2, FS_CardinalityType

LEMMA Shrinks ==
    ASSUME NEW S, IsFiniteSet(S), NEW x \in S, NEW T, T \subseteq S \ {x}
    PROVE  IsFiniteSet(T) /\ Cardinality(T) + 1 <= Cardinality(S)
<1>1. IsFiniteSet(S \ {x}) /\ Cardinality(S \ {x}) = Cardinality(S) - 1
  BY FS_RemoveElement
<1>2. IsFiniteSet(T) /\ Cardinality(T) <= Cardinality(S \ {x})
  BY <1>1, FS_Subset
<1> QED
  BY <1>1, <1>2, FS_CardinalityType

LEMMA TimesType ==
    ASSUME NEW S, NEW s \in Seq(S), NEW x
    PROVE  /\ IsFiniteSet({n \in DOMAIN s : s[n] = x})
           /\ Times(x, s) \in Nat
<1>1. DOMAIN s = 1 .. Len(s) /\ Len(s) \in Nat
  BY LenProperties
<1>2. IsFiniteSet(DOMAIN s)
  BY <1>1, FS_Interval
<1>3. IsFiniteSet({n \in DOMAIN s : s[n] = x})
  BY <1>2, FS_Subset
<1> QED
  BY <1>3, FS_CardinalityType DEF Times

LEMMA TimesAppend ==
    ASSUME NEW S, NEW s \in Seq(S), NEW y \in S, NEW x
    PROVE  Times(x, Append(s, y)) = Times(x, s) + IF x = y THEN 1 ELSE 0
<1> DEFINE at == {n \in DOMAIN s : s[n] = x}
           after == {n \in DOMAIN Append(s, y) : Append(s, y)[n] = x}
           last == Len(s) + 1
<1>1. /\ DOMAIN s = 1 .. Len(s)
      /\ DOMAIN Append(s, y) = 1 .. last
      /\ Len(s) \in Nat
      /\ \A n \in 1 .. Len(s) : Append(s, y)[n] = s[n]
      /\ Append(s, y)[last] = y
  BY LenProperties, AppendProperties
<1>2. last \notin at
  BY <1>1
<1>3. IsFiniteSet(at) /\ Cardinality(at) \in Nat
  BY TimesType DEF Times
<1>4. CASE x = y
  <2>1. after = at \cup {last}
    BY <1>1, <1>4
  <2> HIDE DEF at, after, last
  <2>2. Cardinality(after) = Cardinality(at) + 1
    BY <1>2, <1>3, <2>1, FS_AddElement
  <2> QED
    BY <1>4, <2>2 DEF Times, at, after
<1>5. CASE x # y
  <2>1. after = at
    BY <1>1, <1>5
  <2> HIDE DEF at, after, last
  <2>2. Cardinality(after) = Cardinality(at) + 0
    BY <1>2, <1>3, <2>1
  <2> QED
    BY <1>5, <2>2 DEF Times, at, after
<1> QED
  BY <1>4, <1>5

LEMMA TimesTail ==
    ASSUME NEW S, NEW s \in Seq(S), s # <<>>, NEW x
    PROVE  Times(x, s) = Times(x, Tail(s)) + IF x = Head(s) THEN 1 ELSE 0
<1> DEFINE at == {n \in DOMAIN s : s[n] = x}
           rest == at \ {1}
           after == {n \in DOMAIN Tail(s) : Tail(s)[n] = x}
           f == [n \in after |-> n + 1]
<1>1. /\ DOMAIN s = 1 .. Len(s)
      /\ Len(s) \in Nat \ {0}
      /\ DOMAIN Tail(s) = 1 .. Len(s) - 1
      /\ \A n \in 1 .. Len(s) - 1 : Tail(s)[n] = s[n + 1]
      /\ Head(s) = s[1]
      /\ Tail(s) \in Seq(S)
  BY LenProperties, EmptySeq, HeadTailProperties
<1>2. IsFiniteSet(at) /\ IsFiniteSet(after)
  BY <1>1, TimesType
<1>3. ExistsBijection(after, rest)
  <2>1. \A n \in after : f[n] \in rest
    BY <1>1
  <2>2. \A m, n \in after : f[m] = f[n] => m = n
    BY <1>1
  <2>3. \A m \in rest : \E n \in after : f[n] = m
    <3> SUFFICES ASSUME NEW m \in rest PROVE m - 1 \in after /\ f[m - 1] = m
      OBVIOUS
    <3>1. m \in 2 .. Len(s) /\ s[m] = x
      BY <1>1
    <3> QED
      BY <1>1, <3>1
  <2>4. f \in [after -> rest]
    BY <2>1
  <2> HIDE DEF f, after, rest
  <2> QED
    <3>1. f \in Injection(after, rest)
      BY <2>2, <2>4 DEF Injection, IsInjective
    <3>2. f \in Surjection(after, rest)
      BY <2>3, <2>4 DEF Surjection
    <3> QED
      BY <3>1, <3>2 DEF ExistsBijection, Bijection
<1>4. Cardinality(rest) = Cardinality(after) /\ Cardinality(after) \in Nat
  BY <1>2, <1>3, FS_Bijection, FS_CardinalityType
<1>5. 1 \in at <=> x = Head(s)
  BY <1>1
<1> HIDE DEF at, after
<1>6. Cardinality(at) = Cardinality(rest) + IF x = Head(s) THEN 1 ELSE 0
  <2>1. Cardinality(at) \in Nat
    BY <1>2, FS_CardinalityType
  <2>2. Cardinality(rest) = IF 1 \in at THEN Cardinality(at) - 1 ELSE Cardinality(at)
    BY <1>2, FS_RemoveElement
  <2> QED
    BY <1>5, <2>1, <2>2
<1> QED
  BY <1>4, <1>6 DEF Times, at, after

----------------------------------------------------------------------------
(* The copies of an address, and those that may be struck before the sweep  *)
(* resets its counter: a caller that has counted the failure that brings    *)
(* the address into quarantine strikes no more.                             *)

One(condition) == IF condition THEN 1 ELSE 0

Bearers(a) == {c \in Caller : Holds(c, a)}
Coolers(a) == {i \in Instance : Cooling(i, a)}
Sweepers(a) == {i \in Instance : a \in claimed[i]}

Copies(a) ==
    Times(a, pool) + Cardinality(Bearers(a)) + Cardinality(Coolers(a))
    + Cardinality(Sweepers(a)) + One(Listed(a)) + One(Unseeded(a))

Striking(a) ==
    {c \in Caller : Holds(c, a) /\ (pc[c] = "failed" => count[c] < IpFailuresUntilQuarantine)}
Releasers(a) == {i \in Instance : releasing[i] = a}

Strikable(a) ==
    Times(a, pool) + Cardinality(Striking(a)) + Cardinality(Coolers(a))
    + Cardinality(Releasers(a)) + One(Unseeded(a))

Finite(a) ==
    IsFiniteSet(Bearers(a)) /\ IsFiniteSet(Coolers(a)) /\ IsFiniteSet(Sweepers(a))

\* for k failed calls
Bounded(a, k) ==
    /\ Finite(a)
    /\ Copies(a) <= 1 + k
    /\ failures[a] >= IpFailuresUntilQuarantine =>
          failures[a] + Strikable(a) <= IpFailuresUntilQuarantine + k

PoolShape == TypeInv /\ SeededOnce /\ ReleasesClaimed

Numbered(a) ==
    /\ IsFiniteSet(Striking(a)) /\ IsFiniteSet(Releasers(a))
    /\ Times(a, pool) \in Nat
    /\ Cardinality(Bearers(a)) \in Nat
    /\ Cardinality(Coolers(a)) \in Nat
    /\ Cardinality(Sweepers(a)) \in Nat
    /\ Cardinality(Striking(a)) \in Nat
    /\ Cardinality(Releasers(a)) \in Nat
    /\ Copies(a) \in Nat /\ Strikable(a) \in Nat
    /\ Strikable(a) <= Copies(a)

LEMMA Numbers == PoolShape => \A a \in Address : Finite(a) => Numbered(a)
<1> SUFFICES ASSUME PoolShape, NEW a \in Address, Finite(a) PROVE Numbered(a)
  OBVIOUS
<1>1. Times(a, pool) \in Nat
  BY TimesType DEF PoolShape, TypeInv, TypeOK, BackendTypeOK
<1>2. /\ Cardinality(Bearers(a)) \in Nat
      /\ Cardinality(Coolers(a)) \in Nat
      /\ Cardinality(Sweepers(a)) \in Nat
  BY FS_CardinalityType DEF Finite
<1>3. IsFiniteSet(Striking(a)) /\ Cardinality(Striking(a)) <= Cardinality(Bearers(a))
  <2>1. Striking(a) \in SUBSET Bearers(a)
    BY DEF Striking, Bearers
  <2> QED
    BY <2>1, FS_Subset DEF Finite
<1>4. IsFiniteSet(Releasers(a)) /\ Cardinality(Releasers(a)) <= Cardinality(Sweepers(a))
  <2>1. Releasers(a) \in SUBSET Sweepers(a)
    BY IpListAssumption DEF Releasers, Sweepers, PoolShape, ReleasesClaimed
  <2> QED
    BY <2>1, FS_Subset DEF Finite
<1>5. Cardinality(Striking(a)) \in Nat /\ Cardinality(Releasers(a)) \in Nat
  BY <1>3, <1>4, FS_CardinalityType
<1>6. One(Listed(a)) \in Nat /\ One(Unseeded(a)) \in Nat
  BY DEF One
<1> QED
  BY <1>1, <1>2, <1>3, <1>4, <1>5, <1>6 DEF Numbered, Copies, Strikable

LEMMA NumbersAfter == PoolShape' => \A a \in Address : Finite(a)' => Numbered(a)'
<1>1. (PoolShape => \A a \in Address : Finite(a) => Numbered(a))'
  BY Numbers, PTL
<1> QED
  BY <1>1

\* what a step of the pool does to an address
Kept(a) == (Lost(a)' => Lost(a)) /\ Finite(a)' /\ Copies(a)' <= Copies(a)

Spared(a) ==
    \/ failures'[a] = 0
    \/ failures'[a] = failures[a] /\ Strikable(a)' <= Strikable(a)

Struck(a) ==
    /\ failures'[a] = failures[a] + 1
    /\ failures'[a] >= IpFailuresUntilQuarantine =>
          Strikable(a)' + 1 <= Strikable(a) /\ Strikable(a)' + 1 <= Copies(a)'

LEMMA BoundedKept ==
    ASSUME PoolShape, PoolShape', NEW a \in Address, NEW k \in Nat, Bounded(a, k),
           Kept(a), Spared(a) \/ Struck(a)
    PROVE  Bounded(a, k)'
<1>1. /\ Copies(a) \in Nat /\ Strikable(a) \in Nat
      /\ Copies(a)' \in Nat /\ Strikable(a)' \in Nat
  BY Numbers, NumbersAfter DEF Bounded, Kept, Numbered
<1>2. failures[a] \in Nat
  BY DEF PoolShape, TypeInv, TypeOK, BackendTypeOK
<1> QED
  BY <1>1, <1>2, ThresholdType DEF Bounded, Kept, Spared, Struck

\* one failed call more
LEMMA BoundedRaised ==
    ASSUME PoolShape, PoolShape', NEW a \in Address, NEW k \in Nat, Bounded(a, k),
           Finite(a)', Copies(a)' <= Copies(a) + 1,
           \/ failures'[a] = 0
           \/ failures'[a] = failures[a] /\ Strikable(a)' <= Strikable(a) + 1
           \/ failures'[a] = failures[a] + 1 /\ Strikable(a)' <= Strikable(a)
    PROVE  Bounded(a, k + 1)'
<1>1. /\ Copies(a) \in Nat /\ Strikable(a) \in Nat /\ Strikable(a) <= Copies(a)
      /\ Copies(a)' \in Nat /\ Strikable(a)' \in Nat
  BY Numbers, NumbersAfter DEF Bounded, Numbered
<1>2. failures[a] \in Nat
  BY DEF PoolShape, TypeInv, TypeOK, BackendTypeOK
<1> QED
  BY <1>1, <1>2, ThresholdType DEF Bounded

----------------------------------------------------------------------------
(* Every step of the pool keeps the counts. *)

LEMMA CountFrame ==
    ASSUME NEW b \in Address
    PROVE  /\ UNCHANGED pool => Times(b, pool)' = Times(b, pool)
           /\ UNCHANGED <<pc, ip>> => Bearers(b)' = Bearers(b)
           /\ UNCHANGED <<pc, ip, count>> => Striking(b)' = Striking(b)
           /\ UNCHANGED cooldown => Coolers(b)' = Coolers(b)
           /\ UNCHANGED claimed => Sweepers(b)' = Sweepers(b)
           /\ UNCHANGED releasing => Releasers(b)' = Releasers(b)
<1>1. UNCHANGED pool => Times(b, pool)' = Times(b, pool)
  OBVIOUS
<1>2. UNCHANGED <<pc, ip>> => Bearers(b)' = Bearers(b)
  BY DEF Bearers, Holds
<1>3. UNCHANGED <<pc, ip, count>> => Striking(b)' = Striking(b)
  BY DEF Striking, Holds
<1>4. UNCHANGED cooldown => Coolers(b)' = Coolers(b)
  BY DEF Coolers, Cooling
<1>5. UNCHANGED claimed => Sweepers(b)' = Sweepers(b)
  BY DEF Sweepers
<1>6. UNCHANGED releasing => Releasers(b)' = Releasers(b)
  BY DEF Releasers
<1> QED
  BY <1>1, <1>2, <1>3, <1>4, <1>5, <1>6

LEMMA PushCounts ==
    ASSUME PoolShape, NEW a \in Address, PushIp(a), NEW b \in Address
    PROVE  /\ Times(b, pool)' = Times(b, pool) + One(b = a)
           /\ InPool(b)' <=> InPool(b) \/ b = a
<1>1. pool \in Seq(Address)
  BY DEF PoolShape, TypeInv, TypeOK, BackendTypeOK
<1>2. Times(b, Append(pool, a)) = Times(b, pool) + IF b = a THEN 1 ELSE 0
  BY <1>1, TimesAppend
<1> QED
  BY <1>1, <1>2, PushOnly DEF PushIp, One

LEMMA PopCounts ==
    ASSUME PoolShape, NEW a \in Address, PopIp(a), NEW b \in Address
    PROVE  /\ Times(b, pool) = Times(b, pool)' + One(b = a)
           /\ Times(b, pool)' \in Nat
           /\ InPool(b) /\ b # a => InPool(b)'
<1>1. pool \in Seq(Address) /\ pool # <<>> /\ a = Head(pool) /\ pool' = Tail(pool)
  BY DEF PoolShape, TypeInv, TypeOK, BackendTypeOK, PopIp
<1>2. Times(b, pool) = Times(b, Tail(pool)) + IF b = Head(pool) THEN 1 ELSE 0
  BY <1>1, TimesTail
<1>3. Tail(pool) \in Seq(Address)
  BY <1>1, HeadTailProperties
<1>4. Times(b, Tail(pool)) \in Nat
  BY <1>3, TimesType
<1> QED
  BY <1>1, <1>2, <1>4, PopOnly DEF One

LEMMA SeedCounts ==
    ASSUME PoolShape, NEW i \in Instance, InitTarget(i) \/ Seed(i),
           NEW b \in Address, Finite(b)
    PROVE  Kept(b) /\ Spared(b)
<1> USE DEF PoolShape
<1>1. UNCHANGED <<failures, quarantine, pc, ip, count, cooldown, claimed, releasing>>
  BY DEF InitTarget, Seed, callerVars, sweepVars
<1>2. /\ Bearers(b)' = Bearers(b) /\ Striking(b)' = Striking(b) /\ Coolers(b)' = Coolers(b)
      /\ Sweepers(b)' = Sweepers(b) /\ Releasers(b)' = Releasers(b)
  BY <1>1, CountFrame
<1>3. /\ Leased(b)' <=> Leased(b)
      /\ Resting(b)' <=> Resting(b)
      /\ Listed(b)' <=> Listed(b)
      /\ Claimed(b)' <=> Claimed(b)
  BY <1>1, CallerFrame, CooldownFrame, QuarantineFrame, ClaimFrame
<1>4. CASE InitTarget(i)
  <2>1. UNCHANGED pool /\ (Unseeded(b)' <=> Unseeded(b))
    BY <1>4, InitTargetSeeds DEF InitTarget
  <2>2. Times(b, pool)' = Times(b, pool) /\ (InPool(b)' <=> InPool(b))
    BY <2>1, CountFrame, PoolFrame
  <2> QED
    BY <1>1, <1>2, <1>3, <2>1, <2>2, Numbers
       DEF Kept, Spared, Finite, Copies, Strikable, One, Numbered, Lost, Carried
<1>5. CASE Seed(i)
  <2> DEFINE a == IpList[nextSeed[i]]
  <2>1. /\ a \in Address /\ Unseeded(a) /\ PushIp(a)
        /\ Unseeded(b)' <=> Unseeded(b) /\ b # a
    BY <1>5, SeedTakes DEF Seed
  <2>2. /\ Times(b, pool)' = Times(b, pool) + One(b = a)
        /\ InPool(b)' <=> InPool(b) \/ b = a
    BY <2>1, PushCounts
  <2> HIDE DEF a
  <2> QED
    BY <1>1, <1>2, <1>3, <2>1, <2>2, Numbers
       DEF Kept, Spared, Finite, Copies, Strikable, One, Numbered, Lost, Carried
<1> QED
  BY <1>4, <1>5

LEMMA PopCounted ==
    ASSUME PoolShape, NEW c \in Caller, Pop(c), NEW b \in Address, Finite(b)
    PROVE  Kept(b) /\ Spared(b)
<1> USE DEF PoolShape
<1>1. UNCHANGED <<initKey, failures, phase, nextSeed, quarantine, count, cooldown, claimed,
                  releasing>>
  BY DEF Pop, instanceVars, sweepVars
<1>2. PICK a \in Address : PopIp(a) /\ ip' = [ip EXCEPT ![c] = a]
  BY DEF Pop
<1>3. /\ Times(b, pool) = Times(b, pool)' + One(b = a)
      /\ Times(b, pool)' \in Nat
      /\ InPool(b) /\ b # a => InPool(b)'
  BY <1>2, PopCounts
<1>4. /\ \A d \in Caller : Holds(d, b)' <=> Holds(d, b) \/ (d = c /\ b = a)
      /\ \A d \in Caller \ {c} : pc'[d] = pc[d]
  BY <1>2 DEF Pop, Holds, TypeInv, TypeOK, CallerState
<1>5. /\ Coolers(b)' = Coolers(b)
      /\ Sweepers(b)' = Sweepers(b) /\ Releasers(b)' = Releasers(b)
  BY <1>1, CountFrame
<1>6. /\ Unseeded(b)' <=> Unseeded(b)
      /\ Resting(b)' <=> Resting(b)
      /\ Listed(b)' <=> Listed(b)
      /\ Claimed(b)' <=> Claimed(b)
  BY <1>1, SeedFrame, CooldownFrame, QuarantineFrame, ClaimFrame
<1>7. Lost(b)' => Lost(b)
  BY <1>3, <1>4, <1>6 DEF Lost, Carried, Leased
<1>8. CASE b = a
  <2>1. Bearers(b)' \subseteq Bearers(b) \cup {c} /\ Striking(b)' \subseteq Striking(b) \cup {c}
    BY <1>1, <1>4 DEF Bearers, Striking
  <2>2. /\ IsFiniteSet(Bearers(b)')
        /\ Cardinality(Bearers(b)') <= Cardinality(Bearers(b)) + 1
    BY <2>1, Grows DEF Finite
  <2>3. /\ IsFiniteSet(Striking(b)')
        /\ Cardinality(Striking(b)') <= Cardinality(Striking(b)) + 1
    BY <2>1, Grows, Numbers DEF Numbered
  <2>4. Cardinality(Bearers(b)') \in Nat /\ Cardinality(Striking(b)') \in Nat
    BY <2>2, <2>3, FS_CardinalityType
  <2> QED
    BY <1>1, <1>3, <1>5, <1>6, <1>7, <1>8, <2>2, <2>3, <2>4, Numbers
       DEF Kept, Spared, Finite, Copies, Strikable, One, Numbered
<1>9. CASE b # a
  <2>1. Bearers(b)' = Bearers(b) /\ Striking(b)' = Striking(b)
    BY <1>1, <1>4, <1>9 DEF Bearers, Striking, Pop, Holds
  <2> QED
    BY <1>1, <1>3, <1>5, <1>6, <1>7, <1>9, <2>1, Numbers
       DEF Kept, Spared, Finite, Copies, Strikable, One, Numbered
<1> QED
  BY <1>8, <1>9

\* a caller starts or ends its wait, or has counted a success
LEMMA WaitCounted ==
    ASSUME PoolShape, NEW c \in Caller,
           Acquire(c) \/ AcquireTimeout(c) \/ RecordSuccess(c),
           NEW b \in Address, Finite(b)
    PROVE  Kept(b) /\ Spared(b)
<1> USE DEF PoolShape
<1>1. UNCHANGED <<initKey, pool, phase, nextSeed, quarantine, count, cooldown, claimed,
                  releasing>>
  BY DEF Acquire, AcquireTimeout, RecordSuccess, backendVars, instanceVars, sweepVars
<1>2. /\ \A d \in Caller : Holds(d, b)' <=> Holds(d, b)
      /\ \A d \in Caller : Holds(d, b) => (pc'[d] = "failed" <=> pc[d] = "failed")
  BY DEF Acquire, AcquireTimeout, RecordSuccess, Holds, TypeInv, TypeOK, CallerState
<1>3. Bearers(b)' = Bearers(b) /\ Striking(b)' = Striking(b)
  BY <1>1, <1>2 DEF Bearers, Striking
<1>4. /\ Times(b, pool)' = Times(b, pool) /\ Coolers(b)' = Coolers(b)
      /\ Sweepers(b)' = Sweepers(b) /\ Releasers(b)' = Releasers(b)
  BY <1>1, CountFrame
<1>5. /\ Unseeded(b)' <=> Unseeded(b)
      /\ InPool(b)' <=> InPool(b)
      /\ Leased(b)' <=> Leased(b)
      /\ Resting(b)' <=> Resting(b)
      /\ Listed(b)' <=> Listed(b)
      /\ Claimed(b)' <=> Claimed(b)
  BY <1>1, <1>2, SeedFrame, PoolFrame, CooldownFrame, QuarantineFrame, ClaimFrame DEF Leased
<1>6. failures'[b] = failures[b] \/ failures'[b] = 0
  BY DEF Acquire, AcquireTimeout, RecordSuccess, backendVars, ResetFailures,
         TypeInv, TypeOK, BackendTypeOK
<1> QED
  BY <1>3, <1>4, <1>5, <1>6, Numbers
     DEF Kept, Spared, Finite, Copies, Strikable, One, Numbered, Lost, Carried

\* a strike: at or above the threshold its caller has none left for this address
LEMMA FailureCounted ==
    ASSUME PoolShape, NEW c \in Caller, RecordFailure(c), NEW b \in Address, Finite(b)
    PROVE  Kept(b) /\ (Spared(b) \/ Struck(b))
<1> USE DEF PoolShape
<1>1. /\ UNCHANGED <<initKey, pool, phase, nextSeed, quarantine, cooldown, claimed, releasing,
                     ip>>
      /\ pc[c] = "holding" /\ pc' = [pc EXCEPT ![c] = "failed"]
      /\ ip[c] \in Address
      /\ failures' = [failures EXCEPT ![ip[c]] = @ + 1]
      /\ count' = [count EXCEPT ![c] = failures'[ip[c]]]
  BY DEF RecordFailure, IncrementFailures, instanceVars, sweepVars, TypeInv, HasAddress
<1>2. \A d \in Caller : Holds(d, b)' <=> Holds(d, b)
  BY <1>1 DEF Holds, TypeInv, TypeOK
<1>3. Bearers(b)' = Bearers(b)
  BY <1>2 DEF Bearers
<1>4. /\ Times(b, pool)' = Times(b, pool) /\ Coolers(b)' = Coolers(b)
      /\ Sweepers(b)' = Sweepers(b) /\ Releasers(b)' = Releasers(b)
  BY <1>1, CountFrame
<1>5. /\ Unseeded(b)' <=> Unseeded(b)
      /\ InPool(b)' <=> InPool(b)
      /\ Leased(b)' <=> Leased(b)
      /\ Resting(b)' <=> Resting(b)
      /\ Listed(b)' <=> Listed(b)
      /\ Claimed(b)' <=> Claimed(b)
  BY <1>1, <1>2, SeedFrame, PoolFrame, CooldownFrame, QuarantineFrame, ClaimFrame DEF Leased
<1>6. Kept(b)
  BY <1>3, <1>4, <1>5, Numbers DEF Kept, Finite, Copies, One, Numbered, Lost, Carried
<1>7. CASE b # ip[c]
  <2>1. failures'[b] = failures[b]
    BY <1>1, <1>7 DEF TypeInv, TypeOK, BackendTypeOK
  <2>2. Striking(b)' = Striking(b)
    BY <1>1, <1>2, <1>7 DEF Striking, Holds, TypeInv, TypeOK
  <2> QED
    BY <1>4, <1>5, <1>6, <2>1, <2>2, Numbers DEF Spared, Strikable, One, Numbered
<1>8. CASE b = ip[c]
  <2>1. failures'[b] = failures[b] + 1 /\ count'[c] = failures'[b]
    BY <1>1, <1>8 DEF TypeInv, TypeOK, BackendTypeOK
  <2> SUFFICES ASSUME failures'[b] >= IpFailuresUntilQuarantine
               PROVE  Strikable(b)' + 1 <= Strikable(b) /\ Strikable(b)' + 1 <= Copies(b)'
    BY <1>6, <2>1 DEF Struck
  <2>2. failures'[b] \in Nat
    BY <2>1 DEF TypeInv, TypeOK, BackendTypeOK
  <2>3. /\ c \in Striking(b) /\ c \in Bearers(b)
        /\ Striking(b)' \subseteq Striking(b) \ {c}
        /\ Striking(b)' \subseteq Bearers(b) \ {c}
    BY <1>1, <1>2, <1>8, <2>1, <2>2, ThresholdType
       DEF Striking, Bearers, Holds, TypeInv, TypeOK
  <2>4. /\ IsFiniteSet(Striking(b)')
        /\ Cardinality(Striking(b)') + 1 <= Cardinality(Striking(b))
    BY <2>3, Shrinks, Numbers DEF Numbered
  <2>5. Cardinality(Striking(b)') + 1 <= Cardinality(Bearers(b))
    BY <2>3, Shrinks DEF Finite
  <2>6. Cardinality(Striking(b)') \in Nat
    BY <2>4, FS_CardinalityType
  <2>7. Cardinality(Releasers(b)) <= Cardinality(Sweepers(b))
    <3>1. Releasers(b) \in SUBSET Sweepers(b)
      BY IpListAssumption DEF Releasers, Sweepers, ReleasesClaimed
    <3> QED
      BY <3>1, FS_Subset DEF Finite
  <2> QED
    BY <1>3, <1>4, <1>5, <2>4, <2>5, <2>6, <2>7, Numbers DEF Copies, Strikable, One, Numbered
<1> QED
  BY <1>6, <1>7, <1>8

\* what a caller lets go of it no longer bears, and it bears nothing else
LEMMA LetsGo ==
    ASSUME PoolShape, NEW c \in Caller, pc[c] \in {"holding", "succeeded", "failed"},
           pc' = [pc EXCEPT ![c] = "idle"], ip' = [ip EXCEPT ![c] = None],
           \A d \in Caller \ {c} : count'[d] = count[d],
           NEW b \in Address, Finite(b)
    PROVE  /\ ip[c] \in Address
           /\ b # ip[c] => /\ Bearers(b)' = Bearers(b) /\ Striking(b)' = Striking(b)
                           /\ Leased(b)' <=> Leased(b)
           /\ IsFiniteSet(Bearers(b)') /\ IsFiniteSet(Striking(b)')
           /\ Cardinality(Bearers(b)') \in Nat /\ Cardinality(Striking(b)') \in Nat
           /\ Cardinality(Striking(b)') <= Cardinality(Striking(b))
           /\ b = ip[c] => Cardinality(Bearers(b)') + 1 <= Cardinality(Bearers(b))
           /\ b = ip[c] /\ (pc[c] = "failed" => count[c] < IpFailuresUntilQuarantine)
              => Cardinality(Striking(b)') + 1 <= Cardinality(Striking(b))
<1> USE DEF PoolShape
<1>1. ip[c] \in Address /\ Holds(c, ip[c])
  BY DEF TypeInv, HasAddress, Holds
<1>2. \A d \in Caller : Holds(d, b)' <=> Holds(d, b) /\ d # c
  BY <1>1, IpListAssumption DEF Holds, TypeInv, TypeOK, CallerState
<1>3. \A d \in Caller \ {c} : pc'[d] = pc[d]
  BY DEF TypeInv, TypeOK
<1>4. Bearers(b)' = Bearers(b) \ {c} /\ Striking(b)' = Striking(b) \ {c}
  BY <1>2, <1>3 DEF Bearers, Striking
<1>5. b # ip[c] => c \notin Bearers(b) /\ c \notin Striking(b)
  BY DEF Bearers, Striking, Holds
<1>6. b = ip[c] => /\ c \in Bearers(b)
                   /\ (pc[c] = "failed" => count[c] < IpFailuresUntilQuarantine)
                      => c \in Striking(b)
  BY <1>1 DEF Bearers, Striking
<1>7. IsFiniteSet(Bearers(b)) /\ IsFiniteSet(Striking(b))
  BY Numbers DEF Finite, Numbered
<1>8. /\ IsFiniteSet(Bearers(b)')
      /\ Cardinality(Bearers(b)') \in Nat
      /\ c \in Bearers(b) => Cardinality(Bearers(b)') + 1 <= Cardinality(Bearers(b))
  <2>1. Bearers(b)' \subseteq Bearers(b) \ {c} /\ Bearers(b)' \in SUBSET Bearers(b)
    BY <1>4
  <2>2. IsFiniteSet(Bearers(b)')
    BY <1>7, <2>1, FS_Subset
  <2> QED
    BY <1>7, <2>1, <2>2, Shrinks, FS_CardinalityType
<1>9. /\ IsFiniteSet(Striking(b)')
      /\ Cardinality(Striking(b)') \in Nat
      /\ Cardinality(Striking(b)') <= Cardinality(Striking(b))
      /\ c \in Striking(b) => Cardinality(Striking(b)') + 1 <= Cardinality(Striking(b))
  <2>1. Striking(b)' \subseteq Striking(b) \ {c} /\ Striking(b)' \in SUBSET Striking(b)
    BY <1>4
  <2>2. IsFiniteSet(Striking(b)') /\ Cardinality(Striking(b)') <= Cardinality(Striking(b))
    BY <1>7, <2>1, FS_Subset
  <2> QED
    BY <1>7, <2>1, <2>2, Shrinks, FS_CardinalityType
<1>10. b # ip[c] => (Leased(b)' <=> Leased(b))
  BY <1>2 DEF Leased, Holds
<1> QED
  BY <1>1, <1>4, <1>5, <1>6, <1>8, <1>9, <1>10

LEMMA RestCounted ==
    ASSUME PoolShape, NEW c \in Caller, RestAfterSuccess(c) \/ RestAfterFailure(c),
           NEW b \in Address, Finite(b)
    PROVE  Kept(b) /\ Spared(b)
<1> USE DEF PoolShape
<1> DEFINE h == Home[c]
<1>1. /\ UNCHANGED <<initKey, pool, phase, nextSeed, quarantine, failures, claimed, releasing>>
      /\ ReturnLater(c) /\ pc[c] \in {"succeeded", "failed"}
      /\ pc[c] = "failed" => count[c] < IpFailuresUntilQuarantine
      /\ \A d \in Caller \ {c} : count'[d] = count[d]
  BY DEF RestAfterSuccess, RestAfterFailure, backendVars, instanceVars, sweepVars,
         TypeInv, TypeOK
<1>2. /\ ip[c] \in Address
      /\ b # ip[c] => /\ Bearers(b)' = Bearers(b) /\ Striking(b)' = Striking(b)
                      /\ Leased(b)' <=> Leased(b)
      /\ IsFiniteSet(Bearers(b)') /\ IsFiniteSet(Striking(b)')
      /\ Cardinality(Bearers(b)') \in Nat /\ Cardinality(Striking(b)') \in Nat
      /\ b = ip[c] => /\ Cardinality(Bearers(b)') + 1 <= Cardinality(Bearers(b))
                      /\ Cardinality(Striking(b)') + 1 <= Cardinality(Striking(b))
  BY <1>1, LetsGo DEF ReturnLater
<1>3. h \in Instance
  BY HomeAssumption
<1>4. \A j \in Instance : Cooling(j, b)' <=> Cooling(j, b) \/ (j = h /\ b = ip[c])
  BY <1>1, <1>2, <1>3, PolicyAssumption DEF ReturnLater, Cooling, TypeInv, TypeOK, NoTask
<1>5. /\ IsFiniteSet(Coolers(b)')
      /\ Cardinality(Coolers(b)') <= Cardinality(Coolers(b)) + 1
      /\ b # ip[c] => Coolers(b)' = Coolers(b)
  <2>1. Coolers(b)' \subseteq Coolers(b) \cup {h} /\ (b # ip[c] => Coolers(b)' = Coolers(b))
    BY <1>4 DEF Coolers
  <2> QED
    BY <2>1, Grows DEF Finite
<1>6. Cardinality(Coolers(b)') \in Nat
  BY <1>5, FS_CardinalityType
<1>7. /\ Times(b, pool)' = Times(b, pool)
      /\ Sweepers(b)' = Sweepers(b) /\ Releasers(b)' = Releasers(b)
  BY <1>1, CountFrame
<1>8. /\ Unseeded(b)' <=> Unseeded(b)
      /\ InPool(b)' <=> InPool(b)
      /\ Listed(b)' <=> Listed(b)
      /\ Claimed(b)' <=> Claimed(b)
  BY <1>1, SeedFrame, PoolFrame, QuarantineFrame, ClaimFrame
<1>9. Lost(b)' => Lost(b)
  <2>1. Resting(b) => Resting(b)'
    BY <1>4 DEF Resting
  <2>2. b = ip[c] => Resting(b)'
    BY <1>3, <1>4 DEF Resting
  <2> QED
    BY <1>2, <1>8, <2>1, <2>2 DEF Lost, Carried
<1> QED
  BY <1>1, <1>2, <1>5, <1>6, <1>7, <1>8, <1>9, Numbers
     DEF Kept, Spared, Finite, Copies, Strikable, One, Numbered

LEMMA QuarantineCounted ==
    ASSUME PoolShape, NEW c \in Caller, QuarantineIp(c), NEW b \in Address, Finite(b)
    PROVE  Kept(b) /\ Spared(b)
<1> USE DEF PoolShape
<1>1. /\ UNCHANGED <<initKey, pool, phase, nextSeed, failures, cooldown, claimed, releasing>>
      /\ pc[c] = "failed" /\ pc' = [pc EXCEPT ![c] = "idle"] /\ ip' = [ip EXCEPT ![c] = None]
      /\ \A d \in Caller \ {c} : count'[d] = count[d]
  BY DEF QuarantineIp, instanceVars, sweepVars, TypeInv, TypeOK
<1>2. /\ ip[c] \in Address
      /\ b # ip[c] => /\ Bearers(b)' = Bearers(b) /\ Striking(b)' = Striking(b)
                      /\ Leased(b)' <=> Leased(b)
      /\ IsFiniteSet(Bearers(b)') /\ IsFiniteSet(Striking(b)')
      /\ Cardinality(Bearers(b)') \in Nat /\ Cardinality(Striking(b)') \in Nat
      /\ Cardinality(Striking(b)') <= Cardinality(Striking(b))
      /\ b = ip[c] => Cardinality(Bearers(b)') + 1 <= Cardinality(Bearers(b))
  BY <1>1, LetsGo
<1>3. Listed(b)' <=> Listed(b) \/ b = ip[c]
  BY <1>2, PolicyAssumption
     DEF QuarantineIp, QuarantineAdd, Listed, NoEntry, TypeInv, TypeOK, BackendTypeOK
<1>4. /\ Times(b, pool)' = Times(b, pool) /\ Coolers(b)' = Coolers(b)
      /\ Sweepers(b)' = Sweepers(b) /\ Releasers(b)' = Releasers(b)
  BY <1>1, CountFrame
<1>5. /\ Unseeded(b)' <=> Unseeded(b)
      /\ InPool(b)' <=> InPool(b)
      /\ Resting(b)' <=> Resting(b)
      /\ Claimed(b)' <=> Claimed(b)
  BY <1>1, SeedFrame, PoolFrame, CooldownFrame, ClaimFrame
<1> QED
  BY <1>1, <1>2, <1>3, <1>4, <1>5, Numbers
     DEF Kept, Spared, Finite, Copies, Strikable, One, Numbered, Lost, Carried

\* the end of a cooldown task, with the address pushed or not
LEMMA TaskEnds ==
    ASSUME PoolShape, NEW i \in Instance, NEW a \in Address, cooldown[i][a] = 0,
           cooldown' = [cooldown EXCEPT ![i][a] = NoTask], NEW b \in Address, Finite(b)
    PROVE  /\ b # a => Coolers(b)' = Coolers(b) /\ (Resting(b)' <=> Resting(b))
           /\ IsFiniteSet(Coolers(b)')
           /\ Cardinality(Coolers(b)') \in Nat
           /\ b = a => Cardinality(Coolers(b)') + 1 <= Cardinality(Coolers(b))
<1> USE DEF PoolShape
<1>1. \A j \in Instance : Cooling(j, b)' <=> Cooling(j, b) /\ ~(j = i /\ b = a)
  BY DEF Cooling, TypeInv, TypeOK, NoTask
<1>2. Cooling(i, a)
  BY DEF Cooling, NoTask
<1>3. CASE b # a
  <2>1. Coolers(b)' = Coolers(b)
    BY <1>1, <1>3 DEF Coolers
  <2> QED
    BY <1>1, <1>3, <2>1, FS_CardinalityType DEF Resting, Finite
<1>4. CASE b = a
  <2>1. i \in Coolers(b) /\ Coolers(b)' \subseteq Coolers(b) \ {i}
    BY <1>1, <1>2, <1>4 DEF Coolers
  <2>2. /\ IsFiniteSet(Coolers(b)')
        /\ Cardinality(Coolers(b)') + 1 <= Cardinality(Coolers(b))
    BY <2>1, Shrinks DEF Finite
  <2> QED
    BY <1>4, <2>2, FS_CardinalityType
<1> QED
  BY <1>3, <1>4

LEMMA ReturnCounted ==
    ASSUME PoolShape, NEW i \in Instance, NEW a \in Address, ReturnAfterCooldown(i, a),
           NEW b \in Address, Finite(b)
    PROVE  Kept(b) /\ Spared(b)
<1>1. UNCHANGED <<initKey, phase, nextSeed, quarantine, failures, pc, ip, count, claimed,
                  releasing>>
  BY DEF ReturnAfterCooldown, instanceVars, callerVars, sweepVars
<1>2. /\ b # a => Coolers(b)' = Coolers(b) /\ (Resting(b)' <=> Resting(b))
      /\ IsFiniteSet(Coolers(b)')
      /\ Cardinality(Coolers(b)') \in Nat
      /\ b = a => Cardinality(Coolers(b)') + 1 <= Cardinality(Coolers(b))
  BY TaskEnds DEF ReturnAfterCooldown
<1>3. /\ Times(b, pool)' = Times(b, pool) + One(b = a)
      /\ InPool(b)' <=> InPool(b) \/ b = a
  BY PushCounts DEF ReturnAfterCooldown
<1>4. /\ Bearers(b)' = Bearers(b) /\ Striking(b)' = Striking(b)
      /\ Sweepers(b)' = Sweepers(b) /\ Releasers(b)' = Releasers(b)
  BY <1>1, CountFrame
<1>5. /\ Unseeded(b)' <=> Unseeded(b)
      /\ Leased(b)' <=> Leased(b)
      /\ Listed(b)' <=> Listed(b)
      /\ Claimed(b)' <=> Claimed(b)
  BY <1>1, SeedFrame, CallerFrame, QuarantineFrame, ClaimFrame
<1> QED
  BY <1>1, <1>2, <1>3, <1>4, <1>5, Numbers
     DEF Kept, Spared, Finite, Copies, Strikable, One, Numbered, Lost, Carried

LEMMA SweepClaimCounted ==
    ASSUME PoolShape, NEW i \in Instance, SweepClaim(i), NEW b \in Address, Finite(b)
    PROVE  Kept(b) /\ Spared(b)
<1> USE DEF PoolShape
<1>1. UNCHANGED <<initKey, pool, phase, nextSeed, failures, cooldown, pc, ip, count, releasing>>
  BY DEF SweepClaim, instanceVars, callerVars
<1>2. PICK claim \in SUBSET Address :
         /\ claim = Expired
         /\ QuarantineRemove(claim)
         /\ claimed' = [claimed EXCEPT ![i] = claim]
  BY DEF SweepClaim, QuarantinePopExpired
<1>3. /\ b \in claim => Listed(b)
      /\ Listed(b)' <=> Listed(b) /\ b \notin claim
  BY <1>2 DEF Expired, QuarantineRemove, Listed, NoEntry
<1>4. \A j \in Instance : b \in claimed'[j] <=> b \in claimed[j] \/ (j = i /\ b \in claim)
  BY <1>2 DEF SweepClaim, TypeInv, TypeOK
<1>5. Claimed(b)' <=> Claimed(b) \/ b \in claim
  BY <1>4 DEF Claimed
<1>6. /\ Times(b, pool)' = Times(b, pool)
      /\ Bearers(b)' = Bearers(b) /\ Striking(b)' = Striking(b) /\ Coolers(b)' = Coolers(b)
      /\ Releasers(b)' = Releasers(b)
  BY <1>1, CountFrame
<1>7. /\ Unseeded(b)' <=> Unseeded(b)
      /\ InPool(b)' <=> InPool(b)
      /\ Leased(b)' <=> Leased(b)
      /\ Resting(b)' <=> Resting(b)
  BY <1>1, SeedFrame, PoolFrame, CallerFrame, CooldownFrame
<1>8. CASE b \in claim
  <2>1. Sweepers(b)' \subseteq Sweepers(b) \cup {i}
    BY <1>4 DEF Sweepers
  <2>2. /\ IsFiniteSet(Sweepers(b)')
        /\ Cardinality(Sweepers(b)') <= Cardinality(Sweepers(b)) + 1
    BY <2>1, Grows DEF Finite
  <2>3. Cardinality(Sweepers(b)') \in Nat
    BY <2>2, FS_CardinalityType
  <2> QED
    BY <1>1, <1>3, <1>5, <1>6, <1>7, <1>8, <2>2, <2>3, Numbers
       DEF Kept, Spared, Finite, Copies, Strikable, One, Numbered, Lost, Carried
<1>9. CASE b \notin claim
  <2>1. Sweepers(b)' = Sweepers(b)
    BY <1>4, <1>9 DEF Sweepers
  <2> QED
    BY <1>1, <1>3, <1>5, <1>6, <1>7, <1>9, <2>1, Numbers
       DEF Kept, Spared, Finite, Copies, Strikable, One, Numbered, Lost, Carried
<1> QED
  BY <1>8, <1>9

\* from here on the copies of a may be struck again, from zero
LEMMA SweepResetCounted ==
    ASSUME PoolShape, NEW i \in Instance, NEW a \in Address, SweepReset(i, a),
           NEW b \in Address, Finite(b)
    PROVE  Kept(b) /\ Spared(b)
<1> USE DEF PoolShape
<1>1. UNCHANGED <<initKey, pool, phase, nextSeed, quarantine, cooldown, pc, ip, count, claimed>>
  BY DEF SweepReset, instanceVars, callerVars
<1>2. /\ Times(b, pool)' = Times(b, pool)
      /\ Bearers(b)' = Bearers(b) /\ Striking(b)' = Striking(b) /\ Coolers(b)' = Coolers(b)
      /\ Sweepers(b)' = Sweepers(b)
  BY <1>1, CountFrame
<1>3. /\ Unseeded(b)' <=> Unseeded(b)
      /\ InPool(b)' <=> InPool(b)
      /\ Leased(b)' <=> Leased(b)
      /\ Resting(b)' <=> Resting(b)
      /\ Listed(b)' <=> Listed(b)
      /\ Claimed(b)' <=> Claimed(b)
  BY <1>1, SeedFrame, PoolFrame, CallerFrame, CooldownFrame, QuarantineFrame, ClaimFrame
<1>4. CASE b = a
  BY <1>2, <1>3, <1>4, Numbers
     DEF SweepReset, ResetFailures, TypeInv, TypeOK, BackendTypeOK,
         Kept, Spared, Finite, Copies, One, Numbered, Lost, Carried
<1>5. CASE b # a
  <2>1. failures'[b] = failures[b]
    BY <1>5 DEF SweepReset, ResetFailures, TypeInv, TypeOK, BackendTypeOK
  <2>2. Releasers(b)' = Releasers(b)
    BY <1>5, IpListAssumption DEF SweepReset, Releasers, TypeInv, TypeOK
  <2> QED
    BY <1>2, <1>3, <2>1, <2>2, Numbers
       DEF Kept, Spared, Finite, Copies, Strikable, One, Numbered, Lost, Carried
<1> QED
  BY <1>4, <1>5

LEMMA SweepPushCounted ==
    ASSUME PoolShape, NEW i \in Instance, SweepPush(i), NEW b \in Address, Finite(b)
    PROVE  Kept(b) /\ Spared(b)
<1> USE DEF PoolShape
<1> DEFINE a == releasing[i]
<1>1. UNCHANGED <<initKey, phase, nextSeed, quarantine, failures, cooldown, pc, ip, count>>
  BY DEF SweepPush, instanceVars, callerVars
<1>2. a \in claimed[i] /\ a \in Address /\ PushIp(a)
  BY DEF SweepPush, ReleasesClaimed, TypeInv, TypeOK
<1>3. /\ Times(b, pool)' = Times(b, pool) + One(b = a)
      /\ InPool(b)' <=> InPool(b) \/ b = a
  BY <1>2, PushCounts
<1>4. /\ Bearers(b)' = Bearers(b) /\ Striking(b)' = Striking(b) /\ Coolers(b)' = Coolers(b)
  BY <1>1, CountFrame
<1>5. /\ Unseeded(b)' <=> Unseeded(b)
      /\ Leased(b)' <=> Leased(b)
      /\ Resting(b)' <=> Resting(b)
      /\ Listed(b)' <=> Listed(b)
  BY <1>1, SeedFrame, CallerFrame, CooldownFrame, QuarantineFrame
<1>6. /\ Sweepers(b)' = Sweepers(b) \ (IF b = a THEN {i} ELSE {})
      /\ Releasers(b)' = Releasers(b) \ (IF b = a THEN {i} ELSE {})
  BY <1>2, IpListAssumption DEF SweepPush, Sweepers, Releasers, TypeInv, TypeOK
<1>7. b # a => (Claimed(b)' <=> Claimed(b))
  BY <1>6 DEF Claimed, Sweepers
<1>8. CASE b = a
  <2>1. /\ i \in Sweepers(b) /\ Sweepers(b)' \subseteq Sweepers(b) \ {i}
        /\ i \in Releasers(b) /\ Releasers(b)' \subseteq Releasers(b) \ {i}
    BY <1>2, <1>6, <1>8 DEF Sweepers, Releasers
  <2>2. /\ IsFiniteSet(Sweepers(b)')
        /\ Cardinality(Sweepers(b)') + 1 <= Cardinality(Sweepers(b))
    BY <2>1, Shrinks DEF Finite
  <2>3. /\ IsFiniteSet(Releasers(b)')
        /\ Cardinality(Releasers(b)') + 1 <= Cardinality(Releasers(b))
    BY <2>1, Shrinks, Numbers DEF Numbered
  <2>4. Cardinality(Sweepers(b)') \in Nat /\ Cardinality(Releasers(b)') \in Nat
    BY <2>2, <2>3, FS_CardinalityType
  <2> HIDE DEF a
  <2> QED
    BY <1>1, <1>3, <1>4, <1>5, <1>8, <2>2, <2>3, <2>4, Numbers
       DEF Kept, Spared, Finite, Copies, Strikable, One, Numbered, Lost, Carried
<1>9. CASE b # a
  <2>1. Sweepers(b)' = Sweepers(b) /\ Releasers(b)' = Releasers(b)
    BY <1>6, <1>9
  <2> HIDE DEF a
  <2> QED
    BY <1>1, <1>3, <1>4, <1>5, <1>7, <1>9, <2>1, Numbers
       DEF Kept, Spared, Finite, Copies, Strikable, One, Numbered, Lost, Carried
<1> QED
  BY <1>8, <1>9

LEMMA TickCounted ==
    ASSUME PoolShape, Tick \/ UNCHANGED vars, NEW b \in Address, Finite(b)
    PROVE  Kept(b) /\ Spared(b)
<1> USE DEF PoolShape
<1>1. UNCHANGED <<initKey, pool, phase, nextSeed, failures, pc, ip, count, claimed, releasing>>
  BY DEF Tick, vars, backendVars, instanceVars, callerVars, sweepVars
<1>2. \A j \in Instance : Cooling(j, b)' <=> Cooling(j, b)
  BY DEF Tick, Elapse, Elapsed, Cooling, NoTask, TypeInv, TypeOK, vars
<1>3. Listed(b)' <=> Listed(b)
  BY DEF Tick, Elapse, QuarantineElapses, Elapsed, Listed, NoEntry,
         TypeInv, TypeOK, BackendTypeOK, vars, backendVars
<1>4. /\ Times(b, pool)' = Times(b, pool)
      /\ Bearers(b)' = Bearers(b) /\ Striking(b)' = Striking(b)
      /\ Sweepers(b)' = Sweepers(b) /\ Releasers(b)' = Releasers(b)
  BY <1>1, CountFrame
<1>5. Coolers(b)' = Coolers(b) /\ (Resting(b)' <=> Resting(b))
  BY <1>2 DEF Coolers, Resting
<1>6. /\ Unseeded(b)' <=> Unseeded(b)
      /\ InPool(b)' <=> InPool(b)
      /\ Leased(b)' <=> Leased(b)
      /\ Claimed(b)' <=> Claimed(b)
  BY <1>1, SeedFrame, PoolFrame, CallerFrame, ClaimFrame
<1> QED
  BY <1>1, <1>3, <1>4, <1>5, <1>6, Numbers
     DEF Kept, Spared, Finite, Copies, Strikable, One, Numbered, Lost, Carried

LEMMA PoolCounted ==
    ASSUME PoolShape, [Next]_vars, NEW b \in Address, Finite(b)
    PROVE  Kept(b) /\ (Spared(b) \/ Struck(b))
<1>1. ASSUME NEW i \in Instance, InstanceStep(i) PROVE Kept(b) /\ Spared(b)
  BY <1>1, SeedCounts, SweepClaimCounted, SweepPushCounted, ReturnCounted, SweepResetCounted
     DEF InstanceStep
<1>2. ASSUME NEW c \in Caller, CallerStep(c) PROVE Kept(b) /\ (Spared(b) \/ Struck(b))
  BY <1>2, WaitCounted, PopCounted, FailureCounted, RestCounted, QuarantineCounted
     DEF CallerStep
<1> QED
  BY <1>1, <1>2, TickCounted DEF Next

LEMMA ShapeNext == PoolShape /\ [Next]_vars => PoolShape'
<1> SUFFICES ASSUME PoolShape, [Next]_vars PROVE PoolShape'
  OBVIOUS
<1> USE DEF PoolShape
<1>1. TypeInv'
  BY NextTypeOK, NextHasAddress DEF TypeInv
<1>2. CASE UNCHANGED <<initKey, phase, claimed, releasing>>
  BY <1>1, <1>2 DEF SeededOnce, ReleasesClaimed, Initialised
<1>3. ASSUME NEW i \in Instance, InstanceStep(i) PROVE SeededOnce' /\ ReleasesClaimed'
  <2>1. CASE InitTarget(i) \/ Seed(i)
    <3>1. UNCHANGED sweepVars
      BY <2>1 DEF InitTarget, Seed
    <3>2. SeededOnce'
      BY <2>1 DEF InitTarget, Seed, SeededOnce, Initialised, TypeInv, TypeOK
    <3> QED
      BY <3>1, <3>2 DEF ReleasesClaimed, sweepVars
  <2>2. ASSUME SweepClaim(i) \/ SweepPush(i) \/ \E a \in Address : SweepReset(i, a)
        PROVE  SeededOnce' /\ ReleasesClaimed'
    <3>1. UNCHANGED <<initKey, phase>>
      BY <2>2 DEF SweepClaim, SweepPush, SweepReset, instanceVars
    <3>2. \A j \in Instance \ {i} : claimed'[j] = claimed[j] /\ releasing'[j] = releasing[j]
      BY <2>2 DEF SweepClaim, SweepPush, SweepReset, TypeInv, TypeOK
    <3>3. releasing'[i] # None => releasing'[i] \in claimed'[i]
      BY <2>2 DEF SweepClaim, SweepPush, SweepReset, ReleasesClaimed, TypeInv, TypeOK
    <3> QED
      BY <3>1, <3>2, <3>3 DEF SeededOnce, ReleasesClaimed, Initialised
  <2>3. ASSUME NEW a \in Address, ReturnAfterCooldown(i, a)
        PROVE  SeededOnce' /\ ReleasesClaimed'
    BY <1>2, <2>3 DEF ReturnAfterCooldown, instanceVars, sweepVars
  <2> QED
    BY <1>3, <2>1, <2>2, <2>3 DEF InstanceStep
<1>4. ASSUME NEW c \in Caller, CallerStep(c) PROVE SeededOnce' /\ ReleasesClaimed'
  <2>1. UNCHANGED <<initKey, phase, claimed, releasing>>
    BY <1>4 DEF CallerStep, Acquire, Pop, AcquireTimeout, RecordSuccess, RestAfterSuccess,
                RecordFailure, RestAfterFailure, QuarantineIp, backendVars, instanceVars,
                sweepVars
  <2> QED
    BY <1>2, <2>1
<1>5. CASE Tick \/ UNCHANGED vars
  BY <1>2, <1>5 DEF Tick, vars, backendVars, instanceVars, sweepVars
<1> QED
  BY <1>1, <1>3, <1>4, <1>5 DEF Next

----------------------------------------------------------------------------
(* What one failed call adds. *)

\* an error costs the rotation address x at the most, and adds one to a count
Damages(b, x) ==
    /\ Lost(b)' => Lost(b) \/ b = x
    /\ Finite(b)'
    /\ Copies(b)' <= Copies(b) + 1
    /\ \/ failures'[b] = 0
       \/ failures'[b] = failures[b] /\ Strikable(b)' <= Strikable(b) + 1
       \/ failures'[b] = failures[b] + 1 /\ Strikable(b)' <= Strikable(b)

LEMMA AcquireErrorDamage ==
    ASSUME PoolShape, NEW i \in Instance, NEW r \in Request, AcquireError(i, r)
    PROVE  \E x : \A b \in Address : Finite(b) => Damages(b, x)
<1> USE DEF PoolShape
<1>1. /\ UNCHANGED <<initKey, phase, nextSeed, quarantine, failures, cooldown, ip, count,
                     claimed, releasing>>
      /\ pc[r] = "waiting" /\ pc' = [pc EXCEPT ![r] = "idle"]
      /\ (\E a \in Address : PopIp(a)) \/ UNCHANGED pool
  BY DEF AcquireError, instanceVars, sweepVars
<1>2. ASSUME NEW b \in Address, NEW x, Finite(b),
             Times(b, pool)' <= Times(b, pool) /\ Times(b, pool)' \in Nat,
             InPool(b) /\ b # x => InPool(b)'
      PROVE  Damages(b, x)
  <2>1. \A d \in Caller : /\ Holds(d, b)' <=> Holds(d, b)
                          /\ Holds(d, b) => pc'[d] = pc[d]
    BY <1>1 DEF Holds, TypeInv, TypeOK
  <2>2. Bearers(b)' = Bearers(b) /\ Striking(b)' = Striking(b) /\ (Leased(b)' <=> Leased(b))
    BY <1>1, <2>1 DEF Bearers, Striking, Leased
  <2>3. /\ Coolers(b)' = Coolers(b)
        /\ Sweepers(b)' = Sweepers(b) /\ Releasers(b)' = Releasers(b)
    BY <1>1, CountFrame
  <2>4. /\ Unseeded(b)' <=> Unseeded(b)
        /\ Resting(b)' <=> Resting(b)
        /\ Listed(b)' <=> Listed(b)
        /\ Claimed(b)' <=> Claimed(b)
    BY <1>1, SeedFrame, CooldownFrame, QuarantineFrame, ClaimFrame
  <2> QED
    BY <1>1, <1>2, <2>2, <2>3, <2>4, Numbers
       DEF Damages, Finite, Copies, Strikable, One, Numbered, Lost, Carried
<1>3. ASSUME NEW a \in Address, PopIp(a)
      PROVE  \A b \in Address : Finite(b) => Damages(b, a)
  <2> SUFFICES ASSUME NEW b \in Address, Finite(b) PROVE Damages(b, a)
    OBVIOUS
  <2>1. /\ Times(b, pool) = Times(b, pool)' + One(b = a)
        /\ Times(b, pool)' \in Nat
        /\ InPool(b) /\ b # a => InPool(b)'
    BY <1>3, PopCounts
  <2>2. Times(b, pool)' <= Times(b, pool)
    BY <2>1, Numbers DEF One, Numbered
  <2> QED
    BY <1>2, <2>1, <2>2
<1>4. CASE UNCHANGED pool
  <2>1. \A b \in Address : Finite(b) => Damages(b, None)
    <3> SUFFICES ASSUME NEW b \in Address, Finite(b) PROVE Damages(b, None)
      OBVIOUS
    <3>1. Times(b, pool)' = Times(b, pool) /\ Times(b, pool) \in Nat
      BY <1>4, CountFrame, Numbers DEF Numbered
    <3> QED
      BY <1>2, <1>4, <3>1, PoolFrame
  <2> QED
    BY <2>1
<1> QED
  BY <1>1, <1>3, <1>4

LEMMA ReturnErrorDamage ==
    ASSUME PoolShape, NEW i \in Instance, NEW a \in Address, ReturnError(i, a)
    PROVE  \A b \in Address : Finite(b) => Damages(b, a)
<1> SUFFICES ASSUME NEW b \in Address, Finite(b) PROVE Damages(b, a)
  OBVIOUS
<1>1. /\ UNCHANGED <<initKey, phase, nextSeed, quarantine, failures, pc, ip, count, claimed,
                     releasing>>
      /\ PushIp(a) \/ UNCHANGED pool
  BY DEF ReturnError, instanceVars, callerVars, sweepVars
<1>2. /\ b # a => Coolers(b)' = Coolers(b) /\ (Resting(b)' <=> Resting(b))
      /\ IsFiniteSet(Coolers(b)')
      /\ Cardinality(Coolers(b)') \in Nat
      /\ b = a => Cardinality(Coolers(b)') + 1 <= Cardinality(Coolers(b))
  BY TaskEnds DEF ReturnError
<1>3. /\ \/ Times(b, pool)' = Times(b, pool) + One(b = a)
         \/ Times(b, pool)' = Times(b, pool)
      /\ InPool(b) => InPool(b)'
  BY <1>1, PushCounts, CountFrame, PoolFrame
<1>4. /\ Bearers(b)' = Bearers(b) /\ Striking(b)' = Striking(b)
      /\ Sweepers(b)' = Sweepers(b) /\ Releasers(b)' = Releasers(b)
  BY <1>1, CountFrame
<1>5. /\ Unseeded(b)' <=> Unseeded(b)
      /\ Leased(b)' <=> Leased(b)
      /\ Listed(b)' <=> Listed(b)
      /\ Claimed(b)' <=> Claimed(b)
  BY <1>1, SeedFrame, CallerFrame, QuarantineFrame, ClaimFrame
<1> QED
  BY <1>1, <1>2, <1>3, <1>4, <1>5, Numbers
     DEF Damages, Finite, Copies, Strikable, One, Numbered, Lost, Carried

\* the callers' part of an error in an execution
LEMMA ErrorBearers ==
    ASSUME PoolShape, NEW r \in Request, ReportError(r) \/ QuarantineError(r),
           NEW b \in Address, Finite(b)
    PROVE  /\ IsFiniteSet(Bearers(b)')
           /\ Cardinality(Bearers(b)') \in Nat
           /\ Cardinality(Bearers(b)') <= Cardinality(Bearers(b))
           /\ Cardinality(Striking(b)') \in Nat
           /\ Cardinality(Striking(b)') <= Cardinality(Striking(b)) + 1
           /\ pc[r] = "holding" \/ b # ip[r] =>
                 Cardinality(Striking(b)') <= Cardinality(Striking(b))
           /\ Leased(b) /\ b # ip[r] => Leased(b)'
<1> USE DEF PoolShape
<1>1. r \in Caller /\ pc[r] \in {"holding", "failed"}
  BY RequestIsCaller, AfterError
<1>2. CASE Abandon(r)
  <2>1. /\ pc' = [pc EXCEPT ![r] = "idle"] /\ ip' = [ip EXCEPT ![r] = None]
        /\ \A d \in Caller \ {r} : count'[d] = count[d]
    BY <1>2 DEF Abandon, TypeInv, TypeOK
  <2>2. /\ IsFiniteSet(Bearers(b)')
        /\ Cardinality(Bearers(b)') \in Nat /\ Cardinality(Striking(b)') \in Nat
        /\ Cardinality(Striking(b)') <= Cardinality(Striking(b))
        /\ b = ip[r] => Cardinality(Bearers(b)') + 1 <= Cardinality(Bearers(b))
        /\ b # ip[r] => Bearers(b)' = Bearers(b) /\ (Leased(b)' <=> Leased(b))
    BY <1>1, <2>1, LetsGo
  <2> QED
    BY <2>2, Numbers DEF Numbered
<1>3. CASE TakenOver(r)
  <2>1. /\ pc' = [pc EXCEPT ![r] = "holding"] /\ UNCHANGED ip
        /\ count' = [count EXCEPT ![r] = 0]
    BY <1>3 DEF TakenOver
  <2>2. /\ \A d \in Caller : Holds(d, b)' <=> Holds(d, b)
        /\ \A d \in Caller \ {r} : pc'[d] = pc[d] /\ count'[d] = count[d]
    BY <1>1, <2>1 DEF Holds, TypeInv, TypeOK
  <2>3. Bearers(b)' = Bearers(b) /\ (Leased(b)' <=> Leased(b))
    BY <2>2 DEF Bearers, Leased
  <2>4. /\ Striking(b)' \subseteq Striking(b) \cup {r}
        /\ pc[r] = "holding" \/ b # ip[r] => Striking(b)' \in SUBSET Striking(b)
    BY <1>1, <2>2 DEF Striking, Holds
  <2>5. IsFiniteSet(Striking(b))
    BY Numbers DEF Numbered
  <2>6. /\ IsFiniteSet(Striking(b)')
        /\ Cardinality(Striking(b)') <= Cardinality(Striking(b)) + 1
    BY <2>4, <2>5, Grows
  <2>7. pc[r] = "holding" \/ b # ip[r] =>
           Cardinality(Striking(b)') <= Cardinality(Striking(b))
    BY <2>4, <2>5, FS_Subset
  <2>8. Cardinality(Striking(b)') \in Nat
    BY <2>6, FS_CardinalityType
  <2> QED
    BY <2>3, <2>6, <2>7, <2>8, Numbers DEF Numbered, Finite
<1> QED
  BY <1>2, <1>3, AfterError

LEMMA ExecutionErrorDamage ==
    ASSUME PoolShape, NEW r \in Request, ReportError(r) \/ QuarantineError(r)
    PROVE  \A b \in Address : Finite(b) => Damages(b, ip[r])
<1> SUFFICES ASSUME NEW b \in Address, Finite(b) PROVE Damages(b, ip[r])
  OBVIOUS
<1> USE DEF PoolShape
<1>1. UNCHANGED <<initKey, pool, phase, nextSeed, cooldown, claimed, releasing>>
  BY AfterError DEF TakenOver, Abandon, instanceVars, sweepVars
<1>2. /\ Times(b, pool)' = Times(b, pool) /\ Coolers(b)' = Coolers(b)
      /\ Sweepers(b)' = Sweepers(b) /\ Releasers(b)' = Releasers(b)
  BY <1>1, CountFrame
<1>3. /\ Unseeded(b)' <=> Unseeded(b)
      /\ InPool(b)' <=> InPool(b)
      /\ Resting(b)' <=> Resting(b)
      /\ Claimed(b)' <=> Claimed(b)
  BY <1>1, SeedFrame, PoolFrame, CooldownFrame, ClaimFrame
<1>4. ip[r] \in Address
  BY RequestIsCaller, AfterError DEF TypeInv, HasAddress
<1>5. CASE ReportError(r)
  <2>1. pc[r] = "holding" /\ (Listed(b)' <=> Listed(b))
    BY <1>5, QuarantineFrame DEF ReportError
  <2>2. \/ failures'[b] = failures[b]
        \/ failures'[b] = 0
        \/ failures'[b] = failures[b] + 1
    <3>1. UNCHANGED failures \/ ResetFailures(ip[r]) \/ IncrementFailures(ip[r])
      BY <1>5 DEF ReportError, Counts
    <3> QED
      BY <3>1 DEF ResetFailures, IncrementFailures, TypeInv, TypeOK, BackendTypeOK
  <2> QED
    BY <1>2, <1>3, <1>5, <2>1, <2>2, ErrorBearers, Numbers
       DEF Damages, Finite, Copies, Strikable, One, Numbered, Lost, Carried
<1>6. CASE QuarantineError(r)
  <2>1. UNCHANGED failures
    BY <1>6 DEF QuarantineError
  <2>2. Listed(b) => Listed(b)'
    BY <1>4, <1>6, PolicyAssumption
       DEF QuarantineError, QuarantineAdd, Listed, NoEntry, TypeInv, TypeOK, BackendTypeOK
  <2> QED
    BY <1>2, <1>3, <1>6, <2>1, <2>2, ErrorBearers, Numbers
       DEF Damages, Finite, Copies, Strikable, One, Numbered, Lost, Carried
<1> QED
  BY <1>5, <1>6

LEMMA ErrorShape == ASSUME PoolShape, TypeInv', Error PROVE PoolShape'
<1>1. UNCHANGED <<initKey, phase, claimed, releasing>>
  BY AfterError DEF Error, AcquireError, ReturnError, TakenOver, Abandon, instanceVars, sweepVars
<1> QED
  BY <1>1 DEF PoolShape, SeededOnce, ReleasesClaimed, Initialised

LEMMA ErrorDamage ==
    ASSUME PoolShape, Error
    PROVE  \E x : \A b \in Address : Finite(b) => Damages(b, x)
BY AcquireErrorDamage, ExecutionErrorDamage, ReturnErrorDamage DEF Error

----------------------------------------------------------------------------
(* All of it. *)

LostOnes == {a \in Address : Lost(a)}

DamageInv ==
    /\ PoolShape
    /\ errors \in Nat
    /\ IsFiniteSet(LostOnes) /\ Cardinality(LostOnes) <= errors
    /\ \A a \in Address : Bounded(a, errors)

LEMMA DamageInvInit == TMFInit => DamageInv
<1> SUFFICES ASSUME TMFInit PROVE DamageInv
  OBVIOUS
<1>1. PlaceInv /\ errors = 0
  BY InitPlaceInv DEF TMFInit, TMInit
<1>2. PoolShape
  BY <1>1 DEF PlaceInv, HolderInv, PoolShape
<1>3. LostOnes = {}
  BY <1>1 DEF PlaceInv, NoneLost, LostOnes, Lost, Carried
<1>4. ASSUME NEW a \in Address PROVE Bounded(a, 0)
  <2>1. /\ DOMAIN pool = {} /\ failures[a] = 0 /\ ~Listed(a)
        /\ \A c \in Caller : ~Holds(c, a)
        /\ \A i \in Instance : ~Cooling(i, a) /\ a \notin claimed[i]
    BY EmptySeq, LenProperties
       DEF TMFInit, TMInit, Init, BackendInit, Listed, Holds, Cooling, NoTask, NoEntry
  <2>2. /\ Bearers(a) = {} /\ Coolers(a) = {} /\ Sweepers(a) = {}
        /\ {n \in DOMAIN pool : pool[n] = a} = {}
    BY <2>1 DEF Bearers, Coolers, Sweepers
  <2>3. One(Listed(a)) = 0 /\ One(Unseeded(a)) \in {0, 1}
    BY <2>1 DEF One
  <2> QED
    BY <2>1, <2>2, <2>3, FS_EmptySet, ThresholdType DEF Bounded, Finite, Copies, Times
<1> QED
  BY <1>1, <1>2, <1>3, <1>4, FS_EmptySet DEF DamageInv

LEMMA PoolKeepsDamage ==
    ASSUME DamageInv, [Next]_vars, UNCHANGED errors
    PROVE  DamageInv'
<1>1. PoolShape' /\ errors' \in Nat
  BY ShapeNext DEF DamageInv
<1>2. ASSUME NEW a \in Address PROVE (Lost(a)' => Lost(a)) /\ Bounded(a, errors)'
  <2>1. Bounded(a, errors) /\ Finite(a)
    BY DEF DamageInv, Bounded
  <2>2. Kept(a) /\ (Spared(a) \/ Struck(a))
    BY <2>1, PoolCounted DEF DamageInv
  <2> QED
    BY <1>1, <2>1, <2>2, BoundedKept DEF DamageInv, Kept, Bounded
<1>3. LostOnes' \in SUBSET LostOnes
  BY <1>2 DEF LostOnes
<1>4. IsFiniteSet(LostOnes') /\ Cardinality(LostOnes') <= Cardinality(LostOnes)
  BY <1>3, FS_Subset DEF DamageInv
<1>5. Cardinality(LostOnes) \in Nat /\ Cardinality(LostOnes') \in Nat
  BY <1>4, FS_CardinalityType DEF DamageInv
<1> QED
  BY <1>1, <1>2, <1>4, <1>5 DEF DamageInv

LEMMA ErrorKeepsDamage ==
    ASSUME DamageInv, TypeInv', Error, errors' = errors + 1
    PROVE  DamageInv'
<1>1. PoolShape' /\ errors' \in Nat
  BY ErrorShape DEF DamageInv
<1>2. PICK x : \A b \in Address : Finite(b) => Damages(b, x)
  BY ErrorDamage DEF DamageInv
<1>3. ASSUME NEW a \in Address PROVE (Lost(a)' => Lost(a) \/ a = x) /\ Bounded(a, errors)'
  <2>1. Bounded(a, errors) /\ Damages(a, x)
    BY <1>2 DEF DamageInv, Bounded
  <2> QED
    BY <1>1, <2>1, BoundedRaised DEF DamageInv, Damages, Bounded
<1>4. LostOnes' \subseteq LostOnes \cup {x}
  BY <1>3 DEF LostOnes
<1>5. IsFiniteSet(LostOnes') /\ Cardinality(LostOnes') <= Cardinality(LostOnes) + 1
  BY <1>4, Grows DEF DamageInv
<1>6. Cardinality(LostOnes) \in Nat /\ Cardinality(LostOnes') \in Nat
  BY <1>5, FS_CardinalityType DEF DamageInv
<1> QED
  BY <1>1, <1>3, <1>5, <1>6 DEF DamageInv

LEMMA DamageInvNext == FaultInv /\ FaultInv' /\ DamageInv /\ [TMFNext]_tmfVars => DamageInv'
<1> SUFFICES ASSUME FaultInv, FaultInv', DamageInv, [TMFNext]_tmfVars PROVE DamageInv'
  OBVIOUS
<1>1. CASE [TMNext]_tmVars /\ UNCHANGED errors
  BY <1>1, ManagerStepIsPoolStep, PoolKeepsDamage DEF FaultInv
<1>2. CASE TMFTick
  BY <1>2, ElapsesIsPoolStep, PoolKeepsDamage DEF FaultInv, TMFTick, errorVars
<1>3. CASE Error
  <2>1. errors' = errors + 1
    BY <1>3 DEF Error, AcquireError, ReportError, QuarantineError, ReturnError, CallFails
  <2> QED
    BY <1>3, <2>1, ErrorKeepsDamage DEF FaultInv
<1> QED
  BY <1>1, <1>2, <1>3, FaultStepKinds

(* What a failed call may cost: however many calls fail and wherever, the   *)
(* rotation has lost one address for each of them at the most, and no       *)
(* address has been struck more often beyond the threshold.                 *)
THEOREM DamageBoundedAlways == TMFSpec => []DamageBounded
<1>1. DamageInv => DamageBounded
  <2> SUFFICES ASSUME DamageInv
               PROVE  /\ Cardinality(LostOnes) <= errors
                      /\ \A a \in Address :
                            failures[a] <= IpFailuresUntilQuarantine + errors
    BY DEF DamageBounded, LostOnes, Lost, Carried
  <2>1. ASSUME NEW a \in Address PROVE failures[a] <= IpFailuresUntilQuarantine + errors
    <3>1. Bounded(a, errors) /\ errors \in Nat /\ failures[a] \in Nat
      BY DEF DamageInv, PoolShape, TypeInv, TypeOK, BackendTypeOK
    <3>2. Strikable(a) \in Nat
      BY <3>1, Numbers DEF DamageInv, Bounded, Numbered
    <3> QED
      BY <3>1, <3>2, ThresholdType DEF Bounded
  <2> QED
    BY <2>1 DEF DamageInv
<1> QED
  BY <1>1, DamageInvInit, DamageInvNext, FaultInvariant, PTL DEF TMFSpec
=============================================================================
