--------------------------- MODULE RedisPoolProofs ---------------------------
(***************************************************************************)
(* Proofs about RedisPool: with calls of several commands, instances that  *)
(* stop and start again and sweeps that fail, the steps of the rotation    *)
(* are those of IPPool, a claim of one address, or the loss of what an     *)
(* instance had in its hands.  As long as the init key does not expire.    *)
(***************************************************************************)
EXTENDS RedisPool, IPPoolRotationProofs

PoolInv == HolderInv /\ StrikesInv

\* an instance stops, or its sweep task ends
LetsGo(i) == Stop(i) \/ SweepError(i)

LEMMA StepKinds ==
    RPNext => \/ [Next]_vars
              \/ \E i \in Instance, a \in Address : SweepRemove(i, a)
              \/ \E i \in Instance : LetsGo(i)
<1> SUFFICES ASSUME RPNext
             PROVE  \/ [Next]_vars
                    \/ \E i \in Instance, a \in Address : SweepRemove(i, a)
                    \/ \E i \in Instance : LetsGo(i)
  OBVIOUS
<1>1. CASE PoolUse
  BY <1>1 DEF PoolUse, Next, InstanceStep
<1>2. ASSUME NEW i \in Instance, Start(i) PROVE [Next]_vars
  <2>1. InitTarget(i) \/ Seed(i) \/ UNCHANGED vars
    BY <1>2 DEF Start, SetNx, Expire, SeedPush
  <2> QED
    BY <2>1 DEF Next, InstanceStep
<1>3. ASSUME NEW i \in Instance, SweepRead(i) \/ SweepReturn(i) PROVE [Next]_vars
  <2>1. UNCHANGED vars \/ SweepPush(i) \/ \E a \in Address : SweepReset(i, a)
    BY <1>3 DEF SweepRead, SweepReturn
  <2> QED
    BY <2>1 DEF Next, InstanceStep
<1> QED
  BY <1>1, <1>2, <1>3 DEF RPNext, Sweep, LetsGo

----------------------------------------------------------------------------
(* SweepRemove: what is still listed moves to the one instance whose ZREM   *)
(* was answered 1, however many instances have read it.                     *)

LEMMA RemoveEffect ==
    ASSUME HolderInv, NEW i \in Instance, NEW a \in Address, SweepRemove(i, a)
    PROVE  /\ UNCHANGED <<initKey, pool, failures, phase, nextSeed, pc, ip, count, cooldown,
                          releasing>>
           /\ \A b \in Address : Listed(b)' <=> Listed(b) /\ b # a
           /\ \A j \in Instance, b \in Address :
                 b \in claimed'[j] <=> b \in claimed[j] \/ (j = i /\ b = a /\ Listed(a))
           /\ \A b \in Address : Claimed(b)' <=> Claimed(b) \/ (b = a /\ Listed(a))
<1> USE DEF HolderInv, TypeInv, TypeOK
<1>1. UNCHANGED <<initKey, pool, failures, phase, nextSeed, pc, ip, count, cooldown, releasing>>
  BY DEF SweepRemove, instanceVars, callerVars
<1>2. \A b \in Address : Listed(b)' <=> Listed(b) /\ b # a
  BY DEF SweepRemove, QuarantineRemove, Listed
<1>3. \A j \in Instance, b \in Address :
         b \in claimed'[j] <=> b \in claimed[j] \/ (j = i /\ b = a /\ Listed(a))
  BY DEF SweepRemove
<1>4. \A b \in Address : Claimed(b)' <=> Claimed(b) \/ (b = a /\ Listed(a))
  BY <1>3 DEF Claimed
<1> QED
  BY <1>1, <1>2, <1>3, <1>4

LEMMA RemovePlaces ==
    ASSUME HolderInv, NEW i \in Instance, NEW a \in Address, SweepRemove(i, a)
    PROVE  HolderInv' /\ NothingLost
<1> USE DEF HolderInv
<1>1. UNCHANGED <<initKey, pool, failures, phase, nextSeed, pc, ip, count, cooldown, releasing>>
  BY RemoveEffect
<1>2. \A b \in Address : Listed(b)' <=> Listed(b) /\ b # a
  BY RemoveEffect
<1>3. \A j \in Instance, b \in Address :
         b \in claimed'[j] <=> b \in claimed[j] \/ (j = i /\ b = a /\ Listed(a))
  BY RemoveEffect
<1>4. \A b \in Address : Claimed(b)' <=> Claimed(b) \/ (b = a /\ Listed(a))
  BY RemoveEffect
<1>5. TypeInv'
  <2>1. quarantine' \in [Address -> Nat \cup {NoEntry}]
    BY DEF SweepRemove, QuarantineRemove, TypeInv, TypeOK, BackendTypeOK, NoEntry
  <2>2. claimed' \in [Instance -> SUBSET Address] /\ sinceUse' = sinceUse
    BY DEF SweepRemove, TypeInv, TypeOK
  <2> QED
    BY <1>1, <2>1, <2>2 DEF TypeInv, TypeOK, BackendTypeOK, HasAddress
<1>6. SeededOnce' /\ ReleasesClaimed'
  BY <1>1, <1>3 DEF SeededOnce, ReleasesClaimed, Initialised, TypeInv, TypeOK
<1>7. OneHolder' /\ NothingLost
  BY <1>1, <1>2, <1>3, <1>4, PoolFrame, CallerFrame, SeedFrame, CooldownFrame
     DEF OneHolder, NoDuplicates, OnePlace, NothingLost, Lost, Carried, Claimed
<1> QED
  BY <1>5, <1>6, <1>7

LEMMA RemoveStrikes ==
    ASSUME PoolInv, NEW i \in Instance, NEW a \in Address, SweepRemove(i, a)
    PROVE  StrikesInv'
<1> SUFFICES ASSUME NEW b \in Address PROVE StrikesAt(b)'
  BY DEF StrikesInv
<1>1. /\ UNCHANGED <<initKey, pool, failures, phase, nextSeed, pc, ip, count, cooldown, releasing>>
      /\ Listed(b)' => Listed(b)
  BY RemoveEffect DEF PoolInv
<1> QED
  BY <1>1, StrikesKept, PoolFrame, SeedFrame, CooldownFrame DEF PoolInv, StrikesInv

LEMMA RemoveRotates ==
    ASSUME PoolInv, AbsView, AbsView', NothingLost,
           NEW i \in Instance, NEW a \in Address, SweepRemove(i, a)
    PROVE  UNCHANGED Abstract!vars
<1>1. UNCHANGED <<initKey, pool, failures, phase, nextSeed, pc, ip, count, cooldown, releasing>>
  BY RemoveEffect DEF PoolInv
<1>2. ASSUME NEW b \in Address PROVE KeptAt(b)
  <2>1. (Listed(b)' => Listed(b)) /\ (Claimed(b)' => Listed(b) \/ Claimed(b))
    BY RemoveEffect DEF PoolInv
  <2>2. /\ \A c \in Caller : UsedBy(c, b)' => UsedBy(c, b)
        /\ StruckOut(b)' => StruckOut(b)
        /\ Rests(b)' => Rests(b)
    BY <1>1, <2>1, HandsKept, CooldownFrame
  <2> QED
    BY <1>1, <2>2, PoolFrame, SeedFrame DEF KeptAt
<1> QED
  BY <1>2, KeptView, NothingMoves DEF NothingLost

----------------------------------------------------------------------------
(* What an instance has in its hands goes with it; the storage and the      *)
(* other instances keep theirs.                                             *)

\* the address is in the hands of instance i
HeldBy(i, a) ==
    \/ Cooling(i, a)
    \/ a \in claimed[i]
    \/ \E c \in Caller : Home[c] = i /\ Holds(c, a)

LEMMA LetsGoEffect ==
    ASSUME TypeInv, NEW i \in Instance, LetsGo(i)
    PROVE  /\ UNCHANGED <<initKey, pool, failures, quarantine, nextSeed, sinceUse>>
           /\ \A j \in Instance :
                 /\ phase'[j] = phase[j] \/ (j = i /\ phase'[j] = "new")
                 /\ releasing'[j] # None => j # i /\ releasing'[j] = releasing[j]
                 /\ claimed'[j] = IF j = i THEN {} ELSE claimed[j]
                 /\ j # i => cooldown'[j] = cooldown[j]
                 /\ \A a \in Address : Cooling(j, a)' => Cooling(j, a)
           /\ \A c \in Caller :
                 \/ Home[c] = i /\ pc'[c] = "idle"
                 \/ pc'[c] = pc[c] /\ ip'[c] = ip[c] /\ count'[c] = count[c]
<1> USE DEF TypeInv, TypeOK
<1>1. CASE Stop(i)
  BY <1>1 DEF Stop, backendVars, Cooling
<1>2. CASE SweepError(i)
  BY <1>2 DEF SweepError, backendVars, instanceVars, callerVars, Cooling
<1> QED
  BY <1>1, <1>2 DEF LetsGo

\* no address enters a place
LEMMA LetsGoShrinks ==
    ASSUME TypeInv, NEW i \in Instance, LetsGo(i)
    PROVE  /\ \A c \in Caller, a \in Address : Holds(c, a)' => Holds(c, a)
           /\ \A a \in Address : /\ Unseeded(a)' => Unseeded(a)
                                 /\ InPool(a)' <=> InPool(a)
                                 /\ Leased(a)' => Leased(a)
                                 /\ Resting(a)' => Resting(a)
                                 /\ Listed(a)' <=> Listed(a)
                                 /\ Claimed(a)' => Claimed(a)
<1>1. \A c \in Caller, a \in Address : Holds(c, a)' => Holds(c, a)
  BY LetsGoEffect DEF Holds
<1>2. \A a \in Address : Leased(a)' => Leased(a)
  BY <1>1 DEF Leased
<1>3. \A a \in Address : Resting(a)' => Resting(a)
  BY LetsGoEffect DEF Resting
<1>4. \A a \in Address : Claimed(a)' => Claimed(a)
  BY LetsGoEffect DEF Claimed
<1>5. \A a \in Address : Unseeded(a)' => Unseeded(a)
  BY LetsGoEffect DEF Unseeded, Initialised
<1> QED
  BY <1>1, <1>2, <1>3, <1>4, <1>5, LetsGoEffect, PoolFrame, QuarantineFrame

LEMMA LetsGoPlaces ==
    ASSUME HolderInv, NEW i \in Instance, LetsGo(i) PROVE HolderInv'
<1> USE DEF HolderInv
<1>1. TypeInv'
  <2>1. TypeOK'
    <3> USE DEF TypeInv, TypeOK, BackendTypeOK, CallerState
    <3>1. CASE Stop(i)
      BY <3>1 DEF Stop, backendVars, NoTask
    <3>2. CASE SweepError(i)
      BY <3>2 DEF SweepError, backendVars, instanceVars, callerVars
    <3> QED
      BY <3>1, <3>2 DEF LetsGo
  <2>2. HasAddress'
    BY LetsGoEffect DEF TypeInv, HasAddress
  <2> QED
    BY <2>1, <2>2 DEF TypeInv
<1>2. SeededOnce'
  BY LetsGoEffect DEF SeededOnce, Initialised
<1>3. ReleasesClaimed'
  BY LetsGoEffect DEF ReleasesClaimed
<1>4. NoDuplicates'
  <2>1. \A m, n \in DOMAIN pool' : pool'[m] = pool'[n] => m = n
    BY LetsGoEffect DEF OneHolder, NoDuplicates
  <2>2. \A a \in Address, j \in Instance : a \in claimed'[j] => a \in claimed[j]
    BY LetsGoEffect
  <2>3. \A a \in Address, j \in Instance : Cooling(j, a)' => Cooling(j, a)
    BY LetsGoEffect
  <2> QED
    BY <2>1, <2>2, <2>3, LetsGoShrinks DEF OneHolder, NoDuplicates
<1>5. \A a \in Address : OnePlace(a)'
  BY LetsGoShrinks DEF OneHolder, OnePlace
<1> QED
  BY <1>1, <1>2, <1>3, <1>4, <1>5 DEF OneHolder

LEMMA LetsGoStrikes ==
    ASSUME PoolInv, NEW i \in Instance, LetsGo(i) PROVE StrikesInv'
<1> SUFFICES ASSUME NEW b \in Address PROVE StrikesAt(b)'
  BY DEF StrikesInv
<1> USE DEF PoolInv, HolderInv
<1>1. /\ failures'[b] = failures[b]
      /\ \A j \in Instance : releasing'[j] = b => releasing[j] = b
      /\ \A c \in Caller : \/ pc'[c] = "idle"
                           \/ pc'[c] = pc[c] /\ ip'[c] = ip[c] /\ count'[c] = count[c]
  <2>1. b # None
    BY IpListAssumption
  <2> QED
    BY <2>1, LetsGoEffect
<1>2. /\ Unseeded(b)' => Unseeded(b)
      /\ InPool(b)' \/ Resting(b)' => InPool(b) \/ Resting(b)
      /\ Listed(b)' => Listed(b)
  BY LetsGoShrinks
<1> QED
  BY <1>1, <1>2, StrikesKept DEF StrikesInv

----------------------------------------------------------------------------
LEMMA PoolInvInit == RPInit => PoolInv
BY InitPlaceInv, StrikesInit DEF RPInit, PoolInv, PlaceInv

LEMMA PoolInvNext == PoolInv /\ [RPNext]_rpVars => PoolInv'
<1> SUFFICES ASSUME PoolInv, [RPNext]_rpVars PROVE PoolInv'
  OBVIOUS
<1>1. CASE [Next]_vars
  <2>1. HolderInv'
    BY <1>1, NextHolderInv DEF PoolInv
  <2>2. StrikesInv'
    BY <1>1, StrikesInstance, StrikesCaller, StrikesTick DEF PoolInv, Next
  <2> QED
    BY <2>1, <2>2 DEF PoolInv
<1>2. ASSUME NEW i \in Instance, NEW a \in Address, SweepRemove(i, a) PROVE PoolInv'
  BY <1>2, RemovePlaces, RemoveStrikes DEF PoolInv
<1>3. ASSUME NEW i \in Instance, LetsGo(i) PROVE PoolInv'
  BY <1>3, LetsGoPlaces, LetsGoStrikes DEF PoolInv
<1>4. UNCHANGED rpVars => UNCHANGED vars
  BY DEF rpVars
<1> QED
  BY <1>1, <1>2, <1>3, <1>4, StepKinds

LEMMA PoolInvariant == RPSpec => []PoolInv
BY PoolInvInit, PoolInvNext, PTL DEF RPSpec

(* Instances that stop anywhere in a seeding, a use, a cooldown or a sweep, *)
(* sweeps that fail and sweeps that have read the same entries: none of     *)
(* them puts an address in two places.                                      *)
THEOREM OneHolderThroughRestarts == RPSpec => []OneHolder
<1>1. PoolInv => OneHolder
  BY DEF PoolInv, HolderInv
<1> QED
  BY <1>1, PoolInvariant, PTL

----------------------------------------------------------------------------
(* What Redis and the sweeps add to the pool's state, and the count of the  *)
(* faults.                                                                  *)

RedisTypes ==
    /\ unarmed \subseteq Instance
    /\ keyTtl \in {"none", "armed"}
    /\ candidates \in [Instance -> SUBSET Address]
    /\ sweeping \subseteq Instance
    /\ faults \in 0 .. MaxFaults

LEMMA RedisTypesNext == RedisTypes /\ [RPNext]_rpVars => RedisTypes'
<1> SUFFICES ASSUME RedisTypes, [RPNext]_rpVars PROVE RedisTypes'
  OBVIOUS
<1> USE FaultAssumption DEF RedisTypes
<1>1. CASE PoolUse \/ UNCHANGED rpVars
  BY <1>1 DEF PoolUse, redisVars, rpVars
<1>2. ASSUME NEW i \in Instance, Start(i) PROVE RedisTypes'
  BY <1>2 DEF Start, SetNx, Expire, SeedPush
<1>3. ASSUME NEW i \in Instance, SweepRead(i) PROVE RedisTypes'
  BY <1>3 DEF SweepRead, Expired
<1>4. ASSUME NEW i \in Instance, NEW a \in Address, SweepRemove(i, a) PROVE RedisTypes'
  BY <1>4 DEF SweepRemove
<1>5. ASSUME NEW i \in Instance, SweepReturn(i) PROVE RedisTypes'
  BY <1>5 DEF SweepReturn, redisVars
<1>6. ASSUME NEW i \in Instance, SweepError(i) PROVE RedisTypes'
  BY <1>6 DEF SweepError
<1>7. ASSUME NEW i \in Instance, Stop(i) PROVE RedisTypes'
  BY <1>7 DEF Stop
<1> QED
  BY <1>1, <1>2, <1>3, <1>4, <1>5, <1>6, <1>7 DEF RPNext, Sweep

(* Type correctness with faults.                                            *)
THEOREM RedisTyping == RPSpec => []RPTypeOK
<1>1. RPInit => RedisTypes
  BY FaultAssumption DEF RPInit, RedisTypes
<1>2. PoolInv /\ RedisTypes => RPTypeOK
  BY DEF PoolInv, HolderInv, TypeInv, RedisTypes, RPTypeOK
<1> QED
  BY <1>1, <1>2, RedisTypesNext, PoolInvariant, PTL DEF RPSpec

----------------------------------------------------------------------------
(* What gets lost. *)

LEMMA LetsGoLoses ==
    ASSUME TypeInv, NEW i \in Instance, LetsGo(i),
           NEW a \in Address, InRotation(a), ~InRotation(a)'
    PROVE  /\ HeldBy(i, a)
           /\ SweepError(i) => a \in claimed[i]
<1>1. CASE Leased(a)
  <2>1. PICK c \in Caller : Holds(c, a) /\ ~Holds(c, a)'
    BY <1>1 DEF InRotation, Leased
  <2>2. Home[c] = i /\ (pc'[c] # pc[c] \/ ip'[c] # ip[c])
    BY <2>1, LetsGoEffect DEF Holds
  <2> QED
    BY <2>1, <2>2 DEF HeldBy, SweepError, callerVars
<1>2. CASE Resting(a)
  <2>1. PICK j \in Instance : Cooling(j, a) /\ ~Cooling(j, a)'
    BY <1>2 DEF InRotation, Resting
  <2>2. j = i /\ cooldown' # cooldown
    BY <2>1, LetsGoEffect DEF Cooling
  <2> QED
    BY <2>1, <2>2 DEF HeldBy, SweepError
<1>3. CASE Claimed(a)
  BY <1>3, LetsGoEffect DEF InRotation, Claimed, HeldBy
<1> QED
  BY <1>1, <1>2, <1>3, LetsGoShrinks DEF InRotation

(* An address leaves the rotation only with the instance that was using,    *)
(* resting or releasing it, or with the sweep that was releasing it: all    *)
(* else that a stopped instance was about to do is in the storage.          *)
THEOREM LostOnlyWithHolderAlways == RPSpec => LostOnlyWithHolder
<1>1. PoolInv /\ [RPNext]_rpVars =>
         [\A a \in Address :
            InRotation(a) /\ ~InRotation(a)' =>
              \E i \in Instance :
                 \/ /\ phase[i] # "new" /\ phase'[i] = "new"
                    /\ \/ Cooling(i, a)
                       \/ a \in claimed[i]
                       \/ \E c \in Caller : Home[c] = i /\ Holds(c, a)
                 \/ i \in sweeping /\ i \notin sweeping' /\ a \in claimed[i]]_rpVars
  <2> SUFFICES ASSUME PoolInv, RPNext, NEW a \in Address, InRotation(a), ~InRotation(a)'
               PROVE  \E i \in Instance :
                         \/ /\ phase[i] # "new" /\ phase'[i] = "new"
                            /\ HeldBy(i, a)
                         \/ i \in sweeping /\ i \notin sweeping' /\ a \in claimed[i]
    BY DEF HeldBy
  <2>1. (InRotation(a) <=> Carried(a)) /\ (InRotation(a)' <=> Carried(a)')
    BY DEF InRotation, Carried
  <2>2. ~[Next]_vars
    BY <2>1, NextHolderInv DEF PoolInv, NothingLost
  <2>3. ~ \E i \in Instance, b \in Address : SweepRemove(i, b)
    BY <2>1, RemovePlaces DEF PoolInv, NothingLost
  <2>4. PICK i \in Instance : LetsGo(i)
    BY <2>2, <2>3, StepKinds
  <2>5. HeldBy(i, a) /\ (SweepError(i) => a \in claimed[i])
    BY <2>4, LetsGoLoses DEF PoolInv, HolderInv
  <2>6. CASE Stop(i)
    <3>1. phase[i] # "new" /\ phase'[i] = "new"
      BY <2>6 DEF Stop, PoolInv, HolderInv, TypeInv, TypeOK
    <3> QED
      BY <2>5, <3>1
  <2>7. CASE SweepError(i)
    BY <2>5, <2>7 DEF SweepError
  <2> QED
    BY <2>4, <2>6, <2>7 DEF LetsGo
<1> QED
  BY <1>1, PoolInvariant, PTL DEF RPSpec, LostOnlyWithHolder

----------------------------------------------------------------------------
(* The refinement.  A step of the pool is a step of Rotation, whether or    *)
(* not addresses have been lost; it moves none of those that have.          *)

lossStatus == [a \in Address |-> IF Gone(a) THEN "gone" ELSE absStatus[a]]
lossStrikes == [a \in Address |-> IF Gone(a) THEN 0 ELSE absStrikes[a]]

LEMMA GoneIsLost == \A a \in Address : (Gone(a) <=> Lost(a)) /\ (Gone(a)' <=> Lost(a)')
BY DEF Gone, InRotation, Lost, Carried

LEMMA RotatesLossy ==
    ASSUME AbsView, AbsView', NothingLost, [Abstract!Next]_Abstract!vars
    PROVE  [Lossy!LossyNext]_Lossy!vars
<1>1. \A a \in Address : /\ Gone(a)' <=> Gone(a)
                         /\ Gone(a) => absStatus[a] = "resting" /\ absStatus'[a] = "resting"
  BY GoneIsLost DEF NothingLost, AbsView
<1>2. CASE UNCHANGED Abstract!vars
  BY <1>1, <1>2 DEF Abstract!vars, Lossy!vars
<1>3. ASSUME NEW a \in Address, Abstract!Enter(a) PROVE Lossy!Enter(a)
  BY <1>1, <1>3, ViewFunctions DEF Abstract!Enter, Abstract!Move, Lossy!Enter, Lossy!Move
<1>4. ASSUME NEW a \in Address, NEW c \in Caller, Abstract!Lease(a, c) PROVE Lossy!Lease(a, c)
  BY <1>1, <1>4, ViewFunctions DEF Abstract!Lease, Abstract!Move, Lossy!Lease, Lossy!Move
<1>5. ASSUME NEW a \in Address, Abstract!Succeed(a) PROVE Lossy!Succeed(a)
  BY <1>1, <1>5, ViewFunctions DEF Abstract!Succeed, Abstract!Move, Lossy!Succeed, Lossy!Move
<1>6. ASSUME NEW a \in Address, Abstract!Fail(a) PROVE Lossy!Fail(a)
  BY <1>1, <1>6, ViewFunctions DEF Abstract!Fail, Abstract!Move, Lossy!Fail, Lossy!Move
<1>7. ASSUME NEW a \in Address, Abstract!Rested(a) PROVE Lossy!Rested(a)
  BY <1>1, <1>7, ViewFunctions DEF Abstract!Rested, Abstract!Move, Lossy!Rested, Lossy!Move
<1>8. ASSUME NEW a \in Address, Abstract!Release(a) PROVE Lossy!Release(a)
  BY <1>1, <1>8, ViewFunctions DEF Abstract!Release, Abstract!Move, Lossy!Release, Lossy!Move
<1> QED
  BY <1>2, <1>3, <1>4, <1>5, <1>6, <1>7, <1>8 DEF Abstract!Next, Lossy!LossyNext, Lossy!Next

\* what an instance takes with it is lost at once; the rest keep their values
LEMMA LetsGoLossy ==
    ASSUME PoolInv, AbsView, AbsView', NEW i \in Instance, LetsGo(i)
    PROVE  [Lossy!LossyNext]_Lossy!vars
<1> DEFINE lost == {a \in Address : Gone(a)' /\ ~Gone(a)}
<1> USE DEF PoolInv, HolderInv
<1>1. \A a \in Address : Gone(a) => Gone(a)'
  BY LetsGoShrinks DEF Gone, InRotation
<1>2. ASSUME NEW a \in Address PROVE KeptAt(a)
  <2>1. \A c \in Caller : \/ ip'[c] # a
                          \/ pc'[c] \in {"idle", "waiting"}
                          \/ ip[c] = a /\ pc'[c] = pc[c] /\ count'[c] = count[c]
    BY LetsGoEffect
  <2>2. /\ \A c \in Caller : UsedBy(c, a)' => UsedBy(c, a)
        /\ StruckOut(a)' => StruckOut(a)
        /\ Rests(a)' => Rests(a)
    BY <2>1, LetsGoShrinks, HandsKept
  <2> QED
    BY <2>2, LetsGoShrinks, LetsGoEffect DEF KeptAt
<1>3. \A a \in Address : ~Gone(a)' => SameView(a)
  BY <1>2, GoneIsLost, KeptView
<1>4. \A a \in Address : /\ Gone(a) => absHolder[a] = None
                         /\ Gone(a)' => absHolder'[a] = None
  BY GoneIsLost DEF AbsView
<1>5. CASE lost = {}
  <2>1. \A a \in Address : Gone(a)' <=> Gone(a)
    BY <1>1, <1>5
  <2>2. \A a \in Address : /\ lossStatus'[a] = lossStatus[a]
                           /\ absHolder'[a] = absHolder[a]
                           /\ lossStrikes'[a] = lossStrikes[a]
    BY <1>3, <1>4, <2>1 DEF lossStatus, lossStrikes, SameView
  <2> QED
    BY <2>2, ViewFunctions DEF Lossy!vars, lossStatus, lossStrikes
<1>6. CASE lost # {}
  <2>1. \A a \in Address : lossStatus'[a] = IF a \in lost THEN "gone" ELSE lossStatus[a]
    BY <1>1, <1>3 DEF lossStatus, SameView
  <2>2. \A a \in Address : absHolder'[a] = IF a \in lost THEN None ELSE absHolder[a]
    BY <1>1, <1>3, <1>4 DEF SameView
  <2>3. \A a \in Address : lossStrikes'[a] = IF a \in lost THEN 0 ELSE lossStrikes[a]
    BY <1>1, <1>3 DEF lossStrikes, SameView
  <2>4. \A a \in lost : lossStatus[a] # "gone"
    <3> SUFFICES ASSUME NEW a \in Address, ~Gone(a) PROVE lossStatus[a] # "gone"
      OBVIOUS
    <3>1. InUse(a) <=> \E c \in Caller : UsedBy(c, a)
      BY DEF InUse, UsedBy
    <3>2. absStatus[a] # "gone"
      BY <3>1 DEF AbsView
    <3> QED
      BY <3>2 DEF lossStatus
  <2> PICK gone \in SUBSET Address : gone = lost
    OBVIOUS
  <2>5. lossStatus' = [a \in Address |-> IF a \in gone THEN "gone" ELSE lossStatus[a]]
    BY <2>1 DEF lossStatus
  <2>6. absHolder' = [a \in Address |-> IF a \in gone THEN None ELSE absHolder[a]]
    BY <2>2, ViewFunctions
  <2>7. lossStrikes' = [a \in Address |-> IF a \in gone THEN 0 ELSE lossStrikes[a]]
    BY <2>3 DEF lossStrikes
  <2>8. gone # {} /\ \A a \in gone : lossStatus[a] # "gone"
    BY <1>6, <2>4
  <2> HIDE DEF lost
  <2>9. Lossy!Lose(gone)
    BY <2>5, <2>6, <2>7, <2>8 DEF Lossy!Lose, lossStatus, lossStrikes
  <2> QED
    BY <2>9 DEF Lossy!LossyNext
<1> QED
  BY <1>5, <1>6

LEMMA InitLossy == RPInit => Lossy!Init
<1> SUFFICES ASSUME RPInit PROVE Lossy!Init
  OBVIOUS
<1>1. \A a \in Address : ~Gone(a)
  BY DEF RPInit, Init, BackendInit, Gone, Unseeded, Initialised
<1> QED
  BY <1>1, InitRotates, ViewFunctions DEF RPInit, Abstract!Init, Lossy!Init

(* With stops, restarts, failing sweeps and calls of several commands the   *)
(* pool is a rotation that may lose addresses: no fault issues an address   *)
(* twice, brings a lost one back or clears a strike that counts.            *)
THEOREM RedisImplementsLossyRotation == RPSpec => ImplementsLossyRotation
<1>1. PoolInv => RotInv
  BY View DEF PoolInv, RotInv
<1>2. RotInv /\ RotInv' /\ [RPNext]_rpVars => [Lossy!LossyNext]_Lossy!vars
  <2> SUFFICES ASSUME RotInv, RotInv', [RPNext]_rpVars
               PROVE  [Lossy!LossyNext]_Lossy!vars
    OBVIOUS
  <2> USE DEF RotInv
  <2>1. CASE [Next]_vars
    <3>1. NothingLost /\ NoneDrops
      BY <2>1, NextHolderInv DEF NothingLost, NoneDrops
    <3>2. [Abstract!Next]_Abstract!vars
      BY <2>1, <3>1, InstanceRotates, CallerRotates, TickRotates DEF Next
    <3> QED
      BY <3>1, <3>2, RotatesLossy
  <2>2. ASSUME NEW i \in Instance, NEW a \in Address, SweepRemove(i, a)
        PROVE  [Lossy!LossyNext]_Lossy!vars
    BY <2>2, RemovePlaces, RemoveRotates, RotatesLossy DEF PoolInv
  <2>3. ASSUME NEW i \in Instance, LetsGo(i) PROVE [Lossy!LossyNext]_Lossy!vars
    BY <2>3, LetsGoLossy DEF PoolInv
  <2>4. UNCHANGED rpVars => UNCHANGED vars
    BY DEF rpVars
  <2> QED
    BY <2>1, <2>2, <2>3, <2>4, StepKinds
<1> QED
  BY <1>1, <1>2, InitLossy, PoolInvariant, PTL
     DEF RPSpec, ImplementsLossyRotation, Lossy!LossySpec
=============================================================================
