---------------------------- MODULE IPPoolProofs ----------------------------
(***************************************************************************)
(* Proofs about IPPool for any instances, callers and addresses.           *)
(***************************************************************************)
EXTENDS IPPool, SequenceTheorems, TLAPS

LEMMA ThresholdType ==
    /\ IpFailuresUntilQuarantine \in Nat
    /\ IpFailuresUntilQuarantine >= 1
BY PolicyAssumption

LEMMA FirstIndex == 1 \in DOMAIN IpList
BY IpListAssumption, EmptySeq, LenProperties

LEMMA InitTypeOK == Init => TypeOK
BY FirstIndex, PolicyAssumption
   DEF Init, BackendInit, TypeOK, BackendTypeOK, NoTask, NoEntry, CallerState

LEMMA PushType == ASSUME pool \in Seq(Address), NEW a \in Address, PushIp(a)
                  PROVE  pool' \in Seq(Address)
BY DEF PushIp

\* a caller past acquire has an address
HasAddress == \A c \in Caller : pc[c] \notin {"idle", "waiting"} => ip[c] \in Address

TypeInv == TypeOK /\ HasAddress

LEMMA NextTypeOK == TypeInv /\ [Next]_vars => TypeOK'
<1> SUFFICES ASSUME TypeInv, [Next]_vars PROVE TypeOK'
  OBVIOUS
<1> USE HomeAssumption, PolicyAssumption
    DEF TypeInv, HasAddress, TypeOK, BackendTypeOK, NoTask, NoEntry, CallerState,
        backendVars, instanceVars, callerVars, sweepVars
<1>1. ASSUME NEW i \in Instance, InitTarget(i) PROVE TypeOK'
  BY <1>1, FirstIndex DEF InitTarget
<1>2. ASSUME NEW i \in Instance, Seed(i) PROVE TypeOK'
  <2>1. IpList[nextSeed[i]] \in Address
    BY IpListAssumption
  <2>2. pool' \in Seq(Address)
    BY <1>2, <2>1, PushType DEF Seed
  <2>3. nextSeed' \in [Instance -> DOMAIN IpList]
    BY <1>2, IpListAssumption, LenProperties DEF Seed
  <2>4. phase' \in [Instance -> {"new", "seeding", "running"}]
    BY <1>2 DEF Seed
  <2> QED
    BY <1>2, <2>2, <2>3, <2>4 DEF Seed
<1>3. ASSUME NEW i \in Instance, SweepClaim(i) PROVE TypeOK'
  BY <1>3 DEF SweepClaim, QuarantinePopExpired, QuarantineRemove, Expired
<1>4. ASSUME NEW i \in Instance, SweepPush(i) PROVE TypeOK'
  <2>1. pool' \in Seq(Address)
    BY <1>4, PushType DEF SweepPush
  <2> QED
    BY <1>4, <2>1 DEF SweepPush
<1>5. ASSUME NEW i \in Instance, NEW a \in Address, ReturnAfterCooldown(i, a)
      PROVE TypeOK'
  BY <1>5, PushType DEF ReturnAfterCooldown
<1>6. ASSUME NEW i \in Instance, NEW a \in Address, SweepReset(i, a) PROVE TypeOK'
  BY <1>6 DEF SweepReset, ResetFailures
<1>7. ASSUME NEW c \in Caller, Acquire(c) PROVE TypeOK'
  BY <1>7 DEF Acquire
<1>8. ASSUME NEW c \in Caller, Pop(c) PROVE TypeOK'
  <2>1. pool' \in Seq(Address)
    BY <1>8, HeadTailProperties DEF Pop, PopIp
  <2> QED
    BY <1>8, <2>1 DEF Pop
<1>9. ASSUME NEW c \in Caller, AcquireTimeout(c) PROVE TypeOK'
  BY <1>9 DEF AcquireTimeout
<1>10. ASSUME NEW c \in Caller, RecordSuccess(c) PROVE TypeOK'
  BY <1>10 DEF RecordSuccess, ResetFailures
<1>11. ASSUME NEW c \in Caller, RestAfterSuccess(c) PROVE TypeOK'
  BY <1>11 DEF RestAfterSuccess, ReturnLater
<1>12. ASSUME NEW c \in Caller, RecordFailure(c) PROVE TypeOK'
  <2>1. ip[c] \in Address
    BY <1>12 DEF RecordFailure
  <2>2. failures' \in [Address -> Nat]
    BY <1>12, <2>1 DEF RecordFailure, IncrementFailures
  <2> QED
    BY <1>12, <2>1, <2>2 DEF RecordFailure
<1>13. ASSUME NEW c \in Caller, RestAfterFailure(c) PROVE TypeOK'
  BY <1>13 DEF RestAfterFailure, ReturnLater
<1>14. ASSUME NEW c \in Caller, QuarantineIp(c) PROVE TypeOK'
  BY <1>14 DEF QuarantineIp, QuarantineAdd
<1>15. CASE Tick
  <2>1. quarantine' \in [Address -> Nat \cup {NoEntry}]
    BY <1>15 DEF Tick, Elapse, QuarantineElapses, Elapsed
  <2>2. cooldown' \in [Instance -> [Address -> Nat \cup {NoTask}]]
    BY <1>15 DEF Tick, Elapse, Elapsed
  <2>3. sinceUse' \in [Address -> Nat]
    BY <1>15 DEF Tick, Elapse
  <2> QED
    BY <1>15, <2>1, <2>2, <2>3 DEF Tick
<1>16. CASE UNCHANGED vars
  BY <1>16 DEF vars
<1> QED
  BY <1>1, <1>2, <1>3, <1>4, <1>5, <1>6, <1>7, <1>8, <1>9, <1>10, <1>11, <1>12,
     <1>13, <1>14, <1>15, <1>16 DEF Next, InstanceStep, CallerStep

\* only a caller's own step changes what it has
LEMMA NextHasAddress == TypeInv /\ [Next]_vars => HasAddress'
<1> SUFFICES ASSUME TypeInv, [Next]_vars PROVE HasAddress'
  OBVIOUS
<1> USE DEF TypeInv, TypeOK, HasAddress, CallerState
<1>1. ASSUME NEW c \in Caller, CallerStep(c) PROVE HasAddress'
  <2>1. CASE Acquire(c) \/ AcquireTimeout(c)
    BY <2>1 DEF Acquire, AcquireTimeout
  <2>2. CASE Pop(c)
    BY <2>2 DEF Pop
  <2>3. CASE RecordSuccess(c) \/ RecordFailure(c)
    BY <2>3 DEF RecordSuccess, RecordFailure
  <2>4. CASE RestAfterSuccess(c) \/ RestAfterFailure(c)
    BY <2>4 DEF RestAfterSuccess, RestAfterFailure, ReturnLater
  <2>5. CASE QuarantineIp(c)
    BY <2>5 DEF QuarantineIp
  <2> QED
    BY <1>1, <2>1, <2>2, <2>3, <2>4, <2>5 DEF CallerStep
<1>2. CASE UNCHANGED callerVars
  BY <1>2 DEF callerVars
<1>3. ASSUME NEW i \in Instance, InstanceStep(i) PROVE UNCHANGED callerVars
  BY <1>3 DEF InstanceStep, InitTarget, Seed, SweepClaim, SweepPush,
              ReturnAfterCooldown, SweepReset, callerVars
<1>4. Tick \/ UNCHANGED vars => UNCHANGED callerVars
  BY DEF Tick, vars, callerVars
<1> QED
  BY <1>1, <1>2, <1>3, <1>4 DEF Next

(* Every reachable state of the pool is well typed: in particular a caller  *)
(* that acquired an address holds a configured one, and no counter or timer *)
(* of pool.py leaves its range.                                             *)
THEOREM Typing == Spec => []TypeOK
<1>1. Init => TypeInv
  BY InitTypeOK DEF TypeInv, HasAddress, Init
<1>2. TypeInv /\ [Next]_vars => TypeInv'
  BY NextTypeOK, NextHasAddress DEF TypeInv
<1>3. TypeInv => TypeOK
  BY DEF TypeInv
<1> QED
  BY <1>1, <1>2, <1>3, PTL DEF Spec

----------------------------------------------------------------------------
(* Every address is in exactly one place.  OneHolder and NoneLost are       *)
(* inductive together with two facts: at most one instance ever seeds, and  *)
(* the address a sweep is about to push is still among those it claimed.    *)

SeededOnce ==
    /\ \A i \in Instance : phase[i] = "seeding" => Initialised
    /\ \A i, j \in Instance : phase[i] = "seeding" /\ phase[j] = "seeding" => i = j

ReleasesClaimed ==
    \A i \in Instance : releasing[i] # None => releasing[i] \in claimed[i]

HolderInv == TypeInv /\ SeededOnce /\ ReleasesClaimed /\ OneHolder

PlaceInv == HolderInv /\ NoneLost

\* each place depends on a few variables only

LEMMA PoolFrame ==
    ASSUME pool' = pool
    PROVE  /\ NoDuplicates => \A m, n \in DOMAIN pool' : pool'[m] = pool'[n] => m = n
           /\ \A a \in Address : InPool(a)' <=> InPool(a)
BY DEF InPool, NoDuplicates

LEMMA CallerFrame ==
    ASSUME pc' = pc, ip' = ip
    PROVE  /\ \A c \in Caller, a \in Address : Holds(c, a)' <=> Holds(c, a)
           /\ \A a \in Address : Leased(a)' <=> Leased(a)
BY DEF Leased, Holds

LEMMA CooldownFrame ==
    ASSUME cooldown' = cooldown
    PROVE  /\ \A i \in Instance, a \in Address : Cooling(i, a)' <=> Cooling(i, a)
           /\ \A a \in Address : Resting(a)' <=> Resting(a)
BY DEF Resting, Cooling

LEMMA QuarantineFrame ==
    ASSUME quarantine' = quarantine
    PROVE  \A a \in Address : Listed(a)' <=> Listed(a)
BY DEF Listed

LEMMA ClaimFrame ==
    ASSUME claimed' = claimed
    PROVE  \A a \in Address : Claimed(a)' <=> Claimed(a)
BY DEF Claimed

LEMMA SeedFrame ==
    ASSUME initKey' = initKey, phase' = phase, nextSeed' = nextSeed
    PROVE  \A a \in Address : Unseeded(a)' <=> Unseeded(a)
BY DEF Unseeded, Initialised

LEMMA PushPlaces ==
    ASSUME pool \in Seq(Address), NEW a \in Address, PushIp(a), ~InPool(a),
           \A m, n \in DOMAIN pool : pool[m] = pool[n] => m = n
    PROVE  /\ \A m, n \in DOMAIN pool' : pool'[m] = pool'[n] => m = n
           /\ \A b \in Address : InPool(b)' <=> InPool(b) \/ b = a
<1>1. /\ DOMAIN pool = 1 .. Len(pool)
      /\ DOMAIN pool' = 1 .. Len(pool) + 1
      /\ Len(pool) \in Nat
      /\ \A n \in 1 .. Len(pool) : pool'[n] = pool[n]
      /\ pool'[Len(pool) + 1] = a
  BY LenProperties, AppendProperties DEF PushIp
<1> QED
  BY <1>1 DEF InPool

LEMMA PopPlaces ==
    ASSUME pool \in Seq(Address), NEW a \in Address, PopIp(a),
           \A m, n \in DOMAIN pool : pool[m] = pool[n] => m = n
    PROVE  /\ \A m, n \in DOMAIN pool' : pool'[m] = pool'[n] => m = n
           /\ InPool(a)
           /\ \A b \in Address : InPool(b)' <=> InPool(b) /\ b # a
<1>1. /\ DOMAIN pool = 1 .. Len(pool)
      /\ Len(pool) \in Nat \ {0}
      /\ DOMAIN pool' = 1 .. Len(pool) - 1
      /\ \A n \in 1 .. Len(pool) - 1 : pool'[n] = pool[n + 1]
      /\ a = pool[1]
  BY LenProperties, EmptySeq, HeadTailProperties DEF PopIp
<1>2. ASSUME NEW b \in Address, InPool(b), b # a PROVE InPool(b)'
  <2>1. PICK n \in DOMAIN pool : pool[n] = b
    BY <1>2 DEF InPool
  <2>2. n - 1 \in DOMAIN pool' /\ pool'[n - 1] = b
    BY <1>1, <1>2, <2>1
  <2> QED
    BY <2>2 DEF InPool
<1>3. ASSUME NEW b \in Address, InPool(b)' PROVE InPool(b) /\ b # a
  <2>1. PICK n \in DOMAIN pool' : pool'[n] = b
    BY <1>3 DEF InPool
  <2>2. n + 1 \in DOMAIN pool /\ pool[n + 1] = b /\ 1 \in DOMAIN pool /\ n + 1 # 1
    BY <1>1, <2>1
  <2> QED
    BY <1>1, <2>2 DEF InPool
<1>4. InPool(a)
  BY <1>1 DEF InPool
<1>5. \A m, n \in DOMAIN pool' : pool'[m] = pool'[n] => m = n
  <2> SUFFICES ASSUME NEW m \in DOMAIN pool', NEW n \in DOMAIN pool',
                      pool'[m] = pool'[n]
               PROVE  m = n
    OBVIOUS
  <2>1. m + 1 \in DOMAIN pool /\ n + 1 \in DOMAIN pool /\ pool[m + 1] = pool[n + 1]
    BY <1>1
  <2> QED
    BY <1>1, <2>1
<1> QED
  BY <1>2, <1>3, <1>4, <1>5

Holders == SeededOnce /\ ReleasesClaimed /\ OneHolder

Carried(a) == InPool(a) \/ Leased(a) \/ Resting(a) \/ Listed(a) \/ Claimed(a)

Lost(a) == ~Unseeded(a) /\ ~Carried(a)

\* a step of the pool drops no address, and brings back none that was lost
NothingLost == \A a \in Address : (Carried(a) => Carried(a)') /\ (Lost(a) <=> Lost(a)')

\* what every step of the pool does, also when addresses have been lost before
MovesPlaces == Holders' /\ NothingLost

\* a second instance finds the mark set and does not seed
LEMMA InitTargetSeeds ==
    ASSUME TypeInv, NEW i \in Instance, InitTarget(i)
    PROVE  \A a \in Address : Unseeded(a)' <=> Unseeded(a)
<1>1. CASE Initialised
  <2>1. /\ initKey' = initKey
        /\ \A j \in Instance : phase'[j] = "seeding" <=> phase[j] = "seeding"
        /\ \A j \in Instance : phase[j] = "seeding" => nextSeed'[j] = nextSeed[j]
    BY <1>1 DEF InitTarget, Initialised, TypeInv, TypeOK
  <2> QED
    BY <2>1 DEF Unseeded, Initialised
<1>2. CASE ~Initialised
  <2>1. phase'[i] = "seeding" /\ nextSeed'[i] = 1
    BY <1>2 DEF InitTarget, TypeInv, TypeOK
  <2>2. \A a \in Address : \E n \in 1 .. Len(IpList) : IpList[n] = a
    BY IpListAssumption, LenProperties
  <2> QED
    BY <1>2, <2>1, <2>2 DEF Unseeded
<1> QED
  BY <1>1, <1>2

\* InitTarget: a second instance finds the mark set and does not seed
LEMMA InitTargetPlaces ==
    ASSUME HolderInv, NEW i \in Instance, InitTarget(i) PROVE MovesPlaces
<1>1. UNCHANGED <<pool, quarantine, pc, ip, cooldown, claimed, releasing>>
  BY DEF InitTarget, callerVars, sweepVars
<1>2. \A a \in Address : Unseeded(a)' <=> Unseeded(a)
  BY InitTargetSeeds DEF HolderInv
<1>3. SeededOnce'
  BY DEF InitTarget, HolderInv, SeededOnce, Initialised, TypeInv, TypeOK
<1>4. ReleasesClaimed'
  BY <1>1 DEF HolderInv, ReleasesClaimed
<1>5. OneHolder' /\ NothingLost
  BY <1>1, <1>2, PoolFrame, CallerFrame, CooldownFrame, QuarantineFrame, ClaimFrame
     DEF HolderInv, OneHolder, NoDuplicates, OnePlace, NothingLost, Lost, Carried
<1> QED
  BY <1>3, <1>4, <1>5 DEF MovesPlaces, Holders

\* the pushed address leaves the rest of the list, and is in it once
LEMMA SeedTakes ==
    ASSUME TypeInv, SeededOnce, NEW i \in Instance, Seed(i)
    PROVE  /\ IpList[nextSeed[i]] \in Address
           /\ Unseeded(IpList[nextSeed[i]])
           /\ \A b \in Address : Unseeded(b)' <=> Unseeded(b) /\ b # IpList[nextSeed[i]]
<1> DEFINE k == nextSeed[i]
           a == IpList[k]
<1>1. UNCHANGED initKey
  BY DEF Seed
<1>2. /\ DOMAIN IpList = 1 .. Len(IpList)
      /\ Len(IpList) \in Nat
      /\ k \in 1 .. Len(IpList)
      /\ a \in Address
  BY IpListAssumption, LenProperties DEF TypeInv, TypeOK
<1>3. \A j \in Instance : phase[j] = "seeding" <=> j = i
  BY DEF Seed, SeededOnce
<1>4. \A b \in Address : Unseeded(b) <=> \E n \in k .. Len(IpList) : IpList[n] = b
  BY <1>3 DEF Unseeded, SeededOnce
<1>5. \A b \in Address : Unseeded(b)' <=> Unseeded(b) /\ b # a
  <2>1. Initialised'
    BY <1>1, <1>3 DEF SeededOnce, Initialised
  <2>2. \A b \in Address : Unseeded(b) /\ b # a <=>
                           \E n \in k + 1 .. Len(IpList) : IpList[n] = b
    <3>1. ASSUME NEW b \in Address, Unseeded(b), b # a
          PROVE  \E n \in k + 1 .. Len(IpList) : IpList[n] = b
      <4>1. PICK n \in k .. Len(IpList) : IpList[n] = b
        BY <1>4, <3>1
      <4>2. n \in k + 1 .. Len(IpList)
        BY <1>2, <3>1, <4>1
      <4> QED
        BY <4>1, <4>2
    <3>2. ASSUME NEW n \in k + 1 .. Len(IpList)
          PROVE  n \in k .. Len(IpList) /\ IpList[n] # a
      <4>1. n \in 1 .. Len(IpList) /\ n # k
        BY <1>2
      <4> QED
        BY <1>2, <4>1, IpListAssumption
    <3> QED
      BY <1>4, <3>1, <3>2
  <2>3. CASE k = Len(IpList)
    <3>1. \A j \in Instance : phase'[j] # "seeding"
      BY <1>3, <2>3 DEF Seed, TypeInv, TypeOK
    <3> QED
      BY <1>2, <2>1, <2>2, <2>3, <3>1 DEF Unseeded
  <2>4. CASE k # Len(IpList)
    <3>1. /\ \A j \in Instance : phase'[j] = "seeding" <=> j = i
          /\ nextSeed'[i] = k + 1
      BY <1>3, <2>4 DEF Seed, TypeInv, TypeOK
    <3> QED
      BY <2>1, <2>2, <3>1 DEF Unseeded
  <2> QED
    BY <2>3, <2>4
<1>6. Unseeded(a)
  BY <1>2, <1>4
<1> QED
  BY <1>2, <1>5, <1>6

\* Seed: the pushed address moves from the rest of the list into the queue
LEMMA SeedPlaces ==
    ASSUME HolderInv, NEW i \in Instance, Seed(i) PROVE MovesPlaces
<1> DEFINE k == nextSeed[i]
           a == IpList[k]
<1> USE DEF HolderInv
<1>1. UNCHANGED <<initKey, quarantine, pc, ip, cooldown, claimed, releasing>>
  BY DEF Seed, callerVars, sweepVars
<1>2. /\ a \in Address
      /\ Unseeded(a)
      /\ \A b \in Address : Unseeded(b)' <=> Unseeded(b) /\ b # a
  BY SeedTakes
<1>3. PushIp(a) /\ ~InPool(a)
  BY <1>2 DEF Seed, OneHolder, OnePlace
<1>4. /\ \A m, n \in DOMAIN pool' : pool'[m] = pool'[n] => m = n
      /\ \A b \in Address : InPool(b)' <=> InPool(b) \/ b = a
  BY <1>2, <1>3, PushPlaces DEF TypeInv, TypeOK, BackendTypeOK, OneHolder, NoDuplicates
<1>5. SeededOnce'
  BY DEF Seed, SeededOnce, Initialised, TypeInv, TypeOK
<1>6. ReleasesClaimed'
  BY <1>1 DEF ReleasesClaimed
<1>7. OneHolder' /\ NothingLost
  BY <1>1, <1>2, <1>3, <1>4, CallerFrame, CooldownFrame, QuarantineFrame, ClaimFrame
     DEF OneHolder, NoDuplicates, OnePlace, NothingLost, Lost, Carried
<1> QED
  BY <1>5, <1>6, <1>7 DEF MovesPlaces, Holders

\* Pop: from the queue to the caller
LEMMA PopPlacesInv ==
    ASSUME HolderInv, NEW c \in Caller, Pop(c) PROVE MovesPlaces
<1> USE DEF HolderInv
<1>1. UNCHANGED <<initKey, phase, nextSeed, quarantine, cooldown, claimed, releasing>>
  BY DEF Pop, instanceVars, sweepVars
<1>2. PICK a \in Address : PopIp(a) /\ ip' = [ip EXCEPT ![c] = a]
  BY DEF Pop
<1>3. /\ \A m, n \in DOMAIN pool' : pool'[m] = pool'[n] => m = n
      /\ InPool(a)
      /\ \A b \in Address : InPool(b)' <=> InPool(b) /\ b # a
  BY <1>2, PopPlaces DEF TypeInv, TypeOK, BackendTypeOK, OneHolder, NoDuplicates
<1>4. \A d \in Caller, b \in Address : Holds(d, b)' <=> Holds(d, b) \/ (d = c /\ b = a)
  BY <1>2 DEF Pop, Holds, TypeInv, TypeOK, CallerState
<1>5. \A b \in Address : Leased(b)' <=> Leased(b) \/ b = a
  BY <1>4 DEF Leased
<1>6. SeededOnce' /\ ReleasesClaimed'
  BY <1>1 DEF SeededOnce, ReleasesClaimed, Initialised
<1>7. OneHolder' /\ NothingLost
  BY <1>1, <1>3, <1>4, <1>5, SeedFrame, CooldownFrame, QuarantineFrame, ClaimFrame
     DEF OneHolder, NoDuplicates, OnePlace, NothingLost, Lost, Carried, Leased
<1> QED
  BY <1>6, <1>7 DEF MovesPlaces, Holders

\* waiting callers hold nothing, so starting or giving up a wait moves nothing
LEMMA WaitPlaces ==
    ASSUME HolderInv, NEW c \in Caller, Acquire(c) \/ AcquireTimeout(c) PROVE MovesPlaces
<1> USE DEF HolderInv
<1>1. UNCHANGED <<initKey, pool, phase, nextSeed, quarantine, cooldown, claimed, releasing>>
  BY DEF Acquire, AcquireTimeout, backendVars, instanceVars, sweepVars
<1>2. \A d \in Caller, b \in Address : Holds(d, b)' <=> Holds(d, b)
  BY DEF Acquire, AcquireTimeout, Holds, TypeInv, TypeOK, CallerState
<1>3. \A b \in Address : Leased(b)' <=> Leased(b)
  BY <1>2 DEF Leased
<1>4. SeededOnce' /\ ReleasesClaimed'
  BY <1>1 DEF SeededOnce, ReleasesClaimed, Initialised
<1>5. OneHolder' /\ NothingLost
  BY <1>1, <1>2, <1>3, PoolFrame, SeedFrame, CooldownFrame, QuarantineFrame, ClaimFrame
     DEF OneHolder, NoDuplicates, OnePlace, NothingLost, Lost, Carried
<1> QED
  BY <1>4, <1>5 DEF MovesPlaces, Holders

\* counting the outcome leaves the address with its holder
LEMMA RecordPlaces ==
    ASSUME HolderInv, NEW c \in Caller, RecordSuccess(c) \/ RecordFailure(c) PROVE MovesPlaces
<1> USE DEF HolderInv
<1>1. UNCHANGED <<initKey, pool, phase, nextSeed, quarantine, cooldown, claimed, releasing>>
  BY DEF RecordSuccess, RecordFailure, instanceVars, sweepVars
<1>2. \A d \in Caller, b \in Address : Holds(d, b)' <=> Holds(d, b)
  BY DEF RecordSuccess, RecordFailure, Holds, TypeInv, TypeOK, CallerState
<1>3. \A b \in Address : Leased(b)' <=> Leased(b)
  BY <1>2 DEF Leased
<1>4. SeededOnce' /\ ReleasesClaimed'
  BY <1>1 DEF SeededOnce, ReleasesClaimed, Initialised
<1>5. OneHolder' /\ NothingLost
  BY <1>1, <1>2, <1>3, PoolFrame, SeedFrame, CooldownFrame, QuarantineFrame, ClaimFrame
     DEF OneHolder, NoDuplicates, OnePlace, NothingLost, Lost, Carried
<1> QED
  BY <1>4, <1>5 DEF MovesPlaces, Holders

\* a caller that lets go of its address no longer holds any
LEMMA LetGo ==
    ASSUME HolderInv, NEW c \in Caller, pc[c] \in {"succeeded", "failed"},
           pc' = [pc EXCEPT ![c] = "idle"], ip' = [ip EXCEPT ![c] = None]
    PROVE  /\ ip[c] \in Address
           /\ Leased(ip[c])
           /\ \A d \in Caller, b \in Address : Holds(d, b)' <=> Holds(d, b) /\ b # ip[c]
           /\ \A b \in Address : Leased(b)' <=> Leased(b) /\ b # ip[c]
<1> USE DEF HolderInv
<1>1. ip[c] \in Address /\ Holds(c, ip[c])
  BY DEF TypeInv, HasAddress, Holds
<1>2. \A d \in Caller : Holds(d, ip[c]) => d = c
  BY <1>1 DEF OneHolder, NoDuplicates
<1>3. \A d \in Caller, b \in Address : Holds(d, b)' <=> Holds(d, b) /\ b # ip[c]
  BY <1>1, <1>2 DEF Holds, TypeInv, TypeOK, CallerState
<1> QED
  BY <1>1, <1>3 DEF Leased

\* ReturnLater: from the caller to a cooldown task
LEMMA RestPlaces ==
    ASSUME HolderInv, NEW c \in Caller, RestAfterSuccess(c) \/ RestAfterFailure(c)
    PROVE  MovesPlaces
<1> DEFINE a == ip[c]
           h == Home[c]
<1> USE DEF HolderInv
<1>1. UNCHANGED <<initKey, pool, phase, nextSeed, quarantine, claimed, releasing>>
  BY DEF RestAfterSuccess, RestAfterFailure, backendVars, instanceVars, sweepVars
<1>2. ReturnLater(c) /\ pc[c] \in {"succeeded", "failed"}
  BY DEF RestAfterSuccess, RestAfterFailure
<1>3. /\ a \in Address
      /\ Leased(a)
      /\ \A d \in Caller, b \in Address : Holds(d, b)' <=> Holds(d, b) /\ b # a
      /\ \A b \in Address : Leased(b)' <=> Leased(b) /\ b # a
  BY <1>2, LetGo DEF ReturnLater
<1>4. h \in Instance
  BY HomeAssumption
<1>5. \A j \in Instance, b \in Address :
         Cooling(j, b)' <=> Cooling(j, b) \/ (j = h /\ b = a)
  BY <1>2, <1>3, <1>4, PolicyAssumption DEF ReturnLater, Cooling, TypeInv, TypeOK, NoTask
<1>6. \A b \in Address : Resting(b)' <=> Resting(b) \/ b = a
  BY <1>4, <1>5 DEF Resting
<1>7. SeededOnce' /\ ReleasesClaimed'
  BY <1>1 DEF SeededOnce, ReleasesClaimed, Initialised
<1>8. OneHolder' /\ NothingLost
  BY <1>1, <1>3, <1>5, <1>6, PoolFrame, SeedFrame, QuarantineFrame, ClaimFrame
     DEF OneHolder, NoDuplicates, OnePlace, NothingLost, Lost, Carried, Resting
<1> QED
  BY <1>7, <1>8 DEF MovesPlaces, Holders

\* QuarantineIp: from the caller to the quarantine list
LEMMA QuarantinePlaces ==
    ASSUME HolderInv, NEW c \in Caller, QuarantineIp(c) PROVE MovesPlaces
<1> DEFINE a == ip[c]
<1> USE DEF HolderInv
<1>1. UNCHANGED <<initKey, pool, phase, nextSeed, cooldown, claimed, releasing>>
  BY DEF QuarantineIp, instanceVars, sweepVars
<1>2. /\ a \in Address
      /\ Leased(a)
      /\ \A d \in Caller, b \in Address : Holds(d, b)' <=> Holds(d, b) /\ b # a
      /\ \A b \in Address : Leased(b)' <=> Leased(b) /\ b # a
  BY LetGo DEF QuarantineIp
<1>3. \A b \in Address : Listed(b)' <=> Listed(b) \/ b = a
  BY <1>2, PolicyAssumption
     DEF QuarantineIp, QuarantineAdd, Listed, NoEntry, TypeInv, TypeOK, BackendTypeOK
<1>4. SeededOnce' /\ ReleasesClaimed'
  BY <1>1 DEF SeededOnce, ReleasesClaimed, Initialised
<1>5. OneHolder' /\ NothingLost
  BY <1>1, <1>2, <1>3, PoolFrame, SeedFrame, CooldownFrame, ClaimFrame
     DEF OneHolder, NoDuplicates, OnePlace, NothingLost, Lost, Carried
<1> QED
  BY <1>4, <1>5 DEF MovesPlaces, Holders

\* ReturnAfterCooldown: from a cooldown task to the queue
LEMMA ReturnPlaces ==
    ASSUME HolderInv, NEW i \in Instance, NEW a \in Address, ReturnAfterCooldown(i, a)
    PROVE  MovesPlaces
<1> USE DEF HolderInv
<1>1. UNCHANGED <<initKey, phase, nextSeed, quarantine, pc, ip, claimed, releasing>>
  BY DEF ReturnAfterCooldown, instanceVars, callerVars, sweepVars
<1>2. Cooling(i, a) /\ Resting(a)
  BY DEF ReturnAfterCooldown, Cooling, Resting, NoTask
<1>3. \A j \in Instance, b \in Address : Cooling(j, b)' <=> Cooling(j, b) /\ b # a
  <2>1. \A j \in Instance : Cooling(j, a) => j = i
    BY <1>2 DEF OneHolder, NoDuplicates
  <2> QED
    BY <2>1 DEF ReturnAfterCooldown, Cooling, TypeInv, TypeOK, NoTask
<1>4. \A b \in Address : Resting(b)' <=> Resting(b) /\ b # a
  BY <1>3 DEF Resting
<1>5. /\ \A m, n \in DOMAIN pool' : pool'[m] = pool'[n] => m = n
      /\ \A b \in Address : InPool(b)' <=> InPool(b) \/ b = a
  BY <1>2, PushPlaces DEF ReturnAfterCooldown, TypeInv, TypeOK, BackendTypeOK,
                          OneHolder, NoDuplicates, OnePlace
<1>6. SeededOnce' /\ ReleasesClaimed'
  BY <1>1 DEF SeededOnce, ReleasesClaimed, Initialised
<1>7. OneHolder' /\ NothingLost
  BY <1>1, <1>2, <1>3, <1>4, <1>5, CallerFrame, SeedFrame, QuarantineFrame, ClaimFrame
     DEF OneHolder, NoDuplicates, OnePlace, NothingLost, Lost, Carried
<1> QED
  BY <1>6, <1>7 DEF MovesPlaces, Holders

\* SweepClaim: what is due moves from the list to the one instance that took it
LEMMA SweepClaimPlaces ==
    ASSUME HolderInv, NEW i \in Instance, SweepClaim(i) PROVE MovesPlaces
<1> USE DEF HolderInv
<1>1. UNCHANGED <<initKey, pool, phase, nextSeed, cooldown, pc, ip, releasing>>
  BY DEF SweepClaim, instanceVars, callerVars
<1>2. PICK claim \in SUBSET Address :
         /\ claim = Expired
         /\ QuarantineRemove(claim)
         /\ claimed' = [claimed EXCEPT ![i] = claim]
  BY DEF SweepClaim, QuarantinePopExpired
<1>3. \A b \in claim : Listed(b)
  BY <1>2 DEF Expired, Listed, NoEntry
<1>4. \A b \in Address : Listed(b)' <=> Listed(b) /\ b \notin claim
  BY <1>2 DEF QuarantineRemove, Listed
<1>5. claimed[i] = {}
  BY DEF SweepClaim
<1>6. \A j \in Instance, b \in Address :
         b \in claimed'[j] <=> b \in claimed[j] \/ (j = i /\ b \in claim)
  BY <1>2, <1>5 DEF TypeInv, TypeOK
<1>7. \A b \in Address : Claimed(b)' <=> Claimed(b) \/ b \in claim
  BY <1>6 DEF Claimed
<1>8. SeededOnce'
  BY <1>1 DEF SeededOnce, Initialised
<1>9. ReleasesClaimed'
  BY <1>1, <1>2, <1>5 DEF ReleasesClaimed, TypeInv, TypeOK
<1>10. OneHolder' /\ NothingLost
  BY <1>1, <1>3, <1>4, <1>6, <1>7, PoolFrame, CallerFrame, SeedFrame, CooldownFrame
     DEF OneHolder, NoDuplicates, OnePlace, NothingLost, Lost, Carried, Claimed
<1> QED
  BY <1>8, <1>9, <1>10 DEF MovesPlaces, Holders

LEMMA SweepResetPlaces ==
    ASSUME HolderInv, NEW i \in Instance, NEW a \in Address, SweepReset(i, a)
    PROVE  MovesPlaces
<1> USE DEF HolderInv
<1>1. UNCHANGED <<initKey, pool, phase, nextSeed, quarantine, cooldown, pc, ip, claimed>>
  BY DEF SweepReset, instanceVars, callerVars
<1>2. SeededOnce'
  BY <1>1 DEF SeededOnce, Initialised
<1>3. ReleasesClaimed'
  BY <1>1 DEF SweepReset, ReleasesClaimed, TypeInv, TypeOK
<1>4. OneHolder' /\ NothingLost
  BY <1>1, PoolFrame, CallerFrame, SeedFrame, CooldownFrame, QuarantineFrame, ClaimFrame
     DEF OneHolder, NoDuplicates, OnePlace, NothingLost, Lost, Carried
<1> QED
  BY <1>2, <1>3, <1>4 DEF MovesPlaces, Holders

\* SweepPush: from the sweep to the queue
LEMMA SweepPushPlaces ==
    ASSUME HolderInv, NEW i \in Instance, SweepPush(i) PROVE MovesPlaces
<1> DEFINE a == releasing[i]
<1> USE DEF HolderInv
<1>1. UNCHANGED <<initKey, phase, nextSeed, quarantine, cooldown, pc, ip>>
  BY DEF SweepPush, instanceVars, callerVars
<1>2. a \in claimed[i] /\ a \in Address
  BY DEF SweepPush, ReleasesClaimed, TypeInv, TypeOK
<1>3. Claimed(a)
  BY <1>2 DEF Claimed
<1>4. \A j \in Instance, b \in Address : b \in claimed'[j] <=> b \in claimed[j] /\ b # a
  <2>1. \A j \in Instance : a \in claimed[j] => j = i
    BY <1>2 DEF OneHolder, NoDuplicates
  <2> QED
    BY <2>1 DEF SweepPush, TypeInv, TypeOK
<1>5. \A b \in Address : Claimed(b)' <=> Claimed(b) /\ b # a
  BY <1>4 DEF Claimed
<1>6. /\ \A m, n \in DOMAIN pool' : pool'[m] = pool'[n] => m = n
      /\ \A b \in Address : InPool(b)' <=> InPool(b) \/ b = a
  BY <1>2, <1>3, PushPlaces DEF SweepPush, TypeInv, TypeOK, BackendTypeOK,
                                OneHolder, NoDuplicates, OnePlace
<1>7. SeededOnce'
  BY <1>1 DEF SeededOnce, Initialised
<1>8. ReleasesClaimed'
  <2> SUFFICES ASSUME NEW j \in Instance, releasing'[j] # None
               PROVE  releasing'[j] \in claimed'[j]
    BY DEF ReleasesClaimed
  <2>1. j # i /\ releasing'[j] = releasing[j] /\ claimed'[j] = claimed[j]
    BY DEF SweepPush, TypeInv, TypeOK
  <2> QED
    BY <2>1 DEF ReleasesClaimed
<1>9. OneHolder' /\ NothingLost
  BY <1>1, <1>2, <1>3, <1>4, <1>5, <1>6, CallerFrame, SeedFrame, CooldownFrame, QuarantineFrame
     DEF OneHolder, NoDuplicates, OnePlace, NothingLost, Lost, Carried
<1> QED
  BY <1>7, <1>8, <1>9 DEF MovesPlaces, Holders

\* time neither creates nor ends a cooldown task or a quarantine entry
LEMMA TickPlaces == ASSUME HolderInv, Tick PROVE MovesPlaces
<1> USE DEF HolderInv
<1>1. UNCHANGED <<initKey, pool, phase, nextSeed, pc, ip, claimed, releasing>>
  BY DEF Tick, instanceVars, callerVars, sweepVars
<1>2. \A j \in Instance, b \in Address : Cooling(j, b)' <=> Cooling(j, b)
  BY DEF Tick, Elapse, Elapsed, Cooling, NoTask, TypeInv, TypeOK
<1>3. \A b \in Address : Resting(b)' <=> Resting(b)
  BY <1>2 DEF Resting
<1>4. \A b \in Address : Listed(b)' <=> Listed(b)
  BY DEF Tick, Elapse, QuarantineElapses, Elapsed, Listed, NoEntry,
         TypeInv, TypeOK, BackendTypeOK
<1>5. SeededOnce' /\ ReleasesClaimed'
  BY <1>1 DEF SeededOnce, ReleasesClaimed, Initialised
<1>6. OneHolder' /\ NothingLost
  BY <1>1, <1>2, <1>3, <1>4, PoolFrame, CallerFrame, SeedFrame, ClaimFrame
     DEF OneHolder, NoDuplicates, OnePlace, NothingLost, Lost, Carried
<1> QED
  BY <1>5, <1>6 DEF MovesPlaces, Holders

LEMMA StutterPlaces == ASSUME HolderInv, UNCHANGED vars PROVE MovesPlaces
<1> USE DEF HolderInv
<1>1. UNCHANGED <<initKey, pool, phase, nextSeed, quarantine, cooldown, pc, ip,
                  claimed, releasing>>
  BY DEF vars, backendVars, instanceVars, callerVars, sweepVars
<1>2. SeededOnce' /\ ReleasesClaimed'
  BY <1>1 DEF SeededOnce, ReleasesClaimed, Initialised
<1>3. OneHolder' /\ NothingLost
  BY <1>1, PoolFrame, CallerFrame, SeedFrame, CooldownFrame, QuarantineFrame, ClaimFrame
     DEF OneHolder, NoDuplicates, OnePlace, NothingLost, Lost, Carried
<1> QED
  BY <1>2, <1>3 DEF MovesPlaces, Holders

LEMMA InitPlaceInv == Init => PlaceInv
<1> SUFFICES ASSUME Init PROVE PlaceInv
  OBVIOUS
<1>1. TypeInv
  BY InitTypeOK DEF TypeInv, HasAddress, Init
<1>2. \A a \in Address : Unseeded(a)
  BY DEF Init, BackendInit, Unseeded, Initialised
<1>3. DOMAIN pool = {}
  BY EmptySeq, LenProperties DEF Init, BackendInit
<1>4. \A a \in Address : ~(InPool(a) \/ Leased(a) \/ Resting(a) \/ Listed(a) \/ Claimed(a))
  BY <1>3 DEF Init, BackendInit, InPool, Leased, Holds, Resting, Cooling, Listed, Claimed
<1>5. SeededOnce /\ ReleasesClaimed
  BY DEF Init, SeededOnce, ReleasesClaimed
<1>6. NoDuplicates
  BY <1>3 DEF Init, NoDuplicates, Holds, Cooling
<1> QED
  BY <1>1, <1>2, <1>4, <1>5, <1>6 DEF PlaceInv, HolderInv, OneHolder, OnePlace, NoneLost

LEMMA NextHolderInv == HolderInv /\ [Next]_vars => HolderInv' /\ NothingLost
<1> SUFFICES ASSUME HolderInv, [Next]_vars PROVE HolderInv' /\ NothingLost
  OBVIOUS
<1>1. TypeInv'
  BY NextTypeOK, NextHasAddress DEF HolderInv, TypeInv
<1>2. ASSUME NEW i \in Instance, InstanceStep(i) PROVE MovesPlaces
  BY <1>2, InitTargetPlaces, SeedPlaces, SweepClaimPlaces, SweepPushPlaces,
     ReturnPlaces, SweepResetPlaces DEF InstanceStep
<1>3. ASSUME NEW c \in Caller, CallerStep(c) PROVE MovesPlaces
  BY <1>3, WaitPlaces, PopPlacesInv, RecordPlaces, RestPlaces, QuarantinePlaces
     DEF CallerStep
<1>4. MovesPlaces
  BY <1>2, <1>3, TickPlaces, StutterPlaces DEF Next
<1> QED
  BY <1>1, <1>4 DEF HolderInv, MovesPlaces, Holders

LEMMA NextPlaceInv == PlaceInv /\ [Next]_vars => PlaceInv'
<1>1. (NoneLost <=> \A a \in Address : ~Lost(a)) /\ (NoneLost' <=> \A a \in Address : ~Lost(a)')
  BY DEF NoneLost, Lost, Carried
<1> QED
  BY <1>1, NextHolderInv DEF PlaceInv, NothingLost

LEMMA PlaceInvariant == Spec => []PlaceInv
  BY InitPlaceInv, NextPlaceInv, PTL DEF Spec

(* However many instances share the storage and however their calls         *)
(* interleave, an address is never in two places: the claim of the Redis    *)
(* backend that each proxy is issued to one request at a time, as long as   *)
(* the init mark stays and no instance dies.                                *)
THEOREM OneHolderAlways == Spec => []OneHolder
<1>1. PlaceInv => OneHolder
  BY DEF PlaceInv, HolderInv
<1> QED
  BY <1>1, PlaceInvariant, PTL

(* ... and none falls out of the rotation.                                  *)
THEOREM NoneLostAlways == Spec => []NoneLost
<1>1. PlaceInv => NoneLost
  BY DEF PlaceInv
<1> QED
  BY <1>1, PlaceInvariant, PTL

----------------------------------------------------------------------------
(***************************************************************************)
(* What the pool counts and times: the failure counter and the hold-off    *)
(* after each use.  Both rest on every address being in one place, since   *)
(* each place promises something else of it.                               *)
(***************************************************************************)

(* What the counter is in each place.  A caller that has counted a failure  *)
(* remembers the number it was given, and nobody else changes it meanwhile. *)
StrikesAt(a) ==
    /\ Unseeded(a) => failures[a] = 0
    /\ InPool(a) \/ Resting(a) => failures[a] < IpFailuresUntilQuarantine
    /\ Listed(a) => failures[a] = IpFailuresUntilQuarantine
    /\ \A c \in Caller :
          ip[c] = a =>
             /\ pc[c] = "holding" => failures[a] < IpFailuresUntilQuarantine
             /\ pc[c] = "succeeded" => failures[a] = 0
             /\ pc[c] = "failed" => /\ failures[a] = count[c]
                                    /\ count[c] <= IpFailuresUntilQuarantine
    /\ \A i \in Instance : releasing[i] = a => failures[a] = 0

StrikesInv == \A a \in Address : StrikesAt(a)

LEMMA StrikesInit == Init => StrikesInv
<1> SUFFICES ASSUME Init, NEW a \in Address PROVE StrikesAt(a)
  BY DEF StrikesInv
<1>1. failures[a] = 0
  BY DEF Init, BackendInit
<1>2. ~Listed(a)
  BY DEF Init, BackendInit, Listed
<1>3. \A c \in Caller : pc[c] = "idle"
  BY DEF Init
<1> QED
  BY <1>1, <1>2, <1>3, ThresholdType DEF StrikesAt

\* an address more in the queue, or its head less, with or without a second copy of it
LEMMA PushOnly ==
    ASSUME pool \in Seq(Address), NEW a \in Address, PushIp(a)
    PROVE  \A b \in Address : InPool(b)' <=> InPool(b) \/ b = a
<1>1. /\ DOMAIN pool = 1 .. Len(pool)
      /\ DOMAIN pool' = 1 .. Len(pool) + 1
      /\ Len(pool) \in Nat
      /\ \A n \in 1 .. Len(pool) : pool'[n] = pool[n]
      /\ pool'[Len(pool) + 1] = a
  BY LenProperties, AppendProperties DEF PushIp
<1> QED
  BY <1>1 DEF InPool

LEMMA PopOnly ==
    ASSUME pool \in Seq(Address), NEW a \in Address, PopIp(a)
    PROVE  /\ InPool(a)
           /\ \A b \in Address : InPool(b)' => InPool(b)
           /\ \A b \in Address : InPool(b) /\ b # a => InPool(b)'
<1>1. /\ DOMAIN pool = 1 .. Len(pool)
      /\ Len(pool) \in Nat \ {0}
      /\ DOMAIN pool' = 1 .. Len(pool) - 1
      /\ \A n \in 1 .. Len(pool) - 1 : pool'[n] = pool[n + 1]
      /\ a = pool[1]
  BY LenProperties, EmptySeq, HeadTailProperties DEF PopIp
<1>2. ASSUME NEW b \in Address, InPool(b)' PROVE InPool(b)
  <2>1. PICK n \in DOMAIN pool' : pool'[n] = b
    BY <1>2 DEF InPool
  <2>2. n + 1 \in DOMAIN pool /\ pool[n + 1] = b
    BY <1>1, <2>1
  <2> QED
    BY <2>2 DEF InPool
<1>3. ASSUME NEW b \in Address, InPool(b), b # a PROVE InPool(b)'
  <2>1. PICK n \in DOMAIN pool : pool[n] = b
    BY <1>3 DEF InPool
  <2>2. n - 1 \in DOMAIN pool' /\ pool'[n - 1] = b
    BY <1>1, <1>3, <2>1
  <2> QED
    BY <2>2 DEF InPool
<1> QED
  BY <1>1, <1>2, <1>3 DEF InPool

\* nothing is seeded a second time
LEMMA SeedOnly ==
    ASSUME TypeInv, SeededOnce, NEW i \in Instance, InitTarget(i) \/ Seed(i)
    PROVE  \A a \in Address : Unseeded(a)' => Unseeded(a)
BY InitTargetSeeds, SeedTakes

\* the address a caller reports is in no other place and has no other caller
LEMMA ReportedPlace ==
    ASSUME HolderInv, NEW c \in Caller, pc[c] \in {"holding", "succeeded", "failed"}
    PROVE  /\ ip[c] \in Address
           /\ ~(InPool(ip[c]) \/ Resting(ip[c]) \/ Listed(ip[c]) \/ Claimed(ip[c])
                  \/ Unseeded(ip[c]))
           /\ \A i \in Instance : releasing[i] # ip[c]
           /\ \A d \in Caller : ip[d] = ip[c] /\ pc[d] \notin {"idle", "waiting"} => d = c
<1> USE DEF HolderInv
<1>1. ip[c] \in Address /\ Holds(c, ip[c])
  BY DEF TypeInv, HasAddress, Holds
<1>2. ~(InPool(ip[c]) \/ Resting(ip[c]) \/ Listed(ip[c]) \/ Claimed(ip[c]) \/ Unseeded(ip[c]))
  BY <1>1 DEF OneHolder, OnePlace, Leased
<1>3. \A i \in Instance : releasing[i] # ip[c]
  <2>1. None \notin Address
    BY IpListAssumption
  <2> QED
    BY <1>1, <1>2, <2>1 DEF ReleasesClaimed, Claimed
<1>4. \A d \in Caller : ip[d] = ip[c] /\ pc[d] \notin {"idle", "waiting"} => d = c
  <2> SUFFICES ASSUME NEW d \in Caller, ip[d] = ip[c], pc[d] \notin {"idle", "waiting"}
               PROVE  d = c
    OBVIOUS
  <2>1. Holds(d, ip[c])
    BY DEF Holds, TypeInv, TypeOK, CallerState
  <2> QED
    BY <1>1, <2>1 DEF OneHolder, NoDuplicates
<1> QED
  BY <1>1, <1>2, <1>3, <1>4

----------------------------------------------------------------------------
\* an address that enters no place, and whose counter and caller stay, is as before
LEMMA StrikesKept ==
    ASSUME NEW a \in Address, StrikesAt(a),
           failures'[a] = failures[a],
           Unseeded(a)' => Unseeded(a),
           InPool(a)' \/ Resting(a)' => InPool(a) \/ Resting(a),
           Listed(a)' => Listed(a),
           \A c \in Caller : \/ ip'[c] # a
                             \/ pc'[c] \in {"idle", "waiting"}
                             \/ ip'[c] = ip[c] /\ pc'[c] = pc[c] /\ count'[c] = count[c],
           \A i \in Instance : releasing'[i] = a => releasing[i] = a
    PROVE  StrikesAt(a)'
BY DEF StrikesAt

LEMMA StrikesInstance ==
    ASSUME HolderInv, StrikesInv, NEW i \in Instance, InstanceStep(i)
    PROVE  StrikesInv'
<1> SUFFICES ASSUME NEW b \in Address PROVE StrikesAt(b)'
  BY DEF StrikesInv
<1>0. StrikesAt(b) /\ None \notin Address
  BY IpListAssumption DEF StrikesInv
<1> USE DEF HolderInv, instanceVars, callerVars, sweepVars
<1>1. CASE InitTarget(i)
  <2>1. Unseeded(b)' => Unseeded(b)
    BY <1>1, SeedOnly
  <2> QED
    BY <1>0, <1>1, <2>1, StrikesKept, PoolFrame, CooldownFrame, QuarantineFrame DEF InitTarget
<1>2. CASE Seed(i)
  <2> DEFINE a == IpList[nextSeed[i]]
  <2>1. a \in Address /\ Unseeded(a)
    BY <1>2, SeedTakes
  <2>2. Unseeded(b)' => Unseeded(b)
    BY <1>2, SeedOnly
  <2>3. InPool(b)' => InPool(b) \/ b = a
    BY <1>2, <2>1, PushOnly DEF Seed, TypeInv, TypeOK, BackendTypeOK
  <2>4. UNCHANGED <<failures, pc, ip, count, releasing, cooldown, quarantine>>
    BY <1>2 DEF Seed
  <2>5. CASE b # a
    BY <1>0, <2>2, <2>3, <2>4, <2>5, StrikesKept, CooldownFrame, QuarantineFrame
  <2>6. CASE b = a
    BY <1>0, <2>1, <2>2, <2>4, <2>6, ThresholdType, CooldownFrame, QuarantineFrame DEF StrikesAt
  <2> QED
    BY <2>5, <2>6
<1>3. CASE SweepClaim(i)
  <2>1. Listed(b)' => Listed(b)
    BY <1>3 DEF SweepClaim, QuarantinePopExpired, QuarantineRemove, Listed
  <2> QED
    BY <1>0, <1>3, <2>1, StrikesKept, PoolFrame, SeedFrame, CooldownFrame DEF SweepClaim
<1>4. ASSUME NEW a \in Address, SweepReset(i, a) PROVE StrikesAt(b)'
  <2>1. UNCHANGED <<initKey, phase, nextSeed, pool, pc, ip, count, cooldown, quarantine>>
    BY <1>4 DEF SweepReset
  <2>2. releasing' = [releasing EXCEPT ![i] = a] /\ failures' = [failures EXCEPT ![a] = 0]
    BY <1>4 DEF SweepReset, ResetFailures
  <2>3. CASE b # a
    <3>1. failures'[b] = failures[b] /\ \A j \in Instance : releasing'[j] = b => releasing[j] = b
      BY <2>2, <2>3 DEF TypeInv, TypeOK, BackendTypeOK
    <3> QED
      BY <1>0, <2>1, <3>1, StrikesKept, PoolFrame, SeedFrame, CooldownFrame, QuarantineFrame
  <2>4. CASE b = a
    <3>1. failures'[b] = 0
      BY <2>2, <2>4 DEF TypeInv, TypeOK, BackendTypeOK
    <3>2. Claimed(a)
      BY <1>4 DEF SweepReset, Claimed
    <3>3. ~Listed(a) /\ ~Leased(a)
      BY <3>2 DEF OneHolder, OnePlace
    <3>4. \A c \in Caller : ip[c] = a => pc[c] \notin {"holding", "succeeded", "failed"}
      BY <3>3 DEF Leased, Holds
    <3>5. ~Listed(a)'
      BY <2>1, <3>3, QuarantineFrame
    <3> QED
      BY <2>1, <2>4, <3>1, <3>4, <3>5, ThresholdType DEF StrikesAt
  <2> QED
    BY <2>3, <2>4
<1>5. CASE SweepPush(i)
  <2> DEFINE a == releasing[i]
  <2>1. UNCHANGED <<initKey, phase, nextSeed, failures, pc, ip, count, cooldown, quarantine>>
    BY <1>5 DEF SweepPush
  <2>2. a \in Address /\ PushIp(a) /\ releasing' = [releasing EXCEPT ![i] = None]
    BY <1>5 DEF SweepPush, TypeInv, TypeOK
  <2>3. InPool(b)' => InPool(b) \/ b = a
    BY <2>2, PushOnly DEF TypeInv, TypeOK, BackendTypeOK
  <2>4. \A j \in Instance : releasing'[j] = b => releasing[j] = b
    BY <1>0, <2>2 DEF TypeInv, TypeOK
  <2>5. CASE b # a
    BY <1>0, <2>1, <2>3, <2>4, <2>5, StrikesKept, SeedFrame, CooldownFrame, QuarantineFrame
  <2>6. CASE b = a
    <3>1. failures[b] = 0
      BY <1>0, <2>6 DEF StrikesAt
    <3> QED
      BY <1>0, <2>1, <2>4, <3>1, ThresholdType, SeedFrame, CooldownFrame, QuarantineFrame
         DEF StrikesAt
  <2> QED
    BY <2>5, <2>6
<1>6. ASSUME NEW a \in Address, ReturnAfterCooldown(i, a) PROVE StrikesAt(b)'
  <2>1. UNCHANGED <<initKey, phase, nextSeed, failures, pc, ip, count, releasing, quarantine>>
    BY <1>6 DEF ReturnAfterCooldown
  <2>2. Resting(a) /\ (Resting(b)' => Resting(b))
    BY <1>6 DEF ReturnAfterCooldown, Resting, Cooling, NoTask, TypeInv, TypeOK
  <2>3. InPool(b)' => InPool(b) \/ b = a
    BY <1>6, PushOnly DEF ReturnAfterCooldown, TypeInv, TypeOK, BackendTypeOK
  <2> QED
    BY <1>0, <2>1, <2>2, <2>3, StrikesKept, SeedFrame, QuarantineFrame
<1> QED
  BY <1>1, <1>2, <1>3, <1>4, <1>5, <1>6 DEF InstanceStep

LEMMA StrikesCaller ==
    ASSUME HolderInv, StrikesInv, NEW c \in Caller, CallerStep(c)
    PROVE  StrikesInv'
<1> SUFFICES ASSUME NEW b \in Address PROVE StrikesAt(b)'
  BY DEF StrikesInv
<1>0. StrikesAt(b) /\ None \notin Address /\ Home[c] \in Instance
  BY IpListAssumption, HomeAssumption DEF StrikesInv
<1> USE DEF HolderInv, instanceVars, sweepVars
<1>1. CASE Acquire(c) \/ AcquireTimeout(c)
  <2>1. UNCHANGED <<initKey, phase, nextSeed, pool, failures, quarantine, ip, count,
                    cooldown, releasing>>
    BY <1>1 DEF Acquire, AcquireTimeout, backendVars
  <2>2. \A d \in Caller : pc'[d] \in {"idle", "waiting"} \/ pc'[d] = pc[d]
    BY <1>1 DEF Acquire, AcquireTimeout, TypeInv, TypeOK
  <2> QED
    BY <1>0, <2>1, <2>2, StrikesKept, SeedFrame, PoolFrame, CooldownFrame, QuarantineFrame
<1>2. CASE Pop(c)
  <2>1. PICK a \in Address : PopIp(a) /\ ip' = [ip EXCEPT ![c] = a]
    BY <1>2 DEF Pop
  <2>2. /\ UNCHANGED <<initKey, phase, nextSeed, failures, quarantine, count, cooldown, releasing>>
        /\ pc' = [pc EXCEPT ![c] = "holding"]
    BY <1>2 DEF Pop
  <2>3. InPool(a) /\ (InPool(b)' => InPool(b))
    BY <2>1, PopOnly DEF TypeInv, TypeOK, BackendTypeOK
  <2>4. CASE b # a
    <3>1. \A d \in Caller : ip'[d] # b \/ (ip'[d] = ip[d] /\ pc'[d] = pc[d])
      BY <2>1, <2>2, <2>4 DEF TypeInv, TypeOK
    <3> QED
      BY <1>0, <2>2, <2>3, <3>1, StrikesKept, SeedFrame, CooldownFrame, QuarantineFrame
  <2>5. CASE b = a
    <3>1. failures[b] < IpFailuresUntilQuarantine
      BY <1>0, <2>3, <2>5 DEF StrikesAt
    <3>2. \A d \in Caller : (d = c /\ pc'[d] = "holding") \/ (ip'[d] = ip[d] /\ pc'[d] = pc[d])
      BY <2>1, <2>2 DEF TypeInv, TypeOK
    <3> QED
      BY <1>0, <2>2, <2>3, <3>1, <3>2, SeedFrame, CooldownFrame, QuarantineFrame DEF StrikesAt
  <2> QED
    BY <2>4, <2>5
<1>3. CASE RecordSuccess(c) \/ RecordFailure(c)
  <2> DEFINE a == ip[c]
  <2>1. /\ UNCHANGED <<initKey, phase, nextSeed, pool, quarantine, ip, cooldown, releasing>>
        /\ pc[c] = "holding"
    BY <1>3 DEF RecordSuccess, RecordFailure
  <2>2. /\ a \in Address
        /\ ~(InPool(a) \/ Resting(a) \/ Listed(a) \/ Unseeded(a))
        /\ \A i \in Instance : releasing[i] # a
        /\ \A d \in Caller : ip[d] = a /\ pc[d] \notin {"idle", "waiting"} => d = c
    BY <2>1, ReportedPlace
  <2>3. /\ \A d \in Caller : d # c => pc'[d] = pc[d] /\ count'[d] = count[d]
        /\ b # a => failures'[b] = failures[b]
    BY <1>3, <2>2 DEF RecordSuccess, RecordFailure, ResetFailures, IncrementFailures,
                      TypeInv, TypeOK, BackendTypeOK
  <2>4. CASE b # a
    BY <1>0, <2>1, <2>3, <2>4, StrikesKept, SeedFrame, PoolFrame, CooldownFrame, QuarantineFrame
  <2>5. CASE b = a
    <3>1. ~(InPool(b) \/ Resting(b) \/ Listed(b) \/ Unseeded(b))'
      BY <2>1, <2>2, <2>5, SeedFrame, PoolFrame, CooldownFrame, QuarantineFrame
    <3>2. \/ pc'[c] = "succeeded" /\ failures'[b] = 0
          \/ /\ pc'[c] = "failed"
             /\ failures'[b] = count'[c]
             /\ count'[c] <= IpFailuresUntilQuarantine
      <4>1. CASE RecordSuccess(c)
        BY <2>2, <2>5, <4>1 DEF RecordSuccess, ResetFailures, TypeInv, TypeOK, BackendTypeOK
      <4>2. CASE RecordFailure(c)
        <5>1. failures[b] < IpFailuresUntilQuarantine /\ failures[b] \in Nat
          BY <1>0, <2>1, <2>2, <2>5 DEF StrikesAt, TypeInv, TypeOK, BackendTypeOK
        <5>2. failures'[b] = failures[b] + 1
          BY <2>2, <2>5, <4>2 DEF RecordFailure, IncrementFailures, TypeInv, TypeOK, BackendTypeOK
        <5>3. pc'[c] = "failed" /\ count'[c] = failures'[b]
          BY <2>5, <4>2 DEF RecordFailure, TypeInv, TypeOK
        <5> QED
          BY <5>1, <5>2, <5>3, ThresholdType
      <4> QED
        BY <1>3, <4>1, <4>2
    <3>3. \A d \in Caller : d # c /\ ip'[d] = b => pc'[d] \in {"idle", "waiting"}
      BY <2>1, <2>2, <2>3, <2>5
    <3>4. \A i \in Instance : releasing'[i] # b
      BY <2>1, <2>2, <2>5
    <3> QED
      BY <3>1, <3>2, <3>3, <3>4 DEF StrikesAt
  <2> QED
    BY <2>4, <2>5
<1>4. CASE RestAfterSuccess(c) \/ RestAfterFailure(c)
  <2> DEFINE a == ip[c]
  <2>1. /\ UNCHANGED <<initKey, phase, nextSeed, pool, failures, quarantine, releasing>>
        /\ pc[c] \in {"succeeded", "failed"}
        /\ pc[c] = "failed" => count[c] < IpFailuresUntilQuarantine
    BY <1>4 DEF RestAfterSuccess, RestAfterFailure, backendVars
  <2>2. a \in Address
    BY <2>1, ReportedPlace
  <2>3. \A d \in Caller : \/ pc'[d] = "idle"
                          \/ ip'[d] = ip[d] /\ pc'[d] = pc[d] /\ count'[d] = count[d]
    BY <1>4 DEF RestAfterSuccess, RestAfterFailure, ReturnLater, TypeInv, TypeOK
  <2>4. Resting(b)' => Resting(b) \/ b = a
    <3>1. cooldown' = [cooldown EXCEPT ![Home[c]][a] = MinRequestInterval]
      BY <1>4 DEF RestAfterSuccess, RestAfterFailure, ReturnLater
    <3>2. \A i \in Instance : Cooling(i, b)' => Cooling(i, b) \/ b = a
      BY <1>0, <2>2, <3>1 DEF Cooling, TypeInv, TypeOK
    <3> QED
      BY <3>2 DEF Resting
  <2>5. b = a => failures[b] < IpFailuresUntilQuarantine
    BY <1>0, <2>1, ThresholdType DEF StrikesAt
  <2>6. CASE b # a
    BY <1>0, <2>1, <2>3, <2>4, <2>6, StrikesKept, SeedFrame, PoolFrame, QuarantineFrame
  <2>7. CASE b = a
    BY <1>0, <2>1, <2>3, <2>5, <2>7, SeedFrame, PoolFrame, QuarantineFrame DEF StrikesAt
  <2> QED
    BY <2>6, <2>7
<1>5. CASE QuarantineIp(c)
  <2> DEFINE a == ip[c]
  <2>1. /\ UNCHANGED <<initKey, phase, nextSeed, pool, failures, cooldown, releasing>>
        /\ pc[c] = "failed"
        /\ count[c] >= IpFailuresUntilQuarantine
    BY <1>5 DEF QuarantineIp
  <2>2. a \in Address
    BY <2>1, ReportedPlace
  <2>3. \A d \in Caller : \/ pc'[d] = "idle"
                          \/ ip'[d] = ip[d] /\ pc'[d] = pc[d] /\ count'[d] = count[d]
    BY <1>5 DEF QuarantineIp, TypeInv, TypeOK
  <2>4. Listed(b)' => Listed(b) \/ b = a
    BY <1>5, <2>2 DEF QuarantineIp, QuarantineAdd, Listed, TypeInv, TypeOK, BackendTypeOK
  <2>5. b = a => failures[b] = IpFailuresUntilQuarantine
    <3>1. count[c] \in Nat
      BY DEF TypeInv, TypeOK
    <3>2. b = a => failures[b] = count[c] /\ count[c] <= IpFailuresUntilQuarantine
      BY <1>0, <2>1 DEF StrikesAt
    <3> QED
      BY <2>1, <3>1, <3>2, ThresholdType
  <2>6. CASE b # a
    BY <1>0, <2>1, <2>3, <2>4, <2>6, StrikesKept, SeedFrame, PoolFrame, CooldownFrame
  <2>7. CASE b = a
    BY <1>0, <2>1, <2>3, <2>5, <2>7, SeedFrame, PoolFrame, CooldownFrame DEF StrikesAt
  <2> QED
    BY <2>6, <2>7
<1> QED
  BY <1>1, <1>2, <1>3, <1>4, <1>5 DEF CallerStep

LEMMA StrikesTick == ASSUME HolderInv, StrikesInv, Tick \/ UNCHANGED vars PROVE StrikesInv'
<1> SUFFICES ASSUME NEW b \in Address PROVE StrikesAt(b)'
  BY DEF StrikesInv
<1>1. UNCHANGED <<initKey, phase, nextSeed, pool, failures, pc, ip, count, releasing>>
  BY DEF Tick, vars, backendVars, instanceVars, callerVars, sweepVars
<1>2. Resting(b)' => Resting(b)
  BY DEF Tick, Elapse, Elapsed, vars, Resting, Cooling, NoTask, HolderInv, TypeInv, TypeOK
<1>3. Listed(b)' => Listed(b)
  BY DEF Tick, Elapse, QuarantineElapses, Elapsed, vars, backendVars, Listed, NoEntry,
         HolderInv, TypeInv, TypeOK, BackendTypeOK
<1> QED
  BY <1>1, <1>2, <1>3, StrikesKept, SeedFrame, PoolFrame DEF StrikesInv

LEMMA StrikesInvariant == Spec => [](PlaceInv /\ StrikesInv)
<1>1. PlaceInv /\ StrikesInv /\ [Next]_vars => StrikesInv'
  BY StrikesInstance, StrikesCaller, StrikesTick DEF PlaceInv, Next
<1> QED
  BY <1>1, StrikesInit, PlaceInvariant, PTL DEF Spec

(* The failure counter agrees with the place of the address whatever the    *)
(* threshold and however the reports of different callers and the resets of *)
(* the sweeps interleave, although reading and acting on the counter are    *)
(* two calls.                                                               *)
THEOREM StrikesAgreeAlways == Spec => []StrikesAgree
<1>1. StrikesInv => StrikesAgree
  BY DEF StrikesInv, StrikesAt, StrikesAgree
<1> QED
  BY <1>1, StrikesInvariant, PTL

----------------------------------------------------------------------------
(* The hold-off.  An address on its way back has the rest of its interval   *)
(* still ahead of it in the timer it waits for.                             *)

(* the use of the address ended long enough ago, `left' from now *)
RestedIn(a, left) == sinceUse[a] + left >= MinRequestInterval

HeldOffAt(a) ==
    /\ InPool(a) \/ Claimed(a) \/ Unseeded(a) => RestedIn(a, 0)
    /\ \A i \in Instance : Cooling(i, a) => RestedIn(a, cooldown[i][a])
    /\ Listed(a) => RestedIn(a, quarantine[a])

HeldOff == \A a \in Address : HeldOffAt(a)

LEMMA HeldOffInit == Init => HeldOff
<1> SUFFICES ASSUME Init, NEW a \in Address PROVE HeldOffAt(a)
  BY DEF HeldOff
<1>1. sinceUse[a] = MinRequestInterval
  BY DEF Init
<1>2. ~Listed(a) /\ \A i \in Instance : ~Cooling(i, a)
  BY DEF Init, BackendInit, Listed, Cooling
<1> QED
  BY <1>1, <1>2, PolicyAssumption DEF HeldOffAt, RestedIn

\* an address that enters none of these places, and whose timers stay, is as before
LEMMA HeldOffKept ==
    ASSUME NEW a \in Address, HeldOffAt(a),
           sinceUse'[a] = sinceUse[a],
           (InPool(a) \/ Claimed(a) \/ Unseeded(a))' => InPool(a) \/ Claimed(a) \/ Unseeded(a),
           \A i \in Instance : Cooling(i, a)' =>
              Cooling(i, a) /\ cooldown'[i][a] = cooldown[i][a],
           Listed(a)' => Listed(a) /\ quarantine'[a] = quarantine[a]
    PROVE  HeldOffAt(a)'
BY DEF HeldOffAt, RestedIn

LEMMA HeldOffInstance ==
    ASSUME PlaceInv, HeldOff, NEW i \in Instance, InstanceStep(i)
    PROVE  HeldOff'
<1> SUFFICES ASSUME NEW b \in Address PROVE HeldOffAt(b)'
  BY DEF HeldOff
<1>0. HeldOffAt(b) /\ sinceUse[b] \in Nat
  BY DEF HeldOff, PlaceInv, HolderInv, TypeInv, TypeOK
<1> USE PolicyAssumption DEF PlaceInv, HolderInv
<1>1. CASE InitTarget(i)
  <2>1. Unseeded(b)' => Unseeded(b)
    BY <1>1, SeedOnly
  <2>2. UNCHANGED <<pool, quarantine, cooldown, claimed, sinceUse>>
    BY <1>1 DEF InitTarget, sweepVars
  <2> QED
    BY <1>0, <2>1, <2>2, HeldOffKept, PoolFrame, CooldownFrame, QuarantineFrame, ClaimFrame
<1>2. CASE Seed(i)
  <2> DEFINE a == IpList[nextSeed[i]]
  <2>1. a \in Address /\ Unseeded(a)
    BY <1>2, SeedTakes
  <2>2. Unseeded(b)' => Unseeded(b)
    BY <1>2, SeedOnly
  <2>3. InPool(b)' => InPool(b) \/ b = a
    BY <1>2, <2>1, PushOnly DEF Seed, TypeInv, TypeOK, BackendTypeOK
  <2>4. UNCHANGED <<quarantine, cooldown, claimed, sinceUse>>
    BY <1>2 DEF Seed, sweepVars
  <2> QED
    BY <1>0, <2>1, <2>2, <2>3, <2>4, HeldOffKept, CooldownFrame, QuarantineFrame, ClaimFrame
<1>3. CASE SweepClaim(i)
  <2>1. PICK claim \in SUBSET Address :
           /\ claim = Expired
           /\ QuarantineRemove(claim)
           /\ claimed' = [claimed EXCEPT ![i] = claim]
    BY <1>3 DEF SweepClaim, QuarantinePopExpired
  <2>2. UNCHANGED <<initKey, phase, nextSeed, pool, cooldown, sinceUse>>
    BY <1>3 DEF SweepClaim, instanceVars
  <2>3. Listed(b)' => Listed(b) /\ quarantine'[b] = quarantine[b]
    BY <2>1 DEF QuarantineRemove, Listed
  <2>4. Claimed(b)' => Claimed(b) \/ b \in claim
    BY <2>1 DEF Claimed, TypeInv, TypeOK
  <2>5. CASE b \notin claim
    BY <1>0, <2>2, <2>3, <2>4, <2>5, HeldOffKept, PoolFrame, SeedFrame, CooldownFrame
  <2>6. CASE b \in claim
    <3>1. RestedIn(b, 0)
      BY <1>0, <2>1, <2>6 DEF Expired, HeldOffAt, Listed, NoEntry
    <3> QED
      BY <1>0, <2>2, <2>3, <3>1, CooldownFrame DEF HeldOffAt, RestedIn
  <2> QED
    BY <2>5, <2>6
<1>4. ASSUME NEW a \in Address, SweepReset(i, a) PROVE HeldOffAt(b)'
  <2>1. UNCHANGED <<initKey, phase, nextSeed, pool, quarantine, cooldown, claimed, sinceUse>>
    BY <1>4 DEF SweepReset, instanceVars
  <2> QED
    BY <1>0, <2>1, HeldOffKept, PoolFrame, SeedFrame, CooldownFrame, QuarantineFrame, ClaimFrame
<1>5. CASE SweepPush(i)
  <2> DEFINE a == releasing[i]
  <2>1. UNCHANGED <<initKey, phase, nextSeed, cooldown, quarantine, sinceUse>>
    BY <1>5 DEF SweepPush, instanceVars
  <2>2. a \in Address /\ a \in claimed[i] /\ PushIp(a)
    BY <1>5 DEF SweepPush, ReleasesClaimed, TypeInv, TypeOK
  <2>3. InPool(b)' => InPool(b) \/ b = a
    BY <2>2, PushOnly DEF TypeInv, TypeOK, BackendTypeOK
  <2>4. Claimed(a) /\ (Claimed(b)' => Claimed(b))
    BY <1>5, <2>2 DEF SweepPush, Claimed, TypeInv, TypeOK
  <2> QED
    BY <1>0, <2>1, <2>3, <2>4, HeldOffKept, SeedFrame, CooldownFrame, QuarantineFrame
<1>6. ASSUME NEW a \in Address, ReturnAfterCooldown(i, a) PROVE HeldOffAt(b)'
  <2>1. UNCHANGED <<initKey, phase, nextSeed, quarantine, claimed, sinceUse>>
    BY <1>6 DEF ReturnAfterCooldown, instanceVars, sweepVars
  <2>2. Cooling(i, a) /\ cooldown[i][a] = 0
    BY <1>6 DEF ReturnAfterCooldown, Cooling, NoTask
  <2>3. \A j \in Instance : Cooling(j, b)' => Cooling(j, b) /\ cooldown'[j][b] = cooldown[j][b]
    BY <1>6 DEF ReturnAfterCooldown, Cooling, TypeInv, TypeOK
  <2>4. InPool(b)' => InPool(b) \/ b = a
    BY <1>6, PushOnly DEF ReturnAfterCooldown, TypeInv, TypeOK, BackendTypeOK
  <2>5. CASE b # a
    BY <1>0, <2>1, <2>3, <2>4, <2>5, HeldOffKept, SeedFrame, QuarantineFrame, ClaimFrame
  <2>6. CASE b = a
    <3>1. RestedIn(b, 0)
      BY <1>0, <2>2, <2>6 DEF HeldOffAt
    <3> QED
      BY <1>0, <2>1, <2>3, <3>1, QuarantineFrame DEF HeldOffAt, RestedIn
  <2> QED
    BY <2>5, <2>6
<1> QED
  BY <1>1, <1>2, <1>3, <1>4, <1>5, <1>6 DEF InstanceStep

LEMMA HeldOffCaller ==
    ASSUME QuarantineTime >= MinRequestInterval,
           PlaceInv, HeldOff, NEW c \in Caller, CallerStep(c)
    PROVE  HeldOff'
<1> SUFFICES ASSUME NEW b \in Address PROVE HeldOffAt(b)'
  BY DEF HeldOff
<1>0. HeldOffAt(b) /\ sinceUse[b] \in Nat /\ Home[c] \in Instance
  BY HomeAssumption DEF HeldOff, PlaceInv, HolderInv, TypeInv, TypeOK
<1> USE PolicyAssumption DEF PlaceInv, HolderInv, instanceVars, sweepVars
<1>1. CASE Acquire(c) \/ AcquireTimeout(c) \/ RecordSuccess(c) \/ RecordFailure(c)
  <2>1. UNCHANGED <<initKey, phase, nextSeed, pool, quarantine, cooldown, claimed, sinceUse>>
    BY <1>1 DEF Acquire, AcquireTimeout, RecordSuccess, RecordFailure, backendVars
  <2> QED
    BY <1>0, <2>1, HeldOffKept, SeedFrame, PoolFrame, CooldownFrame, QuarantineFrame, ClaimFrame
<1>2. CASE Pop(c)
  <2>1. PICK a \in Address : /\ PopIp(a)
                             /\ sinceUse' = [sinceUse EXCEPT ![a] = 0]
                             /\ ip' = [ip EXCEPT ![c] = a]
    BY <1>2 DEF Pop
  <2>2. UNCHANGED <<initKey, phase, nextSeed, quarantine, cooldown, claimed>>
    BY <1>2 DEF Pop
  <2>3. InPool(a) /\ (InPool(b)' => InPool(b))
    BY <2>1, PopOnly DEF TypeInv, TypeOK, BackendTypeOK
  <2>4. CASE b # a
    <3>1. sinceUse'[b] = sinceUse[b]
      BY <2>1, <2>4 DEF TypeInv, TypeOK
    <3> QED
      BY <1>0, <2>2, <2>3, <3>1, HeldOffKept, SeedFrame, CooldownFrame, QuarantineFrame, ClaimFrame
  <2>5. CASE b = a
    <3>1. Holds(c, b)'
      BY <1>2, <2>1, <2>5 DEF Pop, Holds, TypeInv, TypeOK
    <3>2. OnePlace(b)'
      BY <1>2, PopPlacesInv DEF MovesPlaces, Holders, OneHolder
    <3>3. ~(InPool(b) \/ Claimed(b) \/ Unseeded(b) \/ Listed(b) \/ Resting(b))'
      BY <3>1, <3>2 DEF OnePlace, Leased
    <3> QED
      BY <3>3 DEF HeldOffAt, Resting
  <2> QED
    BY <2>4, <2>5
<1>3. CASE RestAfterSuccess(c) \/ RestAfterFailure(c)
  <2> DEFINE a == ip[c]
  <2>1. /\ UNCHANGED <<initKey, phase, nextSeed, pool, quarantine, claimed, sinceUse>>
        /\ pc[c] \in {"succeeded", "failed"}
        /\ cooldown' = [cooldown EXCEPT ![Home[c]][a] = MinRequestInterval]
    BY <1>3 DEF RestAfterSuccess, RestAfterFailure, ReturnLater, backendVars
  <2>2. a \in Address /\ ~Resting(a)
    BY <2>1, ReportedPlace
  <2>3. \A i \in Instance :
           cooldown'[i][b] = IF i = Home[c] /\ b = a THEN MinRequestInterval ELSE cooldown[i][b]
    BY <1>0, <2>1, <2>2 DEF TypeInv, TypeOK
  <2>4. CASE b # a
    BY <1>0, <2>1, <2>3, <2>4, HeldOffKept, SeedFrame, PoolFrame, QuarantineFrame, ClaimFrame
       DEF Cooling
  <2>5. CASE b = a
    <3>1. \A i \in Instance : Cooling(i, b)' => cooldown'[i][b] = MinRequestInterval
      BY <2>2, <2>3, <2>5 DEF Cooling, Resting
    <3> QED
      BY <1>0, <2>1, <3>1, SeedFrame, PoolFrame, QuarantineFrame, ClaimFrame
         DEF HeldOffAt, RestedIn
  <2> QED
    BY <2>4, <2>5
<1>4. CASE QuarantineIp(c)
  <2> DEFINE a == ip[c]
  <2>1. /\ UNCHANGED <<initKey, phase, nextSeed, pool, cooldown, claimed, sinceUse>>
        /\ pc[c] = "failed"
        /\ quarantine' = [quarantine EXCEPT ![a] = QuarantineTime]
    BY <1>4 DEF QuarantineIp, QuarantineAdd
  <2>2. a \in Address
    BY <2>1, ReportedPlace
  <2>3. quarantine'[b] = IF b = a THEN QuarantineTime ELSE quarantine[b]
    BY <2>1, <2>2 DEF TypeInv, TypeOK, BackendTypeOK
  <2>4. CASE b # a
    BY <1>0, <2>1, <2>3, <2>4, HeldOffKept, SeedFrame, PoolFrame, CooldownFrame, ClaimFrame
       DEF Listed
  <2>5. CASE b = a
    BY <1>0, <2>1, <2>3, <2>5, SeedFrame, PoolFrame, CooldownFrame, ClaimFrame
       DEF HeldOffAt, RestedIn
  <2> QED
    BY <2>4, <2>5
<1> QED
  BY <1>1, <1>2, <1>3, <1>4 DEF CallerStep

\* the timers run down no faster than the interval
LEMMA HeldOffTick == ASSUME PlaceInv, HeldOff, Tick PROVE HeldOff'
<1> SUFFICES ASSUME NEW b \in Address PROVE HeldOffAt(b)'
  BY DEF HeldOff
<1> USE PolicyAssumption DEF PlaceInv, HolderInv
<1>0. HeldOffAt(b) /\ sinceUse[b] \in Nat
  BY DEF HeldOff, TypeInv, TypeOK
<1>1. UNCHANGED <<initKey, pool, phase, nextSeed, claimed>>
  BY DEF Tick, instanceVars, sweepVars
<1>2. \A i \in Instance : /\ cooldown[i][b] \in Nat \cup {NoTask}
                          /\ cooldown'[i][b] = Elapsed(cooldown[i][b])
  BY DEF Tick, Elapse, TypeInv, TypeOK
<1>3. /\ quarantine[b] \in Nat \cup {NoEntry}
      /\ quarantine'[b] = Elapsed(quarantine[b])
  BY DEF Tick, Elapse, QuarantineElapses, TypeInv, TypeOK, BackendTypeOK
<1>4. /\ \A i \in Instance : Cooling(i, b)' => Cooling(i, b)
      /\ Listed(b)' => Listed(b)
  BY <1>2, <1>3 DEF Cooling, Listed, Elapsed, NoTask, NoEntry
<1>5. (InPool(b) \/ Claimed(b) \/ Unseeded(b))' => InPool(b) \/ Claimed(b) \/ Unseeded(b)
  BY <1>1, SeedFrame, PoolFrame, ClaimFrame
<1>6. CASE InUse(b)
  <2>1. Leased(b)
    BY <1>6 DEF InUse, Leased, Holds
  <2>2. ~(InPool(b) \/ Claimed(b) \/ Unseeded(b) \/ Listed(b) \/ Resting(b))
    BY <2>1 DEF OneHolder, OnePlace
  <2> QED
    BY <1>4, <1>5, <2>2 DEF HeldOffAt, Resting
<1>7. CASE ~InUse(b)
  <2>1. sinceUse'[b] = IF sinceUse[b] >= MinRequestInterval THEN sinceUse[b] ELSE sinceUse[b] + 1
    BY <1>7 DEF Tick, Elapse
  <2>2. RestedIn(b, 0) => RestedIn(b, 0)'
    BY <1>0, <2>1 DEF RestedIn
  <2>3. ASSUME NEW t \in Nat, RestedIn(b, t) PROVE sinceUse'[b] + Elapsed(t) >= MinRequestInterval
    BY <1>0, <2>1, <2>3 DEF RestedIn, Elapsed
  <2>4. \A i \in Instance : Cooling(i, b)' => RestedIn(b, cooldown[i][b])'
    <3> SUFFICES ASSUME NEW i \in Instance, Cooling(i, b)' PROVE RestedIn(b, cooldown[i][b])'
      OBVIOUS
    <3>1. RestedIn(b, cooldown[i][b]) /\ cooldown[i][b] \in Nat
      BY <1>0, <1>2, <1>4 DEF HeldOffAt, Cooling, NoTask
    <3> QED
      BY <1>2, <2>3, <3>1 DEF RestedIn
  <2>5. Listed(b)' => RestedIn(b, quarantine[b])'
    <3> SUFFICES ASSUME Listed(b)' PROVE RestedIn(b, quarantine[b])'
      OBVIOUS
    <3>1. RestedIn(b, quarantine[b]) /\ quarantine[b] \in Nat
      BY <1>0, <1>3, <1>4 DEF HeldOffAt, Listed, NoEntry
    <3> QED
      BY <1>3, <2>3, <3>1 DEF RestedIn
  <2> QED
    BY <1>0, <1>5, <2>2, <2>4, <2>5 DEF HeldOffAt
<1> QED
  BY <1>6, <1>7

(* An address is back in the queue only when minRequestInterval has passed  *)
(* since its use ended, whichever of the three ways it took (cooldown after *)
(* a success, after a failure, quarantine), provided that the quarantine is *)
(* no shorter than the interval: the sweep pushes without a cooldown.       *)
THEOREM RateLimitedAlways ==
    ASSUME QuarantineTime >= MinRequestInterval
    PROVE  Spec => []RateLimited
<1>1. PlaceInv /\ HeldOff /\ UNCHANGED vars => HeldOff'
  <2> SUFFICES ASSUME PlaceInv, HeldOff, UNCHANGED vars, NEW b \in Address PROVE HeldOffAt(b)'
    BY DEF HeldOff
  <2>1. UNCHANGED <<initKey, pool, phase, nextSeed, quarantine, cooldown, claimed, sinceUse>>
    BY DEF vars, backendVars, instanceVars, sweepVars
  <2> QED
    BY <2>1, HeldOffKept, SeedFrame, PoolFrame, CooldownFrame, QuarantineFrame, ClaimFrame
       DEF HeldOff
<1>2. PlaceInv /\ HeldOff /\ [Next]_vars => HeldOff'
  BY <1>1, HeldOffInstance, HeldOffCaller, HeldOffTick DEF Next
<1>3. PlaceInv /\ HeldOff => RateLimited
  BY PolicyAssumption
     DEF HeldOff, HeldOffAt, RestedIn, RateLimited, PlaceInv, HolderInv, TypeInv, TypeOK
<1> QED
  BY <1>2, <1>3, HeldOffInit, PlaceInvariant, PTL DEF Spec
=============================================================================
