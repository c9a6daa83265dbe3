------------------------- MODULE IPPoolRotationProofs -------------------------
(***************************************************************************)
(* The pool implements Rotation, for any instances, callers and addresses. *)
(***************************************************************************)
EXTENDS IPPoolRotation, IPPoolProofs

\* the address rests, or its caller has yet to send it to rest
Rests(a) ==
    \/ Resting(a)
    \/ \E c \in Caller :
          /\ ip[c] = a
          /\ \/ pc[c] = "succeeded"
             \/ pc[c] = "failed" /\ count[c] < IpFailuresUntilQuarantine

UsedBy(c, a) == pc[c] = "holding" /\ ip[c] = a

(* Which abstract values an address has is decided by its place.  An        *)
(* address that is in one place throughout a step keeps them.  One that was *)
(* lost, which here none is, would look like one that rests.                *)
AbsView ==
    \A a \in Address :
       /\ Unseeded(a) \/ InPool(a) \/ InUse(a) \/ StruckOut(a) \/ Rests(a) \/ Lost(a)
       /\ Unseeded(a) => absStatus[a] = "outside" /\ absHolder[a] = None
       /\ InPool(a) => absStatus[a] = "ready" /\ absHolder[a] = None
       /\ \A c \in Caller : UsedBy(c, a) => absStatus[a] = "leased" /\ absHolder[a] = c
       /\ StruckOut(a) => /\ absStatus[a] = "out" /\ absHolder[a] = None
                          /\ absStrikes[a] = IpFailuresUntilQuarantine
       /\ Rests(a) \/ Lost(a) => absStatus[a] = "resting" /\ absHolder[a] = None
       /\ ~StruckOut(a) => absStrikes[a] = failures[a]

\* the places of Rotation exclude each other and leave out what is lost
LEMMA Apart ==
    ASSUME HolderInv, NEW a \in Address
    PROVE  /\ Lost(a) <=> ~(Unseeded(a) \/ InPool(a) \/ InUse(a) \/ StruckOut(a) \/ Rests(a))
           /\ Unseeded(a) => ~(InPool(a) \/ InUse(a) \/ StruckOut(a) \/ Rests(a))
           /\ InPool(a) => ~(InUse(a) \/ StruckOut(a) \/ Rests(a))
           /\ InUse(a) => ~(StruckOut(a) \/ Rests(a))
           /\ StruckOut(a) => ~Rests(a)
           /\ \A c, d \in Caller : UsedBy(c, a) /\ UsedBy(d, a) => c = d
<1> USE DEF HolderInv
<1> DEFINE Struck == \E c \in Caller : /\ pc[c] = "failed" /\ ip[c] = a
                                       /\ count[c] >= IpFailuresUntilQuarantine
           Rest == \E c \in Caller :
                      /\ ip[c] = a
                      /\ \/ pc[c] = "succeeded"
                         \/ pc[c] = "failed" /\ count[c] < IpFailuresUntilQuarantine
<1>1. OnePlace(a)
  BY DEF OneHolder
<1>2. \A c, d \in Caller : Holds(c, a) /\ Holds(d, a) => c = d
  BY DEF OneHolder, NoDuplicates
<1>3. Leased(a) <=> InUse(a) \/ Struck \/ Rest
  BY ThresholdType DEF Leased, Holds, InUse, TypeInv, TypeOK
<1>4. InUse(a) => ~(Struck \/ Rest)
  BY <1>2 DEF InUse, Holds
<1>5. Struck => ~Rest
  BY <1>2, ThresholdType DEF Holds, TypeInv, TypeOK
<1>6. StruckOut(a) <=> Listed(a) \/ Claimed(a) \/ Struck
  BY DEF StruckOut
<1>7. Rests(a) <=> Resting(a) \/ Rest
  BY DEF Rests
<1>8. \A c, d \in Caller : UsedBy(c, a) /\ UsedBy(d, a) => c = d
  BY <1>2 DEF UsedBy, Holds
<1>9. Lost(a) <=> ~(Unseeded(a) \/ InPool(a) \/ Leased(a) \/ Resting(a) \/ Listed(a) \/ Claimed(a))
  BY DEF Lost, Carried
<1> HIDE DEF Struck, Rest
<1> QED
  BY <1>1, <1>3, <1>4, <1>5, <1>6, <1>7, <1>8, <1>9 DEF OnePlace

LEMMA View == HolderInv => AbsView
<1> SUFFICES ASSUME HolderInv, NEW a \in Address
             PROVE
                /\ Unseeded(a) \/ InPool(a) \/ InUse(a) \/ StruckOut(a) \/ Rests(a) \/ Lost(a)
                /\ Unseeded(a) => absStatus[a] = "outside" /\ absHolder[a] = None
                /\ InPool(a) => absStatus[a] = "ready" /\ absHolder[a] = None
                /\ \A c \in Caller : UsedBy(c, a) => absStatus[a] = "leased" /\ absHolder[a] = c
                /\ StruckOut(a) => /\ absStatus[a] = "out" /\ absHolder[a] = None
                                   /\ absStrikes[a] = IpFailuresUntilQuarantine
                /\ Rests(a) \/ Lost(a) => absStatus[a] = "resting" /\ absHolder[a] = None
                /\ ~StruckOut(a) => absStrikes[a] = failures[a]
  BY DEF AbsView
<1>1. InUse(a) <=> \E c \in Caller : UsedBy(c, a)
  BY DEF InUse, UsedBy
<1>2. ~InUse(a) => absHolder[a] = None
  BY DEF absHolder
<1>3. ASSUME NEW c \in Caller, UsedBy(c, a) PROVE absHolder[a] = c
  <2>1. absHolder[a] = CHOOSE d \in Caller : pc[d] = "holding" /\ ip[d] = a
    BY <1>1, <1>3 DEF absHolder
  <2>2. UsedBy(absHolder[a], a) /\ absHolder[a] \in Caller
    BY <1>3, <2>1 DEF UsedBy
  <2> QED
    BY <1>3, <2>2, Apart
<1>4. /\ Unseeded(a) => absStatus[a] = "outside"
      /\ InPool(a) => absStatus[a] = "ready"
      /\ InUse(a) => absStatus[a] = "leased"
      /\ StruckOut(a) => absStatus[a] = "out"
      /\ Rests(a) \/ Lost(a) => absStatus[a] = "resting"
  BY Apart DEF absStatus
<1>5. absStrikes[a] = IF StruckOut(a) THEN IpFailuresUntilQuarantine ELSE failures[a]
  BY DEF absStrikes
<1> QED
  BY <1>1, <1>2, <1>3, <1>4, <1>5, Apart

LEMMA ViewNext == HolderInv' => AbsView'
BY View, PTL

----------------------------------------------------------------------------
\* the address enters no place it was not in
KeptAt(a) ==
    /\ Unseeded(a)' => Unseeded(a)
    /\ InPool(a)' => InPool(a)
    /\ \A c \in Caller : UsedBy(c, a)' => UsedBy(c, a)
    /\ StruckOut(a)' => StruckOut(a)
    /\ Rests(a)' => Rests(a)
    /\ StruckOut(a) \/ failures'[a] = failures[a]

SameView(a) ==
    /\ absStatus'[a] = absStatus[a]
    /\ absHolder'[a] = absHolder[a]
    /\ absStrikes'[a] = absStrikes[a]

LEMMA KeptView ==
    ASSUME AbsView, AbsView', NEW a \in Address, KeptAt(a), Lost(a)' => Lost(a)
    PROVE  SameView(a)
<1>1. /\ InUse(a) <=> \E c \in Caller : UsedBy(c, a)
      /\ InUse(a)' <=> \E c \in Caller : UsedBy(c, a)'
  BY DEF InUse, UsedBy
<1>2. CASE Unseeded(a)'
  BY <1>2 DEF AbsView, KeptAt, SameView
<1>3. CASE InPool(a)'
  BY <1>3 DEF AbsView, KeptAt, SameView
<1>4. CASE InUse(a)'
  BY <1>1, <1>4 DEF AbsView, KeptAt, SameView
<1>5. CASE StruckOut(a)'
  BY <1>5 DEF AbsView, KeptAt, SameView
<1>6. CASE Rests(a)'
  BY <1>6 DEF AbsView, KeptAt, SameView
<1>7. CASE Lost(a)'
  BY <1>7 DEF AbsView, KeptAt, SameView
<1> QED
  BY <1>2, <1>3, <1>4, <1>5, <1>6, <1>7 DEF AbsView

\* how a caller, the quarantine, a sweep and a cooldown task keep an address
LEMMA HandsKept ==
    ASSUME NEW a \in Address,
           \A c \in Caller : \/ ip'[c] # a
                             \/ pc'[c] \in {"idle", "waiting"}
                             \/ ip[c] = a /\ pc'[c] = pc[c] /\ count'[c] = count[c],
           Listed(a)' => Listed(a) \/ Claimed(a),
           Claimed(a)' => Listed(a) \/ Claimed(a),
           Resting(a)' => Resting(a)
    PROVE  /\ \A c \in Caller : UsedBy(c, a)' => UsedBy(c, a)
           /\ StruckOut(a)' => StruckOut(a)
           /\ Rests(a)' => Rests(a)
<1>1. \A c \in Caller : UsedBy(c, a)' => UsedBy(c, a)
  BY DEF UsedBy
<1>2. StruckOut(a)' => StruckOut(a)
  BY DEF StruckOut
<1>3. Rests(a)' => Rests(a)
  BY DEF Rests
<1> QED
  BY <1>1, <1>2, <1>3

LEMMA ViewFunctions ==
    /\ absStatus = [a \in Address |-> absStatus[a]]
    /\ absHolder = [a \in Address |-> absHolder[a]]
    /\ absStrikes = [a \in Address |-> absStrikes[a]]
    /\ absStatus' = [a \in Address |-> absStatus'[a]]
    /\ absHolder' = [a \in Address |-> absHolder'[a]]
    /\ absStrikes' = [a \in Address |-> absStrikes'[a]]
BY DEF absStatus, absHolder, absStrikes

LEMMA NothingMoves ==
    ASSUME \A a \in Address : SameView(a) PROVE UNCHANGED Abstract!vars
BY ViewFunctions DEF SameView, Abstract!vars

LEMMA OneMoves ==
    ASSUME NEW a \in Address, \A b \in Address : b # a => SameView(b)
    PROVE  /\ absStatus' = [absStatus EXCEPT ![a] = absStatus'[a]]
           /\ absHolder' = [absHolder EXCEPT ![a] = absHolder'[a]]
           /\ absStrikes' = [absStrikes EXCEPT ![a] = absStrikes'[a]]
<1>1. /\ absStatus' = [b \in Address |-> IF b = a THEN absStatus'[a] ELSE absStatus[b]]
      /\ absHolder' = [b \in Address |-> IF b = a THEN absHolder'[a] ELSE absHolder[b]]
      /\ absStrikes' = [b \in Address |-> IF b = a THEN absStrikes'[a] ELSE absStrikes[b]]
  BY ViewFunctions DEF SameView
<1> QED
  BY <1>1, ViewFunctions

----------------------------------------------------------------------------
RotInv == HolderInv /\ StrikesInv /\ AbsView

\* nothing is lost in this step
NoneDrops == \A a \in Address : Lost(a)' => Lost(a)

\* steps of one instance: seeding enters, a cooldown task and a sweep bring back
LEMMA InstanceRotates ==
    ASSUME RotInv, AbsView', NoneDrops, NEW i \in Instance, InstanceStep(i)
    PROVE  [Abstract!Next]_Abstract!vars
<1> USE DEF RotInv, HolderInv, NoneDrops
<1>1. CASE InitTarget(i)
  <2>1. UNCHANGED <<pool, failures, quarantine, pc, ip, count, cooldown, claimed>>
    BY <1>1 DEF InitTarget, callerVars, sweepVars
  <2>2. ASSUME NEW b \in Address PROVE KeptAt(b)
    <3>1. Unseeded(b)' => Unseeded(b)
      BY <1>1, SeedOnly
    <3>2. /\ \A c \in Caller : UsedBy(c, b)' => UsedBy(c, b)
          /\ StruckOut(b)' => StruckOut(b)
          /\ Rests(b)' => Rests(b)
      BY <2>1, HandsKept, QuarantineFrame, ClaimFrame, CooldownFrame
    <3> QED
      BY <2>1, <3>1, <3>2, PoolFrame DEF KeptAt
  <2> QED
    BY <2>2, KeptView, NothingMoves
<1>2. CASE Seed(i)
  <2> DEFINE a == IpList[nextSeed[i]]
  <2>1. a \in Address /\ Unseeded(a)
    BY <1>2, SeedTakes
  <2>2. UNCHANGED <<failures, quarantine, pc, ip, count, cooldown, claimed>>
    BY <1>2 DEF Seed, callerVars, sweepVars
  <2>3. PushIp(a) /\ ~InPool(a)
    BY <1>2, <2>1 DEF Seed, OneHolder, OnePlace
  <2>4. \A b \in Address : InPool(b)' <=> InPool(b) \/ b = a
    BY <2>1, <2>3, PushPlaces DEF TypeInv, TypeOK, BackendTypeOK, OneHolder, NoDuplicates
  <2>5. ASSUME NEW b \in Address, b # a PROVE KeptAt(b)
    <3>1. Unseeded(b)' => Unseeded(b)
      BY <1>2, SeedOnly
    <3>2. /\ \A c \in Caller : UsedBy(c, b)' => UsedBy(c, b)
          /\ StruckOut(b)' => StruckOut(b)
          /\ Rests(b)' => Rests(b)
      BY <2>2, HandsKept, QuarantineFrame, ClaimFrame, CooldownFrame
    <3> QED
      BY <2>2, <2>4, <2>5, <3>1, <3>2 DEF KeptAt
  <2>6. \A b \in Address : b # a => SameView(b)
    BY <2>5, KeptView
  <2>7. absStatus[a] = "outside" /\ absHolder[a] = None /\ absStrikes[a] = failures[a]
    BY <2>1 DEF AbsView
  <2>8. absStatus'[a] = "ready" /\ absHolder'[a] = None /\ absStrikes'[a] = failures[a]
    BY <2>1, <2>2, <2>4 DEF AbsView
  <2>9. Abstract!Enter(a)
    BY <2>1, <2>6, <2>7, <2>8, OneMoves, ViewFunctions DEF Abstract!Enter, Abstract!Move
  <2> QED
    BY <2>1, <2>9 DEF Abstract!Next
<1>3. CASE SweepClaim(i)
  <2>1. UNCHANGED <<initKey, phase, nextSeed, pool, failures, pc, ip, count, cooldown>>
    BY <1>3 DEF SweepClaim, instanceVars, callerVars
  <2>2. PICK claim \in SUBSET Address :
           /\ claim = Expired
           /\ QuarantineRemove(claim)
           /\ claimed' = [claimed EXCEPT ![i] = claim]
    BY <1>3 DEF SweepClaim, QuarantinePopExpired
  <2>3. ASSUME NEW b \in Address PROVE KeptAt(b)
    <3>1. Listed(b)' => Listed(b)
      BY <2>2 DEF QuarantineRemove, Listed
    <3>2. Claimed(b)' => Listed(b) \/ Claimed(b)
      BY <2>2 DEF Expired, Claimed, Listed, NoEntry, TypeInv, TypeOK
    <3>3. /\ \A c \in Caller : UsedBy(c, b)' => UsedBy(c, b)
          /\ StruckOut(b)' => StruckOut(b)
          /\ Rests(b)' => Rests(b)
      BY <2>1, <3>1, <3>2, HandsKept, CooldownFrame
    <3> QED
      BY <2>1, <3>3, PoolFrame, SeedFrame DEF KeptAt
  <2> QED
    BY <2>3, KeptView, NothingMoves
<1>4. ASSUME NEW a \in Address, SweepReset(i, a) PROVE [Abstract!Next]_Abstract!vars
  <2>1. UNCHANGED <<initKey, phase, nextSeed, pool, quarantine, pc, ip, count, cooldown, claimed>>
    BY <1>4 DEF SweepReset, instanceVars, callerVars
  <2>2. ASSUME NEW b \in Address PROVE KeptAt(b)
    <3>1. StruckOut(a)
      BY <1>4 DEF SweepReset, StruckOut, Claimed
    <3>2. b = a \/ failures'[b] = failures[b]
      BY <1>4 DEF SweepReset, ResetFailures, TypeInv, TypeOK, BackendTypeOK
    <3>3. /\ \A c \in Caller : UsedBy(c, b)' => UsedBy(c, b)
          /\ StruckOut(b)' => StruckOut(b)
          /\ Rests(b)' => Rests(b)
      BY <2>1, HandsKept, QuarantineFrame, ClaimFrame, CooldownFrame
    <3> QED
      BY <2>1, <3>1, <3>2, <3>3, PoolFrame, SeedFrame DEF KeptAt
  <2> QED
    BY <2>2, KeptView, NothingMoves
<1>5. CASE SweepPush(i)
  <2> DEFINE a == releasing[i]
  <2>1. /\ a \in Address
        /\ a \in claimed[i]
        /\ PushIp(a)
    BY <1>5 DEF SweepPush, ReleasesClaimed, TypeInv, TypeOK
  <2>2. UNCHANGED <<initKey, phase, nextSeed, failures, quarantine, pc, ip, count, cooldown>>
    BY <1>5 DEF SweepPush, instanceVars, callerVars
  <2>3. Claimed(a) /\ StruckOut(a) /\ ~InPool(a)
    BY <2>1 DEF Claimed, StruckOut, OneHolder, OnePlace
  <2>4. \A b \in Address : InPool(b)' <=> InPool(b) \/ b = a
    BY <2>1, <2>3, PushPlaces DEF TypeInv, TypeOK, BackendTypeOK, OneHolder, NoDuplicates
  <2>5. ASSUME NEW b \in Address, b # a PROVE KeptAt(b)
    <3>1. Claimed(b)' => Claimed(b)
      BY <1>5 DEF SweepPush, Claimed, TypeInv, TypeOK
    <3>2. /\ \A c \in Caller : UsedBy(c, b)' => UsedBy(c, b)
          /\ StruckOut(b)' => StruckOut(b)
          /\ Rests(b)' => Rests(b)
      BY <2>2, <3>1, HandsKept, QuarantineFrame, CooldownFrame
    <3> QED
      BY <2>2, <2>4, <2>5, <3>2, SeedFrame DEF KeptAt
  <2>6. \A b \in Address : b # a => SameView(b)
    BY <2>5, KeptView
  <2>7. absStatus[a] = "out" /\ absHolder[a] = None
    BY <2>1, <2>3 DEF AbsView
  <2>8. failures'[a] = 0
    BY <2>1, <2>2 DEF StrikesInv, StrikesAt
  <2>9. absStatus'[a] = "ready" /\ absHolder'[a] = None /\ absStrikes'[a] = 0
    BY <2>1, <2>4, <2>8 DEF AbsView
  <2>10. Abstract!Release(a)
    BY <2>1, <2>6, <2>7, <2>9, OneMoves, ViewFunctions DEF Abstract!Release, Abstract!Move
  <2> QED
    BY <2>1, <2>10 DEF Abstract!Next
<1>6. ASSUME NEW a \in Address, ReturnAfterCooldown(i, a) PROVE [Abstract!Next]_Abstract!vars
  <2>1. Cooling(i, a) /\ Resting(a) /\ Rests(a)
    BY <1>6 DEF ReturnAfterCooldown, Cooling, Resting, Rests, NoTask
  <2>2. UNCHANGED <<initKey, phase, nextSeed, failures, quarantine, pc, ip, count, claimed>>
    BY <1>6 DEF ReturnAfterCooldown, instanceVars, callerVars, sweepVars
  <2>3. PushIp(a) /\ ~InPool(a)
    BY <1>6, <2>1 DEF ReturnAfterCooldown, OneHolder, OnePlace
  <2>4. \A b \in Address : InPool(b)' <=> InPool(b) \/ b = a
    BY <2>3, PushPlaces DEF TypeInv, TypeOK, BackendTypeOK, OneHolder, NoDuplicates
  <2>5. ASSUME NEW b \in Address, b # a PROVE KeptAt(b)
    <3>1. Resting(b)' => Resting(b)
      BY <1>6 DEF ReturnAfterCooldown, Resting, Cooling, NoTask, TypeInv, TypeOK
    <3>2. /\ \A c \in Caller : UsedBy(c, b)' => UsedBy(c, b)
          /\ StruckOut(b)' => StruckOut(b)
          /\ Rests(b)' => Rests(b)
      BY <2>2, <3>1, HandsKept, QuarantineFrame, ClaimFrame
    <3> QED
      BY <2>2, <2>4, <2>5, <3>2, SeedFrame DEF KeptAt
  <2>6. \A b \in Address : b # a => SameView(b)
    BY <2>5, KeptView
  <2>7. /\ absStatus[a] = "resting" /\ absHolder[a] = None
        /\ absStrikes[a] = failures[a]
    BY <2>1 DEF AbsView
  <2>8. absStatus'[a] = "ready" /\ absHolder'[a] = None /\ absStrikes'[a] = failures[a]
    BY <2>2, <2>4 DEF AbsView
  <2>9. Abstract!Rested(a)
    BY <2>6, <2>7, <2>8, OneMoves, ViewFunctions DEF Abstract!Rested, Abstract!Move
  <2> QED
    BY <2>9 DEF Abstract!Next
<1> QED
  BY <1>1, <1>2, <1>3, <1>4, <1>5, <1>6 DEF InstanceStep

\* a caller leases and reports; what follows its report is inside the abstract states
LEMMA CallerRotates ==
    ASSUME RotInv, AbsView', NoneDrops, NEW c \in Caller, CallerStep(c)
    PROVE  [Abstract!Next]_Abstract!vars
<1> USE DEF RotInv, HolderInv, NoneDrops
<1>1. CASE Acquire(c) \/ AcquireTimeout(c)
  <2>1. UNCHANGED <<initKey, phase, nextSeed, pool, failures, quarantine, ip, count,
                    cooldown, claimed>>
    BY <1>1 DEF Acquire, AcquireTimeout, backendVars, instanceVars, sweepVars
  <2>2. \A d \in Caller : pc'[d] \in {"idle", "waiting"} \/ pc'[d] = pc[d]
    BY <1>1 DEF Acquire, AcquireTimeout, TypeInv, TypeOK
  <2>3. ASSUME NEW b \in Address PROVE KeptAt(b)
    <3>1. /\ \A d \in Caller : UsedBy(d, b)' => UsedBy(d, b)
          /\ StruckOut(b)' => StruckOut(b)
          /\ Rests(b)' => Rests(b)
      BY <2>1, <2>2, HandsKept, QuarantineFrame, ClaimFrame, CooldownFrame
    <3> QED
      BY <2>1, <3>1, PoolFrame, SeedFrame DEF KeptAt
  <2> QED
    BY <2>3, KeptView, NothingMoves
<1>2. CASE Pop(c)
  <2>1. PICK a \in Address : PopIp(a) /\ ip' = [ip EXCEPT ![c] = a]
    BY <1>2 DEF Pop
  <2>2. /\ UNCHANGED <<initKey, phase, nextSeed, failures, quarantine, count, cooldown, claimed>>
        /\ pc[c] = "waiting"
        /\ pc' = [pc EXCEPT ![c] = "holding"]
    BY <1>2 DEF Pop, instanceVars, sweepVars
  <2>3. InPool(a) /\ \A b \in Address : InPool(b)' => InPool(b)
    BY <2>1, PopOnly DEF TypeInv, TypeOK, BackendTypeOK
  <2>4. UsedBy(c, a)'
    BY <2>1, <2>2 DEF UsedBy, TypeInv, TypeOK
  <2>5. ASSUME NEW b \in Address, b # a PROVE KeptAt(b)
    <3>1. \A d \in Caller : ip'[d] # b \/ (ip'[d] = ip[d] /\ pc'[d] = pc[d])
      BY <2>1, <2>2, <2>5 DEF TypeInv, TypeOK
    <3>2. /\ \A d \in Caller : UsedBy(d, b)' => UsedBy(d, b)
          /\ StruckOut(b)' => StruckOut(b)
          /\ Rests(b)' => Rests(b)
      BY <2>2, <3>1, HandsKept, QuarantineFrame, ClaimFrame, CooldownFrame
    <3> QED
      BY <2>2, <2>3, <3>2, SeedFrame DEF KeptAt
  <2>6. \A b \in Address : b # a => SameView(b)
    BY <2>5, KeptView
  <2>7. \A b \in Address : absHolder[b] # c
    <3>1. c # None
      BY IpListAssumption
    <3>2. \A d \in Caller, b \in Address : UsedBy(d, b) => d # c
      BY <2>2 DEF UsedBy
    <3> QED
      BY <3>1, <3>2 DEF AbsView, InUse, UsedBy
  <2>8. absStatus[a] = "ready" /\ absStrikes[a] = failures[a]
    BY <2>3 DEF AbsView
  <2>9. absStatus'[a] = "leased" /\ absHolder'[a] = c /\ absStrikes'[a] = failures[a]
    BY <2>2, <2>4 DEF AbsView
  <2>10. Abstract!Lease(a, c)
    BY <2>6, <2>7, <2>8, <2>9, OneMoves, ViewFunctions DEF Abstract!Lease, Abstract!Move
  <2> QED
    BY <2>10 DEF Abstract!Next
<1>3. CASE RecordSuccess(c) \/ RecordFailure(c)
  <2>1. /\ UNCHANGED <<initKey, phase, nextSeed, pool, quarantine, ip, cooldown, claimed>>
        /\ pc[c] = "holding"
    BY <1>3 DEF RecordSuccess, RecordFailure, instanceVars, sweepVars
  <2> PICK a \in Address : a = ip[c]
    BY <2>1, ReportedPlace
  <2>2. UsedBy(c, a)
    BY <2>1 DEF UsedBy
  <2>3. /\ \A d \in Caller : d # c => pc'[d] = pc[d] /\ count'[d] = count[d]
        /\ \A b \in Address : b # a => failures'[b] = failures[b]
    BY <1>3, <2>2 DEF RecordSuccess, RecordFailure, ResetFailures, IncrementFailures,
                      TypeInv, TypeOK, BackendTypeOK
  <2>4. ASSUME NEW b \in Address, b # a PROVE KeptAt(b)
    <3>1. \A d \in Caller : \/ ip'[d] # b
                            \/ ip[d] = b /\ pc'[d] = pc[d] /\ count'[d] = count[d]
      BY <2>1, <2>3, <2>4
    <3>2. /\ \A d \in Caller : UsedBy(d, b)' => UsedBy(d, b)
          /\ StruckOut(b)' => StruckOut(b)
          /\ Rests(b)' => Rests(b)
      BY <2>1, <3>1, HandsKept, QuarantineFrame, ClaimFrame, CooldownFrame
    <3> QED
      BY <2>1, <2>3, <2>4, <3>2, PoolFrame, SeedFrame DEF KeptAt
  <2>5. \A b \in Address : b # a => SameView(b)
    BY <2>4, KeptView
  <2>6. absStatus[a] = "leased" /\ absHolder[a] = c /\ absStrikes[a] = failures[a]
    BY <2>2 DEF AbsView
  <2>7. CASE RecordSuccess(c)
    <3>1. Rests(a)' /\ failures'[a] = 0
      BY <2>1, <2>2, <2>7 DEF RecordSuccess, ResetFailures, Rests, TypeInv, TypeOK, BackendTypeOK
    <3>2. absStatus'[a] = "resting" /\ absHolder'[a] = None /\ absStrikes'[a] = 0
      BY <2>2, <3>1 DEF AbsView
    <3>3. Abstract!Succeed(a)
      BY <2>2, <2>5, <2>6, <3>2, OneMoves, ViewFunctions DEF Abstract!Succeed, Abstract!Move
    <3> QED
      BY <2>2, <3>3 DEF Abstract!Next
  <2>8. CASE RecordFailure(c)
    <3>1. failures[a] \in Nat /\ failures[a] < IpFailuresUntilQuarantine
      BY <2>1, <2>2 DEF StrikesInv, StrikesAt, TypeInv, TypeOK, BackendTypeOK
    <3>2. /\ failures'[a] = failures[a] + 1
          /\ pc'[c] = "failed"
          /\ count'[c] = failures[a] + 1
      BY <2>2, <2>8 DEF RecordFailure, IncrementFailures, TypeInv, TypeOK, BackendTypeOK
    <3>3. CASE failures[a] + 1 < IpFailuresUntilQuarantine
      <4>1. Rests(a)'
        BY <2>1, <3>2, <3>3 DEF Rests
      <4>2. absStatus'[a] = "resting" /\ absHolder'[a] = None /\ absStrikes'[a] = failures[a] + 1
        BY <2>2, <3>2, <4>1 DEF AbsView
      <4>3. Abstract!Fail(a)
        BY <2>2, <2>5, <2>6, <3>3, <4>2, OneMoves, ViewFunctions DEF Abstract!Fail, Abstract!Move
      <4> QED
        BY <2>2, <4>3 DEF Abstract!Next
    <3>4. CASE ~(failures[a] + 1 < IpFailuresUntilQuarantine)
      <4>1. failures[a] + 1 = IpFailuresUntilQuarantine
        BY <3>1, <3>4, ThresholdType
      <4>2. StruckOut(a)'
        BY <2>1, <3>2, <4>1, ThresholdType DEF StruckOut
      <4>3. absStatus'[a] = "out" /\ absHolder'[a] = None /\ absStrikes'[a] = failures[a] + 1
        BY <2>2, <4>1, <4>2 DEF AbsView
      <4>4. Abstract!Fail(a)
        BY <2>2, <2>5, <2>6, <3>4, <4>3, OneMoves, ViewFunctions DEF Abstract!Fail, Abstract!Move
      <4> QED
        BY <2>2, <4>4 DEF Abstract!Next
    <3> QED
      BY <3>3, <3>4
  <2> QED
    BY <1>3, <2>7, <2>8
<1>4. CASE RestAfterSuccess(c) \/ RestAfterFailure(c)
  <2> DEFINE a == ip[c]
  <2>1. /\ UNCHANGED <<initKey, phase, nextSeed, pool, failures, quarantine, claimed>>
        /\ pc[c] \in {"succeeded", "failed"}
        /\ pc[c] = "failed" => count[c] < IpFailuresUntilQuarantine
        /\ cooldown' = [cooldown EXCEPT ![Home[c]][a] = MinRequestInterval]
    BY <1>4 DEF RestAfterSuccess, RestAfterFailure, ReturnLater, backendVars, instanceVars,
                sweepVars
  <2>2. a \in Address /\ Rests(a)
    BY <2>1, ReportedPlace DEF Rests
  <2>3. \A d \in Caller : \/ pc'[d] = "idle"
                          \/ ip'[d] = ip[d] /\ pc'[d] = pc[d] /\ count'[d] = count[d]
    BY <1>4 DEF RestAfterSuccess, RestAfterFailure, ReturnLater, TypeInv, TypeOK
  <2>4. ASSUME NEW b \in Address PROVE KeptAt(b)
    <3>1. \A d \in Caller : UsedBy(d, b)' => UsedBy(d, b)
      BY <2>3 DEF UsedBy
    <3>2. StruckOut(b)' => StruckOut(b)
      BY <2>1, <2>3, QuarantineFrame, ClaimFrame DEF StruckOut
    <3>3. Rests(b)' => Rests(b)
      <4>1. b # a /\ Resting(b)' => Resting(b)
        <5>1. \A i \in Instance : b # a => cooldown'[i][b] = cooldown[i][b]
          BY <2>1, <2>2, HomeAssumption DEF TypeInv, TypeOK
        <5> QED
          BY <5>1 DEF Resting, Cooling
      <4> QED
        BY <2>2, <2>3, <4>1 DEF Rests
    <3> QED
      BY <2>1, <3>1, <3>2, <3>3, PoolFrame, SeedFrame DEF KeptAt
  <2> QED
    BY <2>4, KeptView, NothingMoves
<1>5. CASE QuarantineIp(c)
  <2> DEFINE a == ip[c]
  <2>1. /\ UNCHANGED <<initKey, phase, nextSeed, pool, failures, cooldown, claimed>>
        /\ pc[c] = "failed"
        /\ count[c] >= IpFailuresUntilQuarantine
        /\ quarantine' = [quarantine EXCEPT ![a] = QuarantineTime]
    BY <1>5 DEF QuarantineIp, QuarantineAdd, instanceVars, sweepVars
  <2>2. a \in Address /\ StruckOut(a)
    BY <2>1, ReportedPlace DEF StruckOut
  <2>3. \A d \in Caller : \/ pc'[d] = "idle"
                          \/ ip'[d] = ip[d] /\ pc'[d] = pc[d] /\ count'[d] = count[d]
    BY <1>5 DEF QuarantineIp, TypeInv, TypeOK
  <2>4. ASSUME NEW b \in Address PROVE KeptAt(b)
    <3>1. \A d \in Caller : UsedBy(d, b)' => UsedBy(d, b)
      BY <2>3 DEF UsedBy
    <3>2. StruckOut(b)' => StruckOut(b)
      <4>1. b # a /\ Listed(b)' => Listed(b)
        BY <2>1, <2>2 DEF Listed, TypeInv, TypeOK, BackendTypeOK
      <4> QED
        BY <2>1, <2>2, <2>3, <4>1, ClaimFrame DEF StruckOut
    <3>3. Rests(b)' => Rests(b)
      BY <2>1, <2>3, CooldownFrame DEF Rests
    <3> QED
      BY <2>1, <3>1, <3>2, <3>3, PoolFrame, SeedFrame DEF KeptAt
  <2> QED
    BY <2>4, KeptView, NothingMoves
<1> QED
  BY <1>1, <1>2, <1>3, <1>4, <1>5 DEF CallerStep

LEMMA TickRotates ==
    ASSUME RotInv, AbsView', NoneDrops, Tick \/ UNCHANGED vars
    PROVE  UNCHANGED Abstract!vars
<1> USE DEF RotInv, HolderInv, NoneDrops
<1>1. UNCHANGED <<initKey, phase, nextSeed, pool, failures, pc, ip, count, claimed>>
  BY DEF Tick, vars, backendVars, instanceVars, callerVars, sweepVars
<1>2. ASSUME NEW b \in Address PROVE KeptAt(b)
  <2>1. Resting(b)' => Resting(b)
    BY DEF Tick, Elapse, Elapsed, vars, Resting, Cooling, NoTask, TypeInv, TypeOK
  <2>2. Listed(b)' => Listed(b)
    BY DEF Tick, Elapse, QuarantineElapses, Elapsed, vars, backendVars, Listed, NoEntry,
           TypeInv, TypeOK, BackendTypeOK
  <2>3. /\ \A d \in Caller : UsedBy(d, b)' => UsedBy(d, b)
        /\ StruckOut(b)' => StruckOut(b)
        /\ Rests(b)' => Rests(b)
    BY <1>1, <2>1, <2>2, HandsKept, ClaimFrame
  <2> QED
    BY <1>1, <2>3, PoolFrame, SeedFrame DEF KeptAt
<1> QED
  BY <1>2, KeptView, NothingMoves

LEMMA InitRotates == Init => Abstract!Init
<1> SUFFICES ASSUME Init PROVE Abstract!Init
  OBVIOUS
<1>1. PlaceInv /\ AbsView
  BY InitPlaceInv, View DEF PlaceInv
<1>2. \A a \in Address : Unseeded(a) /\ failures[a] = 0
  BY DEF Init, BackendInit, Unseeded, Initialised
<1>3. \A a \in Address : absStatus[a] = "outside" /\ absHolder[a] = None /\ absStrikes[a] = 0
  <2> SUFFICES ASSUME NEW a \in Address
               PROVE  absStatus[a] = "outside" /\ absHolder[a] = None /\ absStrikes[a] = 0
    OBVIOUS
  <2>1. absStatus[a] = "outside" /\ absHolder[a] = None
    BY <1>1, <1>2 DEF AbsView
  <2>2. absStrikes[a] = 0
    BY <1>1, <1>2, <2>1 DEF AbsView
  <2> QED
    BY <2>1, <2>2
<1> QED
  BY <1>3, ViewFunctions DEF Abstract!Init

(* The pool implements Rotation: whatever the number of instances, callers  *)
(* and addresses, each call of pool.py into the storage is one step of the  *)
(* abstract rotation or none.                                               *)
THEOREM PoolImplementsRotation == Spec => ImplementsRotation
<1>1. RotInv /\ AbsView' /\ NoneDrops /\ [Next]_vars => [Abstract!Next]_Abstract!vars
  BY InstanceRotates, CallerRotates, TickRotates DEF Next
<1>2. PlaceInv /\ StrikesInv => RotInv
  BY View DEF RotInv, PlaceInv
<1>4. PlaceInv' => NoneDrops
  BY DEF PlaceInv, NoneLost, NoneDrops, Lost, Carried
<1>3. RotInv => AbsView
  BY DEF RotInv
<1> QED
  BY <1>1, <1>2, <1>3, <1>4, InitRotates, StrikesInvariant, PTL
     DEF Spec, ImplementsRotation, Abstract!Spec
=============================================================================
