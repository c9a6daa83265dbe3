-------------------------- MODULE ProxyServerProofs --------------------------
(***************************************************************************)
(* Proofs about ProxyServer: requests and tunnels share one pool, a tunnel *)
(* that leaves its address behind loses it, and nothing else does; and a   *)
(* tunnel's client waits for its attempts, each of max_queue_wait.         *)
(***************************************************************************)
EXTENDS ProxyServer, TargetManagerProofs

LEMMA TunnelStepKinds ==
    ASSUME NEW t \in Tunnel, TunnelStep(t)
    PROVE  [Next]_vars \/ ConfirmFails(t)
<1>1. t \in Caller
  BY TunnelAssumption
<1>2. CASE Connect(t) \/ DialSucceeds(t) \/ Confirmed(t)
  BY <1>2 DEF Connect, DialSucceeds, Confirmed
<1>3. CASE TunnelAcquire(t) \/ TunnelPop(t) \/ TunnelNoIp(t) \/ DialFails(t)
           \/ DialFailureReported(t) \/ RelayEnds(t) \/ TunnelCloses(t)
  <2>1. CallerStep(t)
    BY <1>3 DEF TunnelAcquire, TunnelPop, TunnelNoIp, DialFails, DialFailureReported,
                RelayEnds, TunnelCloses, CallerStep
  <2> QED
    BY <1>1, <2>1 DEF Next
<1> QED
  BY <1>2, <1>3 DEF TunnelStep

LEMMA ServerStepKinds ==
    ASSUME TypeInv, [PSNext]_psVars
    PROVE  \/ [Next]_vars /\ leaked' = leaked
           \/ \E t \in Tunnel : ConfirmFails(t)
<1>1. CASE ManagerStep
  <2>1. [TMNext]_tmVars
    BY <1>1 DEF ManagerStep, TMNext
  <2> QED
    BY <1>1, <2>1, ManagerStepIsPoolStep DEF ManagerStep, tunnelVars
<1>2. ASSUME NEW t \in Tunnel, TunnelStep(t), ~ConfirmFails(t)
      PROVE  [Next]_vars /\ leaked' = leaked
  <2>1. leaked' = leaked
    BY <1>2 DEF TunnelStep, Connect, TunnelAcquire, TunnelPop, TunnelNoIp, DialSucceeds,
                DialFails, DialFailureReported, Confirmed, RelayEnds, TunnelCloses,
                tunnelVars
  <2> QED
    BY <1>2, <2>1, TunnelStepKinds
<1>3. CASE PSTick
  BY <1>3, ElapsesIsPoolStep DEF PSTick
<1>4. CASE UNCHANGED psVars
  BY <1>4 DEF psVars, tmVars, tunnelVars
<1> QED
  BY <1>1, <1>2, <1>3, <1>4 DEF PSNext

----------------------------------------------------------------------------
(* The client of a confirmed tunnel is gone: its handler's address falls    *)
(* out of the rotation, every other one stays where it is.                  *)
LEMMA ConfirmLoses ==
    ASSUME HolderInv, NEW t \in Tunnel, ConfirmFails(t)
    PROVE  HolderInv' /\ \A a \in Address : Lost(a)' => Lost(a) \/ a \in leaked'
<1> USE DEF HolderInv
<1>1. /\ UNCHANGED <<initKey, pool, failures, quarantine, phase, nextSeed, count, cooldown,
                     claimed, releasing, sinceUse>>
      /\ pc' = [pc EXCEPT ![t] = "idle"]
      /\ ip' = [ip EXCEPT ![t] = None]
      /\ leaked' = leaked \cup {ip[t]}
  BY DEF ConfirmFails, backendVars, instanceVars, sweepVars
<1>2. t \in Caller
  BY TunnelAssumption
<1>3. TypeInv'
  BY <1>1, <1>2 DEF TypeInv, TypeOK, BackendTypeOK, HasAddress, CallerState
<1>4. \A c \in Caller, b \in Address : /\ Holds(c, b)' => Holds(c, b)
                                       /\ Holds(c, b) => Holds(c, b)' \/ b = ip[t]
  BY <1>1, <1>2 DEF Holds, TypeInv, TypeOK
<1>5. \A b \in Address : /\ Leased(b)' => Leased(b)
                         /\ Leased(b) => Leased(b)' \/ b = ip[t]
  BY <1>4 DEF Leased
<1>6. SeededOnce' /\ ReleasesClaimed'
  BY <1>1 DEF SeededOnce, ReleasesClaimed, Initialised
<1>7. OneHolder'
  BY <1>1, <1>4, <1>5, PoolFrame, SeedFrame, CooldownFrame, QuarantineFrame, ClaimFrame
     DEF OneHolder, NoDuplicates, OnePlace
<1>8. \A a \in Address : Lost(a)' => Lost(a) \/ a \in leaked'
  BY <1>1, <1>5, PoolFrame, SeedFrame, CooldownFrame, QuarantineFrame, ClaimFrame
     DEF Lost, Carried
<1> QED
  BY <1>3, <1>6, <1>7, <1>8

LeakInv == HolderInv /\ \A a \in Address : Lost(a) => a \in leaked

LEMMA InitLeakInv == PSInit => LeakInv
<1>1. PSInit => PlaceInv
  BY InitPlaceInv DEF PSInit, TMInit
<1> QED
  BY <1>1 DEF PlaceInv, NoneLost, LeakInv, Lost, Carried

LEMMA NextLeakInv == LeakInv /\ [PSNext]_psVars => LeakInv'
<1> SUFFICES ASSUME LeakInv, [PSNext]_psVars PROVE LeakInv'
  OBVIOUS
<1>1. CASE [Next]_vars /\ leaked' = leaked
  BY <1>1, NextHolderInv DEF LeakInv, NothingLost
<1>2. ASSUME NEW t \in Tunnel, ConfirmFails(t) PROVE LeakInv'
  <2>1. leaked \subseteq leaked'
    BY <1>2 DEF ConfirmFails
  <2> QED
    BY <1>2, <2>1, ConfirmLoses DEF LeakInv
<1> QED
  BY <1>1, <1>2, ServerStepKinds DEF LeakInv, HolderInv

LEMMA LeakInvariant == PSSpec => []LeakInv
  BY InitLeakInv, NextLeakInv, PTL DEF PSSpec

(* Requests, which get their addresses from the dispatcher, and tunnels,    *)
(* which take theirs from the pool themselves, never have the same one.     *)
THEOREM ServerOneHolder == PSSpec => []OneHolder
<1>1. LeakInv => OneHolder
  BY DEF LeakInv, HolderInv
<1> QED
  BY <1>1, LeakInvariant, PTL

(* _handle_connect gives back or reports every address it takes, but for    *)
(* the one it has when the client does not take its 200; and the requests   *)
(* beside the tunnels lose none.                                            *)
THEOREM OnlyLeakIsConfirmAlways == PSSpec => []OnlyLeakIsConfirm
<1>1. LeakInv => OnlyLeakIsConfirm
  BY DEF LeakInv, OnlyLeakIsConfirm, Lost, Carried
<1> QED
  BY <1>1, LeakInvariant, PTL

----------------------------------------------------------------------------
(* A tunnel's client has waited TunnelBudget for each attempt that failed   *)
(* and, of the one that goes on, what its pop has used up.                  *)

\* the wait that n attempts may take
Allowance(n) == n * TunnelBudget

LEMMA AllowanceSteps ==
    ASSUME NEW n \in Nat
    PROVE  /\ Allowance(n) \in Nat
           /\ Allowance(n + 1) \in Nat
           /\ Allowance(n + 1) = Allowance(n) + TunnelBudget
           /\ Allowance(n) <= Allowance(n + 1)
<1>1. n * TunnelBudget \in Nat /\ (n + 1) * TunnelBudget = n * TunnelBudget + TunnelBudget
  BY TunnelAssumption
<1> QED
  BY <1>1, TunnelAssumption DEF Allowance

LEMMA AllowanceGrows ==
    ASSUME NEW m \in Nat, NEW n \in Nat, m <= n PROVE Allowance(m) <= Allowance(n)
<1> PICK d \in Nat : n = m + d
  <2>1. n - m \in Nat /\ n = m + (n - m)
    OBVIOUS
  <2> QED
    BY <2>1
<1>1. n * TunnelBudget = m * TunnelBudget + d * TunnelBudget
  BY TunnelAssumption
<1>2. d * TunnelBudget \in Nat /\ m * TunnelBudget \in Nat
  BY TunnelAssumption
<1> QED
  BY <1>1, <1>2 DEF Allowance

TunnelTypes ==
    /\ stage \in [Tunnel -> TunnelStage]
    /\ attempt \in [Tunnel -> 0 .. NumRetries]
    /\ tunnelLeft \in [Tunnel -> Nat]
    /\ waited \in [Tunnel -> Nat]

WaitsWithin(t) ==
    /\ stage[t] = "none" => attempt[t] = 0 /\ waited[t] = 0
    /\ stage[t] = "loop" => waited[t] <= Allowance(attempt[t])
    /\ stage[t] = "acquiring" => waited[t] + tunnelLeft[t] <= Allowance(attempt[t] + 1)
    /\ waited[t] <= Allowance(attempt[t] + 1)

WaitInv == TunnelTypes /\ \A t \in Tunnel : WaitsWithin(t)

\* a step of one tunnel leaves the others alone
LEMMA TunnelAlone ==
    ASSUME WaitInv, NEW t \in Tunnel, TunnelStep(t)
    PROVE  \A u \in Tunnel \ {t} : /\ stage'[u] = stage[u]
                                   /\ attempt'[u] = attempt[u]
                                   /\ tunnelLeft'[u] = tunnelLeft[u]
                                   /\ waited'[u] = waited[u]
BY DEF TunnelStep, Connect, TunnelAcquire, TunnelPop, TunnelNoIp, DialSucceeds, DialFails,
       DialFailureReported, Confirmed, ConfirmFails, RelayEnds, TunnelCloses, Goto, Leave,
       tunnelVars, WaitInv, TunnelTypes

LEMMA TunnelWaits ==
    ASSUME WaitInv, NEW t \in Tunnel, TunnelStep(t) PROVE TunnelTypes' /\ WaitsWithin(t)'
<1> USE TunnelAssumption, RequestAssumption DEF WaitInv, TunnelTypes, TunnelStage
<1>a. attempt[t] \in Nat /\ attempt[t] + 1 \in Nat
  OBVIOUS
<1>b. /\ Allowance(attempt[t]) \in Nat
      /\ Allowance(attempt[t] + 1) = Allowance(attempt[t]) + TunnelBudget
  BY <1>a, AllowanceSteps
<1>c. Allowance(0) = 0 /\ Allowance(0 + 1) \in Nat
  BY AllowanceSteps DEF Allowance
<1>1. CASE Connect(t)
  BY <1>1, <1>b, <1>c DEF Connect, Goto, WaitsWithin
<1>2. CASE TunnelAcquire(t)
  BY <1>2, <1>b DEF TunnelAcquire, Goto, WaitsWithin
<1>3. CASE TunnelPop(t)
  BY <1>3, <1>b DEF TunnelPop, Goto, WaitsWithin
<1>4. CASE TunnelNoIp(t)
  BY <1>4, <1>c DEF TunnelNoIp, Leave, Goto, WaitsWithin
<1>5. CASE DialSucceeds(t)
  BY <1>5, <1>b DEF DialSucceeds, Goto, WaitsWithin
<1>6. CASE DialFails(t) \/ RelayEnds(t)
  BY <1>6 DEF DialFails, RelayEnds, tunnelVars, WaitsWithin
<1>7. CASE DialFailureReported(t)
  <2>1. CASE attempt[t] < NumRetries
    <3>1. /\ stage' = [stage EXCEPT ![t] = "loop"]
          /\ attempt' = [attempt EXCEPT ![t] = @ + 1]
          /\ UNCHANGED <<waited, tunnelLeft>>
      BY <1>7, <2>1 DEF DialFailureReported, Goto
    <3>2. stage'[t] = "loop" /\ attempt'[t] = attempt[t] + 1 /\ waited'[t] = waited[t]
      BY <3>1
    <3>3. waited'[t] <= Allowance(attempt'[t]) /\ waited'[t] <= Allowance(attempt'[t] + 1)
      <4>1. /\ Allowance(attempt[t] + 1) \in Nat
            /\ Allowance(attempt[t] + 1 + 1) \in Nat
            /\ Allowance(attempt[t] + 1) <= Allowance(attempt[t] + 1 + 1)
        BY <1>a, AllowanceSteps
      <4>2. waited[t] \in Nat /\ waited[t] <= Allowance(attempt[t] + 1)
        BY DEF WaitsWithin
      <4> QED
        BY <3>2, <4>1, <4>2
    <3>4. WaitsWithin(t)'
      BY <3>2, <3>3 DEF WaitsWithin
    <3>5. TunnelTypes'
      BY <2>1, <3>1
    <3> QED
      BY <3>4, <3>5
  <2>2. CASE ~(attempt[t] < NumRetries)
    <3>1. Leave(t) /\ tunnelLeft' = tunnelLeft
      BY <1>7, <2>2 DEF DialFailureReported
    <3> QED
      BY <3>1, <1>c DEF Leave, Goto, WaitsWithin
  <2> QED
    BY <2>1, <2>2
<1>8. CASE Confirmed(t)
  BY <1>8, <1>b DEF Confirmed, Goto, WaitsWithin
<1>9. CASE ConfirmFails(t)
  BY <1>9, <1>c DEF ConfirmFails, Leave, Goto, WaitsWithin
<1>10. CASE TunnelCloses(t)
  BY <1>10, <1>c DEF TunnelCloses, Leave, Goto, WaitsWithin
<1> QED
  BY <1>1, <1>2, <1>3, <1>4, <1>5, <1>6, <1>7, <1>8, <1>9, <1>10 DEF TunnelStep

LEMMA TickWaits == ASSUME WaitInv, PSTick PROVE WaitInv'
<1> USE DEF WaitInv, TunnelTypes
<1>1. /\ stage' = stage /\ attempt' = attempt
      /\ tunnelLeft' = [t \in Tunnel |-> Elapsed(tunnelLeft[t])]
      /\ waited' = [t \in Tunnel |-> IF stage[t] = "acquiring" THEN waited[t] + 1 ELSE waited[t]]
  BY DEF PSTick
<1>2. ASSUME NEW t \in Tunnel, stage[t] = "acquiring"
      PROVE  tunnelLeft'[t] = tunnelLeft[t] - 1 /\ waited'[t] = waited[t] + 1
                /\ tunnelLeft'[t] \in Nat
  BY <1>1, <1>2 DEF PSTick, Elapsed
<1>3. TunnelTypes'
  BY <1>1 DEF Elapsed
<1>4. ASSUME NEW t \in Tunnel PROVE WaitsWithin(t)'
  <2>1. Allowance(attempt[t] + 1) \in Nat
    <3>1. attempt[t] \in Nat
      BY RequestAssumption
    <3> QED
      BY <3>1, AllowanceSteps
  <2> QED
    BY <1>1, <1>2, <2>1 DEF WaitsWithin
<1> QED
  BY <1>3, <1>4

LEMMA NextWaitInv == WaitInv /\ [PSNext]_psVars => WaitInv'
<1> SUFFICES ASSUME WaitInv, [PSNext]_psVars PROVE WaitInv'
  OBVIOUS
<1>1. ASSUME NEW t \in Tunnel, TunnelStep(t) PROVE WaitInv'
  BY <1>1, TunnelAlone, TunnelWaits DEF WaitInv, WaitsWithin
<1>2. CASE ManagerStep \/ UNCHANGED psVars
  BY <1>2 DEF ManagerStep, psVars, tunnelVars, WaitInv, TunnelTypes, WaitsWithin
<1> QED
  BY <1>1, <1>2, TickWaits DEF PSNext

(* However often its attempts fail, a CONNECT client is kept waiting for    *)
(* addresses max_queue_wait per attempt, num_retries + 1 times at most.     *)
THEOREM TunnelWaitBoundedAlways == PSSpec => []TunnelWaitBounded
<1>1. PSInit => WaitInv
  BY AllowanceSteps, RequestAssumption
     DEF PSInit, WaitInv, TunnelTypes, TunnelStage, WaitsWithin, Allowance
<1>2. WaitInv => TunnelWaitBounded
  <2> SUFFICES ASSUME WaitInv, NEW t \in Tunnel
               PROVE  waited[t] <= Allowance(NumRetries + 1)
    BY DEF TunnelWaitBounded, Allowance
  <2>1. attempt[t] + 1 \in Nat /\ NumRetries + 1 \in Nat /\ attempt[t] + 1 <= NumRetries + 1
    BY RequestAssumption DEF WaitInv, TunnelTypes
  <2>2. Allowance(attempt[t] + 1) <= Allowance(NumRetries + 1)
    BY <2>1, AllowanceGrows
  <2>3. Allowance(attempt[t] + 1) \in Int /\ Allowance(NumRetries + 1) \in Int
        /\ waited[t] \in Int /\ waited[t] <= Allowance(attempt[t] + 1)
    BY <2>1, TunnelAssumption DEF Allowance, WaitInv, TunnelTypes, WaitsWithin
  <2> QED
    BY <2>2, <2>3
<1> QED
  BY <1>1, <1>2, NextWaitInv, PTL DEF PSSpec
=============================================================================
