----------------------------- MODULE ProxyServer -----------------------------
(***************************************************************************)
(* CONNECT tunnels beside the HTTP requests of TargetManager: class        *)
(* ProxyServer, _handle_connect.  A tunnel handler takes addresses from    *)
(* the same pool without the queue and the dispatcher, up to NumRetries+1  *)
(* of them, and reports each one itself.  The tunnel keeps its address     *)
(* until the relay ends.                                                   *)
(***************************************************************************)
EXTENDS TargetManager

CONSTANTS
    Tunnel,         \* the callers that are CONNECT handlers
    TunnelBudget    \* how long its pop_ip blocks: max_queue_wait, as the storage counts

ASSUME TunnelAssumption ==
    /\ Tunnel \subseteq Caller
    /\ Tunnel \cap Request = {}
    /\ TunnelBudget \in Nat

VARIABLES
    stage,          \* what the handler does, see TunnelStage
    attempt,        \* passes of its loop that have failed
    tunnelLeft,     \* time left before its acquire gives up
    waited,         \* history: time its client has waited for an address
    leaked          \* history: addresses a handler left with unreported

tunnelVars == <<stage, attempt, tunnelLeft, waited, leaked>>
psVars == <<tmVars, tunnelVars>>

TunnelStage == {"none",         \* no such client
                "loop",         \* at the head of the for loop
                "acquiring",
                "dialing",      \* open_connection .. the end of the proxy's headers
                "confirming",   \* 200 written, draining
                "relaying"}

PSInit ==
    /\ TMInit
    /\ stage = [t \in Tunnel |-> "none"]
    /\ attempt = [t \in Tunnel |-> 0]
    /\ tunnelLeft = [t \in Tunnel |-> 0]
    /\ waited = [t \in Tunnel |-> 0]
    /\ leaked = {}

\* a tunnel's step leaves the requests and the dispatcher alone
RequestsAlone == UNCHANGED <<dispatchVars, requestVars>>

Goto(t, s) == stage' = [stage EXCEPT ![t] = s]

\* the handler returns, after an answer or because its client is gone
Leave(t) ==
    /\ Goto(t, "none")
    /\ attempt' = [attempt EXCEPT ![t] = 0]
    /\ waited' = [waited EXCEPT ![t] = 0]

----------------------------------------------------------------------------
Connect(t) ==
    /\ stage[t] = "none"
    /\ phase[Home[t]] = "running"
    /\ Goto(t, "loop")
    /\ RequestsAlone
    /\ UNCHANGED <<vars, attempt, tunnelLeft, waited, leaked>>

\* every pass of the loop waits max_queue_wait anew
TunnelAcquire(t) ==
    /\ stage[t] = "loop"
    /\ Acquire(t)
    /\ Goto(t, "acquiring")
    /\ tunnelLeft' = [tunnelLeft EXCEPT ![t] = TunnelBudget]
    /\ RequestsAlone
    /\ UNCHANGED <<attempt, waited, leaked>>

TunnelPop(t) ==
    /\ stage[t] = "acquiring"
    /\ Pop(t)
    /\ Goto(t, "dialing")
    /\ tunnelLeft' = [tunnelLeft EXCEPT ![t] = 0]
    /\ RequestsAlone
    /\ UNCHANGED <<attempt, waited, leaked>>

\* 504 Gateway Timeout
TunnelNoIp(t) ==
    /\ stage[t] = "acquiring"
    /\ tunnelLeft[t] = 0
    /\ AcquireTimeout(t)
    /\ Leave(t)
    /\ RequestsAlone
    /\ UNCHANGED <<tunnelLeft, leaked>>

\* the external proxy answered 200: write 200 to the client
DialSucceeds(t) ==
    /\ stage[t] = "dialing"
    /\ pc[t] = "holding"
    /\ Goto(t, "confirming")
    /\ RequestsAlone
    /\ UNCHANGED <<vars, attempt, tunnelLeft, waited, leaked>>

\* any exception of the attempt: report it
DialFails(t) ==
    /\ stage[t] = "dialing"
    /\ RecordFailure(t)
    /\ RequestsAlone
    /\ UNCHANGED tunnelVars

\* variant: an attempt that fails is not counted
DialFailureUncounted(t) ==
    /\ stage[t] = "dialing"
    /\ RestAfterFailure(t) \/ QuarantineIp(t)
    /\ Goto(t, "loop")
    /\ RequestsAlone
    /\ UNCHANGED <<attempt, tunnelLeft, waited, leaked>>

\* ... and try the next address, or answer 502 after the last one
DialFailureReported(t) ==
    /\ stage[t] = "dialing"
    /\ RestAfterFailure(t) \/ QuarantineIp(t)
    /\ IF attempt[t] < NumRetries
       THEN /\ Goto(t, "loop")
            /\ attempt' = [attempt EXCEPT ![t] = @ + 1]
            /\ UNCHANGED waited
       ELSE Leave(t)
    /\ RequestsAlone
    /\ UNCHANGED <<tunnelLeft, leaked>>

\* the client has taken the 200
Confirmed(t) ==
    /\ stage[t] = "confirming"
    /\ Goto(t, "relaying")
    /\ RequestsAlone
    /\ UNCHANGED <<vars, attempt, tunnelLeft, waited, leaked>>

\* the client has gone: drain raises outside every try, and the handler is
\* left with the address neither reported nor returned
ConfirmFails(t) ==
    /\ stage[t] = "confirming"
    /\ Leave(t)
    /\ pc' = [pc EXCEPT ![t] = "idle"]
    /\ ip' = [ip EXCEPT ![t] = None]
    /\ leaked' = leaked \cup {ip[t]}
    /\ RequestsAlone
    /\ UNCHANGED <<backendVars, instanceVars, count, cooldown, sweepVars, sinceUse,
                   tunnelLeft>>

\* the relay is over, however it ended: a success
RelayEnds(t) ==
    /\ stage[t] = "relaying"
    /\ RecordSuccess(t)
    /\ RequestsAlone
    /\ UNCHANGED tunnelVars

TunnelCloses(t) ==
    /\ stage[t] = "relaying"
    /\ RestAfterSuccess(t)
    /\ Leave(t)
    /\ RequestsAlone
    /\ UNCHANGED <<tunnelLeft, leaked>>

----------------------------------------------------------------------------
(* Time, with the tunnels' timers and the wait of their clients.            *)
PSTick ==
    /\ LoopsIdle
    /\ \A t \in Tunnel : /\ stage[t] # "loop"
                         /\ ~(stage[t] = "acquiring" /\ tunnelLeft[t] = 0)
    /\ \/ TimeMatters
       \/ \E r \in Request : patience[r] > 0
       \/ \E t \in Tunnel : tunnelLeft[t] > 0
    /\ Elapses
    /\ tunnelLeft' = [t \in Tunnel |-> Elapsed(tunnelLeft[t])]
    /\ waited' = [t \in Tunnel |-> IF stage[t] = "acquiring" THEN waited[t] + 1 ELSE waited[t]]
    /\ UNCHANGED <<stage, attempt, leaked>>

TunnelStep(t) ==
    \/ Connect(t)
    \/ TunnelAcquire(t)
    \/ TunnelPop(t)
    \/ TunnelNoIp(t)
    \/ DialSucceeds(t)
    \/ DialFails(t)
    \/ DialFailureReported(t)
    \/ Confirmed(t)
    \/ ConfirmFails(t)
    \/ RelayEnds(t)
    \/ TunnelCloses(t)

ManagerStep ==
    /\ \/ PoolStep
       \/ \E i \in Instance : DispatcherStep(i)
       \/ \E r \in Request : RequestStep(r)
    /\ UNCHANGED tunnelVars

PSNext ==
    \/ ManagerStep
    \/ \E t \in Tunnel : TunnelStep(t)
    \/ PSTick

PSSpec == PSInit /\ [][PSNext]_psVars

(* The loops run, and every execution ends: the session has a total timeout *)
(* and each call into the pool returns; a tunnel's wait for an address ends *)
(* too.  Nothing makes a client come, or take its 200, or a relay end.      *)
PSFairness ==
    /\ WF_psVars(PSTick)
    /\ \A i \in Instance :
          /\ WF_psVars(InstanceStep(i) /\ UNCHANGED <<dispatchVars, requestVars, tunnelVars>>)
          /\ WF_psVars(DispatcherStep(i) /\ UNCHANGED tunnelVars)
    /\ \A r \in Request :
          /\ WF_psVars(HandlerTimeout(r) /\ UNCHANGED tunnelVars)
          /\ WF_psVars(Report(r) /\ UNCHANGED tunnelVars)
          /\ WF_psVars((FinishSuccess(r) \/ FinishFailure(r)) /\ UNCHANGED tunnelVars)
    /\ \A t \in Tunnel : WF_psVars(TunnelAcquire(t) \/ TunnelPop(t) \/ TunnelNoIp(t))

----------------------------------------------------------------------------
(* Requests and tunnels draw on one pool by two different routes; the one   *)
(* way an address gets lost between them is the unconfirmed 200.  Every     *)
(* other end of a request or a tunnel gives its address back.               *)
OnlyLeakIsConfirm ==
    \A a \in Address :
       \/ Unseeded(a) \/ InPool(a) \/ Leased(a) \/ Resting(a) \/ Listed(a) \/ Claimed(a)
       \/ a \in leaked

(* A CONNECT client waits for addresses max_queue_wait for each of its      *)
(* num_retries + 1 attempts, and no longer.                                 *)
TunnelWaitBounded == \A t \in Tunnel : waited[t] <= (NumRetries + 1) * TunnelBudget
=============================================================================
