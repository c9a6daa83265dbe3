--------------------------- MODULE IPPoolRotation ---------------------------
(***************************************************************************)
(* The pool seen as the Rotation its callers rely on.  A use ends with the *)
(* backend call that changes the failure counter; what the pool, the       *)
(* cooldown tasks and the sweeps still have to do afterwards is inside the *)
(* abstract states "resting" and "out".                                    *)
(***************************************************************************)
EXTENDS IPPool

Reported(a) == \E c \in Caller : pc[c] \in {"succeeded", "failed"} /\ ip[c] = a

\* struck out: in quarantine, on the way into it, or being released
StruckOut(a) ==
    \/ Listed(a)
    \/ Claimed(a)
    \/ \E c \in Caller : /\ pc[c] = "failed" /\ ip[c] = a
                         /\ count[c] >= IpFailuresUntilQuarantine

absStatus ==
    [a \in Address |->
       CASE Unseeded(a) -> "outside"
         [] InPool(a)   -> "ready"
         [] InUse(a)    -> "leased"
         [] StruckOut(a) -> "out"
         [] OTHER       -> "resting"]

absHolder ==
    [a \in Address |->
       IF InUse(a) THEN CHOOSE c \in Caller : pc[c] = "holding" /\ ip[c] = a
                   ELSE None]

\* a sweep resets the counter before the address is back: the strikes count
\* until it is
absStrikes ==
    [a \in Address |->
       IF StruckOut(a) THEN IpFailuresUntilQuarantine ELSE failures[a]]

Abstract == INSTANCE Rotation WITH
    NoHolder <- None,
    StrikeLimit <- IpFailuresUntilQuarantine,
    status <- absStatus,
    holder <- absHolder,
    strikes <- absStrikes

(* Every instance, sweep and caller, interleaved call by call at the shared *)
(* storage, together still run one rotation: no interleaving hands an       *)
(* address to two callers, releases it twice, miscounts its failures or     *)
(* lets it skip the quarantine.                                             *)
ImplementsRotation == Abstract!Spec
=============================================================================
