------------------------------ MODULE Rotation ------------------------------
(***************************************************************************)
(* What an address pool promises its callers, without queues, tasks,       *)
(* clocks or instances: an address is used by one caller at a time, every  *)
(* use ends in a success or a strike, a success clears the strikes, and an *)
(* address that has drawn StrikeLimit strikes in a row sits out and comes  *)
(* back with none.                                                         *)
(***************************************************************************)
EXTENDS Integers

CONSTANTS
    Address,
    Caller,
    NoHolder,       \* not a caller
    StrikeLimit     \* at least 1

VARIABLES
    status,     \* where each address is in its round
    holder,     \* who uses it, NoHolder when nobody does
    strikes     \* failed uses since the last success or release

vars == <<status, holder, strikes>>

Init ==
    /\ status = [a \in Address |-> "outside"]
    /\ holder = [a \in Address |-> NoHolder]
    /\ strikes = [a \in Address |-> 0]

Move(a, from, to) ==
    /\ status[a] = from
    /\ status' = [status EXCEPT ![a] = to]

Enter(a) ==
    /\ Move(a, "outside", "ready")
    /\ UNCHANGED <<holder, strikes>>

Lease(a, c) ==
    /\ Move(a, "ready", "leased")
    /\ \A b \in Address : holder[b] # c
    /\ holder' = [holder EXCEPT ![a] = c]
    /\ UNCHANGED strikes

Succeed(a) ==
    /\ Move(a, "leased", "resting")
    /\ holder' = [holder EXCEPT ![a] = NoHolder]
    /\ strikes' = [strikes EXCEPT ![a] = 0]

Fail(a) ==
    /\ Move(a, "leased", IF strikes[a] + 1 < StrikeLimit THEN "resting" ELSE "out")
    /\ holder' = [holder EXCEPT ![a] = NoHolder]
    /\ strikes' = [strikes EXCEPT ![a] = @ + 1]

Rested(a) ==
    /\ Move(a, "resting", "ready")
    /\ UNCHANGED <<holder, strikes>>

Release(a) ==
    /\ Move(a, "out", "ready")
    /\ strikes' = [strikes EXCEPT ![a] = 0]
    /\ UNCHANGED holder

Next ==
    \E a \in Address :
        \/ Enter(a)
        \/ \E c \in Caller : Lease(a, c)
        \/ Succeed(a)
        \/ Fail(a)
        \/ Rested(a)
        \/ Release(a)

Spec == Init /\ [][Next]_vars
=============================================================================
