---------------------------- MODULE LossyRotation ----------------------------
(***************************************************************************)
(* The Rotation that a deployment of processes which stop, die and meet    *)
(* failing commands can promise: at any moment some addresses may drop out *)
(* for good.  It is still a Rotation for all the others: a fault never     *)
(* hands an address to a second user, and what is gone stays gone.         *)
(***************************************************************************)
EXTENDS Rotation

Lose(lost) ==
    /\ lost # {}
    /\ \A a \in lost : status[a] # "gone"
    /\ status' = [a \in Address |-> IF a \in lost THEN "gone" ELSE status[a]]
    /\ holder' = [a \in Address |-> IF a \in lost THEN NoHolder ELSE holder[a]]
    /\ strikes' = [a \in Address |-> IF a \in lost THEN 0 ELSE strikes[a]]

LossyNext == Next \/ \E lost \in SUBSET Address : Lose(lost)

LossySpec == Init /\ [][LossyNext]_vars
=============================================================================
