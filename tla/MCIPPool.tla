------------------------------ MODULE MCIPPool ------------------------------
(* Small instances of IPPool for TLC. *)
EXTENDS IPPoolRotation, TLC

CONSTANTS i1, i2, c1, c2, c3, a1, a2, a3

\* c1 and c2 in one instance, c3 in the other
TwoInstances == c1 :> i1 @@ c2 :> i1 @@ c3 :> i2
OneEach == c1 :> i1 @@ c2 :> i2

ListOfTwo == <<a1, a2>>
=============================================================================
