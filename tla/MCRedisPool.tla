---------------------------- MODULE MCRedisPool ----------------------------
(* Small instances of RedisPool for TLC. *)
EXTENDS RedisPool, TLC

CONSTANTS i1, i2, c1, c2, a1, a2

OneEach == c1 :> i1 @@ c2 :> i2

ListOfTwo == <<a1, a2>>
=============================================================================
