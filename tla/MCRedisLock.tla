------------------------------ MODULE MCRedisLock ------------------------------
(***************************************************************************)
(* Instances of RedisLock for TLC.                                         *)
(***************************************************************************)
EXTENDS RedisLock, TLC

CONSTANTS p1, p2, p3
===============================================================================
