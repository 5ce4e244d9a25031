--------------------------- MODULE MCRedisBuffer ---------------------------
(* RedisBuffer on a small instance.                                        *)
EXTENDS RedisBuffer, TLC
=============================================================================
