----------------------------- MODULE MCBreaker -----------------------------
(* Breaker on a small instance.                                            *)
EXTENDS Breaker, TLC
=============================================================================
