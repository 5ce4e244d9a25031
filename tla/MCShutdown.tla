----------------------------- MODULE MCShutdown -----------------------------
(* Shutdown on a small instance.                                           *)
EXTENDS Shutdown, TLC

CONSTANT e3

(* A buffered event is taken by a worker, however many of them panic, as   *)
(* long as one has restarts left and the stop is not forced: the select    *)
(* loop and the restarts of worker.go, checked for one event of the three, *)
(* which are alike.                                                        *)
NoStarvation == Taken(e3)
=============================================================================
