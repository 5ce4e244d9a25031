--------------------------- MODULE MCHybridBuffer ---------------------------
(* HybridBuffer on four events.                                            *)
EXTENDS HybridBuffer

CONSTANTS e1, e2, e3, e4

(* Events are alike, so they are passed to Push in this order without loss *)
(* of generality.                                                          *)
InOrder == \A i \in 2..4 : LET e == <<e1, e2, e3, e4>>
                           IN  e[i] \in offered => e[i - 1] \in offered

(* Next, with the events in that order.                                    *)
OrderedNext == \/ \E p \in Pushers : PushStep(p) \/ \E e \in Events : Look(p, e) /\ InOrder'
               \/ PumpStep \/ Consume \/ Close \/ Crash \/ Start

OrderedSpec == Init /\ [][OrderedNext]_vars /\ Fairness

(* A spilled event that no torn frame precedes reaches the workers, unless *)
(* the process dies or is closed first, or a failed compaction overwrites  *)
(* unread frames: the pump of hybrid.go.  Checked for the second event,    *)
(* which is among the first to spill, and for the last.                    *)
SpillDrains == \A e \in {e2, e4} : Drains(e)
=============================================================================
