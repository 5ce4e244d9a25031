---------------------------- MODULE MCPipeline ----------------------------
(* Pipeline with ids given as a function over the requests.                *)
EXTENDS Pipeline, TLC

(* Every request has an id of its own.                                     *)
OwnIds == [m \in Msgs |-> m]

(* The requests, the handlers, the workers and the sinks are alike.        *)
PipelineSymmetry == Permutations(Msgs) \cup Permutations(Handlers)
                    \cup Permutations(Workers) \cup Permutations(Sinks)

(* The requests differ in name only: one of them is the first in the log.  *)
(* (The fair actions of the replays never append the first record.)        *)
InOrder == \A r \in wal : r.seq = 1 => r.msg = CHOOSE m \in Msgs : TRUE

(* Next, with the requests in that order.                                  *)
OrderedNext ==
    \/ Boot \/ Recover \/ StartWorkers \/ Crash \/ Drain
    \/ \E p \in Pushers :
          \/ PushStep(p)
          \/ \E m \in Msgs : \/ Refuse(p, m)
                             \/ (LogAppend(p, m) \/ AppendFail(p, m)) /\ InOrder'
    \/ \E w \in Workers : WorkerStep(w)

OrderedSpec == Init /\ [][OrderedNext]_vars /\ Fairness
=============================================================================
