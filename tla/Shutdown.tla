------------------------------ MODULE Shutdown ------------------------------
(***************************************************************************)
(* The life of a running ingestor up to the end of its graceful shutdown   *)
(* (cmd/ingestor/shutdown.go, main.go): request handlers that push into    *)
(* the channel, the workers of WorkerPool that empty it, and the sequence  *)
(* that stops the servers, closes the channel, waits for the workers and,  *)
(* past the deadline, cancels them.                                        *)
(***************************************************************************)
EXTENDS WorkerPool, FiniteSets

CONSTANTS
    HttpHandlers, GrpcHandlers,
    BufferSize  \* ingestor.buffer_size

ASSUME ShutdownAssumption ==
    BufferSize \in Nat /\ IsFiniteSet(Workers) /\ IsFiniteSet(Sinks)

Handlers == HttpHandlers \cup GrpcHandlers

VARIABLES
    stage,    \* of shutdown: "serving", "grpc", "http", "drain", "force", "exit"
    deadline, \* the shutdown context is done
    hpc,      \* each handler: "idle"; past the ingestEnabled check, "push"; in
              \* handleDLQReplay, "repush" or, between two entries, "replay"
    hev,      \* the event it pushes
    accepted, \* events a client was told are accepted
    sent      \* events that were sent

svars == <<stage, deadline, hpc, hev, accepted, sent>>
vars  == <<wvars, svars>>

Init == /\ WInit
        /\ stage = "serving" /\ deadline = FALSE
        /\ hpc = [h \in Handlers |-> "idle"] /\ hev = [h \in Handlers |-> {}]
        /\ accepted = {} /\ sent = {}

-----------------------------------------------------------------------------
(* Handler h is about to push e.                                           *)
Begin(h, e, from, to) == /\ hpc[h] = from /\ e \notin sent
                         /\ sent' = sent \cup {e}
                         /\ hpc' = [hpc EXCEPT ![h] = to]
                         /\ hev' = [hev EXCEPT ![h] = {e}]
                         /\ UNCHANGED <<wvars, stage, deadline, accepted>>

(* A request passes the ingestEnabled check (and, over HTTP, goes on to    *)
(* read its body).  Ingest is disabled as soon as shutdown begins.         *)
Request(h, e) == stage = "serving" /\ Begin(h, e, "idle", "push")

(* handleDLQReplay has drained the dead-letter queue, or is done with its  *)
(* entries.  It does not look at ingestEnabled: only the end of the HTTP   *)
(* server keeps a replay from beginning, and nothing ends one under way.   *)
Replay(h) == /\ \/ /\ hpc[h] = "idle" /\ stage \in {"serving", "grpc"}
                   /\ hpc' = [hpc EXCEPT ![h] = "replay"]
                \/ /\ hpc[h] = "replay" /\ stage # "exit"
                   /\ hpc' = [hpc EXCEPT ![h] = "idle"]
             /\ UNCHANGED <<wvars, stage, deadline, hev, accepted, sent>>

(* handleDLQReplay goes on to the next entry.                              *)
ReplayEntry(h, e) == stage # "exit" /\ Begin(h, e, "replay", "repush")

(* Push returns; the process is gone once shutdown has.                    *)
Reply(h) == /\ hpc[h] \in {"push", "repush"} /\ stage # "exit"
            /\ hpc' = [hpc EXCEPT ![h] = IF hpc[h] = "repush" /\ ~closed
                                         THEN "replay" ELSE "idle"]
            /\ hev' = [hev EXCEPT ![h] = {}]
            /\ UNCHANGED <<closed, cancelled, wpc, batch, flushing, panics, outcome,
                           stage, deadline, sent>>

(* ChannelBuffer.Push finds room.                                          *)
Accept(h) == /\ ~closed /\ Len(buffer) < BufferSize
             /\ Reply(h)
             /\ \E e \in hev[h] : /\ buffer' = Append(buffer, e)
                                  /\ accepted' = accepted \cup {e}

(* ChannelBuffer.Push finds the channel full, or closed, in which case the *)
(* send panics and net/http recovers, which ends the handler.              *)
Drop(h) == /\ closed \/ Len(buffer) >= BufferSize
           /\ Reply(h)
           /\ UNCHANGED <<buffer, accepted>>

-----------------------------------------------------------------------------
(* The shutdown sequence moves on.                                         *)
Goto(from, to) == /\ stage = from /\ stage' = to
                  /\ UNCHANGED <<hpc, hev, accepted, sent>>

(* SIGTERM: not ready, ingest disabled, the shutdown timer starts.         *)
Terminate == Goto("serving", "grpc") /\ UNCHANGED <<wvars, deadline>>

(* The shutdown timeout passes.                                            *)
Timeout == /\ stage \notin {"serving", "exit"} /\ ~deadline
           /\ deadline' = TRUE
           /\ UNCHANGED <<wvars, stage, hpc, hev, accepted, sent>>

(* grpc.GracefulStop waits for every call in progress.                     *)
StopGrpc == /\ \A h \in GrpcHandlers : hpc[h] = "idle"
            /\ Goto("grpc", "http")
            /\ UNCHANGED <<wvars, deadline>>

(* Mutant: the channel is closed without waiting for the HTTP handlers.    *)
StopHttp_NoWait == /\ Goto("http", "drain")
                   /\ closed' = TRUE
                   /\ UNCHANGED <<buffer, cancelled, wpc, batch, flushing, panics, outcome,
                                  deadline>>

(* http.Server.Shutdown waits for the requests in progress, or until the   *)
(* deadline; then core.Close closes the channel.                           *)
StopHttp == /\ deadline \/ \A h \in HttpHandlers : hpc[h] = "idle"
            /\ Goto("http", "drain")
            /\ closed' = TRUE
            /\ UNCHANGED <<buffer, cancelled, wpc, batch, flushing, panics, outcome, deadline>>

(* workerWg.Wait returns.                                                  *)
Drained == \A w \in Workers : wpc[w] = "ended"

(* The deadline passes while workers are still busy: forceStop.            *)
ForceStop == /\ deadline
             /\ Goto("drain", "force")
             /\ cancelled' = TRUE
             /\ UNCHANGED <<buffer, closed, wpc, batch, flushing, panics, outcome, deadline>>

(* Every worker has returned: sinks, DLQ and log are closed, in this order.*)
Exit == /\ Drained
        /\ Goto("drain", "exit") \/ Goto("force", "exit")
        /\ UNCHANGED <<wvars, deadline>>

ShutdownStep == StopGrpc \/ StopHttp \/ ForceStop \/ Exit

Next == \/ \E h \in Handlers : Accept(h) \/ Drop(h) \/ \E e \in Events : Request(h, e)
        \/ \E h \in HttpHandlers : Replay(h) \/ \E e \in Events : ReplayEntry(h, e)
        \/ \E w \in Workers : (WorkerStep(w) \/ WorkerFault(w)) /\ UNCHANGED svars
        \/ Terminate \/ Timeout \/ ShutdownStep

Spec == Init /\ [][Next]_vars

(* Handlers, workers and the shutdown sequence keep running (a replay has  *)
(* an end of its entries), the timer of the context fires, and sinks       *)
(* return from Write.  Nothing has to panic, and nobody has to send or to  *)
(* terminate.                                                              *)
Fairness == /\ \A h \in Handlers : WF_vars(Accept(h) \/ Drop(h))
            /\ \A h \in HttpHandlers : WF_vars(hpc[h] = "replay" /\ Replay(h))
            /\ \A w \in Workers : WF_vars(WorkerStep(w) /\ UNCHANGED svars)
            /\ WF_vars(Timeout) /\ WF_vars(ShutdownStep)

FairSpec == Spec /\ Fairness

-----------------------------------------------------------------------------
Pairs == Events \X Sinks

(* Types and bounds: neither channel, batch, attempts of a write nor       *)
(* restarts exceed their limit, and only what failed is dead-lettered.     *)
TypeOK == /\ buffer \in Seq(Events) /\ Len(buffer) <= BufferSize
          /\ closed \in BOOLEAN /\ cancelled \in BOOLEAN
          /\ wpc \in [Workers -> {"select", "write", "backoff", "cooldown", "ended"}]
          /\ batch \in [Workers -> Seq(Events)]
          /\ \A w \in Workers : Len(batch[w]) <= BatchSize
          /\ left \in [Workers -> SUBSET Sinks]
          /\ attempt \in [Workers -> 0..MaxRetries]
          /\ final \in [Workers -> BOOLEAN] /\ expired \in [Workers -> BOOLEAN]
          /\ panics \in [Workers -> 0..MaxRestarts]
          /\ delivered \subseteq Pairs /\ failed \subseteq Pairs
          /\ dead \subseteq failed /\ unwritten \subseteq failed
          /\ abandoned \subseteq Events
          /\ stage \in {"serving", "grpc", "http", "drain", "force", "exit"}
          /\ deadline \in BOOLEAN
          /\ hpc \in [Handlers -> {"idle", "push", "replay", "repush"}]
          /\ hev \in [Handlers -> SUBSET Events]
          /\ accepted \subseteq Events /\ sent \subseteq Events

(* Some worker has restarts left.                                          *)
Manned == \E w \in Workers : ~Exhausted(w)

(* An ordered drain: a shutdown that was not forced leaves nothing in the  *)
(* buffer, and every accepted event went, for every sink, to the sink or   *)
(* through the give-up path, unless a panic took its batch.                *)
DrainedOnExit ==
    stage = "exit" /\ ~cancelled /\ Manned =>
        /\ buffer = <<>>
        /\ \A e \in accepted \ abandoned : \A s \in Sinks : <<e, s>> \in delivered \cup failed

(* The channel is closed under a handler only when the deadline cut the    *)
(* wait for HTTP requests short; never under a gRPC call.                  *)
ClosedWhenQuiet ==
    closed => \A h \in Handlers : hpc[h] # "idle" => deadline /\ h \in HttpHandlers

(* Shutdown comes to an end, whatever the sinks do.                        *)
ShutdownEnds == stage = "grpc" ~> stage = "exit"

(* A buffered event is taken by a worker, however many of them panic, as   *)
(* long as one has restarts left and the stop is not forced.               *)
Taken(e) == e \in accepted ~> \/ \A i \in 1..Len(buffer) : buffer[i] # e
                              \/ ~Manned \/ cancelled

(* An event a sink did not take after all retries is in the dead-letter    *)
(* queue, unless the file did not take its entry, or the flush ran out of  *)
(* time.  Until a forced stop cancels the workers, that happens only in    *)
(* the last batch of a worker whose drainFlushTimeout has passed, so never *)
(* before the channel is closed; and an entry that cannot be written keeps *)
(* no other one of its batch out of the queue.                             *)
FailedIsDeadLettered ==
    LET missed == {p \in failed \ (dead \cup unwritten) : p[1] \notin abandoned}
        late   == {w \in Workers : expired[w]}
    IN  /\ ~closed => failed \subseteq dead \cup unwritten
        /\ ~cancelled =>
             Cardinality(missed) <= BatchSize * Cardinality(Sinks) * Cardinality(late)
=============================================================================
