------------------------------ MODULE Pipeline ------------------------------
(***************************************************************************)
(* The path of an event through one ingestor process and its restarts:     *)
(* Service.Push (append to the write-ahead log, note the sequence number   *)
(* in the SeqTracker, hand the event to the channel buffer), the workers   *)
(* that batch, write to every sink and acknowledge or dead-letter, the     *)
(* replay of the log at start-up and of the dead-letter queue on request.  *)
(*                                                                         *)
(* The log is the one of FileWAL without its lossy faults: it is never     *)
(* checkpointed outside the tests, so sequence numbers keep growing over   *)
(* restarts.  Deliveries are what the sinks confirmed.                     *)
(***************************************************************************)
EXTENDS Naturals, Sequences

CONSTANTS
    Msgs,       \* the requests' contents
    Ids,        \* event_id values, chosen by the clients
    IdOf,       \* [Msgs -> Ids]
    Handlers,   \* HTTP and gRPC handler goroutines
    Workers, Sinks,
    BufferSize, \* ingestor.buffer_size
    BatchSize,  \* worker.batch_size
    Tenancy,    \* whether tenant quotas may refuse a Push
    MaxSends, MaxDrains, MaxCrashes, \* bounds on clients, operator and crashes
    MaxErrors   \* bound on the failures of log and dead-letter writes

ASSUME PipelineAssumption ==
    /\ IdOf \in [Msgs -> Ids]
    /\ BufferSize \in Nat /\ BatchSize \in Nat \ {0}
    /\ Tenancy \in BOOLEAN
    /\ "replay" \notin Handlers /\ "admin" \notin Handlers

(* The goroutines that call Service.Push: the request handlers, replayWAL, *)
(* and the handler of /admin/dlq/replay.                                   *)
Pushers == Handlers \cup {"replay", "admin"}

VARIABLES
    \* on disk
    wal,       \* un-acknowledged records of the log
    seq,       \* the last sequence number used
    dlq,       \* events in the dead-letter queue
    \* the process
    phase,     \* "down", "starting", "replaying" or "running"
    todo,      \* replayWAL: recovered records still to push
    drained,   \* DLQ replay: drained events still to push
    ppc, held, \* Service.Push of each pusher: its step, and the record it appended
    tracker,   \* SeqTracker.data; 0 where an id is absent
    buffer,    \* the channel
    wpc, batch, left, ok, \* each worker: its batch, the sinks flush has still to
                          \* write to, and allSucceeded
    \* outside and history
    delivered, \* what each sink confirmed
    accepted,  \* events a client was told are accepted
    dead,      \* events that were put in the dead-letter queue, ever
    parked,    \* events a replay's push or a dead-letter push gave up on, ever
    sends, drains, crashes, errors

log     == <<wal, seq>>
pushing == <<ppc, held>>
working == <<wpc, batch, left, ok>>
bounds  == <<sends, drains, crashes, errors>>
vars == <<log, dlq, phase, todo, drained, pushing, tracker, buffer, working,
          delivered, accepted, dead, parked, bounds>>

Record == [seq : Nat \ {0}, msg : Msgs]

Everywhere(m) == \A s \in Sinks : m \in delivered[s]

(* Goroutines and tables of a process that has just started.               *)
AllPushers(x) == [p \in Pushers |-> x]
AllWorkers(x) == [w \in Workers |-> x]
EmptyTracker  == [i \in Ids |-> 0]

Init == /\ wal = {} /\ seq = 0 /\ dlq = {}
        /\ phase = "down" /\ todo = {} /\ drained = {}
        /\ ppc = AllPushers("idle") /\ held = AllPushers({})
        /\ tracker = EmptyTracker /\ buffer = <<>>
        /\ wpc = AllWorkers("select") /\ batch = AllWorkers(<<>>)
        /\ left = AllWorkers({}) /\ ok = AllWorkers(TRUE)
        /\ delivered = [s \in Sinks |-> {}] /\ accepted = {}
        /\ dead = {} /\ parked = {}
        /\ sends = 0 /\ drains = 0 /\ crashes = 0 /\ errors = 0

-----------------------------------------------------------------------------
(* Start-up and crash.                                                     *)

(* setup, and the two servers' goroutines of run: requests are served from *)
(* here on.                                                                *)
Boot == /\ phase = "down"
        /\ phase' = "starting"
        /\ UNCHANGED <<log, dlq, todo, drained, pushing, tracker, buffer, working,
                       delivered, accepted, dead, parked, bounds>>

(* Mutant: the record with the highest sequence number is not replayed.    *)
Recover_ButLast ==
    /\ phase = "starting"
    /\ phase' = "replaying"
    /\ todo' = {r \in wal : r.seq < seq}
    /\ UNCHANGED <<log, dlq, drained, pushing, tracker, buffer, working,
                   delivered, accepted, dead, parked, bounds>>

(* replayWAL reads the whole log first, whatever requests added to it.     *)
Recover == /\ phase = "starting"
           /\ phase' = "replaying"
           /\ todo' = wal
           /\ UNCHANGED <<log, dlq, drained, pushing, tracker, buffer, working,
                          delivered, accepted, dead, parked, bounds>>

(* The workers start when replayWAL has returned; then /ready says so.     *)
StartWorkers == /\ phase = "replaying" /\ todo = {} /\ ppc["replay"] = "idle"
                /\ phase' = "running"
                /\ UNCHANGED <<log, dlq, todo, drained, pushing, tracker, buffer, working,
                               delivered, accepted, dead, parked, bounds>>

(* The process dies and its memory with it.                                *)
Crash == /\ phase # "down" /\ crashes < MaxCrashes
         /\ phase' = "down" /\ todo' = {} /\ drained' = {}
         /\ ppc' = AllPushers("idle") /\ held' = AllPushers({})
         /\ tracker' = EmptyTracker /\ buffer' = <<>>
         /\ wpc' = AllWorkers("select") /\ batch' = AllWorkers(<<>>)
         /\ left' = AllWorkers({}) /\ ok' = AllWorkers(TRUE)
         /\ crashes' = crashes + 1
         /\ UNCHANGED <<log, dlq, delivered, accepted, dead, parked, sends, drains, errors>>

-----------------------------------------------------------------------------
(* Service.Push                                                            *)

(* Where pusher p gets the event m of its next call from.  A client may    *)
(* send an event again, an accepted one too (its answer may have been      *)
(* lost); recovered records come in log order.                             *)
Source(p, m) ==
    \/ /\ p \in Handlers /\ phase # "down"
       /\ sends < MaxSends
       /\ sends' = sends + 1
       /\ UNCHANGED <<todo, drained>>
    \/ /\ p = "replay"
       /\ \E r \in todo : /\ r.msg = m
                          /\ \A q \in todo : r.seq <= q.seq
                          /\ todo' = todo \ {r}
       /\ UNCHANGED <<drained, sends>>
    \/ /\ p = "admin" /\ m \in drained
       /\ drained' = drained \ {m}
       /\ UNCHANGED <<todo, sends>>

Call(p, m) == /\ ppc[p] = "idle"
              /\ Source(p, m)
              /\ UNCHANGED <<dlq, phase, tracker, buffer, working, delivered, accepted,
                             dead, drains, crashes>>

(* A write to the log or to the dead-letter queue fails.                   *)
DiskError == errors < MaxErrors /\ errors' = errors + 1

(* A replay only logs that its push failed, and goes on to the next event. *)
Park(p, m) == parked' = parked \cup {x \in {m} : p \notin Handlers}

(* tenants.Allow refuses: the caller gets an error and the log nothing.    *)
Refuse(p, m) == Tenancy /\ Call(p, m) /\ Park(p, m) /\ UNCHANGED <<log, pushing, errors>>

(* wal.Append fails: the sequence number is spent, and if it is Sync that  *)
(* failed, the record is in the file.                                      *)
AppendFail(p, m) == /\ DiskError
                    /\ Call(p, m) /\ Park(p, m)
                    /\ seq' = seq + 1
                    /\ wal' \in {wal, wal \cup {[seq |-> seq + 1, msg |-> m]}}
                    /\ UNCHANGED pushing

LogAppend(p, m) == /\ Call(p, m)
                   /\ seq' = seq + 1
                   /\ wal' = wal \cup {[seq |-> seq + 1, msg |-> m]}
                   /\ ppc' = [ppc EXCEPT ![p] = "appended"]
                   /\ held' = [held EXCEPT ![p] = {[seq |-> seq + 1, msg |-> m]}]
                   /\ UNCHANGED <<parked, errors>>

(* tracker.Store, under the event's id.                                    *)
Store(p) == /\ ppc[p] = "appended"
            /\ \E r \in held[p] : tracker' = [tracker EXCEPT ![IdOf[r.msg]] = r.seq]
            /\ ppc' = [ppc EXCEPT ![p] = "stored"]
            /\ UNCHANGED <<log, dlq, phase, todo, drained, held, buffer, working,
                           delivered, accepted, dead, parked, bounds>>

(* Mutant: the channel has no bound.                                       *)
Enqueue_Unbounded(p) ==
    /\ ppc[p] = "stored"
    /\ \E r \in held[p] :
          /\ buffer' = Append(buffer, r.msg)
          /\ accepted' = accepted \cup {m \in {r.msg} : p \in Handlers}
    /\ ppc' = [ppc EXCEPT ![p] = "idle"]
    /\ held' = [held EXCEPT ![p] = {}]
    /\ UNCHANGED <<log, dlq, phase, todo, drained, tracker, working,
                   delivered, dead, parked, bounds>>

(* buf.Push finds room: Push returns nil, and a handler tells its client.  *)
Enqueue(p) == /\ ppc[p] = "stored" /\ Len(buffer) < BufferSize
              /\ \E r \in held[p] :
                    /\ buffer' = Append(buffer, r.msg)
                    /\ accepted' = accepted \cup {m \in {r.msg} : p \in Handlers}
              /\ ppc' = [ppc EXCEPT ![p] = "idle"]
              /\ held' = [held EXCEPT ![p] = {}]
              /\ UNCHANGED <<log, dlq, phase, todo, drained, tracker, working,
                             delivered, dead, parked, bounds>>

(* buf.Push returns ErrBufferFull.                                         *)
Full(p) == /\ ppc[p] = "stored" /\ Len(buffer) >= BufferSize
           /\ ppc' = [ppc EXCEPT ![p] = "full"]
           /\ UNCHANGED <<log, dlq, phase, todo, drained, held, tracker, buffer, working,
                          delivered, accepted, dead, parked, bounds>>

(* Push gives up: the id leaves the tracker, the record stays in the log.  *)
Undo(p) == /\ ppc[p] = "full"
           /\ \E r \in held[p] : /\ tracker' = [tracker EXCEPT ![IdOf[r.msg]] = 0]
                                  /\ Park(p, r.msg)
           /\ ppc' = [ppc EXCEPT ![p] = "idle"]
           /\ held' = [held EXCEPT ![p] = {}]
           /\ UNCHANGED <<log, dlq, phase, todo, drained, buffer, working,
                          delivered, accepted, dead, bounds>>

(* handleDLQReplay empties the queue before it pushes the first event.     *)
Drain == /\ phase # "down" /\ drains < MaxDrains
         /\ dlq # {} /\ drained = {} /\ ppc["admin"] = "idle"
         /\ drained' = dlq /\ dlq' = {}
         /\ drains' = drains + 1
         /\ UNCHANGED <<log, phase, todo, pushing, tracker, buffer, working, delivered,
                        accepted, dead, parked, sends, crashes, errors>>

-----------------------------------------------------------------------------
(* runWorker and flush                                                     *)

(* flush starts: every sink is still to be written to.                     *)
BeginFlush(w) == /\ wpc' = [wpc EXCEPT ![w] = "flush"]
                 /\ left' = [left EXCEPT ![w] = Sinks]
                 /\ ok' = [ok EXCEPT ![w] = TRUE]

(* An event arrives; a full batch is flushed at once.                      *)
Receive(w) == /\ phase = "running" /\ wpc[w] = "select" /\ buffer # <<>>
              /\ batch' = [batch EXCEPT ![w] = Append(@, Head(buffer))]
              /\ buffer' = Tail(buffer)
              /\ IF Len(batch[w]) + 1 >= BatchSize
                   THEN BeginFlush(w)
                   ELSE UNCHANGED <<wpc, left, ok>>
              /\ UNCHANGED <<log, dlq, phase, todo, drained, pushing, tracker,
                             delivered, accepted, dead, parked, bounds>>

(* The batch ticker fires on a batch that is not empty.                    *)
Tick(w) == /\ phase = "running" /\ wpc[w] = "select" /\ batch[w] # <<>>
           /\ BeginFlush(w)
           /\ UNCHANGED <<log, dlq, phase, todo, drained, pushing, tracker, buffer, batch,
                          delivered, accepted, dead, parked, bounds>>

Events(w) == {batch[w][i] : i \in 1..Len(batch[w])}

(* writeWithRetry on the next sink succeeds.                               *)
WriteOK(w, s) == /\ wpc[w] = "flush" /\ s \in left[w]
                 /\ left' = [left EXCEPT ![w] = @ \ {s}]
                 /\ delivered' = [delivered EXCEPT ![s] = @ \cup Events(w)]
                 /\ UNCHANGED <<log, dlq, phase, todo, drained, pushing, tracker, buffer,
                                wpc, batch, ok, accepted, dead, parked, bounds>>

(* Mutant: allSucceeded is not reset when the batch went to the DLQ.       *)
WriteFail_StillOK(w, s) ==
    /\ wpc[w] = "flush" /\ s \in left[w]
    /\ left' = [left EXCEPT ![w] = @ \ {s}]
    /\ dlq' = dlq \cup Events(w) /\ dead' = dead \cup Events(w)
    /\ UNCHANGED <<log, phase, todo, drained, pushing, tracker, buffer, wpc, batch, ok,
                   delivered, accepted, parked, bounds>>

(* It fails for good: every event of the batch is pushed to the DLQ, and a *)
(* push that fails is only logged.                                         *)
WriteFail(w, s) ==
    /\ wpc[w] = "flush" /\ s \in left[w]
    /\ left' = [left EXCEPT ![w] = @ \ {s}]
    /\ ok' = [ok EXCEPT ![w] = FALSE]
    /\ \E lost \in SUBSET Events(w) :
          /\ IF lost = {} THEN UNCHANGED errors ELSE DiskError
          /\ dlq' = dlq \cup (Events(w) \ lost)
          /\ dead' = dead \cup (Events(w) \ lost)
          /\ parked' = parked \cup lost
    /\ UNCHANGED <<log, phase, todo, drained, pushing, tracker, buffer, wpc, batch,
                   delivered, accepted, sends, drains, crashes>>

(* Mutant: the batch is acknowledged before the last sink has it.          *)
Ack_Early(w) ==
    /\ wpc[w] = "flush" /\ left[w] # Sinks /\ ok[w] /\ batch[w] # <<>>
    /\ LET i == IdOf[Head(batch[w])]
       IN  /\ wal' = {r \in wal : r.seq # tracker[i]}
           /\ tracker' = [tracker EXCEPT ![i] = 0]
    /\ batch' = [batch EXCEPT ![w] = Tail(@)]
    /\ UNCHANGED <<seq, dlq, phase, todo, drained, pushing, buffer, wpc, left, ok,
                   delivered, accepted, dead, parked, bounds>>

(* Every sink succeeded: for the next event, LoadAndDelete its sequence    *)
(* number and acknowledge it.  (Nobody else touches that number between    *)
(* the two calls.)                                                         *)
Ack(w) == /\ wpc[w] = "flush" /\ left[w] = {} /\ ok[w] /\ batch[w] # <<>>
          /\ LET i == IdOf[Head(batch[w])]
             IN  /\ \/ wal' = {r \in wal : r.seq # tracker[i]} /\ UNCHANGED errors
                    \/ DiskError /\ UNCHANGED wal
                 /\ tracker' = [tracker EXCEPT ![i] = 0]
          /\ batch' = [batch EXCEPT ![w] = Tail(@)]
          /\ UNCHANGED <<seq, dlq, phase, todo, drained, pushing, buffer, wpc, left, ok,
                         delivered, accepted, dead, parked, sends, drains, crashes>>

(* flush returns; runWorker starts an empty batch.                         *)
EndFlush(w) == /\ wpc[w] = "flush" /\ left[w] = {}
               /\ ok[w] => batch[w] = <<>>
               /\ wpc' = [wpc EXCEPT ![w] = "select"]
               /\ batch' = [batch EXCEPT ![w] = <<>>]
               /\ ok' = [ok EXCEPT ![w] = TRUE]
               /\ UNCHANGED <<log, dlq, phase, todo, drained, pushing, tracker, buffer,
                              left, delivered, accepted, dead, parked, bounds>>

-----------------------------------------------------------------------------
Submit(p) == \E m \in Msgs : LogAppend(p, m) \/ AppendFail(p, m) \/ Refuse(p, m)

PushStep(p) == Store(p) \/ Enqueue(p) \/ Full(p) \/ Undo(p)

WorkerStep(w) == \/ Receive(w) \/ Tick(w) \/ Ack(w) \/ EndFlush(w)
                 \/ \E s \in Sinks : WriteOK(w, s) \/ WriteFail(w, s)

Next == \/ Boot \/ Recover \/ StartWorkers \/ Crash \/ Drain
        \/ \E p \in Pushers : Submit(p) \/ PushStep(p)
        \/ \E w \in Workers : WorkerStep(w)

Spec == Init /\ [][Next]_vars

(* A supervisor restarts the process; its goroutines keep running, and so  *)
(* does a replay once it has begun.  Nobody has to send, drain or crash.   *)
Fairness == /\ WF_vars(Boot) /\ WF_vars(Recover) /\ WF_vars(StartWorkers)
            /\ \A p \in Pushers : WF_vars(PushStep(p))
            /\ \A p \in {"replay", "admin"} : WF_vars(Submit(p))
            /\ \A w \in Workers : WF_vars(WorkerStep(w))

FairSpec == Spec /\ Fairness

-----------------------------------------------------------------------------
(* Types and bounds: the channel and the batches keep to their sizes, and  *)
(* a full batch is never waited on.                                        *)
TypeOK == /\ wal \subseteq Record /\ seq \in Nat /\ dlq \subseteq Msgs
          /\ phase \in {"down", "starting", "replaying", "running"}
          /\ todo \subseteq Record /\ drained \subseteq Msgs
          /\ ppc \in [Pushers -> {"idle", "appended", "stored", "full"}]
          /\ held \in [Pushers -> SUBSET Record]
          /\ tracker \in [Ids -> Nat]
          /\ buffer \in Seq(Msgs) /\ Len(buffer) <= BufferSize
          /\ wpc \in [Workers -> {"select", "flush"}]
          /\ batch \in [Workers -> Seq(Msgs)]
          /\ \A w \in Workers : /\ Len(batch[w]) <= BatchSize
                                /\ wpc[w] = "select" => Len(batch[w]) < BatchSize
          /\ left \in [Workers -> SUBSET Sinks] /\ ok \in [Workers -> BOOLEAN]
          /\ delivered \in [Sinks -> SUBSET Msgs]
          /\ accepted \subseteq Msgs /\ dead \subseteq Msgs /\ parked \subseteq Msgs
          /\ sends \in Nat /\ drains \in Nat /\ crashes \in Nat /\ errors \in Nat

(* With the log on, an event a client was told is accepted is in the log   *)
(* for the next restart until every sink has confirmed it: no interleaving *)
(* of handlers, workers, replays and crashes loses it.                     *)
AtLeastOnce == \A m \in accepted : Everywhere(m) \/ \E r \in wal : r.msg = m

(* A record is acknowledged only after its own event reached every sink:   *)
(* no worker acknowledges on behalf of another event.                      *)
NoPrematureAck == [][\A r \in wal \ wal' : Everywhere(r.msg)]_vars

(* Draining the dead-letter queue loses nothing, although it empties the   *)
(* file before it pushes and drops what the buffer or a quota refuses: the *)
(* flush that dead-lettered an event left its record in the log.           *)
DeadLettersKept == \A m \in dead : Everywhere(m) \/ \E r \in wal : r.msg = m

(* No accepted event hangs: however often the process crashes, it reaches  *)
(* every sink or the dead-letter queue, or else the process has said that  *)
(* it gives up on it until the next start (a replay whose push the buffer, *)
(* a quota or the disk refused; a dead-letter push that failed).           *)
AcceptedIsHandled ==
    \A m \in Msgs : m \in accepted ~> Everywhere(m) \/ m \in dead \/ m \in parked

(* Nothing is on its way through the process.                              *)
Quiet == /\ phase = "running" /\ buffer = <<>> /\ drained = {}
         /\ \A p \in Pushers : ppc[p] = "idle"
         /\ \A w \in Workers : wpc[w] = "select" /\ batch[w] = <<>>

(* When the process has nothing left to do, the log holds nothing that     *)
(* every sink has confirmed: a restart would not deliver it again.         *)
DeliveredIsReleased == Quiet => \A r \in wal : ~Everywhere(r.msg)
=============================================================================
