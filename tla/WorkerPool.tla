----------------------------- MODULE WorkerPool -----------------------------
(***************************************************************************)
(* The workers (internal/worker/worker.go): the select loop over the       *)
(* buffer's channel, the batch ticker and the worker context; flush with   *)
(* its retries and its dead-letter path; and the guard that restarts a     *)
(* worker whose flush panics, a bounded number of times.                   *)
(*                                                                         *)
(* The acknowledgements of the write-ahead log are in Pipeline.  Here the  *)
(* question is where an event can end up.                                  *)
(***************************************************************************)
EXTENDS Naturals, Sequences

CONSTANTS
    Events,
    Workers, Sinks,
    BatchSize,   \* worker.batch_size
    MaxRetries,  \* maxRetries
    MaxRestarts  \* maxRestarts

ASSUME WorkerPoolAssumption ==
    /\ BatchSize \in Nat \ {0}
    /\ MaxRetries \in Nat \ {0} /\ MaxRestarts \in Nat \ {0}

VARIABLES
    buffer,    \* the events in the channel
    closed,    \* the channel is closed
    cancelled, \* the worker context is cancelled
    wpc,       \* each worker: "select", "write", "backoff", "cooldown" or "ended"
    batch,     \* its batch
    left,      \* the sinks its flush has still to write to
    attempt,   \* the attempt of writeWithRetry it is in
    final,     \* its flush is a drainFlush: the worker returns after it
    expired,   \* the drainFlush context has timed out
    panics,    \* how often it panicked
    \* history
    delivered, \* <<event, sink>>: a sink confirmed the event
    failed,    \* <<event, sink>>: writeWithRetry gave up on it
    dead,      \* <<event, sink>>: it is in the dead-letter queue
    unwritten, \* <<event, sink>>: the dead-letter file did not take its entry
    abandoned  \* events of a batch whose flush panicked

flushing == <<left, attempt, final, expired>>
outcome  == <<delivered, failed, dead, unwritten, abandoned>>
wvars == <<buffer, closed, cancelled, wpc, batch, flushing, panics, outcome>>

AllWorkers(x) == [w \in Workers |-> x]

WInit == /\ buffer = <<>> /\ closed = FALSE /\ cancelled = FALSE
         /\ wpc = AllWorkers("select") /\ batch = AllWorkers(<<>>)
         /\ left = AllWorkers({}) /\ attempt = AllWorkers(0)
         /\ final = AllWorkers(FALSE) /\ expired = AllWorkers(FALSE)
         /\ panics = AllWorkers(0)
         /\ delivered = {} /\ failed = {} /\ dead = {} /\ unwritten = {} /\ abandoned = {}

-----------------------------------------------------------------------------
InBatch(w) == {batch[w][i] : i \in 1..Len(batch[w])}

(* Is the context of w's flush done: its own timeout, or the worker        *)
(* context.                                                                *)
Done(w) == IF final[w] THEN expired[w] ELSE cancelled

(* runWorker returns without a panic.                                      *)
End(w) == wpc' = [wpc EXCEPT ![w] = "ended"]

(* flush (last = FALSE) or drainFlush (last = TRUE) begins.                *)
BeginFlush(w, last) == /\ wpc' = [wpc EXCEPT ![w] = "write"]
                       /\ left' = [left EXCEPT ![w] = Sinks]
                       /\ attempt' = [attempt EXCEPT ![w] = 1]
                       /\ final' = [final EXCEPT ![w] = last]
                       /\ UNCHANGED expired

(* An event from the channel; a full batch is flushed.                     *)
Receive(w) == /\ wpc[w] = "select" /\ buffer # <<>>
              /\ batch' = [batch EXCEPT ![w] = Append(@, Head(buffer))]
              /\ buffer' = Tail(buffer)
              /\ IF Len(batch[w]) + 1 >= BatchSize
                   THEN BeginFlush(w, FALSE)
                   ELSE UNCHANGED <<wpc, flushing>>
              /\ UNCHANGED <<closed, cancelled, panics, outcome>>

(* The ticker fires on a batch that is not empty.                          *)
Tick(w) == /\ wpc[w] = "select" /\ batch[w] # <<>>
           /\ BeginFlush(w, FALSE)
           /\ UNCHANGED <<buffer, closed, cancelled, batch, panics, outcome>>

(* Mutant: a closed channel ends the worker before it is empty.            *)
Finish_Early(w) == /\ wpc[w] = "select"
                   /\ cancelled \/ closed
                   /\ IF batch[w] = <<>> THEN End(w) /\ UNCHANGED flushing
                                         ELSE BeginFlush(w, TRUE)
                   /\ UNCHANGED <<buffer, closed, cancelled, batch, panics, outcome>>

(* The context is done, or the channel is closed and empty: a last flush   *)
(* of what the worker holds, and it returns.                               *)
Finish(w) == /\ wpc[w] = "select"
             /\ cancelled \/ (closed /\ buffer = <<>>)
             /\ IF batch[w] = <<>> THEN End(w) /\ UNCHANGED flushing
                                   ELSE BeginFlush(w, TRUE)
             /\ UNCHANGED <<buffer, closed, cancelled, batch, panics, outcome>>

(* drainFlushTimeout passes.                                               *)
Expire(w) == /\ final[w] /\ ~expired[w] /\ wpc[w] \in {"write", "backoff"}
             /\ expired' = [expired EXCEPT ![w] = TRUE]
             /\ UNCHANGED <<buffer, closed, cancelled, wpc, batch, left, attempt, final,
                            panics, outcome>>

-----------------------------------------------------------------------------
(* flush is done with sink s; the next one starts at its first attempt.    *)
NextSink(w, s) == /\ left' = [left EXCEPT ![w] = @ \ {s}]
                  /\ attempt' = [attempt EXCEPT ![w] = 1]
                  /\ wpc' = [wpc EXCEPT ![w] = "write"]
                  /\ UNCHANGED <<buffer, closed, cancelled, batch, final, expired, panics,
                                 abandoned>>

(* sink.Write returns nil.                                                 *)
WriteOK(w, s) == /\ wpc[w] = "write" /\ s \in left[w]
                 /\ NextSink(w, s)
                 /\ delivered' = delivered \cup (InBatch(w) \X {s})
                 /\ UNCHANGED <<failed, dead, unwritten>>

(* The entries of s for the events at positions I of the batch of w.       *)
Entries(w, s, I) == {batch[w][i] : i \in I} \X {s}

(* Mutant: the dead-lettering stops at the first entry that is not written.*)
GiveUp_Stops(w, s, k, bad) ==
    /\ k < Len(batch[w]) => Done(w)
    /\ NextSink(w, s)
    /\ failed' = failed \cup Entries(w, s, 1..Len(batch[w]))
    /\ dead' = dead \cup Entries(w, s, {i \in 1..k : \A j \in bad : i < j})
    /\ unwritten' = unwritten \cup Entries(w, s, {i \in bad : \A j \in bad : i <= j})
    /\ UNCHANGED delivered

(* writeWithRetry gives up on s, and the events of the batch are pushed to *)
(* the DLQ one by one.  From position k + 1 on the push refuses, because   *)
(* the context is done; of those before it, the ones in bad fail for a     *)
(* reason of their own (a full disk, the handle that a failed reopen left  *)
(* closed).  An error is logged, and the next event is pushed.             *)
GiveUp(w, s, k, bad) ==
    /\ k < Len(batch[w]) => Done(w)
    /\ NextSink(w, s)
    /\ failed' = failed \cup Entries(w, s, 1..Len(batch[w]))
    /\ dead' = dead \cup Entries(w, s, (1..k) \ bad)
    /\ unwritten' = unwritten \cup Entries(w, s, bad)
    /\ UNCHANGED delivered

(* sink.Write returns a permanent error, or the last transient one; the    *)
(* context may become done while the batch is dead-lettered.               *)
WriteFail(w, s) == /\ wpc[w] = "write" /\ s \in left[w]
                   /\ \E k \in 0..Len(batch[w]) :
                        \E bad \in SUBSET (1..k) : GiveUp(w, s, k, bad)

(* Mutant: one attempt too many.                                           *)
WriteRetry_OneMore(w, s) ==
    /\ wpc[w] = "write" /\ s \in left[w]
    /\ attempt[w] <= MaxRetries
    /\ wpc' = [wpc EXCEPT ![w] = "backoff"]
    /\ UNCHANGED <<buffer, closed, cancelled, batch, flushing, panics, outcome>>

(* A transient error with attempts left: writeWithRetry waits.             *)
WriteRetry(w, s) == /\ wpc[w] = "write" /\ s \in left[w]
                    /\ attempt[w] < MaxRetries
                    /\ wpc' = [wpc EXCEPT ![w] = "backoff"]
                    /\ UNCHANGED <<buffer, closed, cancelled, batch, flushing, panics, outcome>>

(* Mutant: the attempts are not counted.                                   *)
Retry_Uncounted(w) ==
    /\ wpc[w] = "backoff"
    /\ wpc' = [wpc EXCEPT ![w] = "write"]
    /\ UNCHANGED <<buffer, closed, cancelled, batch, flushing, panics, outcome>>

(* The backoff passes.                                                     *)
Retry(w) == /\ wpc[w] = "backoff"
            /\ wpc' = [wpc EXCEPT ![w] = "write"]
            /\ attempt' = [attempt EXCEPT ![w] = @ + 1]
            /\ UNCHANGED <<buffer, closed, cancelled, batch, left, final, expired, panics,
                           outcome>>

(* The context is done during the backoff: writeWithRetry returns its      *)
(* error, and the DLQ refuses the whole batch.                             *)
RetryCancelled(w, s) == /\ wpc[w] = "backoff" /\ s \in left[w] /\ Done(w)
                        /\ GiveUp(w, s, 0, {})

(* flush returns.                                                          *)
EndFlush(w) == /\ wpc[w] = "write" /\ left[w] = {}
               /\ batch' = [batch EXCEPT ![w] = <<>>]
               /\ wpc' = [wpc EXCEPT ![w] = IF final[w] THEN "ended" ELSE "select"]
               /\ UNCHANGED <<buffer, closed, cancelled, flushing, panics, outcome>>

(* A sink panics.  runWorkerGuarded recovers; the batch is gone, and after *)
(* maxRestarts panics the worker stops for good.                           *)
Panic(w) == /\ wpc[w] = "write" /\ left[w] # {}
            /\ panics' = [panics EXCEPT ![w] = @ + 1]
            /\ wpc' = [wpc EXCEPT ![w] = IF panics[w] + 1 >= MaxRestarts
                                         THEN "ended" ELSE "cooldown"]
            /\ abandoned' = abandoned \cup InBatch(w)
            /\ batch' = [batch EXCEPT ![w] = <<>>]
            /\ final' = [final EXCEPT ![w] = FALSE]
            /\ expired' = [expired EXCEPT ![w] = FALSE]
            /\ left' = [left EXCEPT ![w] = {}] /\ attempt' = [attempt EXCEPT ![w] = 0]
            /\ UNCHANGED <<buffer, closed, cancelled, delivered, failed, dead, unwritten>>

(* Mutant: a worker that panicked is not started again.                    *)
Restart_Never(w) ==
    /\ wpc[w] = "cooldown"
    /\ End(w)
    /\ UNCHANGED <<buffer, closed, cancelled, batch, flushing, panics, outcome>>

(* After the cooldown runWorker starts again, unless the context is done.  *)
Restart(w) == /\ wpc[w] = "cooldown"
              /\ \/ wpc' = [wpc EXCEPT ![w] = "select"]
                 \/ cancelled /\ End(w)
              /\ UNCHANGED <<buffer, closed, cancelled, batch, flushing, panics, outcome>>

(* What a worker does by itself.                                           *)
WorkerStep(w) == \/ Receive(w) \/ Tick(w) \/ Finish(w) \/ Retry(w) \/ EndFlush(w)
                 \/ Restart(w)
                 \/ \E s \in Sinks : \/ WriteOK(w, s) \/ WriteFail(w, s)
                                     \/ WriteRetry(w, s) \/ RetryCancelled(w, s)

(* What happens to it.                                                     *)
WorkerFault(w) == Panic(w) \/ Expire(w)

Exhausted(w) == panics[w] >= MaxRestarts
=============================================================================
