# TLA+ models of the ingestor

The ingestor takes events over HTTP and gRPC, writes each to a write-ahead log,
buffers it, and has a pool of workers deliver batches to every configured sink;
what cannot be delivered goes to a dead-letter queue. The question this project
asks is the one its README answers with "at-least-once": *can an event that a
client was told is accepted get lost, and can anything get stuck?* It asks it of
each component that keeps state on disk or shares state between goroutines, and
of their composition.

Line numbers refer to the repository. `PROJECT.json` maps every definition to
the lines it models.

## Inventory

| Component | State | Operations | Correct means | Hard because |
|---|---|---|---|---|
| Write-ahead log, `internal/wal/file_wal.go` | `wal.log`, `wal.ack`, `seq`, `acked`, two handles | `NewFileWAL`, `Append`, `Acknowledge`, `Recover`, `Checkpoint`, `Close` | an appended record is recovered until acknowledged; an acknowledged one is not | crashes between file operations, unsynced acknowledgements, sequence numbers restarted from the file |
| Sequence tracker, `internal/wal/tracker.go` | event id → sequence number | `Store`, `LoadAndDelete` | a worker acknowledges the record of its own event | keyed by an id the client chooses, shared by all goroutines |
| Service, `internal/ingestor/service.go` | – | `Push`: quota, append, store, buffer | accepted implies logged | four steps, interleaved with workers and two replays |
| Channel buffer, `internal/buffer/channel.go` | a bounded channel | `Push`, receive, `Close` | bounded; never closed under a sender | shutdown |
| Hybrid buffer, `internal/buffer/hybrid.go`, `disk_queue.go` | channel, overflow file, offset file, counter | `Push`, pump, drain, `Enqueue`, `Dequeue`, compaction | loses nothing; what spilled comes back, also after a restart | unguarded `IsEmpty`, event in the pump's hand, two files that change separately |
| Workers, `internal/worker/worker.go` | batch, context, restarts | receive, tick, flush, retry, final flush, panic, restart | every event of a batch ends at each sink or in the dead-letter queue | contexts that end during a flush, bounded restarts |
| Dead-letter files, `internal/dlq/dlq-file.go` | a file per day, archives | `Push`, `DrainEntries` | an entry is pending until returned, once | rename after read, day changes, torn lines |
| Start-up, `cmd/ingestor/app.go` | – | `setup`, `run`, `replayWAL` | recovered events are delivered | servers and replay run before the workers |
| Shutdown, `cmd/ingestor/shutdown.go`, `main.go` | deadline | stop servers, close buffer, wait, force, close | ordered drain; ends | handlers and workers still running |
| HTTP and gRPC servers, `internal/server` | `ingestEnabled`, `requireTenant`, `ready` | ingest, DLQ replay, stop | every push is answered and counted once | check and push are separate; a DLQ replay passes by the check |
| Redis buffer, `internal/buffer/redis.go` | a list all replicas share, a channel, `poll` | `Push`, `poll`, `Close` | loses no more than what was in one process's memory | popping is destructive, answers get lost, each replica has its own log |
| Circuit breaker, `internal/sinks/circuit-breaker.go` | state, counts, expiry | `Write` | spares a dead sink, lets a recovered one back | calls of several workers straddle its changes of state |
| Tenancy, `internal/tenant` | a token bucket per tenant, one for all unknown | `Allow`, `MetricLabel` | the rate holds over every stretch of time; tenants do not affect each other | refills of fractions, shared buckets |
| Configuration, `configs` | – | defaults, validation; the constructors | what is accepted can be run | checked twice, in two places |

Handlers, `replayWAL` and the dead-letter replay call `Service.Push`; workers
share the channel, the tracker and the log with them; shutdown closes the
channel the handlers send to and cancels the context the workers use.

## Modules

| Module | Models |
|---|---|
| `DurableLog` | what the log promises, without files (abstract specification) |
| `FileWAL` | the log's two files, its memory and a caller; refines `DurableLog` |
| `FileWALProofs` | theorems about `FileWAL` |
| `Pipeline` | Push, tracker, channel, workers' flush and acknowledgement, both replays, crashes |
| `PipelineProofs` | theorems about `Pipeline` |
| `WorkerPool` | the workers with retries, contexts, panics and restarts |
| `Shutdown` | handlers and the shutdown sequence around `WorkerPool` (which it extends) |
| `ShutdownProofs` | theorems about `Shutdown` and its workers |
| `DiskQueue` | the overflow files and their compaction |
| `HybridBuffer` | channel, pump, pushers around `DiskQueue` (which it extends) |
| `HybridProofs` | theorems about `HybridBuffer` and its disk queue |
| `FileDLQ` | the dead-letter files |
| `FileDLQProofs` | theorems about `FileDLQ` |
| `RedisBuffer` | replicas around one Redis list: push, `poll`, workers, `Close`, crashes, lost answers |
| `RedisProofs` | theorems about `RedisBuffer` |
| `Breaker` | the circuit breaker of one sink between workers with retries |
| `BreakerProofs` | theorems about `Breaker` |
| `Config` | defaults, validation, and what each constructor accepts (no state) |
| `Tenancy` | token bucket and registry (no state of their own) |
| `Frontend` | from `Load` to the answer of a request: handlers, `Service.Push` with quotas and counters; extends `Config` and `Tenancy` |
| `FrontendProofs` | theorems about `Config` and `Frontend` |
| `MC*` | small instances for TLC |

### How the state corresponds to the code

**FileWAL.** `walFile` is the set of records a reader of `wal.log` gets to;
`torn` says that a partial record ends that part, so whatever is appended behind
it is invisible. (In bytes, the partial record swallows the beginning of the next
one and the reader goes on at a wrong offset: it skips what does not parse and
stops at the first length that runs past the end.) `ackFile` and `synced` are `wal.ack` and the part of it known to
be on disk. `seq`, `acked`, `walOpen`, `ackOpen` are the fields of the struct.
Every method holds `fw.mu`, so it is one action; failing branches are actions of
their own (`AppendFail`, `AppendUnsynced`, `CheckpointRenameFail`, ...).
`Checkpoint` is split at `os.Rename`, where a crash leaves the files in a new
combination (`swapped`). `issued` is what the caller may acknowledge. The
constant `Faults` selects which of three environment faults may happen; failing
writes, crashes between operations and restarts always may.

**Pipeline.** The log is the abstract one: un-acknowledged records and the last
sequence number. A `Push` is the steps append, store, enqueue (or full, then
undo) of a pusher: a handler, `"replay"` (the loop of `replayWAL`) or `"admin"`
(the loop of `handleDLQReplay`). A worker collects a batch, writes it to each
sink in some order, and acknowledges event by event when all sinks succeeded.
The order of the sinks is left open, and a write that fails delivers nothing;
retries are inside `WriteOK` and `WriteFail` here. `LoadAndDelete` and
`Acknowledge` are one step: the sequence number is gone from the tracker after
the first, so nobody else can use it. A client may send an event again at any
time, also one that was accepted; an `Append` that fails may have left its record
in the log (`Sync` failed).

**WorkerPool / Shutdown.** The program counters of the worker are the select
loop, a write attempt, the backoff and the cooldown after a panic. `final` and
`expired` are the context of `drainFlush`; `cancelled` is the worker context.
The dead-letter pushes of one failed write are one step (`GiveUp`). A push fails
when the context is done, so that only a prefix of the batch is tried, or because
the file does not take the entry (a full disk, a handle that a failed drain left
closed); `flush` logs either and goes on with the next event. `unwritten` are the
entries of the second kind. Shutdown goes through `grpc`, `http`, `drain`, `force`,
`exit`. A dead-letter replay (`Replay`) is a handler that `ingestEnabled` does not
stop: it pushes one entry after the other (`ReplayEntry`), also past the deadline,
until a send on the closed channel panics.

**DiskQueue / HybridBuffer.** A frame is one position of the file, so offsets
count frames; bytes that are not a frame are a torn one. `Dequeue` is one step per
change of a file, and each may fail or be the last before a crash:

* A failed `Enqueue` leaves bytes behind `writeOffset` (`tail`): part of a frame, or
  a whole one if only `Sync` failed. The next `Enqueue` of the process overwrites
  them; a restart takes them for part of the queue, since it sets `writeOffset` to
  the size of the file.
* An error of `persistOffset` is ignored: the offset file keeps its old value, or is
  left empty, which reads as 0. If it is the last store of a compaction that fails
  or is cut off, the stored offset is one into the file as it was before: `stale`,
  until a later store succeeds. A restart then starts to read anywhere, in the
  middle of a frame too (`Load`).
* A compaction whose copy or truncation fails, or is cut off by a crash, leaves the
  first frames of the file overwritten (`HalfCopied`): torn, or, where the sizes
  happen to fit, replaced by later ones. Where the copy overlaps what it copies,
  these are unread frames (`overwritten`).

A torn frame blocks: `Dequeue` reports an error for it, nothing skips it, and all
that is behind it waits. That is an abstraction: bytes that are no frame might
happen to decode as one. What a process then reads is out of the model, and lies
behind the frame that the properties already give up on. With a torn frame in the
queue `scanCount` may return any number from there on. `Refuse` is every way `Push`
fails: `Enqueue` returns an error, or the queue or the channel has been closed
under it, since at the deadline shutdown closes the buffer whatever handlers are
doing. `dropped` is what the pump lets go of after `Close`.

**FileDLQ.** Per day, the entries in the pending file that parse, whether the
file ends in part of a line, and the archive. Each rename is a step; `CloseFail` and
`ReopenFail` leave the queue with a closed handle until a restart. `stranded`
are entries of a drain that ended before it returned them, `replaced` those whose
archive a later drain of the same day overwrote.

**RedisBuffer.** `list` is the Redis list in the order BRPOP takes it, `poll` and
`hand` the goroutine and the event between BRPOP and the channel. Of a replica's
log and tracker it matters only whether an event has a record that the tracker
knows (`tracked`), which a worker of this replica can acknowledge, or one it does
not know (`old`), which the next start replays. `Service.Push` and the flush of an
event are one step each. A fault is an LPUSH that reports an error, whether or
not it took effect, or a BRPOP whose answer is lost. Redis itself keeps what it
was given.

**Breaker.** `cb` is the breaker's state and counts, `due` says that the expiry of
its state (`Interval` or `Timeout`) has passed. The library evaluates the expiry
at each use (`Current`) and drops results of calls that were let through in an
earlier generation; `live` are the calls of the current one. `strain` counts the
calls a closed breaker has let through since the last success, `spans` the
`Interval`s that passed meanwhile, each of which clears the failures counted. The library is not
in the repository; it is modelled from its settings and results, and marked
external.

**Config.** A text is empty or some text, a duration one of five (unset,
malformed, negative, zero, positive). Validation returns whether there is no
error. `NewWAL`, `NewBuffer`, `BuildSink`, `NewDLQ`, `Listens`, `RunsWell` are
translated from the constructors, not from the validation, so that
`LoadedIsFit` compares two independent readings of the configuration.

**Tenancy.** Time has `Scale` ticks to the second and a token `Scale` units, so a
refill is an exact integer; the code computes in `float64` and rounds.

**Frontend.** A call is answered by an early return (`Reject`, `ReplayRefused`,
`ReplayFailed`) or goes through the steps of `Push` that its caller can tell
apart: quota, log, buffer. `app` is what `setup` keeps of the configuration. The
buffer is a channel, of which only the number of events matters. Both counters
and the label are as the recorder gets them. `grants` counts, for each bucket
(`""` is the one of the unknown tenants), the requests admitted before each tick,
so that the number in any stretch of time is a difference.

## Runs

| Run | Checks | Shows |
|---|---|---|
| `wal_faults` | `TypeOK`, `AckedStaysAcked` | under all faults an acknowledged record is not replayed |
| `wal_durable` | `Durable`, `LogSpec` | without torn records and half-done checkpoints the files implement `DurableLog` |
| `wal_torn` | `Durable` **violated** | records behind a torn one are not replayed |
| `pipeline_safety` | `TypeOK`, `AtLeastOnce`, `NoPrematureAck` | accepted events stay logged until every sink has them |
| `pipeline_live` | `DeadLettersKept`, `AcceptedIsHandled` | over a crash, a full buffer and both replays, every accepted event is delivered, dead-lettered, or left to the next restart; replaying dead letters loses nothing while the log is on |
| `pipeline_replay` | `DeliveredIsReleased` **violated** | replayed records are never acknowledged |
| `shutdown` | `TypeOK`, `DrainedOnExit`, `ClosedWhenQuiet`, `FailedIsDeadLettered`, `ShutdownEnds`, `NoStarvation` | ordered drain, termination, bounded restarts; only a flush out of time, or an entry the file does not take, misses the dead-letter queue |
| `hybrid` | `TypeOK`, `NoLossWhileUp`, `SpillSurvives`, `CountAgrees`, `SpillDrains` | spilling, pumping and compaction lose nothing before `Close` but what a failed compaction overwrites; a restart skips nothing unless the stored offset is stale; what spilled reaches the workers |
| `dlq` | `TypeOK`, `DrainLosesNothing`, `HandedOutOnce`, `KeptUntilReplaced` | entries are pending until a drain returns them, once, and on disk until a second drain of their day |
| `redis` | `TypeOK`, `LoggedOrDelivered`, `LossBounded`, `NoSendAfterClose`, `NoEventWaits` | what two replicas can lose, and that their logs cover it; `Close` against `poll`; no event is left waiting |
| `breaker` | `TypeOK`, `OneTrial`, `SinkSpared`, `Recovers` | one trial at a time, a bounded load on a dead sink in each `Interval`, recovery |
| `frontend` | `TypeOK`, `LoadedIsFit`, `RateBound`, `CountersBalance`, `OnlyOverQuota` | accepted configurations start; quotas hold and refuse nobody else; every push is counted |

### The two violations

* `wal_torn`: `Append` fails inside a record (full disk), or the process dies
  there; nothing removes the part. The next `Append` succeeds and its record is
  out of reach of `Recover`, against the README's promise for `wal.enabled`.
* `pipeline_replay`: `replayWAL` pushes through the service, which appends the
  event again under a new number. Only the new number is acknowledged. After the
  crash the log keeps a record of a delivered event for ever, and each restart
  replays it and appends one more.

### What the passing runs except

Some properties hold only with an exception, stated in the property, that a
maintainer should know of.

* `flush` uses one context for the write and for the dead-letter push; when it is
  done, the push refuses. `FailedIsDeadLettered` bounds this to the last batch of
  a worker out of time and to forced stops. A write of the dead-letter file that
  fails is only logged as well (`worker.go:177`), which may happen at any time, and
  costs exactly that entry. With the log on, the record survives for the next start.
* The stored offset of the overflow queue may be stale: after a compaction whose
  last store was cut off by a crash or failed (`disk_queue.go:160`, `177`). Frames
  spilled below it are then skipped by the next restart, with no compaction
  running. `SpillSurvives` excepts exactly the time from the end of the compaction
  to the next store that succeeds, however long that is.
* The remains of a failed `Enqueue` are part of the queue after a restart
  (`disk_queue.go:49`), and a partial frame blocks what is spilled behind it for
  good. `SpillDrains` is about the frames in front of the first torn one.
* A compaction that fails part-way overwrites frames (`disk_queue.go:169`), unread
  ones if the copy overlaps. `NoLossWhileUp` names them; `SpillSurvives` excepts
  torn frames between the stored offset and the one in memory (the stored one may
  be behind, or emptied).
* The README says that the breaker "opens after 5 consecutive failures"
  (`README.md:43`). The counts are cleared every `Interval` of 60 s
  (`circuit-breaker.go:18`), so five failures open it only within one `Interval`; a
  sink that fails more slowly, say one call with a long timeout at a time, gets calls
  without end. `SinkSpared` therefore bounds the calls for each `Interval`.
* `drainOverflow` dequeues before it finds the channel full, although its message
  (`hybrid.go:123`) says that the rest remains on disk; and after `Close` the
  select of `pump` may take the ticker again and again, each time dequeuing an
  event that `pumpBatch` then drops. `NoLossWhileUp` lets only `Close` do this.
* A drain that ends between its renames and its return leaves entries in the
  archive only, and the next drain of the day overwrites it
  (`DrainLosesNothing`, `KeptUntilReplaced`).
* Without a log, a replica on the Redis buffer loses the event in `poll`'s hand
  when it is closed, and its channel when it crashes (`LossBounded`).
* `Checkpoint` keeps what it promises (`wal_durable`), but only tests call it:
  `wal.checkpoint_interval` is validated and never read, and the log of a running
  service is not compacted, against the README's "checkpoint compaction"
  (`README.md:45`).
* Trials that never return keep a breaker half-open (`Recovers`, see *Fairness*).

### Bounds

Bounds are constants, and every one is named in the module that has it.

* Log: three events are enough for a record to be acknowledged, removed by a
  checkpoint, and its number to be used again while a third record is live.
  Crashes and checkpoints are unbounded.
* Pipeline: two messages with three sends over a channel of one slot make the
  buffer overflow, let a client send again what is in flight or accepted, and fill a
  batch of two; two workers and two sinks let one flush overtake another and a batch
  fail at one sink only. One crash reaches every combination of disk and memory
  that a restart can meet; the theorems cover any number. Disk errors are in
  `pipeline_safety`, quotas in `pipeline_live`. There the messages are alike, and
  `InOrder` fixes which of them is the first in the log.
* Shutdown: two workers with one restart each, so that one may be used up while
  the other still runs, two attempts per write, a handler of each kind.
* Hybrid buffer: four events over a channel of one slot put three frames on disk.
  `CompactAt = 0` compacts after the first of them is read, when the two that
  remain overlap the place they are copied to, later when they do not, and when
  none remain. With `CompactAt = 1` four events never reach an overlapping copy,
  which is the case in which a failed one overwrites unread frames. A `Dequeue` that
  does not compact leaves the files as one whose compaction fails at once. The
  events are alike, so they are offered in one order (`InOrder`), and `SpillDrains`
  follows two of them, an early and the last one.
* Redis: two replicas and two events over channels of one slot, with any two of
  a crash, a graceful stop and a network fault, in every order: one replica pops
  what the other accepted, and one fault may hit the restart after another.
* Breaker: the code's thresholds (five failures, three attempts) with three
  workers, so that a late result, a trial and a refused call coexist. One `Interval`
  may pass between two successes (`MaxIntervals`), so that calls and counts
  straddle it; nothing else is bounded.
* Front end: all configurations that differ from a plain one in one section, with
  every boundary of that section (the sections are validated independently);
  then three calls over one and a half seconds, a bucket of one or two tokens, a
  known, an unknown and no tenant, an HTTP and a gRPC caller and a dead-letter
  queue of two. Three calls fill and overdraw a bucket, and half a second is less
  than a token at rate one.
* Dead letters: three entries over two days and two restarts; one entry cannot be
  read back.

`CHECK_DEADLOCK FALSE` is used where the system may stop: the clients' sends are
bounded, and a process ends after its shutdown.

### Fairness

`pipeline_live` assumes that a supervisor restarts the process (the Kubernetes
manifests in `deployments/k8s`), that goroutines keep running, that replays
once begun go on, and that a write to a sink returns (writes carry a context, and
the HTTP client has the timeout that is configured). Clients, operators and
crashes have no fairness. The workers start after `replayWAL`, so what exceeds
the buffer is refused and waits in the log for another restart: the property
counts such an event as `parked`. `shutdown` assumes that
handlers, workers, the shutdown sequence and its timer keep running; panics,
expiry of a final flush and SIGTERM may or may not happen. `hybrid` assumes that
the pump's ticker fires and the workers keep receiving. `redis` assumes that
`poll`, workers, `Close` and replays keep running and that a stopped replica is
started again. `breaker` assumes that time passes, that workers in a call go on
and that calls of the sink return; `Recovers` is about a sink that stays up and
workers that keep writing. An HTTP sink without a timeout (`sinks.http.timeout`
unset, zero or negative, all of which pass validation) does not meet this.

## Proofs

`tlapm` checks them for every value of the constants.

**FileWALProofs**
* `TypeCorrect`: `Spec => []TypeOK`.
* `AcksRemembered`: `Spec => []AckedStaysAcked`, under all faults. Not inductive:
  `AckInv` adds that memory knows what the ack file holds, that between rename
  and truncation no record of the new file is acknowledged, and that every record
  stems from an offered event (events are offered once, so a reused sequence
  number never makes an old record out of a new one).
* `Durability`: `Spec => []Durable`, and `Refinement`: `Spec => LogSpec`, for
  `Faults` without `"torn"` and `"halfCkpt"`. `LogInv` adds that no two records
  share a sequence number and none in the log or among the acknowledgements is
  beyond `seq`; that outside a checkpoint every number in the ack file still has
  its record in the log, so that a restart resumes above all of them and no old
  acknowledgement can hit a new record; that what the caller holds is in the file
  and not acknowledged; and that only finished records have acknowledged numbers.

**PipelineProofs**
* `TypeCorrect`: with the capacities of channel and batches.
* `NoEarlyAck`: `Spec => NoPrematureAck`, `Delivery`: `Spec => []AtLeastOnce`,
  `DeadLetters`: `Spec => []DeadLettersKept`, all from the assumption `OwnIds`:
  distinct events have distinct ids. `AckInv` says that sequence numbers are
  bounded by `seq`, that a number in the tracker belongs to a record of an event
  with that id, and that a flush has delivered its batch to the sinks it is done
  with. `SafeInv` adds that whatever is held by a pusher, buffered, or in a batch
  is in the log or delivered everywhere.
  Without `OwnIds` the properties are false: the tracker has one number per id,
  and delivering one event acknowledges the other.

**ShutdownProofs**
* `TypeCorrect`. `PoolInv` adds the bounds of a worker: a batch in the making has
  room, a retry has an attempt left, a running worker has a restart left.
* `CloseIsOrdered`: `Spec => []ClosedWhenQuiet`. `OrderInv` follows the shutdown
  sequence: which handlers are quiet in which stage, that the channel is closed
  from `drain` on, and that a worker which leaves without a panic has found the
  channel closed and empty.
* `ShutdownDrains`: `Spec => []DrainedOnExit`. `DrainInv` adds where an accepted
  event is (channel, a batch, settled with every sink, or lost with a panic) and
  that a flush has settled its batch with the sinks it is done with.
* `FailuresAreKept`: `Spec => []FailedIsDeadLettered`. The bound is a count, so
  `LateInv` names a witness: a last batch for each worker, of which every missed
  event is one. Write errors of the dead-letter file may happen in every flush. Assumed: finitely many workers and sinks.

**HybridProofs**
* `TypeCorrect`, `CounterIsExact`: `Spec => []CountAgrees`, `NothingIsLost`:
  `Spec => []NoLossWhileUp`, `DiskSurvivesCrash`: `Spec => []SpillSurvives`, all
  from one invariant. `HybridInv` says where `Dequeue` is (one pump, so the mutex
  is held exactly while a frame is between disk and hand), that the stored offset
  is never ahead of the one in memory unless it is stale, that what is in the files,
  the remains of failed writes included, was passed to `Push`, and that a process
  that is not up has nothing. For any events, pushers and thresholds, with every
  write failing at any point.

**FileDLQProofs**
* `TypeCorrect`, `DrainIsComplete`: `Spec => []DrainLosesNothing`, `DrainIsExact`:
  `Spec => []HandedOutOnce`, `ArchivesAreSafe`: `Spec => []KeptUntilReplaced`.
  `QueueInv` adds that an entry is in one file or archive, that a running drain has
  read all that is still pending and renames the files that exist, and that an
  archive it has still to overwrite holds only what earlier drains are done with.

**BreakerProofs**
* `TypeCorrect`, `TrialsAreSingle`: `Spec => []OneTrial`, `DeadSinkIsSpared`:
  `Spec => []SinkSpared`. `BreakerInv` ties the counts to the calls: an open
  breaker has no call of its own, a half-open one none or one, the trials are
  these, and the strain on the sink is at most the failures counted and the calls
  under way, after what earlier `Interval`s can have let through. Assumed: finitely many workers.

**RedisProofs**
* `AtLeastOnceWithLogs`: `Spec => []LoggedOrDelivered`. `LogInv` adds the types of
  the logs only: every step that takes an event from one set of records puts it in
  another or has just delivered it.
* `CloseIsSafe`: `Spec => NoSendAfterClose`. `CloseInv` says that a replica whose
  channel is closed, or that is down, has no `poll`.
* `TypeCorrect`. `TypeInv` adds that what is under way was sent.
* `LossIsBounded`: `Spec => []LossBounded`. A `Close` is counted when it is called
  and loses its event later, so `LossInv` bounds the missing events and the
  replicas that may still lose one together. Assumed: finitely many events and
  replicas.

**FrontendProofs**
* `ValidIsFit`: for every configuration with the types of `definitions.go`, what
  `Validate` accepts after the defaults is accepted by every constructor.
* `LoadedStarts`: `Spec => []LoadedIsFit`, from the assumption that `Configs` are
  configurations. `LoadInv` says that before `setup` the configuration is a valid
  one with its defaults. The run tries configurations that differ in one section,
  the theorem covers all.
* `TypeCorrect`. `FrontInv` adds that nothing happens before the process serves,
  and that a push under way has a tenant requests may carry.
* `CountersAgree`: `Spec => []CountersBalance`. A step moves one caller between
  the labels; `BalanceStep` says what the counters have to do about it. Assumed:
  finitely many callers.
* `QuotaIsKept`: `Spec => []RateBound`, and `RefusalsAreDue`:
  `Spec => OnlyOverQuota`. The bound alone is not inductive, and says nothing of
  refusals. `Metered` ties a bucket to what it admitted: for every earlier time
  `s`, what was admitted since `s` and the tokens left are together at most what
  burst and rate allow since `s`, and for some `s` exactly that (the last time the
  bucket was full). The first half gives the bound, the second that an empty
  bucket means a used-up quota.

The assumptions on constants are the `ASSUME`s of the modules: sizes, thresholds
and bounds are natural numbers (positive where the code makes them so), goroutines,
sinks and replicas are finitely many.

Only model-checked: the liveness properties (`AcceptedIsHandled`,
`ShutdownEnds`, `NoStarvation`, `SpillDrains`, `NoEventWaits`, `Recovers`), which
rest on fairness and `ENABLED` and are out of the prover's reach. Every safety
property of a passing run is proved. The two violated properties are refuted by
TLC's counterexamples. That `Pipeline`'s abstract log is what `FileWAL` provides
is an argument, not a theorem: both are specified over the same operations, and
`Refinement` relates `FileWAL` to `DurableLog` only.

## Not modelled

* In the log: a torn write of the ack file, and renames, truncations and
  unsynced records that are undone by a loss of power.
* Frames of different sizes in the overflow file; that a stale offset may point into
  one of them, and that a copy may cover part of one, are modelled as torn frames.
* Sizes that no machine can allocate: `make` panics on a `buffer.size` or a
  `batch_size` beyond the allocator's limit, and `Validate` has no upper bound.
* In `Pipeline`, a panic of a worker, which drops its batch until the next restart
  (`worker.go:101-110`); it is in `WorkerPool`. Panicking workers and
  `AcceptedIsHandled` are therefore not checked together.
* Redis losing data of its own, and a restart of Redis.
* What the sinks send: encoding, HTTP statuses and their classification, the
  Kafka topic of a tenant (`KafkaTopic` reads a map that never changes), partial
  success of a Kafka batch. A write succeeds, fails for now, fails for good or
  panics.
* The Kafka and no-op dead-letter queues beyond their construction: the first is
  one call of a client library per event, the second does nothing.
* Failures at start-up that no configuration explains (a port in use, Redis out
  of reach, a directory that cannot be made), reading the configuration file and
  the environment (viper), passwords and logging.
* Rounding of `float64` in the token bucket.
* The `/health`, `/ready`, `/metrics` and `/admin/dlq/stats` handlers, the
  buffer's gauge and the flush histogram: they observe.
* Responses, translations and generated code: formatting and transport.

## Plan

1. Done: the log and its abstract specification, the pipeline, workers and
   shutdown, the hybrid buffer, the dead-letter files; proofs of the log and the
   pipeline.
2. Done: the Redis buffer, the circuit breaker, configuration, tenancy and the
   handlers' answers and counters; dead-letter replays during shutdown; a full
   buffer in `pipeline_live`; first theorems about `RedisBuffer` and `Config`.
3. Done: theorems for every safety property that a run checks, of all components.
   The proofs of `HybridBuffer` showed that its bounds had never reached an
   overlapping compaction and that failed stores of the offset were missing; both
   are in the model now.
4. Done: failures that leave something behind: partial writes of the overflow queue
   and what a restart makes of them, stale offsets, copies cut off part-way,
   dead-letter entries that cannot be written, appends whose sync failed; calls of
   `Push` that overlap `Close`, events sent again, replays of several entries, the
   breaker's `Interval`.
5. Next: a lemma library for what the proofs share (appending to and taking from
   a sequence, one element more or less in a finite set); `Pipeline`'s log shown
   to be what `DurableLog` promises; the bounds on crashes and restarts dropped
   where a proof does not use them.
