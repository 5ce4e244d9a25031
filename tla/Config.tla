------------------------------- MODULE Config -------------------------------
(***************************************************************************)
(* The configuration (configs/): the defaults Load fills in, the checks of *)
(* Validate, and what setup and run make of a configuration, translated    *)
(* from the constructors they call.  Nothing here has state.               *)
(*                                                                         *)
(* A text is "" or some text, a list of brokers a set, a duration one of   *)
(* Durations.  Failures of the environment (a directory that cannot be     *)
(* made, a port in use, Redis out of reach) are left out.                  *)
(***************************************************************************)
EXTENDS Integers, Sequences

(* Texts for time.ParseDuration: not set, malformed, or a duration.        *)
Durations == {"", "bad", "-1s", "0s", "5s"}
Parses(d) == d \notin {"", "bad"}
Positive(d) == d = "5s"

Elements(s) == {s[i] : i \in 1..Len(s)}

(* Any text; the provers do not know of the defaults that they are texts.  *)
Directories == STRING \cup {"data/buffer", "data/wal"}

-----------------------------------------------------------------------------
(* The sections, without what only the outside reads (passwords, keys of   *)
(* Redis, topics of tenants, logging).                                     *)
ServerConfig == [grpcPort : Int, httpPort : Int, ingestEnabled : BOOLEAN, adminToken : STRING]
IngestorConfig == [bufferSize : Int]
BufferConfig == [type : STRING, addr : STRING, dir : Directories]
WorkerConfig == [numWorkers : Int, batchSize : Int, batchTimeout : Durations]
SinksConfig == [active : Seq(STRING), brokers : SUBSET STRING, topic : STRING,
                url : STRING, timeout : Durations]
DLQConfig == [enabled : BOOLEAN, type : STRING, dir : STRING, brokers : SUBSET STRING,
              topic : STRING]
WALConfig == [enabled : BOOLEAN, dir : Directories, interval : Durations]
ShutdownConfig == [timeout : Durations]
TenancyConfig == [enabled : BOOLEAN, defaultRate : Int, tenants : Seq([id : STRING, rate : Int])]

Configuration == [server : ServerConfig, ingestor : IngestorConfig, buffer : BufferConfig,
                  worker : WorkerConfig, sinks : SinksConfig, dlq : DLQConfig,
                  wal : WALConfig, shutdown : ShutdownConfig, tenancy : TenancyConfig]

-----------------------------------------------------------------------------
(* applyDefaults                                                           *)
Default(text, default) == IF text = "" THEN default ELSE text

(* Mutant: a log without a directory is left without one.                  *)
applyDefaults_NoWAL(c) ==
    [c EXCEPT !.buffer.dir = IF c.buffer.type = "hybrid" THEN Default(@, "data/buffer") ELSE @]

applyDefaults(c) ==
    [c EXCEPT !.buffer.dir = IF c.buffer.type = "hybrid" THEN Default(@, "data/buffer") ELSE @,
              !.wal.dir = IF c.wal.enabled THEN Default(@, "data/wal") ELSE @,
              !.wal.interval = IF c.wal.enabled THEN Default(@, "5s") ELSE @]

-----------------------------------------------------------------------------
(* Validate, a check for each section                                      *)
validPort(p) == p > 0 /\ p <= 65535

validateServer(s) == validPort(s.grpcPort) /\ validPort(s.httpPort) /\ s.grpcPort # s.httpPort

validateIngestor(i) == i.bufferSize > 0

validateBuffer(b) == \/ b.type \in {"", "channel", "hybrid"}
                     \/ b.type = "redis" /\ b.addr # ""

validateWorker(w) == /\ w.numWorkers > 0 /\ w.batchSize > 0
                     /\ Parses(w.batchTimeout) /\ Positive(w.batchTimeout)

validateSinks(s) ==
    /\ s.active # <<>>
    /\ \A name \in Elements(s.active) :
          \/ name = "log"
          \/ name = "kafka" /\ s.brokers # {} /\ s.topic # ""
          \/ name = "http" /\ s.url # "" /\ (s.timeout = "" \/ Parses(s.timeout))

validateDLQ(d) == d.enabled => \/ d.type = "file" /\ d.dir # ""
                               \/ d.type = "kafka" /\ d.brokers # {} /\ d.topic # ""

validateWAL(w) == w.enabled /\ w.interval # "" => Parses(w.interval) /\ Positive(w.interval)

validateShutdown(s) == s.timeout # "" => Parses(s.timeout) /\ Positive(s.timeout)

validateTenancy(t) ==
    t.enabled =>
        /\ t.defaultRate >= 0
        /\ \A i \in 1..Len(t.tenants) :
              /\ t.tenants[i].id # "" /\ t.tenants[i].rate >= 0
              /\ \A j \in 1..(i - 1) : t.tenants[j].id # t.tenants[i].id

Validate(c) == /\ validateServer(c.server) /\ validateIngestor(c.ingestor)
               /\ validateBuffer(c.buffer) /\ validateWorker(c.worker)
               /\ validateSinks(c.sinks) /\ validateDLQ(c.dlq) /\ validateWAL(c.wal)
               /\ validateShutdown(c.shutdown) /\ validateTenancy(c.tenancy)

ShutdownTimeout(c) == IF Parses(c.shutdown.timeout) /\ Positive(c.shutdown.timeout)
                      THEN c.shutdown.timeout ELSE "5s"

-----------------------------------------------------------------------------
(* What the constructors need, each according to its own code              *)

(* os.MkdirAll fails on an empty path.                                     *)
MkdirAll(dir) == dir # ""

NewWAL(w) == w.enabled => MkdirAll(w.dir)

(* make(chan, size) panics on a negative size.                             *)
NewBuffer(b, size) == /\ size >= 0
                      /\ \/ b.type \in {"", "channel", "redis"}
                         \/ b.type = "hybrid" /\ MkdirAll(b.dir)

newKafkaSink(s) == s.brokers # {} /\ s.topic # ""

(* A timeout that is not positive means none.                              *)
newHTTPSink(s) == s.url # "" /\ (s.timeout # "" => Parses(s.timeout))

BuildSink(s, name) == \/ name = "log"
                      \/ name = "kafka" /\ newKafkaSink(s)
                      \/ name = "http" /\ newHTTPSink(s)

BuildMultiSinks(s) == /\ \A name \in Elements(s.active) : BuildSink(s, name)
                      /\ Len(s.active) # 0

newFileDLQ(d) == MkdirAll(d.dir)

NewKafkaDLQ(d) == d.brokers # {} /\ d.topic # ""

NewDLQ(d) == d.enabled => \/ d.type = "file" /\ newFileDLQ(d)
                          \/ d.type = "kafka" /\ NewKafkaDLQ(d)

(* net.Listen takes port 0 for "any".                                      *)
Listens(port) == port >= 0 /\ port <= 65535

(* setup returns no error.                                                 *)
SetupSucceeds(c) == /\ Parses(c.worker.batchTimeout)
                    /\ NewWAL(c.wal) /\ NewBuffer(c.buffer, c.ingestor.bufferSize)
                    /\ BuildMultiSinks(c.sinks) /\ NewDLQ(c.dlq)
                    /\ Listens(c.server.grpcPort)

(* What run and shutdown need beyond that, and would only log, or panic    *)
(* on: an HTTP port of its own, workers whose batch and ticker can be made *)
(* (make and NewTicker panic), and time to shut down in.                   *)
RunsWell(c) == /\ Listens(c.server.httpPort)
               /\ c.server.httpPort \notin {0, c.server.grpcPort}
               /\ c.worker.numWorkers > 0 /\ c.worker.batchSize >= 0
               /\ Positive(c.worker.batchTimeout)
               /\ Positive(ShutdownTimeout(c))
=============================================================================
