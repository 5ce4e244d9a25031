--------------------------- MODULE FrontendProofs ---------------------------
(***************************************************************************)
(* Whatever the configuration: what Load accepts, setup and run can use.   *)
(* The run frontend tries the configurations that differ from a plain one  *)
(* in one section; here they differ in any way.  And for any callers, any  *)
(* tenants and any time: the types, the balance of the counters, and the   *)
(* quotas, from above and from below.                                      *)
(***************************************************************************)
EXTENDS Frontend, FiniteSetTheorems, TLAPS

(* The defaults touch two directories and the interval of checkpoints.     *)
LEMMA DefaultsKeep ==
    ASSUME NEW c \in Configuration
    PROVE  LET d == applyDefaults(c)
           IN  /\ d.server = c.server /\ d.ingestor = c.ingestor /\ d.worker = c.worker
               /\ d.sinks = c.sinks /\ d.dlq = c.dlq /\ d.shutdown = c.shutdown
               /\ d.tenancy = c.tenancy
               /\ d.buffer.type = c.buffer.type
               /\ c.buffer.type = "hybrid" => d.buffer.dir # ""
               /\ d.wal.enabled = c.wal.enabled
               /\ c.wal.enabled => d.wal.dir # ""
BY DEF Configuration, applyDefaults, Default, BufferConfig, WALConfig

(* A valid port can be listened on, and is not the one for "any".          *)
LEMMA PortsFit ==
    ASSUME NEW p \in Int, validPort(p)
    PROVE  Listens(p) /\ p # 0
BY DEF validPort, Listens

(* Every sink validateSinks accepts, BuildSink builds.                     *)
LEMMA SinksFit ==
    ASSUME NEW s \in SinksConfig, validateSinks(s)
    PROVE  BuildMultiSinks(s)
<1>1. ASSUME NEW name \in Elements(s.active)
      PROVE  BuildSink(s, name)
  BY <1>1 DEF validateSinks, BuildSink, newKafkaSink, newHTTPSink
<1>2. Len(s.active) # 0
  <2>1. s.active \in Seq(STRING) /\ s.active # <<>>
    BY DEF validateSinks, SinksConfig
  <2> QED
    BY <2>1
<1> QED
  BY <1>1, <1>2 DEF BuildMultiSinks

(* The other parts setup constructs: the log, the buffer, the dead-letter  *)
(* queue and the gRPC listener.                                            *)
LEMMA PartsFit ==
    ASSUME NEW c \in Configuration, Validate(applyDefaults(c))
    PROVE  LET d == applyDefaults(c)
           IN  /\ NewWAL(d.wal) /\ NewBuffer(d.buffer, d.ingestor.bufferSize)
               /\ NewDLQ(d.dlq) /\ Listens(d.server.grpcPort)
<1> DEFINE d == applyDefaults(c)
<1>1. NewWAL(d.wal)
  BY DefaultsKeep DEF NewWAL, MkdirAll
<1>2. NewBuffer(d.buffer, d.ingestor.bufferSize)
  <2>1. d.ingestor.bufferSize \in Int
    BY DefaultsKeep DEF Configuration, IngestorConfig
  <2>2. validateIngestor(d.ingestor) /\ validateBuffer(d.buffer)
    BY DEF Validate
  <2>3. d.buffer.type = "hybrid" => d.buffer.dir # ""
    BY DefaultsKeep
  <2> HIDE DEF d
  <2>4. d.ingestor.bufferSize >= 0
    BY <2>1, <2>2 DEF validateIngestor
  <2> QED
    BY <2>2, <2>3, <2>4 DEF validateBuffer, NewBuffer, MkdirAll
<1>3. NewDLQ(d.dlq)
  BY DEF Validate, validateDLQ, NewDLQ, newFileDLQ, NewKafkaDLQ, MkdirAll
<1>4. Listens(d.server.grpcPort)
  <2>1. d.server.grpcPort \in Int
    BY DefaultsKeep DEF Configuration, ServerConfig
  <2>2. validPort(d.server.grpcPort)
    BY DEF Validate, validateServer
  <2> HIDE DEF d
  <2> QED
    BY <2>1, <2>2, PortsFit
<1> QED
  BY <1>1, <1>2, <1>3, <1>4

(* A configuration that Validate accepts, once Load has filled in the      *)
(* defaults, is one for which setup returns no error and neither run, the  *)
(* workers nor shutdown lacks anything: the checks of validate.go are at   *)
(* least as strict as those of all constructors.                           *)
THEOREM ValidIsFit ==
    ASSUME NEW c \in Configuration, Validate(applyDefaults(c))
    PROVE  SetupSucceeds(applyDefaults(c)) /\ RunsWell(applyDefaults(c))
<1> DEFINE d == applyDefaults(c)
<1>1. /\ validateServer(d.server) /\ validateWorker(d.worker) /\ validateSinks(d.sinks)
      /\ validateShutdown(d.shutdown)
  BY DEF Validate
<1>2. /\ d.server \in ServerConfig /\ d.worker \in WorkerConfig
      /\ d.sinks \in SinksConfig /\ d.shutdown \in ShutdownConfig
  BY DefaultsKeep DEF Configuration
<1>3. BuildMultiSinks(d.sinks)
  BY <1>1, <1>2, SinksFit
<1>4. SetupSucceeds(d)
  BY <1>1, <1>3, PartsFit DEF SetupSucceeds, validateWorker
<1>5. /\ Listens(d.server.httpPort)
      /\ d.server.httpPort \notin {0, d.server.grpcPort}
  <2>1. d.server.httpPort \in Int
    BY <1>2 DEF ServerConfig
  <2>2. validPort(d.server.httpPort) /\ d.server.httpPort # d.server.grpcPort
    BY <1>1 DEF validateServer
  <2> HIDE DEF d
  <2> QED
    BY <2>1, <2>2, PortsFit
<1>6. /\ d.worker.numWorkers > 0 /\ d.worker.batchSize >= 0
      /\ Positive(d.worker.batchTimeout)
  BY <1>1, <1>2 DEF WorkerConfig, validateWorker
<1>7. Positive(ShutdownTimeout(d))
  BY <1>1 DEF ShutdownTimeout, validateShutdown, Positive
<1> QED
  BY <1>4, <1>5, <1>6, <1>7 DEF RunsWell

-----------------------------------------------------------------------------
(* Before Load the configuration is one of Configs, after it the same with *)
(* the defaults, and valid.                                                *)
LoadInv == /\ stage \in {"load", "rejected", "setup", "serving"}
           /\ stage = "load" => cfg \in Configuration
           /\ stage = "setup" => \E c \in Configuration : cfg = applyDefaults(c) /\ Validate(cfg)

(* The process starts before Load.                                         *)
LEMMA LoadInvInit == Init => LoadInv
BY ConfigsAssumption DEF Init, LoadInv

(* Setup is the only step that could leave the invariant.                  *)
LEMMA LoadInvNext == LoadInv /\ [Next]_vars => LoadInv'
<1> SUFFICES ASSUME LoadInv, [Next]_vars PROVE LoadInv'
  OBVIOUS
<1>1. CASE Load
  BY <1>1 DEF Load, LoadInv
<1>2. CASE Setup
  <2>1. PICK c \in Configuration : cfg = applyDefaults(c) /\ Validate(cfg)
    BY <1>2 DEF Setup, LoadInv
  <2>2. SetupSucceeds(cfg) /\ RunsWell(cfg)
    BY <2>1, ValidIsFit
  <2> QED
    BY <1>2, <2>2 DEF Setup, LoadInv
<1>3. CASE UNCHANGED <<stage, cfg>>
  BY <1>3 DEF LoadInv
<1>4. ASSUME NEW c \in Callers, NEW a,
             Called(c) \/ Return(c, a) \/ Admit(c)
      PROVE  UNCHANGED <<stage, cfg>>
  BY <1>4 DEF Called, Return, Admit, server
<1>5. ASSUME NEW c \in Callers,
             \/ \E r \in Requests(c) : Reject(c, r) \/ Begin(c, r)
             \/ ReplayRefused(c) \/ ReplayFailed(c) \/ ReplayBegin(c)
      PROVE  UNCHANGED <<stage, cfg>>
  BY <1>5, <1>4 DEF Reject, Begin, ReplayRefused, ReplayFailed, ReplayBegin
<1>6. ASSUME NEW c \in Callers,
             OverQuota(c) \/ AppendFail(c) \/ Full(c) \/ Accept(c)
      PROVE  UNCHANGED <<stage, cfg>>
  BY <1>6, <1>4 DEF OverQuota, AppendFail, Full, Accept
<1>7. CASE Tick \/ Consume \/ \E s \in {"http", "grpc"} : DisableIngest(s)
  BY <1>3, <1>7 DEF Tick, Consume, DisableIngest, server
<1>8. CASE UNCHANGED vars
  BY <1>3, <1>8 DEF vars, server
<1> QED
  BY <1>1, <1>2, <1>3, <1>4, <1>5, <1>6, <1>7, <1>8 DEF Next

(* No configuration that Load accepts fails in setup or cripples the       *)
(* process, whatever the configurations to choose from.                    *)
THEOREM LoadedStarts == Spec => []LoadedIsFit
<1>1. LoadInv => LoadedIsFit
  BY DEF LoadInv, LoadedIsFit
<1> QED
  BY <1>1, LoadInvInit, LoadInvNext, PTL DEF Spec

-----------------------------------------------------------------------------
(* The state of the servers and of the calls, for any configurations,      *)
(* callers, tenants and clock.                                             *)

Entry == [shape : {"ok"}, tenant : TenantIds]
Request == [shape : {"ok", "method", "json", "noid"}, tenant : Keys]

(* A registry: a bucket for each known tenant and one for the others, none *)
(* fuller than its burst or ahead of the clock.                            *)
Fair(b, n) == b \in Bucket /\ b.tokens <= b.burst /\ b.last <= n

Registry(r, n) == /\ r = [enabled |-> r.enabled, known |-> r.known, limiters |-> r.limiters,
                          defaultLim |-> r.defaultLim]
                  /\ r.enabled \in BOOLEAN /\ "" \notin r.known
                  /\ r.limiters \in [r.known -> Bucket]
                  /\ \A id \in r.known : Fair(r.limiters[id], n)
                  /\ Fair(r.defaultLim, n)

ServerInv == /\ stage \in {"load", "rejected", "setup"} => cfg \in Configuration
             /\ enabled \subseteq {"http", "grpc"}
             /\ now \in 0..MaxTime /\ Registry(reg, now)
             /\ app.bufferSize \in Nat /\ buffered \in 0..app.bufferSize

CallInv == /\ pc \in [Callers -> {"idle", "allow", "append"}]
           /\ req \in [Callers -> Request]
           /\ \A c \in Callers : pc[c] # "idle" => req[c].tenant \in TenantIds
           /\ rest \in [Callers -> Seq(Entry)] /\ backlog \in Seq(Entry)
           /\ answer \in [Callers -> {"none", "method", "disabled", "invalid", "quota",
                            "dropped", "accepted", "unauthorized", "unsupported", "failed",
                            "replaying", "replayed"}]
           /\ calls \in 0..MaxCalls

Counters == /\ received \in [Labels -> Nat] /\ dropped \in [Labels -> Nat]
            /\ accepted \in [Labels -> Nat]
            /\ grants \in [Keys -> [0..(MaxTime + 1) -> Nat]]

(* Before the process serves, nothing has happened.                        *)
Quiet == stage # "serving" =>
            /\ now = 0 /\ buffered = 0 /\ \A c \in Callers : pc[c] = "idle"
            /\ \A l \in Labels : received[l] = 0 /\ accepted[l] = 0 /\ dropped[l] = 0
            /\ \A k \in Keys : \A t \in 0..(MaxTime + 1) : grants[k][t] = 0

FrontInv == LoadInv /\ ServerInv /\ CallInv /\ Counters /\ Quiet

(* The tokens a bucket has at time n, once they are credited.              *)
Tokens(b, n) == LET x == b.tokens + (n - b.last) * b.rate
                IN  IF x > b.burst THEN b.burst ELSE x

(* A bucket, and g[t], how many requests it had admitted before time t: at *)
(* no time s would the burst and the rate since then have paid for more    *)
(* than was admitted and what is left, at some time for exactly that, and  *)
(* the quota was kept at all times up to n.                                *)
Metered(b, g, n) ==
    /\ \A t \in 0..(MaxTime + 1) : t > n => g[t] = g[n + 1]
    /\ b # NoLimit =>
          /\ \A s \in 0..n : Scale * (g[n + 1] - g[s]) + Tokens(b, n) <= b.burst + b.rate * (n - s)
          /\ \E s \in 0..n : Scale * (g[n + 1] - g[s]) + Tokens(b, n) = b.burst + b.rate * (n - s)
          /\ \A t \in 0..n : \A s \in 0..t :
                Scale * (g[t + 1] - g[s]) <= b.burst + b.rate * (t - s)

(* Every bucket in use is so, and no other key has admitted anything.      *)
QuotaInv == \A k \in Keys :
               IF k \in reg.known \cup {""} THEN Metered(Limiter(reg, k), grants[k], now)
               ELSE \A t \in 0..(MaxTime + 1) : grants[k][t] = 0

-----------------------------------------------------------------------------
(* The token bucket (internal/tenant/limiter.go).                          *)

(* Refill credits what Tokens says, and keeps the time.                    *)
LEMMA RefillFacts ==
    ASSUME NEW n \in 0..MaxTime, NEW b, Fair(b, n)
    PROVE  /\ Tokens(b, n) \in Nat /\ Tokens(b, n) <= b.burst
           /\ Refill(b, n) = [rate |-> b.rate, burst |-> b.burst, tokens |-> Tokens(b, n), last |-> n]
<1> DEFINE x == b.tokens + (n - b.last) * b.rate
<1>y. /\ b.rate \in Nat /\ b.burst \in Nat /\ b.tokens \in Nat /\ b.last \in Nat
      /\ b.tokens <= b.burst /\ b.last <= n /\ n \in Nat /\ MaxTime \in Nat
      /\ b = [rate |-> b.rate, burst |-> b.burst, tokens |-> b.tokens, last |-> b.last]
  BY FrontendAssumption DEF Fair, Bucket
<1>1. (n - b.last) * b.rate \in Nat /\ (n = b.last => (n - b.last) * b.rate = 0)
  <2>1. n - b.last \in Nat /\ (n = b.last => n - b.last = 0)
    BY <1>y
  <2>2. 0 * b.rate = 0 /\ \A m \in Nat : m * b.rate \in Nat
    BY <1>y
  <2> QED BY <2>1, <2>2
<1>2. x \in Nat /\ (n = b.last => x = b.tokens)
  <2> DEFINE y == (n - b.last) * b.rate
  <2>1. y \in Nat /\ (n = b.last => y = 0) /\ x = b.tokens + y
    BY <1>1
  <2> HIDE DEF y, x
  <2> QED BY <1>y, <2>1
<1>3. Tokens(b, n) = IF x > b.burst THEN b.burst ELSE x
  BY DEF Tokens
<1>4. Refill(b, n) = IF n > b.last
                     THEN [b EXCEPT !.last = n, !.tokens = IF x > b.burst THEN b.burst ELSE x]
                     ELSE b
  BY DEF Refill
<1> HIDE DEF x
<1>5. Tokens(b, n) \in Nat /\ Tokens(b, n) <= b.burst
  BY <1>y, <1>2, <1>3
<1>6. CASE n > b.last
  BY <1>y, <1>3, <1>4, <1>5, <1>6
<1>7. CASE ~(n > b.last)
  <2>1. n = b.last
    BY <1>y, <1>7
  <2>2. Tokens(b, n) = b.tokens
    BY <1>y, <1>2, <1>3, <2>1
  <2> QED BY <1>y, <1>4, <1>5, <1>7, <2>1, <2>2
<1> QED BY <1>6, <1>7

(* A bucket whose time is now has the tokens it says.                      *)
LEMMA TokensNow ==
    ASSUME NEW n \in Nat, NEW r \in Nat, NEW m \in Nat, NEW x \in Nat, x <= m
    PROVE  Tokens([rate |-> r, burst |-> m, tokens |-> x, last |-> n], n) = x
<1>1. (n - n) * r = 0
  <2>1. n - n = 0 /\ 0 * r = 0
    OBVIOUS
  <2> QED BY <2>1
<1>2. x + 0 = x /\ ~(x > m)
  OBVIOUS
<1> QED BY <1>1, <1>2 DEF Tokens

(* allow takes one token, if there is one, and otherwise none.             *)
LEMMA AfterFacts ==
    ASSUME NEW n \in 0..MaxTime, NEW b, Fair(b, n), b # NoLimit
    PROVE  /\ Fair(After(b, n), n) /\ After(b, n).rate = b.rate /\ After(b, n).burst = b.burst
           /\ Admits(b, n) <=> Tokens(b, n) >= Scale
           /\ Tokens(After(b, n), n) = IF Admits(b, n) THEN Tokens(b, n) - Scale ELSE Tokens(b, n)
<1> DEFINE k == Tokens(b, n)
           a == IF k >= Scale THEN k - Scale ELSE k
<1>y. b.rate \in Nat /\ b.burst \in Nat /\ n \in Nat /\ Scale \in Nat
  BY FrontendAssumption, ScaleAssumption DEF Fair, Bucket
<1>1. /\ k \in Nat /\ k <= b.burst
      /\ Refill(b, n) = [rate |-> b.rate, burst |-> b.burst, tokens |-> k, last |-> n]
  BY RefillFacts
<1>2. Admits(b, n) <=> k >= Scale
  BY <1>1 DEF Admits
<1> HIDE DEF k
<1>3. After(b, n) = [rate |-> b.rate, burst |-> b.burst, tokens |-> a, last |-> n]
  BY <1>1 DEF After
<1>4. a \in Nat /\ a <= b.burst
  BY <1>y, <1>1
<1>5. Tokens(After(b, n), n) = a
  BY <1>y, <1>3, <1>4, TokensNow
<1>6. Fair(After(b, n), n)
  BY <1>y, <1>3, <1>4 DEF Fair, Bucket
<1> QED BY <1>2, <1>3, <1>5, <1>6 DEF k

(* A tick credits the rate, up to the burst.                               *)
LEMMA TickFacts ==
    ASSUME NEW n \in Nat, n + 1 <= MaxTime, NEW b, Fair(b, n)
    PROVE  /\ Fair(b, n + 1)
           /\ Tokens(b, n + 1) = IF Tokens(b, n) + b.rate > b.burst THEN b.burst
                                 ELSE Tokens(b, n) + b.rate
<1>y. /\ b.rate \in Nat /\ b.burst \in Nat /\ b.tokens \in Nat /\ b.last \in Nat
      /\ b.last <= n /\ MaxTime \in Nat
  BY FrontendAssumption DEF Fair, Bucket
<1>1. Fair(b, n + 1)
  BY <1>y DEF Fair
<1>2. ((n + 1) - b.last) * b.rate = (n - b.last) * b.rate + b.rate
  <2>1. \A m, r \in Nat : (m + 1) * r = m * r + r
    OBVIOUS
  <2>2. n - b.last \in Nat /\ (n + 1) - b.last = (n - b.last) + 1
    BY <1>y
  <2> QED BY <1>y, <2>1, <2>2
<1> DEFINE y == (n - b.last) * b.rate
<1>3. y \in Nat
  <2>1. n - b.last \in Nat
    BY <1>y
  <2>2. \A m \in Nat : m * b.rate \in Nat
    BY <1>y
  <2> QED BY <2>1, <2>2
<1>4. Tokens(b, n) = IF b.tokens + y > b.burst THEN b.burst ELSE b.tokens + y
  BY DEF Tokens
<1>5. Tokens(b, n + 1) = IF b.tokens + (y + b.rate) > b.burst THEN b.burst
                         ELSE b.tokens + (y + b.rate)
  BY <1>2 DEF Tokens
<1> HIDE DEF y
<1> QED BY <1>y, <1>1, <1>3, <1>4, <1>5

(* A new bucket is full.                                                   *)
LEMMA NewBucketFacts ==
    ASSUME NEW n \in 0..MaxTime, NEW rate \in Int, rate > 0
    PROVE  /\ Fair(newTokenBucket(rate, n), n)
           /\ Tokens(newTokenBucket(rate, n), n) = newTokenBucket(rate, n).burst
<1> DEFINE m == Scale * rate
<1>y. rate \in Nat /\ Scale \in Nat /\ n \in Nat /\ MaxTime \in Nat
  BY FrontendAssumption, ScaleAssumption
<1>1. m \in Nat
  BY <1>y
<1>2. newTokenBucket(rate, n) = [rate |-> rate, burst |-> m, tokens |-> m, last |-> n]
  BY DEF newTokenBucket
<1> HIDE DEF m
<1>3. m <= m
  BY <1>1
<1> QED BY <1>y, <1>1, <1>2, <1>3, TokensNow DEF Fair, Bucket

-----------------------------------------------------------------------------
(* The registry (internal/tenant/registry.go).                             *)

(* An element of a sequence is one of its set.                             *)
LEMMA ElementOf ==
    ASSUME NEW S, NEW q \in Seq(S), NEW j \in 1..Len(q)
    PROVE  q[j] \in S
OBVIOUS

(* The registry setup builds: its buckets are full.                        *)
LEMMA NewRegistryFacts ==
    ASSUME NEW t \in TenancyConfig, NEW n \in 0..MaxTime
    PROVE  /\ Registry(NewRegistry(t, n), n)
           /\ \A id : Limiter(NewRegistry(t, n), id) # NoLimit =>
                  Tokens(Limiter(NewRegistry(t, n), id), n) = Limiter(NewRegistry(t, n), id).burst
<1> DEFINE limit(rate) == IF rate > 0 THEN newTokenBucket(rate, n) ELSE NoLimit
           Entries == {t.tenants[i] : i \in 1..Len(t.tenants)}
           known == {t.tenants[i].id : i \in 1..Len(t.tenants)} \ {""}
           entry(id) == CHOOSE e \in Entries : e.id = id
           inherit(rate) == IF rate = 0 THEN t.defaultRate ELSE rate
           R == NewRegistry(t, n)
<1>1. Fair(NoLimit, n)
  BY FrontendAssumption DEF Fair, NoLimit, Bucket
<1>2. ASSUME NEW x \in Int
      PROVE  Fair(limit(x), n) /\ (limit(x) # NoLimit => Tokens(limit(x), n) = limit(x).burst)
  BY <1>1, <1>2, NewBucketFacts
<1>3. R = [enabled |-> t.enabled, known |-> known,
           limiters |-> [id \in known |-> limit(inherit(entry(id).rate))],
           defaultLim |-> limit(t.defaultRate)]
  BY DEF NewRegistry
<1>4. t.tenants \in Seq([id : STRING, rate : Int]) /\ t.defaultRate \in Int /\ t.enabled \in BOOLEAN
  BY DEF TenancyConfig
<1>5. ASSUME NEW id \in known PROVE inherit(entry(id).rate) \in Int
  <2>1. \E e \in Entries : e.id = id
    OBVIOUS
  <2>2. entry(id) \in Entries
    BY <2>1
  <2>3. ASSUME NEW e \in Entries PROVE e \in [id : STRING, rate : Int]
    <3>1. PICK i \in 1..Len(t.tenants) : e = t.tenants[i]
      OBVIOUS
    <3>2. t.tenants[i] \in [id : STRING, rate : Int]
      BY <1>4, <3>1, ElementOf
    <3> QED BY <3>1, <3>2
  <2>4. entry(id).rate \in Int
    BY <2>2, <2>3
  <2> QED BY <1>4, <2>4
<1> HIDE DEF limit, known, entry, inherit, R
<1>6. /\ R.enabled = t.enabled /\ R.known = known /\ R.defaultLim = limit(t.defaultRate)
      /\ R.limiters = [id \in known |-> limit(inherit(entry(id).rate))]
  BY <1>3
<1>7. \A id \in known : /\ Fair(R.limiters[id], n)
                        /\ R.limiters[id] # NoLimit => Tokens(R.limiters[id], n) = R.limiters[id].burst
  BY <1>2, <1>5, <1>6
<1>8. "" \notin known
  BY DEF known
<1>9. Registry(R, n)
  <2>1. R = [enabled |-> R.enabled, known |-> R.known, limiters |-> R.limiters,
             defaultLim |-> R.defaultLim]
    BY <1>3, <1>6
  <2>2. R.limiters \in [R.known -> Bucket]
    BY <1>6, <1>7 DEF Fair
  <2> QED BY <1>2, <1>4, <1>6, <1>7, <1>8, <2>1, <2>2 DEF Registry
<1>10. \A id : Limiter(R, id) # NoLimit => Tokens(Limiter(R, id), n) = Limiter(R, id).burst
  BY <1>2, <1>4, <1>6, <1>7 DEF Limiter
<1> QED BY <1>9, <1>10 DEF R

(* Whatever bucket a tenant is given is a fair one.                        *)
LEMMA LimiterFacts ==
    ASSUME NEW n \in 0..MaxTime, NEW r, Registry(r, n), NEW id
    PROVE  Fair(Limiter(r, id), n)
<1>1. Fair(NoLimit, n)
  BY FrontendAssumption DEF Fair, NoLimit, Bucket
<1> QED BY <1>1 DEF Limiter, Registry

(* Allow changes the bucket of the tenant, and no other.                   *)
LEMMA ChargeFacts ==
    ASSUME NEW n \in 0..MaxTime, NEW r, Registry(r, n), NEW id, NEW k,
           k = id \/ (k \notin r.known /\ id \notin r.known)
    PROVE  /\ Registry(Charge(r, id, n), n)
           /\ Charge(r, id, n).enabled = r.enabled /\ Charge(r, id, n).known = r.known
           /\ Limiter(r, id) = Limiter(r, k)
           /\ Limiter(Charge(r, id, n), k) = After(Limiter(r, k), n)
<1>y. /\ r = [enabled |-> r.enabled, known |-> r.known, limiters |-> r.limiters,
              defaultLim |-> r.defaultLim]
      /\ r.enabled \in BOOLEAN /\ "" \notin r.known /\ r.limiters \in [r.known -> Bucket]
      /\ \A i \in r.known : Fair(r.limiters[i], n)
      /\ Fair(r.defaultLim, n)
  BY DEF Registry
<1>1. \A b : Fair(b, n) => Fair(After(b, n), n)
  <2>1. ASSUME NEW b, Fair(b, n), b # NoLimit PROVE Fair(After(b, n), n)
    BY <2>1, AfterFacts
  <2>2. After(NoLimit, n) = NoLimit
    BY DEF After
  <2> QED BY <2>1, <2>2
<1>2. Limiter(r, id) = Limiter(r, k)
  BY <1>y DEF Limiter
<1>3. CASE ~r.enabled
  <2>1. Charge(r, id, n) = r
    BY <1>3 DEF Charge
  <2>2. Limiter(r, k) = NoLimit /\ After(NoLimit, n) = NoLimit
    BY <1>3 DEF Limiter, After
  <2> QED BY <1>2, <2>1, <2>2
<1>4. CASE r.enabled /\ id \in r.known
  <2> DEFINE L == [r.limiters EXCEPT ![id] = After(@, n)]
             R == [enabled |-> r.enabled, known |-> r.known, limiters |-> L,
                   defaultLim |-> r.defaultLim]
  <2>1. Charge(r, id, n) = R
    BY <1>y, <1>4 DEF Charge
  <2>2. /\ L \in [r.known -> Bucket] /\ L[id] = After(r.limiters[id], n)
        /\ \A j \in r.known : j # id => L[j] = r.limiters[j]
    BY <1>y, <1>1, <1>4 DEF Fair
  <2>3. \A j \in r.known : Fair(L[j], n)
    BY <1>y, <1>1, <1>4, <2>2
  <2> HIDE DEF L
  <2>4. Registry(R, n)
    BY <1>y, <2>2, <2>3 DEF Registry
  <2>5. Limiter(R, k) = After(Limiter(r, k), n)
    BY <1>y, <1>4, <2>2 DEF Limiter
  <2>6. R.enabled = r.enabled /\ R.known = r.known
    OBVIOUS
  <2> HIDE DEF R
  <2> QED BY <1>2, <2>1, <2>4, <2>5, <2>6
<1>5. CASE r.enabled /\ id \notin r.known
  <2> DEFINE R == [enabled |-> r.enabled, known |-> r.known, limiters |-> r.limiters,
                   defaultLim |-> After(r.defaultLim, n)]
  <2>1. Charge(r, id, n) = R
    BY <1>y, <1>5 DEF Charge
  <2>2. Registry(R, n)
    BY <1>y, <1>1 DEF Registry
  <2>3. Limiter(R, k) = After(Limiter(r, k), n)
    BY <1>y, <1>5 DEF Limiter
  <2>4. R.enabled = r.enabled /\ R.known = r.known
    OBVIOUS
  <2> HIDE DEF R
  <2> QED BY <1>2, <2>1, <2>2, <2>3, <2>4
<1> QED BY <1>y, <1>3, <1>4, <1>5

(* The buckets of other tenants are left alone.                            *)
LEMMA ChargeOthers ==
    ASSUME NEW n, NEW r, Registry(r, n), NEW id, NEW j, j # id, j \in r.known \/ id \in r.known
    PROVE  Limiter(Charge(r, id, n), j) = Limiter(r, j)
BY DEF Charge, Limiter, Registry

(* Time spoils no bucket.                                                  *)
LEMMA RegistryTick ==
    ASSUME NEW n \in Nat, n + 1 <= MaxTime, NEW r, Registry(r, n)
    PROVE  Registry(r, n + 1)
BY TickFacts DEF Registry

-----------------------------------------------------------------------------
(* Types.                                                                  *)

(* The defaults are texts and durations like any other.                    *)
LEMMA DefaultsType ==
    ASSUME NEW c \in Configuration
    PROVE  applyDefaults(c) \in Configuration
<1> DEFINE b == [c.buffer EXCEPT !.dir = IF c.buffer.type = "hybrid"
                                         THEN Default(@, "data/buffer") ELSE @]
           w == [c.wal EXCEPT !.dir = IF c.wal.enabled THEN Default(@, "data/wal") ELSE @,
                              !.interval = IF c.wal.enabled THEN Default(@, "5s") ELSE @]
<1>1. /\ c.buffer \in BufferConfig /\ c.wal \in WALConfig
      /\ c.server \in ServerConfig /\ c.ingestor \in IngestorConfig /\ c.worker \in WorkerConfig
      /\ c.sinks \in SinksConfig /\ c.dlq \in DLQConfig /\ c.shutdown \in ShutdownConfig
      /\ c.tenancy \in TenancyConfig
  BY DEF Configuration
<1>2. b \in BufferConfig
  BY <1>1 DEF BufferConfig, Directories, Default
<1>3. w \in WALConfig
  BY <1>1 DEF WALConfig, Directories, Default, Durations
<1>4. applyDefaults(c) = [c EXCEPT !.buffer = b, !.wal = w]
  BY <1>1 DEF applyDefaults, Configuration, BufferConfig, WALConfig
<1> HIDE DEF b, w
<1> QED BY <1>1, <1>2, <1>3, <1>4 DEF Configuration

(* The tenancy a process without one is given.                             *)
LEMMA NoTenancyType == NoTenancy \in TenancyConfig
<1>1. <<>> \in Seq([id : STRING, rate : Int])
  OBVIOUS
<1> QED BY <1>1 DEF NoTenancy, TenancyConfig

(* The invariant holds before anything is loaded or called.                *)
LEMMA FrontInit == Init => FrontInv
<1> SUFFICES ASSUME Init PROVE FrontInv
  OBVIOUS
<1> USE FrontendAssumption
<1>0. 0 \in 0..MaxTime /\ 0 \in 0..MaxCalls /\ 0 \in 0..0
  OBVIOUS
<1>1. Registry(NewRegistry(NoTenancy, 0), 0)
  BY <1>0, NewRegistryFacts, NoTenancyType
<1>2. ServerInv
  <2>1. /\ stage = "load" /\ cfg \in Configuration /\ enabled = {} /\ now = 0
        /\ reg = NewRegistry(NoTenancy, 0) /\ buffered = 0
        /\ app = [needTenant |-> FALSE, adminToken |-> FALSE, replayable |-> FALSE,
                  wal |-> FALSE, bufferSize |-> 0]
    BY ConfigsAssumption DEF Init
  <2>2. app.bufferSize = 0
    BY <2>1
  <2> QED BY <1>0, <1>1, <2>1, <2>2 DEF ServerInv
<1>3. CallInv
  <2>1. /\ pc = [c \in Callers |-> "idle"] /\ req = [c \in Callers |-> Nobody]
        /\ rest = [c \in Callers |-> <<>>] /\ answer = [c \in Callers |-> "none"]
        /\ backlog = Backlog /\ calls = 0
    BY DEF Init
  <2>2. <<>> \in Seq(Entry) /\ Backlog \in Seq(Entry)
    BY DEF Entry
  <2>3. Nobody \in Request
    BY DEF Nobody, Request, Keys
  <2>4. rest \in [Callers -> Seq(Entry)] /\ req \in [Callers -> Request]
    BY <2>1, <2>2, <2>3
  <2> QED BY <1>0, <2>1, <2>2, <2>4 DEF CallInv
<1>4. Counters
  BY DEF Init, Counters
<1>5. Quiet
  BY DEF Init, Quiet
<1> QED BY <1>2, <1>3, <1>4, <1>5, LoadInvInit DEF FrontInv

(* The label a push is counted under is one of Labels.                     *)
LEMMA LabelFacts ==
    ASSUME NEW n, NEW r, Registry(r, n), NEW id \in TenantIds
    PROVE  /\ MetricLabel(r, id) \in Labels
           /\ MetricLabel(r, id) \in r.known \cup {"_other", "_single"}
BY DEF MetricLabel, Labels, Registry

(* What a push that begins, and one that returns, does to the calls.       *)
LEMMA PushingFacts ==
    ASSUME CallInv, Counters, NEW c \in Callers,
           NEW r \in Request, r.tenant \in TenantIds, Pushing(c, r), Registry(reg, now)
    PROVE  /\ pc' \in [Callers -> {"idle", "allow", "append"}]
           /\ req' \in [Callers -> Request]
           /\ \A d \in Callers : pc'[d] # "idle" => req'[d].tenant \in TenantIds
           /\ received' \in [Labels -> Nat]
           /\ pc'[c] = "allow" /\ req'[c] = r
           /\ \A d \in Callers : d # c => pc'[d] = pc[d] /\ req'[d] = req[d]
<1>1. /\ pc' = [pc EXCEPT ![c] = "allow"] /\ req' = [req EXCEPT ![c] = r]
      /\ received' = [received EXCEPT ![MetricLabel(reg, r.tenant)] = @ + 1]
  BY DEF Pushing
<1>2. /\ pc \in [Callers -> {"idle", "allow", "append"}]
      /\ req \in [Callers -> Request]
      /\ \A d \in Callers : pc[d] # "idle" => req[d].tenant \in TenantIds
      /\ received \in [Labels -> Nat]
  BY DEF CallInv, Counters
<1>3. MetricLabel(reg, r.tenant) \in Labels
  BY LabelFacts
<1>4. received' \in [Labels -> Nat]
  BY <1>1, <1>2, <1>3
<1>5. req' \in [Callers -> Request]
  BY <1>1, <1>2
<1>6. /\ pc'[c] = "allow" /\ req'[c] = r
      /\ \A d \in Callers : d # c => pc'[d] = pc[d] /\ req'[d] = req[d]
  BY <1>1, <1>2
<1> QED BY <1>1, <1>2, <1>3, <1>4, <1>5, <1>6

(* Return touches one call: it is over, or its next entry is counted.      *)
LEMMA ReturnFacts ==
    ASSUME CallInv, Counters, Registry(reg, now), NEW c \in Callers,
           NEW a \in {"quota", "dropped", "accepted"}, Return(c, a)
    PROVE  /\ CallInv' /\ received' \in [Labels -> Nat]
           /\ UNCHANGED <<server, now, backlog, calls>>
           /\ \A d \in Callers : d # c => pc'[d] = pc[d] /\ req'[d] = req[d] /\ rest'[d] = rest[d]
           /\ \/ pc'[c] = "idle" /\ UNCHANGED received
              \/ /\ pc'[c] = "allow" /\ req'[c].tenant \in TenantIds
                 /\ received' = [received EXCEPT ![MetricLabel(reg, req'[c].tenant)] = @ + 1]
<1>y. /\ pc \in [Callers -> {"idle", "allow", "append"}]
      /\ req \in [Callers -> Request]
      /\ \A d \in Callers : pc[d] # "idle" => req[d].tenant \in TenantIds
      /\ rest \in [Callers -> Seq(Entry)] /\ backlog \in Seq(Entry)
      /\ answer \in [Callers -> {"none", "method", "disabled", "invalid", "quota",
                       "dropped", "accepted", "unauthorized", "unsupported", "failed",
                       "replaying", "replayed"}]
      /\ calls \in 0..MaxCalls /\ received \in [Labels -> Nat]
  BY DEF CallInv, Counters
<1>0. UNCHANGED <<server, now, backlog, calls>>
  BY DEF Return
<1>1. CASE rest[c] # <<>>
  <2>1. /\ Pushing(c, Head(rest[c])) /\ rest' = [rest EXCEPT ![c] = Tail(@)] /\ UNCHANGED answer
    BY <1>1 DEF Return
  <2>2. Head(rest[c]) \in Entry /\ Tail(rest[c]) \in Seq(Entry)
    <3>1. rest[c] \in Seq(Entry)
      BY <1>y
    <3> QED BY <1>1, <3>1
  <2>3. PICK r \in Request : r = Head(rest[c]) /\ r.tenant \in TenantIds
    BY <2>2 DEF Entry, Request, Keys
  <2>4. /\ pc' \in [Callers -> {"idle", "allow", "append"}]
        /\ req' \in [Callers -> Request]
        /\ \A d \in Callers : pc'[d] # "idle" => req'[d].tenant \in TenantIds
        /\ received' \in [Labels -> Nat]
        /\ pc'[c] = "allow" /\ req'[c] = r
        /\ \A d \in Callers : d # c => pc'[d] = pc[d] /\ req'[d] = req[d]
    BY <2>1, <2>3, PushingFacts
  <2>5. rest' \in [Callers -> Seq(Entry)] /\ \A d \in Callers : d # c => rest'[d] = rest[d]
    BY <1>y, <2>1, <2>2
  <2>6. CallInv'
    BY <1>y, <1>0, <2>1, <2>4, <2>5 DEF CallInv
  <2>7. received' = [received EXCEPT ![MetricLabel(reg, req'[c].tenant)] = @ + 1]
    BY <2>1, <2>3, <2>4 DEF Pushing
  <2> QED BY <1>0, <2>3, <2>4, <2>5, <2>6, <2>7
<1>2. CASE rest[c] = <<>>
  <2>1. /\ pc' = [pc EXCEPT ![c] = "idle"] /\ req' = [req EXCEPT ![c] = Nobody]
        /\ answer' = [answer EXCEPT ![c] = IF @ = "replaying" THEN "replayed" ELSE a]
        /\ UNCHANGED <<rest, received>>
    BY <1>2 DEF Return
  <2>2. Nobody \in Request
    BY DEF Nobody, Request, Keys
  <2>3. /\ pc'[c] = "idle" /\ pc' \in [Callers -> {"idle", "allow", "append"}]
        /\ \A d \in Callers : d # c => pc'[d] = pc[d] /\ req'[d] = req[d]
    BY <1>y, <2>1
  <2>4. req' \in [Callers -> Request]
    BY <1>y, <2>1, <2>2
  <2>5. answer' \in [Callers -> {"none", "method", "disabled", "invalid", "quota",
                       "dropped", "accepted", "unauthorized", "unsupported", "failed",
                       "replaying", "replayed"}]
    BY <1>y, <2>1
  <2>6. \A d \in Callers : pc'[d] # "idle" => req'[d].tenant \in TenantIds
    BY <1>y, <2>3
  <2>7. CallInv'
    BY <1>y, <1>0, <2>1, <2>3, <2>4, <2>5, <2>6 DEF CallInv
  <2> QED BY <1>y, <1>0, <2>1, <2>3, <2>7
<1> QED BY <1>1, <1>2
(* The steps of a call up to Push, and of one that never gets there.       *)
Calling(c) == \/ \E r \in Requests(c) : Reject(c, r) \/ Begin(c, r)
              \/ ReplayRefused(c) \/ ReplayFailed(c) \/ ReplayBegin(c)

(* The steps with which a push ends.                                       *)
Returning(c) == OverQuota(c) \/ AppendFail(c) \/ Full(c) \/ Accept(c)

(* A call leaves the servers, the buckets and the buffer alone.  It has    *)
(* its answer, or one push begins and is counted.                          *)
LEMMA CallingFacts ==
    ASSUME CallInv, Counters, Registry(reg, now), NEW c \in Callers, Calling(c)
    PROVE  /\ CallInv' /\ received' \in [Labels -> Nat]
           /\ stage = "serving" /\ pc[c] = "idle"
           /\ UNCHANGED <<server, reg, now, buffered, dropped, accepted, grants>>
           /\ \A d \in Callers : d # c => pc'[d] = pc[d] /\ req'[d] = req[d]
           /\ \/ pc'[c] = "idle" /\ UNCHANGED received
              \/ /\ pc'[c] = "allow" /\ req'[c].tenant \in TenantIds
                 /\ received' = [received EXCEPT ![MetricLabel(reg, req'[c].tenant)] = @ + 1]
<1>y. /\ pc \in [Callers -> {"idle", "allow", "append"}]
      /\ req \in [Callers -> Request]
      /\ \A d \in Callers : pc[d] # "idle" => req[d].tenant \in TenantIds
      /\ rest \in [Callers -> Seq(Entry)] /\ backlog \in Seq(Entry)
      /\ answer \in [Callers -> {"none", "method", "disabled", "invalid", "quota",
                       "dropped", "accepted", "unauthorized", "unsupported", "failed",
                       "replaying", "replayed"}]
      /\ calls \in 0..MaxCalls /\ received \in [Labels -> Nat]
  BY DEF CallInv, Counters
<1>0. Called(c)
  BY DEF Calling, Reject, Begin, ReplayRefused, ReplayFailed, ReplayBegin
<1>1. /\ stage = "serving" /\ pc[c] = "idle" /\ calls' \in 0..MaxCalls
      /\ UNCHANGED <<server, reg, now, buffered, dropped, accepted, grants>>
  <2>1. /\ stage = "serving" /\ pc[c] = "idle" /\ calls < MaxCalls /\ calls' = calls + 1
        /\ UNCHANGED <<server, reg, now, buffered, dropped, accepted, grants>>
    BY <1>0 DEF Called
  <2>2. calls' \in 0..MaxCalls
    BY <1>y, <2>1, FrontendAssumption
  <2> QED BY <2>1, <2>2
<1>2. ASSUME NEW a \in {"none", "method", "disabled", "invalid", "unauthorized", "unsupported",
                        "failed", "replayed"},
             Answered(c, a), backlog' \in {backlog, <<>>}
      PROVE  /\ CallInv' /\ pc'[c] = "idle" /\ UNCHANGED received
             /\ \A d \in Callers : d # c => pc'[d] = pc[d] /\ req'[d] = req[d]
  <2>1. answer' = [answer EXCEPT ![c] = a] /\ UNCHANGED <<pc, req, rest, received>>
    BY <1>2 DEF Answered
  <2>2. answer' \in [Callers -> {"none", "method", "disabled", "invalid", "quota",
                       "dropped", "accepted", "unauthorized", "unsupported", "failed",
                       "replaying", "replayed"}]
    BY <1>y, <1>2, <2>1
  <2>3. backlog' \in Seq(Entry)
    <3>1. <<>> \in Seq(Entry)
      OBVIOUS
    <3> QED BY <1>y, <1>2, <3>1
  <2> QED BY <1>y, <1>1, <2>1, <2>2, <2>3 DEF CallInv
<1>3. CASE \E r \in Requests(c) : Reject(c, r)
  <2>1. PICK r \in Requests(c) : Reject(c, r)
    BY <1>3
  <2>2. Verdict(c, r) \in {"method", "disabled", "invalid"}
    BY <2>1 DEF Reject, Verdict, handleIngest, Ingest
  <2>3. Answered(c, Verdict(c, r)) /\ backlog' = backlog
    BY <2>1 DEF Reject
  <2>4. PICK a \in {"method", "disabled", "invalid"} : a = Verdict(c, r)
    BY <2>2
  <2> QED BY <1>y, <1>1, <1>2, <2>3, <2>4
<1>4. CASE ReplayRefused(c)
  <2>1. backlog' = backlog
    BY <1>4 DEF ReplayRefused
  <2>2. \E a \in {"method", "unauthorized", "unsupported", "replayed"} : Answered(c, a)
    BY <1>4 DEF ReplayRefused
  <2> QED BY <1>y, <1>1, <1>2, <2>1, <2>2
<1>5. CASE ReplayFailed(c)
  <2>1. Answered(c, "failed") /\ backlog' \in {backlog, <<>>}
    BY <1>5 DEF ReplayFailed
  <2> QED BY <1>y, <1>1, <1>2, <2>1
<1>6. ASSUME NEW r \in Request, r.tenant \in TenantIds, Pushing(c, r),
             rest' \in [Callers -> Seq(Entry)], backlog' \in Seq(Entry),
             \E a \in {"none", "replaying"} : answer' = [answer EXCEPT ![c] = a]
      PROVE  /\ CallInv' /\ received' \in [Labels -> Nat]
             /\ pc'[c] = "allow" /\ req'[c].tenant \in TenantIds
             /\ received' = [received EXCEPT ![MetricLabel(reg, req'[c].tenant)] = @ + 1]
             /\ \A d \in Callers : d # c => pc'[d] = pc[d] /\ req'[d] = req[d]
  <2>1. /\ pc' \in [Callers -> {"idle", "allow", "append"}]
        /\ req' \in [Callers -> Request]
        /\ \A d \in Callers : pc'[d] # "idle" => req'[d].tenant \in TenantIds
        /\ received' \in [Labels -> Nat]
        /\ pc'[c] = "allow" /\ req'[c] = r
        /\ \A d \in Callers : d # c => pc'[d] = pc[d] /\ req'[d] = req[d]
    BY <1>6, PushingFacts
  <2>2. received' = [received EXCEPT ![MetricLabel(reg, req'[c].tenant)] = @ + 1]
    BY <1>6, <2>1 DEF Pushing
  <2>3. answer' \in [Callers -> {"none", "method", "disabled", "invalid", "quota",
                       "dropped", "accepted", "unauthorized", "unsupported", "failed",
                       "replaying", "replayed"}]
    BY <1>y, <1>6
  <2>4. CallInv'
    BY <1>1, <1>6, <2>1, <2>3 DEF CallInv
  <2> QED BY <1>6, <2>1, <2>2, <2>4
<1>7. CASE \E r \in Requests(c) : Begin(c, r)
  <2>1. PICK r \in Requests(c) : Begin(c, r)
    BY <1>7
  <2>2. r \in Request /\ r.tenant \in TenantIds
    BY DEF Requests, Request, Keys
  <2>3. Pushing(c, r) /\ rest' = rest /\ backlog' = backlog
        /\ answer' = [answer EXCEPT ![c] = "none"]
    BY <2>1 DEF Begin
  <2> QED BY <1>y, <1>1, <1>6, <2>2, <2>3
<1>8. CASE ReplayBegin(c)
  <2>1. /\ backlog # <<>> /\ Pushing(c, Head(backlog)) /\ backlog' = <<>>
        /\ rest' = [rest EXCEPT ![c] = Tail(backlog)]
        /\ answer' = [answer EXCEPT ![c] = "replaying"]
    BY <1>8 DEF ReplayBegin
  <2>2. Head(backlog) \in Entry /\ Tail(backlog) \in Seq(Entry) /\ <<>> \in Seq(Entry)
    BY <1>y, <2>1
  <2>3. PICK r \in Request : r = Head(backlog) /\ r.tenant \in TenantIds
    BY <2>2 DEF Entry, Request, Keys
  <2>4. rest' \in [Callers -> Seq(Entry)]
    BY <1>y, <2>1, <2>2
  <2> QED BY <1>y, <1>1, <1>6, <2>1, <2>2, <2>3, <2>4
<1> QED BY <1>3, <1>4, <1>5, <1>7, <1>8 DEF Calling

(* A push ends: the event is counted once, as accepted or as dropped, and  *)
(* the next one of a replay may begin.                                     *)
LEMMA ReturningFacts ==
    ASSUME ServerInv, CallInv, Counters, NEW c \in Callers, Returning(c)
    PROVE  /\ CallInv' /\ received' \in [Labels -> Nat] /\ buffered' \in 0..app.bufferSize
           /\ pc[c] # "idle" /\ Label(c) \in Labels
           /\ UNCHANGED <<server, now, grants>>
           /\ \A d \in Callers : d # c => pc'[d] = pc[d] /\ req'[d] = req[d]
           /\ \/ pc'[c] = "idle" /\ UNCHANGED received
              \/ /\ pc'[c] = "allow" /\ req'[c].tenant \in TenantIds
                 /\ received' = [received EXCEPT ![MetricLabel(reg, req'[c].tenant)] = @ + 1]
           /\ \/ dropped' = [dropped EXCEPT ![Label(c)] = @ + 1] /\ UNCHANGED accepted
              \/ accepted' = [accepted EXCEPT ![Label(c)] = @ + 1] /\ UNCHANGED dropped
           /\ IF OverQuota(c) THEN reg' = Charge(reg, Tenant(c), now) ELSE reg' = reg
<1>y. Registry(reg, now) /\ buffered \in 0..app.bufferSize /\ app.bufferSize \in Nat
  BY DEF ServerInv
<1>1. \E a \in {"quota", "dropped", "accepted"} : Return(c, a)
  BY DEF Returning, OverQuota, AppendFail, Full, Accept
<1>2. pc[c] # "idle"
  BY DEF Returning, OverQuota, AppendFail, Full, Accept
<1>3. Label(c) \in Labels
  BY <1>y, <1>2, LabelFacts DEF CallInv, Label, Tenant
<1>4. /\ grants' = grants
      /\ \/ dropped' = [dropped EXCEPT ![Label(c)] = @ + 1] /\ UNCHANGED accepted
         \/ accepted' = [accepted EXCEPT ![Label(c)] = @ + 1] /\ UNCHANGED dropped
  BY DEF Returning, OverQuota, AppendFail, Full, Accept, Dropped
<1>5. buffered' \in 0..app.bufferSize
  <2>1. buffered' = buffered \/ (buffered < app.bufferSize /\ buffered' = buffered + 1)
    BY DEF Returning, OverQuota, AppendFail, Full, Accept
  <2> QED BY <1>y, <2>1
<1>6. IF OverQuota(c) THEN reg' = Charge(reg, Tenant(c), now) ELSE reg' = reg
  BY DEF Returning, OverQuota, AppendFail, Full, Accept
<1>7. PICK a \in {"quota", "dropped", "accepted"} : Return(c, a)
  BY <1>1
<1>8. /\ CallInv' /\ received' \in [Labels -> Nat]
      /\ UNCHANGED <<server, now, backlog, calls>>
      /\ \A d \in Callers : d # c => pc'[d] = pc[d] /\ req'[d] = req[d] /\ rest'[d] = rest[d]
      /\ \/ pc'[c] = "idle" /\ UNCHANGED received
         \/ /\ pc'[c] = "allow" /\ req'[c].tenant \in TenantIds
            /\ received' = [received EXCEPT ![MetricLabel(reg, req'[c].tenant)] = @ + 1]
  BY <1>y, <1>7, ReturnFacts
<1> QED BY <1>2, <1>3, <1>4, <1>5, <1>6, <1>8
(* An admitted push costs a token of its bucket, and is only noted there.  *)
LEMMA AdmitFacts ==
    ASSUME ServerInv, CallInv, Counters, NEW c \in Callers, Admit(c)
    PROVE  /\ CallInv' /\ grants' \in [Keys -> [0..(MaxTime + 1) -> Nat]]
           /\ pc[c] # "idle" /\ pc'[c] # "idle" /\ Key(c) \in Keys
           /\ \A d \in Callers : d # c => pc'[d] = pc[d]
           /\ UNCHANGED <<server, now, buffered, req, received, dropped, accepted>>
           /\ reg' = Charge(reg, Tenant(c), now) /\ Allow(reg, Tenant(c), now)
           /\ \A k \in Keys : \A t \in 0..(MaxTime + 1) :
                 grants'[k][t] = IF k = Key(c) /\ t > now THEN grants[k][t] + 1 ELSE grants[k][t]
           /\ \A k \in Keys : k # Key(c) => grants'[k] = grants[k]
<1> DEFINE G == [t \in 0..(MaxTime + 1) |-> IF t > now THEN grants[Key(c)][t] + 1
                                                       ELSE grants[Key(c)][t]]
<1>1. /\ pc[c] = "allow" /\ pc' = [pc EXCEPT ![c] = "append"]
      /\ reg' = Charge(reg, Tenant(c), now) /\ Allow(reg, Tenant(c), now)
      /\ UNCHANGED <<server, now, buffered, backlog, req, rest, answer, received, dropped,
                     accepted, calls>>
  BY DEF Admit
<1>2. Key(c) \in Keys
  BY <1>1 DEF Key, Tenant, Keys, CallInv
<1>3. grants' = [grants EXCEPT ![Key(c)] = G]
  BY DEF Admit
<1>4. G \in [0..(MaxTime + 1) -> Nat]
  <2>1. grants[Key(c)] \in [0..(MaxTime + 1) -> Nat]
    BY <1>2 DEF Counters
  <2>2. \A t \in 0..(MaxTime + 1) : grants[Key(c)][t] \in Nat
    BY <2>1
  <2>3. \A n \in Nat : n + 1 \in Nat
    OBVIOUS
  <2> QED BY <2>2, <2>3
<1>5. \A t \in 0..(MaxTime + 1) : G[t] = IF t > now THEN grants[Key(c)][t] + 1 ELSE grants[Key(c)][t]
  OBVIOUS
<1> HIDE DEF G
<1>6. /\ grants' \in [Keys -> [0..(MaxTime + 1) -> Nat]]
      /\ \A k \in Keys : \A t \in 0..(MaxTime + 1) :
            grants'[k][t] = IF k = Key(c) /\ t > now THEN grants[k][t] + 1 ELSE grants[k][t]
  BY <1>2, <1>3, <1>4, <1>5 DEF Counters
<1>7. /\ pc' \in [Callers -> {"idle", "allow", "append"}] /\ pc'[c] # "idle"
      /\ \A d \in Callers : d # c => pc'[d] = pc[d]
  BY <1>1 DEF CallInv
<1>8. CallInv'
  BY <1>1, <1>7 DEF CallInv
<1>9. \A k \in Keys : k # Key(c) => grants'[k] = grants[k]
  BY <1>3 DEF Counters
<1> QED BY <1>1, <1>2, <1>6, <1>7, <1>8, <1>9

(* The buckets after a push was admitted or refused.                       *)
LEMMA ChargeKeeps ==
    ASSUME ServerInv, NEW id
    PROVE  /\ Registry(Charge(reg, id, now), now)
           /\ Charge(reg, id, now).enabled = reg.enabled /\ Charge(reg, id, now).known = reg.known
<1>1. now \in 0..MaxTime /\ Registry(reg, now)
  BY DEF ServerInv
<1> QED BY <1>1, ChargeFacts

(* The steps of no caller: what Load and Setup leave alone, and what the   *)
(* servers are after any of them.                                          *)
Housekeeping == \/ Load \/ Setup \/ Tick \/ Consume \/ UNCHANGED vars
                \/ \E s \in {"http", "grpc"} : DisableIngest(s)

(* They touch no call and no counter; only Setup replaces the buckets, and *)
(* those it builds are full.                                               *)
LEMMA HousekeepingFacts ==
    ASSUME FrontInv, LoadInv', Housekeeping
    PROVE  /\ ServerInv' /\ UNCHANGED <<backlog, call, received, dropped, history>>
           /\ UNCHANGED now \/ (stage = "serving" /\ now' = now + 1 /\ UNCHANGED <<stage, reg>>)
           /\ UNCHANGED buffered \/ stage = "serving"
           /\ \/ UNCHANGED reg
              \/ /\ stage # "serving" /\ stage' = "serving" /\ UNCHANGED now
                 /\ \A id : Limiter(reg', id) # NoLimit =>
                        Tokens(Limiter(reg', id), now) = Limiter(reg', id).burst
           /\ stage = "serving" => stage' = "serving"
<1>y. /\ stage \in {"load", "rejected", "setup", "serving"}
      /\ stage \in {"load", "rejected", "setup"} => cfg \in Configuration
      /\ enabled \subseteq {"http", "grpc"}
      /\ now \in 0..MaxTime /\ Registry(reg, now)
      /\ app.bufferSize \in Nat /\ buffered \in 0..app.bufferSize
      /\ stage # "serving" => now = 0 /\ buffered = 0
      /\ MaxTime \in Nat
  BY FrontendAssumption DEF FrontInv, LoadInv, ServerInv, Quiet
<1>1. CASE Load
  <2>1. /\ stage = "load" /\ cfg' = applyDefaults(cfg) /\ stage' \in {"setup", "rejected"}
        /\ UNCHANGED <<app, enabled, reg, now, buffered, backlog, call, received, dropped, history>>
    BY <1>1 DEF Load
  <2>2. cfg' \in Configuration
    BY <1>y, <2>1, DefaultsType
  <2>3. ServerInv'
    BY <1>y, <2>1, <2>2 DEF ServerInv
  <2> QED BY <2>1, <2>3
<1>2. CASE Setup
  <2>1. /\ stage = "setup" /\ reg' = NewRegistry(cfg.tenancy, now)
        /\ enabled' = IF cfg.server.ingestEnabled THEN {"http", "grpc"} ELSE {}
        /\ stage' \in {"failed", "crippled", "serving"}
        /\ UNCHANGED <<now, buffered, backlog, call, received, dropped, history>>
    BY <1>2 DEF Setup
  <2>2. app'.bufferSize = cfg.ingestor.bufferSize
    <3>1. app' = [needTenant |-> cfg.tenancy.enabled,
                    adminToken |-> cfg.server.adminToken # "",
                    replayable |-> cfg.dlq.enabled /\ cfg.dlq.type = "file",
                    wal |-> cfg.wal.enabled, bufferSize |-> cfg.ingestor.bufferSize]
      BY <1>2 DEF Setup
    <3> QED BY <3>1
  <2>3. stage' = "serving"
    BY <2>1 DEF LoadInv
  <2>4. PICK c \in Configuration : cfg = applyDefaults(c) /\ Validate(cfg)
    BY <2>1 DEF FrontInv, LoadInv
  <2>5. cfg.ingestor.bufferSize \in Int /\ cfg.ingestor.bufferSize > 0
    <3>1. cfg.ingestor \in IngestorConfig
      BY <1>y, <2>1 DEF Configuration
    <3> QED BY <2>4, <3>1 DEF Validate, validateIngestor, IngestorConfig
  <2>6. cfg.tenancy \in TenancyConfig
    BY <1>y, <2>1 DEF Configuration
  <2>7. /\ Registry(reg', now)
        /\ \A id : Limiter(reg', id) # NoLimit =>
               Tokens(Limiter(reg', id), now) = Limiter(reg', id).burst
    BY <1>y, <2>1, <2>6, NewRegistryFacts
  <2>8. enabled' \subseteq {"http", "grpc"}
    BY <2>1
  <2>9. /\ now' = now /\ buffered' = 0
        /\ app'.bufferSize \in Nat /\ 0 \in 0..app'.bufferSize
    BY <1>y, <2>1, <2>2, <2>5
  <2>10. ServerInv'
    BY <1>y, <2>3, <2>7, <2>8, <2>9 DEF ServerInv
  <2> QED BY <2>1, <2>3, <2>7, <2>10
<1>3. CASE Tick
  <2>1. /\ stage = "serving" /\ now < MaxTime /\ now' = now + 1
        /\ UNCHANGED <<server, reg, buffered, backlog, call, received, dropped, history>>
    BY <1>3 DEF Tick
  <2>2. now' \in 0..MaxTime /\ Registry(reg, now')
    BY <1>y, <2>1, RegistryTick
  <2>3. UNCHANGED <<stage, cfg, app, enabled>>
    BY <2>1 DEF server
  <2>4. ServerInv'
    BY <1>y, <2>1, <2>2, <2>3 DEF ServerInv
  <2> QED BY <2>1, <2>3, <2>4
<1>4. CASE Consume
  <2>1. /\ buffered > 0 /\ buffered' = buffered - 1
        /\ UNCHANGED <<server, reg, now, backlog, call, received, dropped, history>>
    BY <1>4 DEF Consume
  <2>2. UNCHANGED <<stage, cfg, app, enabled>>
    BY <2>1 DEF server
  <2>3. buffered' \in 0..app.bufferSize /\ stage = "serving"
    BY <1>y, <2>1
  <2>4. ServerInv'
    BY <1>y, <2>1, <2>2, <2>3 DEF ServerInv
  <2> QED BY <2>1, <2>2, <2>3, <2>4
<1>5. CASE UNCHANGED vars
  <2>1. UNCHANGED <<stage, cfg, app, enabled, reg, now, buffered, backlog, call, received,
                    dropped, history>>
    BY <1>5 DEF vars, server
  <2>2. ServerInv'
    BY <1>y, <2>1 DEF ServerInv
  <2> QED BY <2>1, <2>2
<1>6. CASE \E s \in {"http", "grpc"} : DisableIngest(s)
  <2>1. /\ stage = "serving" /\ enabled' \subseteq enabled
        /\ UNCHANGED <<stage, cfg, app, reg, now, buffered, backlog, call,
                       received, dropped, history>>
    BY <1>6 DEF DisableIngest
  <2>2. ServerInv'
    BY <1>y, <2>1 DEF ServerInv
  <2> QED BY <2>1, <2>2
<1> QED BY <1>1, <1>2, <1>3, <1>4, <1>5, <1>6 DEF Housekeeping

(* Every step is one of these.                                             *)
LEMMA StepKinds ==
    ASSUME [Next]_vars
    PROVE  Housekeeping \/ \E c \in Callers : Calling(c) \/ Admit(c) \/ Returning(c)
BY DEF Next, Housekeeping, Calling, Returning

(* Every step keeps the types, and nothing happens before the process      *)
(* serves.                                                                 *)
LEMMA FrontStep == FrontInv /\ [Next]_vars => FrontInv'
<1> SUFFICES ASSUME FrontInv, [Next]_vars PROVE FrontInv'
  OBVIOUS
<1>0. LoadInv' /\ ServerInv /\ CallInv /\ Counters /\ Quiet
  BY LoadInvNext DEF FrontInv
<1>y. /\ received \in [Labels -> Nat] /\ dropped \in [Labels -> Nat]
      /\ accepted \in [Labels -> Nat] /\ grants \in [Keys -> [0..(MaxTime + 1) -> Nat]]
      /\ now \in 0..MaxTime /\ Registry(reg, now) /\ app.bufferSize \in Nat
      /\ buffered \in 0..app.bufferSize /\ enabled \subseteq {"http", "grpc"}
  BY <1>0 DEF Counters, ServerInv
<1>1. CASE Housekeeping
  <2>1. /\ ServerInv' /\ UNCHANGED <<backlog, call, received, dropped, history>>
    BY <1>0, <1>1, HousekeepingFacts
  <2>2. UNCHANGED <<pc, req, rest, answer, accepted, grants, calls, backlog, received, dropped>>
    BY <2>1 DEF call, history
  <2>3. CallInv'
    BY <1>0, <2>2 DEF CallInv
  <2>4. Counters'
    BY <1>y, <2>2 DEF Counters
  <2>5. Quiet'
    <3>1. (UNCHANGED now \/ stage = "serving") /\ (UNCHANGED buffered \/ stage = "serving")
          /\ (stage = "serving" => stage' = "serving")
      BY <1>0, <1>1, HousekeepingFacts
    <3> QED BY <1>0, <2>2, <3>1 DEF Quiet
  <2> QED BY <1>0, <2>1, <2>3, <2>4, <2>5 DEF FrontInv
<1>2. ASSUME NEW c \in Callers, pc[c] # "idle" PROVE stage = "serving"
  BY <1>0, <1>2 DEF Quiet
<1>3. ASSUME NEW c \in Callers, Calling(c) PROVE FrontInv'
  <2>1. /\ CallInv' /\ received' \in [Labels -> Nat] /\ stage = "serving"
        /\ UNCHANGED <<server, reg, now, buffered, dropped, accepted, grants>>
    BY <1>0, <1>y, <1>3, CallingFacts
  <2>2. UNCHANGED <<stage, cfg, app, enabled>>
    BY <2>1 DEF server
  <2>3. ServerInv'
    BY <1>y, <2>1, <2>2 DEF ServerInv
  <2>4. Counters' /\ Quiet'
    BY <1>y, <2>1, <2>2 DEF Counters, Quiet
  <2> QED BY <1>0, <2>1, <2>3, <2>4 DEF FrontInv
<1>4. ASSUME NEW c \in Callers, Admit(c) PROVE FrontInv'
  <2>1. /\ CallInv' /\ grants' \in [Keys -> [0..(MaxTime + 1) -> Nat]] /\ pc[c] # "idle"
        /\ UNCHANGED <<server, now, buffered, received, dropped, accepted>>
        /\ reg' = Charge(reg, Tenant(c), now)
    BY <1>0, <1>4, AdmitFacts
  <2>2. UNCHANGED <<stage, cfg, app, enabled>> /\ stage = "serving"
    BY <1>2, <2>1 DEF server
  <2>3. Registry(reg', now)
    BY <1>0, <2>1, ChargeKeeps
  <2>4. ServerInv'
    BY <1>y, <2>1, <2>2, <2>3 DEF ServerInv
  <2>5. Counters' /\ Quiet'
    BY <1>y, <2>1, <2>2 DEF Counters, Quiet
  <2> QED BY <1>0, <2>1, <2>4, <2>5 DEF FrontInv
<1>5. ASSUME NEW c \in Callers, Returning(c) PROVE FrontInv'
  <2>1. /\ CallInv' /\ received' \in [Labels -> Nat] /\ buffered' \in 0..app.bufferSize
        /\ pc[c] # "idle" /\ Label(c) \in Labels /\ UNCHANGED <<server, now, grants>>
        /\ \/ dropped' = [dropped EXCEPT ![Label(c)] = @ + 1] /\ UNCHANGED accepted
           \/ accepted' = [accepted EXCEPT ![Label(c)] = @ + 1] /\ UNCHANGED dropped
        /\ reg' = Charge(reg, Tenant(c), now) \/ reg' = reg
    BY <1>0, <1>5, ReturningFacts
  <2>2. UNCHANGED <<stage, cfg, app, enabled>> /\ stage = "serving"
    BY <1>2, <2>1 DEF server
  <2>3. Registry(reg', now)
    BY <1>0, <1>y, <2>1, ChargeKeeps
  <2>4. ServerInv'
    BY <1>y, <2>1, <2>2, <2>3 DEF ServerInv
  <2>5. dropped' \in [Labels -> Nat] /\ accepted' \in [Labels -> Nat]
    <3>1. PICK l \in Labels : l = Label(c)
      BY <2>1
    <3> HIDE DEF Label
    <3>2. /\ [dropped EXCEPT ![l] = @ + 1] \in [Labels -> Nat]
          /\ [accepted EXCEPT ![l] = @ + 1] \in [Labels -> Nat]
      BY <1>y
    <3> QED BY <1>y, <2>1, <3>1, <3>2
  <2>6. Counters' /\ Quiet'
    BY <1>y, <2>1, <2>2, <2>5 DEF Counters, Quiet
  <2> QED BY <1>0, <2>1, <2>4, <2>6 DEF FrontInv
<1> QED BY <1>1, <1>3, <1>4, <1>5, StepKinds

(* The types, whatever is configured and called: no bucket holds more than *)
(* its burst, and the buffer no more than its size.                        *)
THEOREM TypeCorrect == Spec => []TypeOK
<1>1. FrontInv => TypeOK
  <2> SUFFICES ASSUME FrontInv PROVE TypeOK
    OBVIOUS
  <2>1. \A b \in {reg.limiters[t] : t \in reg.known} \cup {reg.defaultLim} :
           b \in Bucket /\ b.tokens <= b.burst
    BY DEF FrontInv, ServerInv, Registry, Fair
  <2> QED BY <2>1 DEF FrontInv, LoadInv, ServerInv, CallInv, Counters, TypeOK
<1> QED BY <1>1, FrontInit, FrontStep, PTL DEF Spec
-----------------------------------------------------------------------------
(* The counters.                                                           *)

(* The pushes in progress under a label, and whether c's is one of them.   *)
Ongoing(l) == {c \in Callers : pc[c] # "idle" /\ Label(c) = l}
In(c, l) == IF pc[c] # "idle" /\ Label(c) = l THEN 1 ELSE 0

(* Two finite sets that differ in one element at most.                     *)
LEMMA CountOne ==
    ASSUME NEW A, NEW B, NEW c, IsFiniteSet(A), IsFiniteSet(B), A \ {c} = B \ {c}
    PROVE  /\ Cardinality(A) \in Nat /\ Cardinality(B) \in Nat
           /\ Cardinality(B) + (IF c \in A THEN 1 ELSE 0)
                = Cardinality(A) + (IF c \in B THEN 1 ELSE 0)
<1> DEFINE D == A \ {c}
<1>1. /\ Cardinality(A) \in Nat /\ Cardinality(B) \in Nat
  BY FS_CardinalityType
<1>2. IsFiniteSet(D) /\ Cardinality(D) = IF c \in A THEN Cardinality(A) - 1 ELSE Cardinality(A)
  BY FS_RemoveElement
<1>3. Cardinality(D) = IF c \in B THEN Cardinality(B) - 1 ELSE Cardinality(B)
  BY FS_RemoveElement
<1> HIDE DEF D
<1> QED BY <1>1, <1>2, <1>3

(* One caller's step, as the number of pushes in progress sees it.         *)
LEMMA OngoingFacts ==
    ASSUME NEW c \in Callers, reg'.enabled = reg.enabled, reg'.known = reg.known,
           \A d \in Callers : d # c => pc'[d] = pc[d] /\ req'[d] = req[d], NEW l
    PROVE  /\ Cardinality(Ongoing(l)) \in Nat /\ Cardinality(Ongoing(l)') \in Nat
           /\ Cardinality(Ongoing(l)') + In(c, l) = Cardinality(Ongoing(l)) + In(c, l)'
<1>1. \A id : MetricLabel(reg', id) = MetricLabel(reg, id)
  BY DEF MetricLabel
<1>2. \A d \in Callers : d # c =>
        ((pc[d] # "idle" /\ Label(d) = l) <=> (pc[d] # "idle" /\ Label(d) = l)')
  BY <1>1 DEF Label, Tenant
<1>3. Ongoing(l) \ {c} = Ongoing(l)' \ {c}
  BY <1>2 DEF Ongoing
<1>4. IsFiniteSet(Ongoing(l)) /\ IsFiniteSet(Ongoing(l)')
  <2>1. Ongoing(l) \subseteq Callers /\ Ongoing(l)' \subseteq Callers
    BY DEF Ongoing
  <2> QED BY <2>1, FrontendAssumption, FS_Subset
<1>5. (c \in Ongoing(l) <=> pc[c] # "idle" /\ Label(c) = l)
      /\ (c \in Ongoing(l)' <=> (pc[c] # "idle" /\ Label(c) = l)')
  BY DEF Ongoing
<1>6. /\ In(c, l) = (IF c \in Ongoing(l) THEN 1 ELSE 0)
      /\ In(c, l)' = (IF c \in Ongoing(l)' THEN 1 ELSE 0)
  BY <1>5 DEF In
<1> QED BY <1>3, <1>4, <1>6, CountOne

(* The balance, label by label.                                            *)
Balance == \A l \in Labels : received[l] = accepted[l] + dropped[l] + Cardinality(Ongoing(l))

(* What has a count is a known tenant, or nobody's label.                  *)
Labelled == \A l \in Labels : received[l] > 0 => l \in reg.known \cup {"_other", "_single"}

(* A step of one caller keeps the balance if what it adds to the counters  *)
(* is what it adds to, and takes from, the pushes in progress.             *)
LEMMA BalanceStep ==
    ASSUME Balance, Counters, Counters',
           NEW c \in Callers, reg'.enabled = reg.enabled, reg'.known = reg.known,
           \A d \in Callers : d # c => pc'[d] = pc[d] /\ req'[d] = req[d],
           \A l \in Labels : received'[l] + accepted[l] + dropped[l] + In(c, l)
                              = received[l] + accepted'[l] + dropped'[l] + In(c, l)'
    PROVE  Balance'
<1> SUFFICES ASSUME NEW l \in Labels
             PROVE  received'[l] = accepted'[l] + dropped'[l] + Cardinality(Ongoing(l)')
  BY DEF Balance
<1>1. /\ Cardinality(Ongoing(l)) \in Nat /\ Cardinality(Ongoing(l)') \in Nat
      /\ Cardinality(Ongoing(l)') + In(c, l) = Cardinality(Ongoing(l)) + In(c, l)'
  BY OngoingFacts
<1>2. /\ received[l] \in Nat /\ accepted[l] \in Nat /\ dropped[l] \in Nat
      /\ received'[l] \in Nat /\ accepted'[l] \in Nat /\ dropped'[l] \in Nat
  BY DEF Counters
<1>3. In(c, l) \in Nat /\ In(c, l)' \in Nat
  BY DEF In
<1>4. received[l] = accepted[l] + dropped[l] + Cardinality(Ongoing(l))
  BY DEF Balance
<1>5. received'[l] + accepted[l] + dropped[l] + In(c, l)
        = received[l] + accepted'[l] + dropped'[l] + In(c, l)'
  OBVIOUS
<1> QED BY <1>1, <1>2, <1>3, <1>4, <1>5

(* A push that begins is counted under its label; until it does, nothing   *)
(* is.                                                                     *)
LEMMA CountedFacts ==
    ASSUME Counters, Registry(reg, now), NEW c \in Callers,
           reg'.enabled = reg.enabled, reg'.known = reg.known,
           \/ pc'[c] = "idle" /\ UNCHANGED received
           \/ /\ pc'[c] = "allow" /\ req'[c].tenant \in TenantIds
              /\ received' = [received EXCEPT ![MetricLabel(reg, req'[c].tenant)] = @ + 1]
    PROVE  /\ \A l \in Labels : received'[l] = received[l] + In(c, l)'
           /\ Labelled => Labelled'
<1> DEFINE m == MetricLabel(reg, req'[c].tenant)
<1>y. received \in [Labels -> Nat]
  BY DEF Counters
<1>1. CASE pc'[c] = "idle" /\ UNCHANGED received
  <2>1. \A l : In(c, l)' = 0
    BY <1>1 DEF In
  <2> QED BY <1>y, <1>1, <2>1 DEF Labelled
<1>2. CASE /\ pc'[c] = "allow" /\ req'[c].tenant \in TenantIds
           /\ received' = [received EXCEPT ![m] = @ + 1]
  <2>1. m \in Labels /\ m \in reg.known \cup {"_other", "_single"}
    BY <1>2, LabelFacts
  <2>2. Label(c)' = m
    BY DEF Label, Tenant, MetricLabel
  <2>3. \A l : In(c, l)' = IF l = m THEN 1 ELSE 0
    BY <1>2, <2>2 DEF In
  <2> HIDE DEF m
  <2>4. \A l \in Labels : received'[l] = IF l = m THEN received[l] + 1 ELSE received[l]
    BY <1>y, <1>2, <2>1
  <2>5. \A l \in Labels : received'[l] = received[l] + In(c, l)'
    BY <1>y, <2>3, <2>4
  <2>6. Labelled => Labelled'
    BY <1>y, <2>1, <2>4 DEF Labelled
  <2> QED BY <2>5, <2>6
<1> QED BY <1>1, <1>2

(* Every step keeps the balance.                                           *)
LEMMA BalanceNext == FrontInv /\ FrontInv' /\ Balance /\ Labelled /\ [Next]_vars
                        => Balance' /\ Labelled'
<1> SUFFICES ASSUME FrontInv, FrontInv', Balance, Labelled, [Next]_vars
             PROVE  Balance' /\ Labelled'
  OBVIOUS
<1>0. /\ LoadInv' /\ ServerInv /\ CallInv /\ Counters /\ Counters' /\ Quiet
      /\ now \in 0..MaxTime /\ Registry(reg, now)
  BY DEF FrontInv, ServerInv
<1>y. /\ received \in [Labels -> Nat] /\ dropped \in [Labels -> Nat]
      /\ accepted \in [Labels -> Nat]
  BY <1>0 DEF Counters
<1>1. CASE Housekeeping
  <2>1. /\ UNCHANGED <<backlog, call, received, dropped, history>>
        /\ UNCHANGED reg \/ stage # "serving"
    BY <1>0, <1>1, HousekeepingFacts
  <2>2. UNCHANGED <<pc, req, received, dropped, accepted>>
    BY <2>1 DEF call, history
  <2>3. CASE UNCHANGED reg
    <3>1. \A l : Ongoing(l)' = Ongoing(l)
      BY <2>2, <2>3 DEF Ongoing, Label, Tenant
    <3> QED BY <2>2, <2>3, <3>1 DEF Balance, Labelled
  <2>4. CASE stage # "serving"
    <3>1. /\ \A c \in Callers : pc[c] = "idle"
          /\ \A l \in Labels : received[l] = 0 /\ accepted[l] = 0 /\ dropped[l] = 0
      BY <1>0, <2>4 DEF Quiet
    <3>2. \A l : Ongoing(l)' = {}
      BY <2>2, <3>1 DEF Ongoing
    <3>3. Cardinality({}) = 0
      BY FS_EmptySet
    <3>4. Balance'
      BY <2>2, <3>1, <3>2, <3>3 DEF Balance
    <3>5. Labelled'
      BY <2>2, <3>1 DEF Labelled
    <3> QED BY <3>4, <3>5
  <2> QED BY <2>1, <2>3, <2>4
<1>2. ASSUME NEW c \in Callers, Calling(c) PROVE Balance' /\ Labelled'
  <2>1. /\ pc[c] = "idle" /\ UNCHANGED <<reg, dropped, accepted>>
        /\ \A d \in Callers : d # c => pc'[d] = pc[d] /\ req'[d] = req[d]
        /\ \/ pc'[c] = "idle" /\ UNCHANGED received
           \/ /\ pc'[c] = "allow" /\ req'[c].tenant \in TenantIds
              /\ received' = [received EXCEPT ![MetricLabel(reg, req'[c].tenant)] = @ + 1]
    BY <1>0, <1>2, CallingFacts
  <2>2. /\ \A l \in Labels : received'[l] = received[l] + In(c, l)'
        /\ Labelled'
    BY <1>0, <2>1, CountedFacts
  <2>3. \A l : In(c, l) = 0 /\ In(c, l)' \in Nat
    BY <2>1 DEF In
  <2>4. \A l \in Labels : received'[l] + accepted[l] + dropped[l] + In(c, l)
                            = received[l] + accepted'[l] + dropped'[l] + In(c, l)'
    BY <1>y, <2>1, <2>2, <2>3
  <2> QED BY <1>0, <2>1, <2>2, <2>4, BalanceStep
<1>3. ASSUME NEW c \in Callers, Admit(c) PROVE Balance' /\ Labelled'
  <2>1. /\ pc[c] # "idle" /\ pc'[c] # "idle"
        /\ \A d \in Callers : d # c => pc'[d] = pc[d]
        /\ UNCHANGED <<req, received, dropped, accepted>>
        /\ reg' = Charge(reg, Tenant(c), now)
    BY <1>0, <1>3, AdmitFacts
  <2>2. reg'.enabled = reg.enabled /\ reg'.known = reg.known
    BY <1>0, <2>1, ChargeKeeps
  <2>3. \A l : In(c, l)' = In(c, l)
    BY <2>1, <2>2 DEF In, Label, Tenant, MetricLabel
  <2>4. \A l \in Labels : received'[l] + accepted[l] + dropped[l] + In(c, l)
                            = received[l] + accepted'[l] + dropped'[l] + In(c, l)'
    BY <2>1, <2>3
  <2>5. Balance'
    BY <1>0, <2>1, <2>2, <2>4, BalanceStep
  <2>6. Labelled'
    BY <2>1, <2>2 DEF Labelled
  <2> QED BY <2>5, <2>6
<1>4. ASSUME NEW c \in Callers, Returning(c) PROVE Balance' /\ Labelled'
  <2>1. /\ pc[c] # "idle" /\ Label(c) \in Labels
        /\ \A d \in Callers : d # c => pc'[d] = pc[d] /\ req'[d] = req[d]
        /\ \/ pc'[c] = "idle" /\ UNCHANGED received
           \/ /\ pc'[c] = "allow" /\ req'[c].tenant \in TenantIds
              /\ received' = [received EXCEPT ![MetricLabel(reg, req'[c].tenant)] = @ + 1]
        /\ \/ dropped' = [dropped EXCEPT ![Label(c)] = @ + 1] /\ UNCHANGED accepted
           \/ accepted' = [accepted EXCEPT ![Label(c)] = @ + 1] /\ UNCHANGED dropped
        /\ reg' = Charge(reg, Tenant(c), now) \/ reg' = reg
    BY <1>0, <1>4, ReturningFacts
  <2>2. reg'.enabled = reg.enabled /\ reg'.known = reg.known
    BY <1>0, <2>1, ChargeKeeps
  <2>3. /\ \A l \in Labels : received'[l] = received[l] + In(c, l)'
        /\ Labelled'
    BY <1>0, <2>1, <2>2, CountedFacts
  <2>4. \A l \in Labels : accepted'[l] + dropped'[l] = accepted[l] + dropped[l] + In(c, l)
    <3>1. PICK m \in Labels : m = Label(c)
      BY <2>1
    <3>2. \A l : In(c, l) = IF l = m THEN 1 ELSE 0
      BY <2>1, <3>1 DEF In
    <3>3. \/ dropped' = [dropped EXCEPT ![m] = @ + 1] /\ UNCHANGED accepted
          \/ accepted' = [accepted EXCEPT ![m] = @ + 1] /\ UNCHANGED dropped
      BY <2>1, <3>1
    <3> QED BY <1>y, <3>2, <3>3
  <2>5. \A l \in Labels : received'[l] + accepted[l] + dropped[l] + In(c, l)
                            = received[l] + accepted'[l] + dropped'[l] + In(c, l)'
    <3>1. \A l \in Labels : /\ received[l] \in Nat /\ accepted[l] \in Nat /\ dropped[l] \in Nat
                            /\ accepted'[l] \in Nat /\ dropped'[l] \in Nat
                            /\ In(c, l) \in Nat /\ In(c, l)' \in Nat
      BY <1>0 DEF Counters, In
    <3> QED BY <2>3, <2>4, <3>1
  <2> QED BY <1>0, <2>1, <2>2, <2>3, <2>5, BalanceStep
<1> QED BY <1>1, <1>2, <1>3, <1>4, StepKinds

(* Every push that was received is accounted for, label by label, however  *)
(* the calls and the replay interleave.                                    *)
THEOREM CountersAgree == Spec => []CountersBalance
<1>1. Init => Balance /\ Labelled
  <2> SUFFICES ASSUME Init PROVE Balance /\ Labelled
    OBVIOUS
  <2>1. \A l : Ongoing(l) = {}
    BY DEF Init, Ongoing
  <2>2. Cardinality({}) = 0
    BY FS_EmptySet
  <2>3. \A l \in Labels : received[l] = 0 /\ accepted[l] = 0 /\ dropped[l] = 0
    BY DEF Init
  <2> QED BY <2>1, <2>2, <2>3 DEF Balance, Labelled
<1>2. Balance /\ Labelled => CountersBalance
  BY DEF Balance, Labelled, CountersBalance, Ongoing
<1> QED BY <1>1, <1>2, FrontInit, FrontStep, BalanceNext, PTL DEF Spec
-----------------------------------------------------------------------------
(* The quota.                                                              *)

(* Two products, step by step, and a product with a natural factor.        *)
LEMMA Products ==
    ASSUME NEW r \in Nat
    PROVE  /\ \A m \in Int : r * m \in Int /\ r * (m + 1) = r * m + r
           /\ \A m \in Nat : r * m \in Nat
           /\ r * 0 = 0
OBVIOUS

(* The bound of an interval.                                              *)
LEMMA UpperBound ==
    ASSUME NEW m \in Nat, NEW n \in 0..m
    PROVE  n <= m
OBVIOUS

(* Sums of integers.                                                       *)
LEMMA Sums ==
    ASSUME NEW x \in Int, NEW k \in Int, NEW u \in Int, NEW q \in Int, NEW r \in Int
    PROVE  /\ x + k <= u + q /\ k >= r => x + r <= u + q
           /\ x + k = u + q => x + (k + r) = u + (q + r)
           /\ x + k = u + q /\ k < r => x + r > u + q
OBVIOUS

(* A bucket that was never asked: full, and nothing admitted.              *)
LEMMA BucketNew ==
    ASSUME NEW b, Fair(b, 0), b # NoLimit => Tokens(b, 0) = b.burst,
           NEW g \in [0..(MaxTime + 1) -> Nat], \A t \in 0..(MaxTime + 1) : g[t] = 0
    PROVE  Metered(b, g, 0)
<1>y. b.burst \in Nat /\ b.rate \in Nat /\ Scale \in Nat /\ MaxTime \in Nat
  BY FrontendAssumption, ScaleAssumption DEF Fair, Bucket
<1>1. 0 \in 0..(MaxTime + 1) /\ 0 + 1 \in 0..(MaxTime + 1) /\ 0..0 = {0}
  BY <1>y
<1>2. \A t \in 0..(MaxTime + 1) : t > 0 => g[t] = g[0 + 1]
  BY <1>1
<1>3. /\ g[0 + 1] - g[0] = 0 /\ 0 - 0 = 0 /\ Scale * 0 = 0 /\ b.rate * 0 = 0
      /\ 0 + b.burst = b.burst + 0 /\ 0 <= b.burst + 0 /\ 0 + b.burst <= b.burst + 0
  BY <1>y, <1>1
<1>4. \A t \in 0..0 : t = 0 /\ \A s \in 0..t : s = 0
  BY <1>1
<1> QED BY <1>1, <1>2, <1>3, <1>4 DEF Metered

(* A request is admitted: one token less, one request more.                *)
LEMMA BucketAdmit ==
    ASSUME NEW n \in 0..MaxTime, NEW b, NEW g \in [0..(MaxTime + 1) -> Nat],
           NEW h \in [0..(MaxTime + 1) -> Nat], Metered(b, g, n), Fair(b, n), Admits(b, n),
           \A t \in 0..(MaxTime + 1) : h[t] = IF t > n THEN g[t] + 1 ELSE g[t]
    PROVE  Metered(After(b, n), h, n)
<1>y. /\ n \in Nat /\ MaxTime \in Nat /\ Scale \in Nat /\ n + 1 \in 0..(MaxTime + 1)
      /\ \A t \in 0..n : t \in 0..(MaxTime + 1) /\ t \in Nat /\ t <= n
      /\ \A t \in 0..(MaxTime + 1) : g[t] \in Nat
  BY FrontendAssumption, ScaleAssumption
<1>1. \A t \in 0..(MaxTime + 1) : t > n => h[t] = h[n + 1]
  BY <1>y DEF Metered
<1>2. CASE b = NoLimit
  <2>1. After(b, n) = NoLimit
    BY <1>2 DEF After
  <2> QED BY <1>1, <2>1 DEF Metered
<1>3. CASE b # NoLimit
  <2> DEFINE a == After(b, n)
             k == Tokens(b, n)
  <2>1. /\ a.rate = b.rate /\ a.burst = b.burst /\ Tokens(a, n) = k - Scale /\ k >= Scale
    BY <1>3, AfterFacts
  <2>2. k \in Nat /\ b.rate \in Nat /\ b.burst \in Nat
    BY RefillFacts DEF Fair, Bucket
  <2> HIDE DEF a, k
  <2>3. \A s \in 0..n : /\ h[s] = g[s] /\ h[n + 1] = g[n + 1] + 1
                        /\ h[n + 1] - h[s] = (g[n + 1] - g[s]) + 1
                        /\ g[n + 1] - g[s] \in Int /\ n - s \in Nat
    <3> TAKE s \in 0..n
    <3>1. s \in 0..(MaxTime + 1) /\ ~(s > n) /\ n + 1 > n /\ n - s \in Nat
      BY <1>y
    <3>2. h[s] = g[s] /\ h[n + 1] = g[n + 1] + 1 /\ g[s] \in Nat /\ g[n + 1] \in Nat
      BY <1>y, <3>1
    <3>3. \A x, y \in Nat : (x + 1) - y = (x - y) + 1 /\ x - y \in Int
      OBVIOUS
    <3> QED BY <3>1, <3>2, <3>3
  <2>4. \A s \in 0..n : /\ Scale * (h[n + 1] - h[s]) = Scale * (g[n + 1] - g[s]) + Scale
                        /\ Scale * (g[n + 1] - g[s]) \in Int
                        /\ b.rate * (n - s) \in Nat
    BY <1>y, <2>2, <2>3, Products
  <2>5. \A s \in 0..n : Scale * (h[n + 1] - h[s]) + Tokens(a, n) = Scale * (g[n + 1] - g[s]) + k
    <3> TAKE s \in 0..n
    <3> DEFINE x == Scale * (g[n + 1] - g[s])
    <3>1. Scale * (h[n + 1] - h[s]) = x + Scale /\ x \in Int
      BY <2>4
    <3> HIDE DEF x
    <3>2. (x + Scale) + (k - Scale) = x + k
      BY <1>y, <2>2, <3>1
    <3> QED BY <2>1, <3>1, <3>2 DEF x
  <2>6. /\ \A s \in 0..n : Scale * (g[n + 1] - g[s]) + k <= b.burst + b.rate * (n - s)
        /\ \E s \in 0..n : Scale * (g[n + 1] - g[s]) + k = b.burst + b.rate * (n - s)
        /\ \A t \in 0..n : \A s \in 0..t : Scale * (g[t + 1] - g[s]) <= b.burst + b.rate * (t - s)
    BY <1>3 DEF Metered, k
  <2>7. \A t \in 0..n : \A s \in 0..t : Scale * (h[t + 1] - h[s]) <= a.burst + a.rate * (t - s)
    <3> TAKE t \in 0..n
    <3> TAKE s \in 0..t
    <3>1. s \in 0..n /\ t + 1 \in 0..(MaxTime + 1)
      BY <1>y
    <3>2. CASE t = n
      <4> DEFINE x == Scale * (g[n + 1] - g[s])
                 q == b.rate * (n - s)
      <4>1. Scale * (h[n + 1] - h[s]) = x + Scale /\ x \in Int /\ q \in Nat
        BY <2>4, <3>1
      <4>2. x + k <= b.burst + q
        BY <2>6, <3>1
      <4> HIDE DEF x, q
      <4>3. k >= Scale
        BY <2>1
      <4>4. x \in Int /\ k \in Int /\ b.burst \in Int /\ q \in Int /\ Scale \in Int
        BY <1>y, <2>2, <4>1, SMTT(30)
      <4>5. x + Scale <= b.burst + q
        BY <4>2, <4>3, <4>4, Sums
      <4> QED BY <2>1, <3>2, <4>1, <4>5 DEF q
    <3>3. CASE t # n
      <4>1. ~(t + 1 > n)
        BY <1>y, <3>3
      <4>2. h[t + 1] = g[t + 1] /\ h[s] = g[s]
        BY <2>3, <3>1, <4>1
      <4> QED BY <2>1, <2>6, <4>2
    <3> QED BY <3>2, <3>3
  <2> QED BY <1>1, <2>1, <2>5, <2>6, <2>7 DEF Metered, a
<1> QED BY <1>2, <1>3

(* A request is refused: what has not been credited yet is, and that is    *)
(* all.                                                                    *)
LEMMA BucketRefuse ==
    ASSUME NEW n \in 0..MaxTime, NEW b, NEW g, Metered(b, g, n), Fair(b, n), ~Admits(b, n)
    PROVE  Metered(After(b, n), g, n)
<1>1. b # NoLimit
  BY DEF Admits
<1>2. /\ After(b, n).rate = b.rate /\ After(b, n).burst = b.burst
      /\ Tokens(After(b, n), n) = Tokens(b, n)
  BY <1>1, AfterFacts
<1> QED BY <1>1, <1>2 DEF Metered

(* Time passes.                                                            *)
LEMMA BucketTick ==
    ASSUME NEW n \in Nat, n + 1 <= MaxTime, NEW b, NEW g \in [0..(MaxTime + 1) -> Nat],
           Metered(b, g, n), Fair(b, n)
    PROVE  Metered(b, g, n + 1)
<1> DEFINE k == Tokens(b, n)
           j == Tokens(b, n + 1)
           m == n + 1
<1>y. /\ MaxTime \in Nat /\ Scale \in Nat /\ b.rate \in Nat /\ b.burst \in Nat
      /\ n \in 0..MaxTime /\ m \in 0..MaxTime /\ m + 1 \in 0..(MaxTime + 1) /\ m + 1 > n
      /\ n + 1 = m /\ n + 1 \in 0..(MaxTime + 1) /\ n + 1 > n
  BY FrontendAssumption, ScaleAssumption DEF Fair, Bucket
<1>1. k \in Nat /\ k <= b.burst
  BY <1>y, RefillFacts
<1>2. j = IF k + b.rate > b.burst THEN b.burst ELSE k + b.rate
  BY TickFacts
<1> HIDE DEF k, j, m
<1>3. g[m + 1] = g[n + 1]
  BY <1>y DEF Metered
<1>4. \A t \in 0..(MaxTime + 1) : t > m => g[t] = g[m + 1]
  <2> TAKE t \in 0..(MaxTime + 1)
  <2>1. t > m => t > n
    BY <1>y
  <2> QED BY <1>3, <2>1 DEF Metered
<1>5. CASE b = NoLimit
  BY <1>4, <1>5 DEF Metered, m
<1>6. CASE b # NoLimit
  <2>1. /\ \A s \in 0..n : Scale * (g[n + 1] - g[s]) + k <= b.burst + b.rate * (n - s)
        /\ \E s \in 0..n : Scale * (g[n + 1] - g[s]) + k = b.burst + b.rate * (n - s)
        /\ \A t \in 0..n : \A s \in 0..t : Scale * (g[t + 1] - g[s]) <= b.burst + b.rate * (t - s)
    BY <1>6 DEF Metered, k
  <2>2. ASSUME NEW s \in 0..n
        PROVE  /\ s \in 0..m /\ Scale * (g[m + 1] - g[s]) \in Int
               /\ Scale * (g[m + 1] - g[s]) = Scale * (g[n + 1] - g[s])
               /\ b.rate * (m - s) = b.rate * (n - s) + b.rate /\ b.rate * (n - s) \in Nat
    <3>1. /\ s \in 0..m /\ s \in 0..(MaxTime + 1) /\ n - s \in Nat /\ n - s \in Int
          /\ m - s = (n - s) + 1
      BY <1>y
    <3>2. g[m + 1] - g[s] \in Int
      BY <1>y, <3>1
    <3> QED BY <1>y, <1>3, <3>1, <3>2, Products
  <2>3. /\ m \in 0..m /\ g[m + 1] - g[m] = 0 /\ m - m = 0 /\ Scale * 0 = 0 /\ b.rate * 0 = 0
    <3>1. g[m + 1] = g[m] /\ g[m] \in Nat
      BY <1>y, <1>3
    <3> QED BY <1>y, <3>1
  <2>4. j \in Nat /\ j <= b.burst /\ j <= k + b.rate
    BY <1>y, <1>1, <1>2
  <2>5. \A s \in 0..m : s \in 0..n \/ s = m
    BY <1>y
  <2>6. \A s \in 0..m : Scale * (g[m + 1] - g[s]) + j <= b.burst + b.rate * (m - s)
    <3> TAKE s \in 0..m
    <3>1. CASE s \in 0..n
      <4> DEFINE x == Scale * (g[n + 1] - g[s])
                 q == b.rate * (n - s)
      <4>1. x \in Int /\ q \in Nat /\ x + k <= b.burst + q
        BY <2>1, <2>2, <3>1
      <4>2. Scale * (g[m + 1] - g[s]) = x /\ b.rate * (m - s) = q + b.rate
        BY <2>2, <3>1
      <4> HIDE DEF x, q
      <4>3. x + j <= b.burst + (q + b.rate)
        BY <1>y, <1>1, <2>4, <4>1, SMTT(30)
      <4> QED BY <4>2, <4>3
    <3>2. CASE s = m
      <4>1. 0 + j <= b.burst + 0
        BY <1>y, <2>4
      <4> QED BY <2>3, <3>2, <4>1
    <3> QED BY <2>5, <3>1, <3>2
  <2>7. \E s \in 0..m : Scale * (g[m + 1] - g[s]) + j = b.burst + b.rate * (m - s)
    <3>1. CASE k + b.rate > b.burst
      <4>1. 0 + j = b.burst + 0
        BY <1>y, <1>2, <3>1
      <4> QED BY <2>3, <4>1
    <3>2. CASE ~(k + b.rate > b.burst)
      <4>1. PICK s \in 0..n : Scale * (g[n + 1] - g[s]) + k = b.burst + b.rate * (n - s)
        BY <2>1
      <4> DEFINE x == Scale * (g[n + 1] - g[s])
                 q == b.rate * (n - s)
      <4>2. x \in Int /\ q \in Nat /\ x + k = b.burst + q
        BY <2>2, <4>1
      <4>3. s \in 0..m /\ Scale * (g[m + 1] - g[s]) = x /\ b.rate * (m - s) = q + b.rate
        BY <2>2, <4>1
      <4> HIDE DEF x, q
      <4>4. j = k + b.rate
        BY <1>2, <3>2
      <4>5. x \in Int /\ k \in Int /\ b.burst \in Int /\ q \in Int /\ b.rate \in Int
        BY <1>y, <1>1, <4>2
      <4>6. x + k = b.burst + q
        BY <4>2
      <4>7. x + (k + b.rate) = b.burst + (q + b.rate)
        BY <4>5, <4>6, Sums, SMTT(30)
      <4> QED BY <4>3, <4>4, <4>7
    <3> QED BY <3>1, <3>2
  <2>8. \A t \in 0..m : \A s \in 0..t : Scale * (g[t + 1] - g[s]) <= b.burst + b.rate * (t - s)
    <3> TAKE t \in 0..m
    <3> TAKE s \in 0..t
    <3>1. CASE t \in 0..n
      BY <2>1, <3>1
    <3>2. CASE t = m
      <4>1. s \in 0..m
        BY <3>2
      <4> DEFINE x == Scale * (g[m + 1] - g[s])
                 q == b.rate * (m - s)
      <4>2. x \in Int /\ q \in Int
        <5>1. s \in 0..(MaxTime + 1) /\ g[s] \in Nat /\ g[m + 1] \in Nat /\ m - s \in Int
          BY <1>y, <4>1
        <5>2. g[m + 1] - g[s] \in Int
          BY <5>1
        <5> QED BY <1>y, <5>1, <5>2, Products
      <4>3. x + j <= b.burst + q
        BY <2>6, <4>1
      <4> HIDE DEF x, q
      <4>4. x <= b.burst + q
        BY <1>y, <2>4, <4>2, <4>3
      <4> QED BY <3>2, <4>4 DEF x, q
    <3> QED BY <2>5, <3>1, <3>2
  <2> QED BY <1>4, <2>6, <2>7, <2>8 DEF Metered, j, m
<1> QED BY <1>5, <1>6
(* What Allow does to the buckets: an answer costs only the tenant's own.  *)
LEMMA AllowFacts ==
    ASSUME ServerInv, CallInv, NEW c \in Callers, pc[c] # "idle",
           reg' = Charge(reg, Tenant(c), now)
    PROVE  /\ Key(c) \in reg.known \cup {""} /\ Key(c) \in Keys /\ reg'.known = reg.known
           /\ Limiter(reg', Key(c)) = After(Limiter(reg, Key(c)), now)
           /\ \A k : k # Key(c) /\ (k \in reg.known \/ Key(c) \in reg.known)
                    => Limiter(reg', k) = Limiter(reg, k)
           /\ Allow(reg, Tenant(c), now) <=> Admits(Limiter(reg, Key(c)), now)
<1>1. now \in 0..MaxTime /\ Registry(reg, now)
  BY DEF ServerInv
<1>2. Tenant(c) \in TenantIds
  BY DEF CallInv, Tenant
<1>3. Key(c) = IF Tenant(c) \in reg.known THEN Tenant(c) ELSE ""
  BY DEF Key
<1>4. Key(c) \in reg.known \cup {""} /\ Key(c) \in Keys
  BY <1>2, <1>3 DEF Keys
<1>5. /\ reg'.known = reg.known /\ Limiter(reg, Tenant(c)) = Limiter(reg, Key(c))
      /\ Limiter(reg', Key(c)) = After(Limiter(reg, Key(c)), now)
      /\ \A k : k # Key(c) /\ (k \in reg.known \/ Key(c) \in reg.known)
                    => Limiter(reg', k) = Limiter(reg, k)
  <2>1. Key(c) = Tenant(c) \/ (Key(c) \notin reg.known /\ Tenant(c) \notin reg.known)
    BY <1>1, <1>3 DEF Registry
  <2>2. Charge(reg, Tenant(c), now).known = reg.known
    BY <1>1, ChargeKeeps
  <2>3. Limiter(reg, Tenant(c)) = Limiter(reg, Key(c))
    BY <1>1, <2>1, ChargeFacts
  <2>4. Limiter(Charge(reg, Tenant(c), now), Key(c)) = After(Limiter(reg, Key(c)), now)
    BY <1>1, <2>1, ChargeFacts
  <2>5. ASSUME NEW k, k # Key(c), k \in reg.known \/ Key(c) \in reg.known
        PROVE  Limiter(Charge(reg, Tenant(c), now), k) = Limiter(reg, k)
    <3>1. k # Tenant(c) /\ (k \in reg.known \/ Tenant(c) \in reg.known)
      BY <2>1, <2>5
    <3> QED BY <1>1, <3>1, ChargeOthers
  <2> QED BY <2>2, <2>3, <2>4, <2>5
<1> QED BY <1>4, <1>5 DEF Allow

(* Every step keeps every bucket metered.                                  *)
LEMMA QuotaNext == FrontInv /\ FrontInv' /\ QuotaInv /\ [Next]_vars => QuotaInv'
<1> SUFFICES ASSUME FrontInv, FrontInv', QuotaInv, [Next]_vars PROVE QuotaInv'
  OBVIOUS
<1>0. /\ LoadInv' /\ ServerInv /\ CallInv /\ Counters /\ Quiet
      /\ now \in 0..MaxTime /\ Registry(reg, now) /\ now' \in 0..MaxTime /\ Registry(reg', now')
      /\ MaxTime \in Nat /\ now \in Nat
  BY FrontendAssumption DEF FrontInv, ServerInv
<1>y. /\ \A k \in Keys : grants[k] \in [0..(MaxTime + 1) -> Nat]
      /\ \A k \in Keys : grants'[k] \in [0..(MaxTime + 1) -> Nat]
  BY DEF FrontInv, Counters
<1>f. \A k : Fair(Limiter(reg, k), now)
  BY <1>0, LimiterFacts
<1>1. CASE UNCHANGED <<reg, grants, now>>
  BY <1>1 DEF QuotaInv
<1>2. CASE Housekeeping
  <2>1. /\ UNCHANGED <<backlog, call, received, dropped, history>>
        /\ UNCHANGED now \/ (stage = "serving" /\ now' = now + 1 /\ UNCHANGED <<stage, reg>>)
        /\ \/ UNCHANGED reg
           \/ /\ stage # "serving" /\ UNCHANGED now
              /\ \A id : Limiter(reg', id) # NoLimit =>
                     Tokens(Limiter(reg', id), now) = Limiter(reg', id).burst
    BY <1>0, <1>2, HousekeepingFacts
  <2>2. UNCHANGED grants
    BY <2>1 DEF history
  <2>3. CASE now' = now + 1 /\ UNCHANGED reg
    <3> SUFFICES ASSUME NEW k \in Keys, k \in reg.known \cup {""}
                 PROVE  Metered(Limiter(reg, k), grants[k], now + 1)
      BY <2>2, <2>3 DEF QuotaInv
    <3>1. Metered(Limiter(reg, k), grants[k], now)
      BY DEF QuotaInv
    <3>2. now + 1 <= MaxTime
      <4>1. now + 1 \in 0..MaxTime
        BY <1>0, <2>3
      <4> QED BY <1>0, <4>1, UpperBound
    <3> QED BY <1>0, <1>y, <1>f, <3>1, <3>2, BucketTick
  <2>4. CASE /\ stage # "serving" /\ UNCHANGED now
             /\ \A id : Limiter(reg', id) # NoLimit =>
                    Tokens(Limiter(reg', id), now) = Limiter(reg', id).burst
    <3>1. now = 0 /\ \A k \in Keys : \A t \in 0..(MaxTime + 1) : grants[k][t] = 0
      BY <1>0, <2>4 DEF Quiet
    <3>2. \A k : Fair(Limiter(reg', k), 0)
      BY <1>0, <2>4, <3>1, LimiterFacts
    <3>3. \A k \in Keys : Metered(Limiter(reg', k), grants[k], 0)
      BY <1>y, <2>4, <3>1, <3>2, BucketNew
    <3> QED BY <2>2, <2>4, <3>1, <3>3 DEF QuotaInv
  <2> QED BY <1>1, <2>1, <2>2, <2>3, <2>4
<1>3. ASSUME NEW c \in Callers, Calling(c) PROVE QuotaInv'
  BY <1>0, <1>1, <1>3, CallingFacts
<1>4. ASSUME NEW c \in Callers, Admit(c) PROVE QuotaInv'
  <2>1. /\ pc[c] # "idle" /\ UNCHANGED now /\ Key(c) \in Keys
        /\ reg' = Charge(reg, Tenant(c), now) /\ Allow(reg, Tenant(c), now)
        /\ \A k \in Keys : \A t \in 0..(MaxTime + 1) :
              grants'[k][t] = IF k = Key(c) /\ t > now THEN grants[k][t] + 1 ELSE grants[k][t]
    BY <1>0, <1>4, AdmitFacts
  <2>2. /\ Key(c) \in reg.known \cup {""} /\ reg'.known = reg.known
        /\ Limiter(reg', Key(c)) = After(Limiter(reg, Key(c)), now)
        /\ \A k : k # Key(c) /\ (k \in reg.known \/ Key(c) \in reg.known)
                    => Limiter(reg', k) = Limiter(reg, k)
        /\ Admits(Limiter(reg, Key(c)), now)
    BY <1>0, <2>1, AllowFacts
  <2>3. \A k \in Keys : k # Key(c) => grants'[k] = grants[k]
    BY <1>0, <1>4, AdmitFacts
  <2>4. Metered(Limiter(reg', Key(c)), grants'[Key(c)], now)
    <3>1. Metered(Limiter(reg, Key(c)), grants[Key(c)], now)
      BY <2>1, <2>2 DEF QuotaInv
    <3>2. \A t \in 0..(MaxTime + 1) :
             grants'[Key(c)][t] = IF t > now THEN grants[Key(c)][t] + 1 ELSE grants[Key(c)][t]
      BY <2>1
    <3> QED BY <1>0, <1>y, <1>f, <2>1, <2>2, <3>1, <3>2, BucketAdmit
  <2> HIDE DEF Key
  <2> QED BY <2>1, <2>2, <2>3, <2>4, ZenonT(60) DEF QuotaInv
<1>5. ASSUME NEW c \in Callers, Returning(c) PROVE QuotaInv'
  <2>1. /\ pc[c] # "idle" /\ UNCHANGED <<now, grants>>
        /\ IF OverQuota(c) THEN reg' = Charge(reg, Tenant(c), now) ELSE reg' = reg
    BY <1>0, <1>5, ReturningFacts
  <2>2. CASE OverQuota(c)
    <3>1. ~Allow(reg, Tenant(c), now)
      BY <2>2 DEF OverQuota
    <3>2. /\ Key(c) \in reg.known \cup {""} /\ Key(c) \in Keys /\ reg'.known = reg.known
          /\ Limiter(reg', Key(c)) = After(Limiter(reg, Key(c)), now)
          /\ \A k : k # Key(c) /\ (k \in reg.known \/ Key(c) \in reg.known)
                    => Limiter(reg', k) = Limiter(reg, k)
          /\ ~Admits(Limiter(reg, Key(c)), now)
      BY <1>0, <2>1, <2>2, <3>1, AllowFacts
    <3>3. Metered(Limiter(reg', Key(c)), grants[Key(c)], now)
      <4>1. Metered(Limiter(reg, Key(c)), grants[Key(c)], now)
        BY <3>2 DEF QuotaInv
      <4> QED BY <1>0, <1>f, <3>2, <4>1, BucketRefuse
    <3> QED BY <2>1, <3>2, <3>3 DEF QuotaInv
  <2>3. CASE ~OverQuota(c)
    BY <1>1, <2>1, <2>3
  <2> QED BY <2>2, <2>3
<1> QED BY <1>2, <1>3, <1>4, <1>5, StepKinds

(* Nothing has been admitted yet.                                          *)
LEMMA QuotaInit == Init => QuotaInv
<1> SUFFICES ASSUME Init PROVE QuotaInv
  OBVIOUS
<1>1. /\ now = 0 /\ reg = NewRegistry(NoTenancy, 0) /\ 0 \in 0..MaxTime
      /\ grants = [k \in Keys |-> [t \in 0..(MaxTime + 1) |-> 0]]
  BY FrontendAssumption DEF Init
<1>2. /\ Registry(reg, 0)
      /\ \A id : Limiter(reg, id) # NoLimit => Tokens(Limiter(reg, id), 0) = Limiter(reg, id).burst
  BY <1>1, NewRegistryFacts, NoTenancyType
<1>3. \A k \in Keys : /\ grants[k] \in [0..(MaxTime + 1) -> Nat]
                      /\ \A t \in 0..(MaxTime + 1) : grants[k][t] = 0
  BY <1>1
<1>4. \A k : Fair(Limiter(reg, k), 0)
  BY <1>1, <1>2, LimiterFacts
<1>5. \A k \in Keys : Metered(Limiter(reg, k), grants[k], 0)
  BY <1>2, <1>3, <1>4, BucketNew
<1> QED BY <1>1, <1>3, <1>5 DEF QuotaInv

(* However calls interleave, and over every stretch of time, a tenant is   *)
(* admitted no more than its burst and its rate allow.                     *)
THEOREM QuotaIsKept == Spec => []RateBound
<1>1. FrontInv /\ QuotaInv => RateBound
  <2> SUFFICES ASSUME FrontInv, QuotaInv, NEW k \in Keys, Limiter(reg, k) # NoLimit,
                      NEW t \in 0..now, NEW s \in 0..t
               PROVE  Scale * Granted(k, s, t) <= Quota(k, s, t)
    BY DEF RateBound
  <2>y. /\ now \in 0..MaxTime /\ MaxTime \in Nat /\ Scale \in Nat /\ Fair(Limiter(reg, k), now)
    BY FrontendAssumption, ScaleAssumption, LimiterFacts DEF FrontInv, ServerInv
  <2>1. CASE k \in reg.known \cup {""}
    BY <2>1 DEF QuotaInv, Metered, Granted, Quota
  <2>2. CASE k \notin reg.known \cup {""}
    <3>1. t + 1 \in 0..(MaxTime + 1) /\ s \in 0..(MaxTime + 1) /\ t - s \in Nat
      BY <2>y
    <3>2. grants[k][t + 1] = 0 /\ grants[k][s] = 0
      BY <2>2, <3>1 DEF QuotaInv
    <3>3. Scale * Granted(k, s, t) = 0
      <4>1. Granted(k, s, t) = 0 /\ Scale * 0 = 0
        BY <2>y, <3>2 DEF Granted
      <4> QED BY <4>1
    <3>4. Quota(k, s, t) \in Nat
      <4>1. Limiter(reg, k).burst \in Nat /\ Limiter(reg, k).rate \in Nat
        BY <2>y DEF Fair, Bucket
      <4>2. Limiter(reg, k).rate * (t - s) \in Nat
        BY <3>1, <4>1, Products
      <4> QED BY <4>1, <4>2 DEF Quota
    <3> QED BY <3>3, <3>4
  <2> QED BY <2>1, <2>2
<1> QED BY <1>1, FrontInit, FrontStep, QuotaInit, QuotaNext, PTL DEF Spec

(* The step in which a push waiting for its quota ends uncounted as        *)
(* admitted is OverQuota of its own caller.                                *)
LEMMA WhoRefuses ==
    ASSUME FrontInv, LoadInv', [Next]_vars, NEW c \in Callers, pc[c] = "allow",
           dropped' # dropped, <<pc'[c], rest'[c]>> # <<pc[c], rest[c]>>
    PROVE  OverQuota(c)
<1>0. /\ ServerInv /\ CallInv /\ Counters /\ Registry(reg, now)
  BY DEF FrontInv, ServerInv
<1>1. ~Housekeeping
  BY <1>0, HousekeepingFacts
<1>2. \A d \in Callers : ~Calling(d)
  BY <1>0, CallingFacts
<1>3. \A d \in Callers : ~Admit(d)
  BY <1>0, AdmitFacts
<1>4. PICK d \in Callers : Returning(d)
  BY <1>1, <1>2, <1>3, StepKinds
<1>5. d = c
  <2>1. PICK a \in {"quota", "dropped", "accepted"} : Return(d, a)
    BY <1>4 DEF Returning, OverQuota, AppendFail, Full, Accept
  <2>2. \A e \in Callers : e # d => pc'[e] = pc[e] /\ rest'[e] = rest[e]
    BY <1>0, <2>1, ReturnFacts
  <2> QED BY <2>2
<1>6. ~AppendFail(c) /\ ~Full(c) /\ ~Accept(c)
  BY DEF AppendFail, Full, Accept
<1> QED BY <1>4, <1>5, <1>6 DEF Returning

(* No tenant pays for another: a request is refused only when admitting it *)
(* would have broken the bound of its own bucket.                          *)
THEOREM RefusalsAreDue == Spec => OnlyOverQuota
<1>1. ASSUME FrontInv, LoadInv', QuotaInv, [Next]_vars, NEW c \in Callers, pc[c] = "allow",
             dropped' # dropped, <<pc'[c], rest'[c]>> # <<pc[c], rest[c]>>
      PROVE  \E s \in 0..now : Scale * (Granted(Key(c), s, now) + 1) > Quota(Key(c), s, now)
  <2> DEFINE b == Limiter(reg, Key(c))
             g == grants[Key(c)]
  <2>1. ~Allow(reg, Tenant(c), now) /\ reg' = Charge(reg, Tenant(c), now)
    BY <1>1, WhoRefuses DEF OverQuota
  <2>2. /\ Key(c) \in reg.known \cup {""} /\ Key(c) \in Keys /\ ~Admits(b, now)
    BY <1>1, <2>1, AllowFacts DEF FrontInv
  <2>3. /\ now \in 0..MaxTime /\ MaxTime \in Nat /\ Scale \in Nat /\ Fair(b, now)
        /\ g \in [0..(MaxTime + 1) -> Nat]
    BY <1>1, <2>2, FrontendAssumption, ScaleAssumption, LimiterFacts DEF FrontInv, ServerInv, Counters
  <2>4. b # NoLimit /\ Metered(b, g, now)
    BY <1>1, <2>2 DEF Admits, QuotaInv
  <2>5. PICK s \in 0..now : Scale * (g[now + 1] - g[s]) + Tokens(b, now) = b.burst + b.rate * (now - s)
    BY <2>4 DEF Metered
  <2>6. /\ Tokens(b, now) \in Nat /\ ~(Tokens(b, now) >= Scale)
        /\ b.burst \in Nat /\ b.rate \in Nat
    BY <2>2, <2>3, <2>4, AfterFacts, RefillFacts DEF Fair, Bucket
  <2>7. Granted(Key(c), s, now) = g[now + 1] - g[s] /\ Quota(Key(c), s, now) = b.burst + b.rate * (now - s)
    BY DEF Granted, Quota
  <2> HIDE DEF b, g
  <2>8. g[now + 1] - g[s] \in Int /\ now - s \in Int
    <3>1. now + 1 \in 0..(MaxTime + 1) /\ s \in 0..(MaxTime + 1) /\ now - s \in Int
      BY <2>3
    <3>2. g[now + 1] \in Nat /\ g[s] \in Nat
      BY <2>3, <3>1
    <3> QED BY <3>1, <3>2
  <2> DEFINE x == Scale * (g[now + 1] - g[s])
             q == b.rate * (now - s)
             k == Tokens(b, now)
  <2>9. /\ Scale * ((g[now + 1] - g[s]) + 1) = x + Scale /\ x \in Int /\ q \in Int
    BY <2>3, <2>6, <2>8, Products
  <2>10. x + k = b.burst + q /\ k \in Int /\ b.burst \in Int /\ Scale \in Int /\ k < Scale
    BY <2>3, <2>5, <2>6
  <2> HIDE DEF x, q, k
  <2>11. x + Scale > b.burst + q
    BY <2>9, <2>10, Sums
  <2>12. Scale * (Granted(Key(c), s, now) + 1) > Quota(Key(c), s, now)
    BY <2>7, <2>9, <2>11 DEF q
  <2> QED BY <2>12
<1>2. FrontInv /\ FrontInv' /\ QuotaInv /\ [Next]_vars =>
        [\A c \in Callers :
           pc[c] = "allow" /\ dropped' # dropped
                           /\ <<pc'[c], rest'[c]>> # <<pc[c], rest[c]>> =>
              \E s \in 0..now : Scale * (Granted(Key(c), s, now) + 1) > Quota(Key(c), s, now)]_vars
  BY <1>1 DEF FrontInv
<1> QED BY <1>2, FrontInit, FrontStep, QuotaInit, QuotaNext, PTL DEF Spec, OnlyOverQuota
=============================================================================
