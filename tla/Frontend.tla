------------------------------ MODULE Frontend ------------------------------
(***************************************************************************)
(* From the configuration to the answer of a request: Load and setup, the  *)
(* handlers of the HTTP and the gRPC server, the replay of the dead-letter *)
(* queue over HTTP, and Service.Push as its callers see it, with the       *)
(* tenants' quotas and the counters of events.  Pipeline has the log and   *)
(* the tracker behind Push; here a push to a log may fail, and the buffer  *)
(* is a channel.                                                           *)
(***************************************************************************)
EXTENDS Config, Tenancy, FiniteSets

CONSTANTS
    Configs,      \* the configurations to start with
    HttpCallers, GrpcCallers,
    TenantIds,    \* ids that requests carry, "" if they carry none
    Backlog,      \* requests in the dead-letter queue
    MaxCalls, MaxTime \* bounds

ASSUME ConfigsAssumption == Configs \subseteq Configuration

Callers == HttpCallers \cup GrpcCallers

ASSUME FrontendAssumption ==
    /\ IsFiniteSet(Callers) /\ MaxCalls \in Nat /\ MaxTime \in Nat
    /\ Backlog \in Seq([shape : {"ok"}, tenant : TenantIds])

Labels == (TenantIds \ {""}) \cup {"_other", "_single"}
Keys == TenantIds \cup {""} \* a bucket's tenant, "" for the one unknown tenants share

VARIABLES
    stage,     \* "load", "rejected", "setup", "failed", "crippled" or "serving"
    cfg,       \* the configuration, up to setup
    app,       \* what setup keeps: needTenant, adminToken, replayable, wal, bufferSize
    enabled,   \* the servers whose ingestEnabled is set
    reg, now,  \* the registry of tenants, and its clock
    buffered,  \* how many events the buffer holds
    backlog,   \* the entries of the dead-letter queue
    pc,        \* each caller: "idle", in Push before "allow" or before "append"
    req,       \* the request it pushes
    rest,      \* handleDLQReplay: the entries after that one
    answer,    \* what the last call was answered
    received, dropped, \* the counters, for each label
    \* history
    accepted,  \* how many pushes succeeded, for each label
    grants,    \* how many a bucket admitted before each time
    calls

server  == <<stage, cfg, app, enabled>>
call    == <<pc, req, rest, answer>>
history == <<accepted, grants, calls>>
vars == <<server, reg, now, buffered, backlog, call, received, dropped, history>>

Nobody == [shape |-> "ok", tenant |-> ""]
NoTenancy == [enabled |-> FALSE, defaultRate |-> 0, tenants |-> <<>>]

Init == /\ stage = "load" /\ cfg \in Configs /\ enabled = {}
        /\ app = [needTenant |-> FALSE, adminToken |-> FALSE, replayable |-> FALSE,
                  wal |-> FALSE, bufferSize |-> 0]
        /\ reg = NewRegistry(NoTenancy, 0) /\ now = 0
        /\ buffered = 0 /\ backlog = Backlog
        /\ pc = [c \in Callers |-> "idle"] /\ req = [c \in Callers |-> Nobody]
        /\ rest = [c \in Callers |-> <<>>] /\ answer = [c \in Callers |-> "none"]
        /\ received = [l \in Labels |-> 0] /\ dropped = [l \in Labels |-> 0]
        /\ accepted = [l \in Labels |-> 0]
        /\ grants = [k \in Keys |-> [t \in 0..(MaxTime + 1) |-> 0]] /\ calls = 0

-----------------------------------------------------------------------------
(* Load: defaults, then validation.                                        *)
Load == /\ stage = "load"
        /\ cfg' = applyDefaults(cfg)
        /\ stage' = IF Validate(cfg') THEN "setup" ELSE "rejected"
        /\ UNCHANGED <<app, enabled, reg, now, buffered, backlog, call, received, dropped,
                       history>>

(* setup and run.  From here on the configuration is in app.               *)
Setup == /\ stage = "setup"
         /\ stage' = IF ~SetupSucceeds(cfg) THEN "failed"
                     ELSE IF ~RunsWell(cfg) THEN "crippled" ELSE "serving"
         /\ app' = [needTenant |-> cfg.tenancy.enabled,
                    adminToken |-> cfg.server.adminToken # "",
                    replayable |-> cfg.dlq.enabled /\ cfg.dlq.type = "file",
                    wal |-> cfg.wal.enabled, bufferSize |-> cfg.ingestor.bufferSize]
         /\ enabled' = IF cfg.server.ingestEnabled THEN {"http", "grpc"} ELSE {}
         /\ reg' = NewRegistry(cfg.tenancy, now)
         /\ cfg' = <<>>
         /\ UNCHANGED <<now, buffered, backlog, call, received, dropped, history>>

(* shutdown begins: SetIngestEnabled(FALSE), first of one server, then of  *)
(* the other.                                                              *)
DisableIngest(s) == /\ stage = "serving" /\ s \in enabled
                    /\ s = "grpc" => "http" \notin enabled
                    /\ enabled' = enabled \ {s}
                    /\ UNCHANGED <<stage, cfg, app, reg, now, buffered, backlog, call,
                                   received, dropped, history>>

Tick == /\ stage = "serving" /\ now < MaxTime
        /\ now' = now + 1
        /\ UNCHANGED <<server, reg, buffered, backlog, call, received, dropped, history>>

-----------------------------------------------------------------------------
Anonymous(r) == app.needTenant /\ r.tenant = ""

(* handleIngest up to Push: the answer of an early return, or "push".      *)
handleIngest(r) == IF r.shape = "method" THEN "method"
                   ELSE IF "http" \notin enabled THEN "disabled"
                   ELSE IF r.shape \in {"json", "noid"} \/ Anonymous(r) THEN "invalid"
                   ELSE "push"

(* GrpcServer.Ingest up to Push.                                           *)
Ingest(r) == IF "grpc" \notin enabled THEN "disabled"
             ELSE IF r.shape = "noid" \/ Anonymous(r) THEN "invalid"
             ELSE "push"

Verdict(c, r) == IF c \in HttpCallers THEN handleIngest(r) ELSE Ingest(r)

Requests(c) == [shape : IF c \in HttpCallers THEN {"ok", "method", "json", "noid"}
                                             ELSE {"ok", "noid"},
                tenant : TenantIds]

Called(c) == /\ stage = "serving" /\ pc[c] = "idle" /\ calls < MaxCalls
             /\ calls' = calls + 1
             /\ UNCHANGED <<server, reg, now, buffered, dropped, accepted, grants>>

(* Push of request r begins: it is counted as received.                    *)
Pushing(c, r) == /\ pc' = [pc EXCEPT ![c] = "allow"]
                 /\ req' = [req EXCEPT ![c] = r]
                 /\ received' = [received EXCEPT ![MetricLabel(reg, r.tenant)] = @ + 1]

(* A call that is answered without a push.                                 *)
Answered(c, a) == /\ answer' = [answer EXCEPT ![c] = a]
                  /\ UNCHANGED <<pc, req, rest, received>>

Reject(c, r) == /\ Called(c) /\ Verdict(c, r) # "push"
                /\ Answered(c, Verdict(c, r))
                /\ UNCHANGED backlog

Begin(c, r) == /\ Called(c) /\ Verdict(c, r) = "push"
               /\ Pushing(c, r)
               /\ answer' = [answer EXCEPT ![c] = "none"]
               /\ UNCHANGED <<rest, backlog>>

(* handleDLQReplay is refused, by its method, by the token or by the kind  *)
(* of queue, or there is nothing to replay.                                *)
ReplayRefused(c) ==
    /\ c \in HttpCallers /\ Called(c)
    /\ \/ Answered(c, "method")
       \/ app.adminToken /\ Answered(c, "unauthorized")
       \/ ~app.replayable /\ Answered(c, "unsupported")
       \/ app.replayable /\ backlog = <<>> /\ Answered(c, "replayed")
    /\ UNCHANGED backlog

(* DrainEntries fails, before or after it has archived the entries.        *)
ReplayFailed(c) == /\ c \in HttpCallers /\ Called(c)
                   /\ app.replayable /\ Answered(c, "failed")
                   /\ backlog' \in {backlog, <<>>}

(* It has drained the queue and pushes the entries one by one, whatever    *)
(* ingestEnabled says and with no look at the tenant.                      *)
ReplayBegin(c) == /\ c \in HttpCallers /\ Called(c)
                  /\ app.replayable /\ backlog # <<>>
                  /\ Pushing(c, Head(backlog))
                  /\ rest' = [rest EXCEPT ![c] = Tail(backlog)]
                  /\ backlog' = <<>>
                  /\ answer' = [answer EXCEPT ![c] = "replaying"]

-----------------------------------------------------------------------------
Tenant(c) == req[c].tenant
Label(c)  == MetricLabel(reg, Tenant(c))
Key(c)    == IF Tenant(c) \in reg.known THEN Tenant(c) ELSE ""

(* Push returns: a replay goes on to its next entry, other calls answer.   *)
Return(c, a) == /\ IF rest[c] # <<>>
                     THEN /\ Pushing(c, Head(rest[c]))
                          /\ rest' = [rest EXCEPT ![c] = Tail(@)]
                          /\ UNCHANGED answer
                     ELSE /\ pc' = [pc EXCEPT ![c] = "idle"]
                          /\ req' = [req EXCEPT ![c] = Nobody]
                          /\ answer' = [answer EXCEPT ![c] =
                                           IF @ = "replaying" THEN "replayed" ELSE a]
                          /\ UNCHANGED <<rest, received>>
                /\ UNCHANGED <<server, now, backlog, calls>>

Dropped(c) == dropped' = [dropped EXCEPT ![Label(c)] = @ + 1] /\ UNCHANGED accepted

(* The quota admits the request.                                           *)
Admit(c) == /\ pc[c] = "allow" /\ Allow(reg, Tenant(c), now)
            /\ reg' = Charge(reg, Tenant(c), now)
            /\ grants' = [grants EXCEPT ![Key(c)] =
                             [t \in 0..(MaxTime + 1) |-> IF t > now THEN @[t] + 1 ELSE @[t]]]
            /\ pc' = [pc EXCEPT ![c] = "append"]
            /\ UNCHANGED <<server, now, buffered, backlog, req, rest, answer, received, dropped,
                           accepted, calls>>

(* ErrTenantQuotaExceeded.                                                 *)
OverQuota(c) == /\ pc[c] = "allow" /\ ~Allow(reg, Tenant(c), now)
                /\ reg' = Charge(reg, Tenant(c), now)
                /\ Dropped(c) /\ Return(c, "quota")
                /\ UNCHANGED <<buffered, grants>>

(* Mutant: a failed append is not counted.                                 *)
AppendFail_Uncounted(c) == /\ pc[c] = "append" /\ app.wal
                           /\ Return(c, "dropped")
                           /\ UNCHANGED <<reg, buffered, grants, dropped, accepted>>

(* wal.Append fails; a NoOpWAL does not.                                   *)
AppendFail(c) == /\ pc[c] = "append" /\ app.wal
                 /\ Dropped(c) /\ Return(c, "dropped")
                 /\ UNCHANGED <<reg, buffered, grants>>

(* The buffer has no room.  The token is spent.                            *)
Full(c) == /\ pc[c] = "append" /\ buffered >= app.bufferSize
           /\ Dropped(c) /\ Return(c, "dropped")
           /\ UNCHANGED <<reg, buffered, grants>>

Accept(c) == /\ pc[c] = "append" /\ buffered < app.bufferSize
             /\ buffered' = buffered + 1
             /\ accepted' = [accepted EXCEPT ![Label(c)] = @ + 1]
             /\ Return(c, "accepted")
             /\ UNCHANGED <<reg, grants, dropped>>

(* A worker takes an event.                                                *)
Consume == /\ buffered > 0
           /\ buffered' = buffered - 1
           /\ UNCHANGED <<server, reg, now, backlog, call, received, dropped, history>>

Next == \/ Load \/ Setup \/ Tick \/ Consume
        \/ \E s \in {"http", "grpc"} : DisableIngest(s)
        \/ \E c \in Callers : \/ \E r \in Requests(c) : Reject(c, r) \/ Begin(c, r)
                              \/ ReplayRefused(c) \/ ReplayFailed(c) \/ ReplayBegin(c)
                              \/ Admit(c) \/ OverQuota(c)
                              \/ AppendFail(c) \/ Full(c) \/ Accept(c)

Spec == Init /\ [][Next]_vars

-----------------------------------------------------------------------------
Bucket == [rate : Nat, burst : Nat, tokens : Nat, last : 0..MaxTime]

(* Types; a bucket never holds more than its burst, nor the buffer more    *)
(* than its size.                                                          *)
TypeOK == /\ stage \in {"load", "rejected", "setup", "failed", "crippled", "serving"}
          /\ stage \in {"load", "rejected", "setup"} => cfg \in Configuration
          /\ enabled \subseteq {"http", "grpc"}
          /\ now \in 0..MaxTime /\ buffered \in 0..app.bufferSize
          /\ \A b \in {reg.limiters[t] : t \in reg.known} \cup {reg.defaultLim} :
                b \in Bucket /\ b.tokens <= b.burst
          /\ pc \in [Callers -> {"idle", "allow", "append"}]
          /\ answer \in [Callers -> {"none", "method", "disabled", "invalid", "quota",
                            "dropped", "accepted", "unauthorized", "unsupported", "failed",
                            "replaying", "replayed"}]
          /\ received \in [Labels -> Nat] /\ dropped \in [Labels -> Nat]
          /\ calls \in 0..MaxCalls

(* A configuration that Load accepts starts: no constructor that setup and *)
(* run call refuses it, or panics, and no part is left out.                *)
LoadedIsFit == stage \notin {"failed", "crippled"}

(* The requests a bucket admitted from time s to time t.                   *)
Granted(k, s, t) == grants[k][t + 1] - grants[k][s]

(* What burst and rate allow in that time.                                 *)
Quota(k, s, t) == Limiter(reg, k).burst + Limiter(reg, k).rate * (t - s)

(* The quota, over every stretch of time: the requests of a tenant that    *)
(* were admitted are at most its burst and its rate times the time passed, *)
(* the unknown tenants counted together.                                   *)
RateBound ==
    \A k \in Keys : Limiter(reg, k) # NoLimit =>
        \A t \in 0..now : \A s \in 0..t : Scale * Granted(k, s, t) <= Quota(k, s, t)

(* A request is refused over quota only if admitting it would break the    *)
(* bound for its own bucket: what other tenants send, how their calls      *)
(* interleave, and refused calls, cost a tenant nothing.                   *)
OnlyOverQuota ==
    [][\A c \in Callers :
         pc[c] = "allow" /\ dropped' # dropped
                         /\ <<pc'[c], rest'[c]>> # <<pc[c], rest[c]>> =>
            \E s \in 0..now : Scale * (Granted(Key(c), s, now) + 1) > Quota(Key(c), s, now)]_vars

(* The counters account for every push: what was received was accepted,    *)
(* counted as dropped or is in progress, label by label, and tenants that  *)
(* are not known have no label of their own.                               *)
CountersBalance ==
    \A l \in Labels :
        /\ received[l] = accepted[l] + dropped[l]
                         + Cardinality({c \in Callers : pc[c] # "idle" /\ Label(c) = l})
        /\ received[l] > 0 => l \in reg.known \cup {"_other", "_single"}
=============================================================================
