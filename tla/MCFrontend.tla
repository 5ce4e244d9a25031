----------------------------- MODULE MCFrontend -----------------------------
(* Frontend on a small instance.  The configurations are those with one    *)
(* section other than in Base: the sections are validated one by one.      *)
EXTENDS Frontend, TLC

Base == [server   |-> [grpcPort |-> 1, httpPort |-> 2, ingestEnabled |-> TRUE, adminToken |-> ""],
         ingestor |-> [bufferSize |-> 1],
         buffer   |-> [type |-> "", addr |-> "", dir |-> ""],
         worker   |-> [numWorkers |-> 1, batchSize |-> 1, batchTimeout |-> "5s"],
         sinks    |-> [active |-> <<"log">>, brokers |-> {}, topic |-> "", url |-> "",
                       timeout |-> ""],
         dlq      |-> [enabled |-> TRUE, type |-> "file", dir |-> "d", brokers |-> {},
                       topic |-> ""],
         wal      |-> [enabled |-> FALSE, dir |-> "", interval |-> ""],
         shutdown |-> [timeout |-> ""],
         tenancy  |-> NoTenancy]

Text == {"", "x"}
Brokers == {{}, {"x"}}
Numbers == -1..1
Ports == {-1, 0, 1, 2, 65535, 65536}
SinkNames == {"log", "kafka", "http", "?"}

Servers == [grpcPort : Ports, httpPort : Ports, ingestEnabled : {TRUE}, adminToken : {""}]
           \cup [grpcPort : {1}, httpPort : {2}, ingestEnabled : {FALSE}, adminToken : {"x"}]
Buffers == [type : {"", "channel", "redis", "hybrid", "?"}, addr : Text, dir : Text]
WorkerSets == [numWorkers : Numbers, batchSize : Numbers, batchTimeout : Durations]
SinkSets == [active : {<<>>} \cup {<<n>> : n \in SinkNames}
                             \cup {<<"log", n>> : n \in SinkNames},
             brokers : Brokers, topic : Text, url : Text, timeout : Durations]
DLQs == [enabled : BOOLEAN, type : {"", "file", "kafka"}, dir : Text, brokers : Brokers,
         topic : Text]
Logs == [enabled : BOOLEAN, dir : Text, interval : Durations]
Shutdowns == [timeout : Durations]
FirstTenant == [id : {"", "a", "b"}, rate : Numbers]
SecondTenant == [id : {"", "b"}, rate : {-1, 0}]
Tenancies == [enabled : {TRUE}, defaultRate : {-1, 0, 2},
              tenants : {<<>>} \cup {<<d, e>> : d \in FirstTenant, e \in SecondTenant}]
             \cup [enabled : {FALSE}, defaultRate : {-1}, tenants : {<<>>}]

MCConfigs == UNION { {[Base EXCEPT !.server = x] : x \in Servers},
                     {[Base EXCEPT !.ingestor.bufferSize = x] : x \in Numbers},
                     {[Base EXCEPT !.buffer = x] : x \in Buffers},
                     {[Base EXCEPT !.worker = x] : x \in WorkerSets},
                     {[Base EXCEPT !.sinks = x] : x \in SinkSets},
                     {[Base EXCEPT !.dlq = x] : x \in DLQs},
                     {[Base EXCEPT !.wal = x] : x \in Logs},
                     {[Base EXCEPT !.shutdown = x] : x \in Shutdowns},
                     {[Base EXCEPT !.tenancy = x] : x \in Tenancies} }

(* Two entries, one of a known tenant and one of nobody.                   *)
MCBacklog == <<[shape |-> "ok", tenant |-> "a"], Nobody>>
=============================================================================
