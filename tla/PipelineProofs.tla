--------------------------- MODULE PipelineProofs ---------------------------
(***************************************************************************)
(* Proofs about Pipeline, for any number of requests, handlers, workers,   *)
(* sinks, crashes and disk errors, and any sizes of buffer and batch.      *)
(*                                                                         *)
(* The argument: the tracker names, under an id, only records of that id   *)
(* (TrackerSound), so the record a worker acknowledges is one of the event *)
(* it holds, and by then every sink has confirmed that event (FlushSound). *)
(* This needs distinct ids; OwnIds is the assumption.                      *)
(***************************************************************************)
EXTENDS Pipeline, TLAPS

OwnIds == \A m, n \in Msgs : IdOf[m] = IdOf[n] => m = n

-----------------------------------------------------------------------------
(* Every step of the pipeline keeps the variables in their types, the      *)
(* channel within its capacity and a batch within batch_size.              *)
LEMMA TypeStep == TypeOK /\ [Next]_vars => TypeOK'
<1> SUFFICES ASSUME TypeOK, [Next]_vars PROVE TypeOK'
  OBVIOUS
<1> USE PipelineAssumption
    DEF TypeOK, log, pushing, working, bounds
<1>1. CASE UNCHANGED vars
  BY <1>1 DEF vars
<1>2. CASE Boot
  BY <1>2 DEF Boot
<1>3. CASE Recover
  BY <1>3 DEF Recover
<1>4. CASE StartWorkers
  BY <1>4 DEF StartWorkers
<1>5. CASE Crash
  BY <1>5 DEF Crash, AllPushers, AllWorkers, EmptyTracker
<1>6. CASE Drain
  BY <1>6 DEF Drain
<1>7. ASSUME NEW p \in Pushers, Submit(p) PROVE TypeOK'
  <2>1. PICK m \in Msgs : LogAppend(p, m) \/ AppendFail(p, m) \/ Refuse(p, m)
    BY <1>7 DEF Submit
  <2>2. Call(p, m)
    BY <2>1 DEF LogAppend, AppendFail, Refuse
  <2>3. todo' \subseteq todo /\ drained' \subseteq drained /\ sends' \in Nat
    BY <2>2 DEF Call, Source
  <2>4. CASE LogAppend(p, m)
    <3>1. [seq |-> seq + 1, msg |-> m] \in Record
      BY DEF Record
    <3> QED BY <2>2, <2>3, <2>4, <3>1 DEF LogAppend, Call
  <2>5. CASE AppendFail(p, m) \/ Refuse(p, m)
    <3>1. parked' \subseteq Msgs
      BY <2>5 DEF AppendFail, Refuse, Park
    <3>2. [seq |-> seq + 1, msg |-> m] \in Record
      BY DEF Record
    <3>3. wal' \subseteq Record
      BY <2>5, <3>2 DEF AppendFail, Refuse
    <3> QED BY <2>2, <2>3, <2>5, <3>1, <3>3 DEF AppendFail, Refuse, Call, DiskError
  <2> QED BY <2>1, <2>4, <2>5
<1>8. ASSUME NEW p \in Pushers, PushStep(p) PROVE TypeOK'
  <2>1. CASE Store(p)
    BY <2>1 DEF Store, Record
  <2>2. CASE Enqueue(p)
    <3>1. PICK r \in held[p] :
            /\ buffer' = Append(buffer, r.msg)
            /\ accepted' = accepted \cup {m \in {r.msg} : p \in Handlers}
      BY <2>2 DEF Enqueue
    <3>2. r.msg \in Msgs
      BY <3>1 DEF Record
    <3>3. buffer' \in Seq(Msgs) /\ Len(buffer') <= BufferSize
      BY <2>2, <3>1, <3>2 DEF Enqueue
    <3> QED BY <2>2, <3>1, <3>2, <3>3 DEF Enqueue
  <2>3. CASE Full(p)
    BY <2>3 DEF Full
  <2>4. CASE Undo(p)
    <3>1. PICK r \in held[p] : /\ tracker' = [tracker EXCEPT ![IdOf[r.msg]] = 0]
                               /\ Park(p, r.msg)
      BY <2>4 DEF Undo
    <3>2. /\ ppc' \in [Pushers -> {"idle", "appended", "stored", "full"}]
          /\ held' \in [Pushers -> SUBSET Record]
      BY <2>4 DEF Undo
    <3>3. tracker' \in [Ids -> Nat]
      BY <3>1
    <3>4. r.msg \in Msgs
      BY <3>1 DEF Record
    <3>5. parked' \subseteq Msgs
      BY <3>1, <3>4 DEF Park
    <3> QED BY <2>4, <3>2, <3>3, <3>5 DEF Undo
  <2> QED BY <1>8, <2>1, <2>2, <2>3, <2>4 DEF PushStep
<1>9. ASSUME NEW w \in Workers, WorkerStep(w) PROVE TypeOK'
  <2>1. CASE Receive(w)
    <3>1. Head(buffer) \in Msgs /\ Tail(buffer) \in Seq(Msgs)
          /\ Len(Tail(buffer)) <= BufferSize
      BY <2>1 DEF Receive
    <3>2. Append(batch[w], Head(buffer)) \in Seq(Msgs)
          /\ Len(Append(batch[w], Head(buffer))) = Len(batch[w]) + 1
      BY <3>1
    <3>3. Len(batch[w]) < BatchSize /\ Len(batch[w]) \in Nat
      BY <2>1 DEF Receive
    <3>4. /\ wpc' \in [Workers -> {"select", "flush"}]
          /\ left' \in [Workers -> SUBSET Sinks] /\ ok' \in [Workers -> BOOLEAN]
      BY <2>1, ZenonT(30) DEF Receive, BeginFlush
    <3>5. /\ batch' \in [Workers -> Seq(Msgs)]
          /\ \A v \in Workers : /\ Len(batch'[v]) <= BatchSize
                                /\ wpc'[v] = "select" => Len(batch'[v]) < BatchSize
      BY <2>1, <3>2, <3>3 DEF Receive, BeginFlush
    <3> QED BY <2>1, <3>1, <3>4, <3>5 DEF Receive
  <2>2. CASE Tick(w)
    BY <2>2 DEF Tick, BeginFlush
  <2>3. CASE Ack(w)
    <3>1. Tail(batch[w]) \in Seq(Msgs) /\ Len(Tail(batch[w])) <= BatchSize
      BY <2>3 DEF Ack
    <3>2. tracker' \in [Ids -> Nat] /\ wal' \subseteq Record /\ errors' \in Nat
      BY <2>3 DEF Ack, DiskError
    <3> QED BY <2>3, <3>1, <3>2 DEF Ack
  <2>4. CASE EndFlush(w)
    BY <2>4 DEF EndFlush
  <2>5. Events(w) \subseteq Msgs
    BY DEF Events
  <2>6. ASSUME NEW s \in Sinks, WriteOK(w, s) PROVE TypeOK'
    BY <2>5, <2>6 DEF WriteOK
  <2>7. ASSUME NEW s \in Sinks, WriteFail(w, s) PROVE TypeOK'
    BY <2>5, <2>7 DEF WriteFail, DiskError
  <2> QED BY <1>9, <2>1, <2>2, <2>3, <2>4, <2>6, <2>7 DEF WorkerStep
<1> QED
  BY <1>1, <1>2, <1>3, <1>4, <1>5, <1>6, <1>7, <1>8, <1>9 DEF Next

(* The first start has its type.                                           *)
LEMMA TypeInit == Init => TypeOK
  BY PipelineAssumption DEF Init, TypeOK, AllPushers, AllWorkers, EmptyTracker

(* Type correctness of the pipeline, with the bounds of the channel        *)
(* (internal/buffer/channel.go) and of the batches.                        *)
THEOREM TypeCorrect == Spec => []TypeOK
  BY TypeInit, TypeStep, PTL DEF Spec

-----------------------------------------------------------------------------
(* No sequence number in use is beyond the counter.                        *)
SeqBounded == /\ \A r \in wal : r.seq <= seq
              /\ \A i \in Ids : tracker[i] <= seq
              /\ \A p \in Pushers : \A h \in held[p] : h.seq <= seq

(* The number a Push still holds is that of its own record.                *)
HeldSound == \A p \in Pushers : \A h \in held[p] :
               \A r \in wal : r.seq = h.seq => r = h

(* The number the tracker keeps under an id is that of a record of the id. *)
TrackerSound == \A i \in Ids : \A r \in wal : r.seq = tracker[i] => IdOf[r.msg] = i

(* What a flush that has not failed holds, the sinks it is done with have. *)
FlushSound == \A w \in Workers : wpc[w] = "flush" /\ ok[w] =>
                \A s \in Sinks \ left[w] : Events(w) \subseteq delivered[s]

AckInv == TypeOK /\ SeqBounded /\ HeldSound /\ TrackerSound /\ FlushSound

(* Only Ack removes a record, and only one with the number the tracker has *)
(* under the id of the first event of its batch.                           *)
LEMMA Removal ==
  ASSUME TypeOK, Next, NEW r \in wal, r \notin wal'
  PROVE  \E w \in Workers : /\ wpc[w] = "flush" /\ left[w] = {} /\ ok[w]
                            /\ batch[w] # <<>>
                            /\ r.seq = tracker[IdOf[Head(batch[w])]]
<1> USE DEF log, pushing, working, bounds
<1>1. ~(Boot \/ Recover \/ StartWorkers \/ Crash \/ Drain)
  BY DEF Boot, Recover, StartWorkers, Crash, Drain
<1>2. ASSUME NEW p \in Pushers, Submit(p) \/ PushStep(p) PROVE FALSE
  BY <1>2 DEF Submit, PushStep, LogAppend, AppendFail, Refuse, Store, Enqueue, Full, Undo
<1>3. PICK w \in Workers : WorkerStep(w)
  BY <1>1, <1>2 DEF Next
<1>4. Ack(w)
  BY <1>3 DEF WorkerStep, Receive, Tick, WriteOK, WriteFail, EndFlush
<1> QED BY <1>4 DEF Ack

(* Deliveries are never taken back.                                        *)
LEMMA DeliveredGrows ==
  ASSUME TypeOK, [Next]_vars
  PROVE  \A s \in Sinks : delivered[s] \subseteq delivered'[s]
<1> USE DEF log, pushing, working, bounds
<1>1. CASE UNCHANGED vars \/ Boot \/ Recover \/ StartWorkers \/ Crash \/ Drain
  BY <1>1 DEF vars, Boot, Recover, StartWorkers, Crash, Drain
<1>2. ASSUME NEW p \in Pushers, Submit(p) \/ PushStep(p)
      PROVE  delivered' = delivered
  BY <1>2 DEF Submit, PushStep, LogAppend, AppendFail, Refuse, Call, Store, Enqueue, Full, Undo
<1>3. ASSUME NEW w \in Workers, WorkerStep(w)
      PROVE  \A s \in Sinks : delivered[s] \subseteq delivered'[s]
  <2>1. ASSUME NEW s \in Sinks, WriteOK(w, s)
        PROVE  \A t \in Sinks : delivered[t] \subseteq delivered'[t]
    BY <2>1 DEF WriteOK, TypeOK
  <2> QED
    BY <1>3, <2>1 DEF WorkerStep, Receive, Tick, Ack, WriteFail, EndFlush
<1> QED BY <1>1, <1>2, <1>3 DEF Next

(* Every step preserves AckInv.  Distinct ids are not needed for it.       *)
LEMMA AckStep == AckInv /\ [Next]_vars => AckInv'
<1> SUFFICES ASSUME AckInv, [Next]_vars PROVE AckInv'
  OBVIOUS
<1> TypeOK /\ TypeOK'
  BY TypeStep DEF AckInv
<1> DEFINE Seqs == SeqBounded /\ HeldSound /\ TrackerSound
<1> SUFFICES Seqs' /\ FlushSound'
  BY DEF AckInv
<1> USE PipelineAssumption
    DEF AckInv, SeqBounded, HeldSound, TrackerSound, log, pushing, working, bounds
<1>nonzero. \A r \in wal : r.seq # 0
  BY DEF TypeOK, Record
<1>counter. seq \in Nat /\ 0 <= seq
  BY DEF TypeOK
<1>1. CASE UNCHANGED vars
  BY <1>1 DEF vars, FlushSound, Events
<1>2. CASE Boot \/ Recover \/ StartWorkers \/ Drain
  BY <1>2 DEF Boot, Recover, StartWorkers, Drain, FlushSound, Events
<1>3. CASE Crash
  <2>1. Seqs'
    BY <1>3 DEF Crash, AllPushers, EmptyTracker, TypeOK, Record
  <2>2. FlushSound'
    BY <1>3 DEF Crash, AllWorkers, FlushSound
  <2> QED BY <2>1, <2>2
<1>4. ASSUME NEW p \in Pushers, Submit(p) \/ PushStep(p)
      PROVE  FlushSound'
  BY <1>4 DEF Submit, PushStep, LogAppend, AppendFail, Refuse, Call, Store, Enqueue,
     Full, Undo, FlushSound, Events
<1>5. ASSUME NEW p \in Pushers, Submit(p) PROVE Seqs'
  <2>1. PICK m \in Msgs : LogAppend(p, m) \/ AppendFail(p, m) \/ Refuse(p, m)
    BY <1>5 DEF Submit
  <2>2. tracker' = tracker
    BY <2>1 DEF LogAppend, AppendFail, Refuse, Call
  <2>3. CASE LogAppend(p, m) \/ AppendFail(p, m)
    <3> DEFINE new == [seq |-> seq + 1, msg |-> m]
    <3>1. wal' \in {wal, wal \cup {new}} /\ seq' = seq + 1
          /\ \A q \in Pushers : held'[q] = held[q] \/ (q = p /\ held'[q] = {new} /\ new \in wal')
      BY <2>3 DEF LogAppend, AppendFail, TypeOK
    <3>2. \A r \in wal : r.seq \in Nat /\ r.seq # seq + 1 /\ r.seq <= seq + 1
      BY DEF TypeOK, Record
    <3>3. \A i \in Ids : tracker[i] # seq + 1 /\ tracker[i] <= seq + 1
      BY DEF TypeOK
    <3>4. \A q \in Pushers : \A h \in held[q] : h.seq # seq + 1 /\ h.seq <= seq + 1
      BY SMTT(30) DEF TypeOK, Record
    <3>5. new.seq = seq + 1 /\ seq + 1 <= seq + 1
      BY DEF TypeOK
    <3> HIDE DEF new
    <3> QED BY <2>2, <3>1, <3>2, <3>3, <3>4, <3>5
  <2>4. CASE Refuse(p, m)
    BY <2>2, <2>4 DEF Refuse, TypeOK, Record
  <2> QED BY <2>1, <2>3, <2>4
<1>6. ASSUME NEW p \in Pushers, PushStep(p) PROVE Seqs'
  <2>1. wal' = wal /\ seq' = seq /\ \A q \in Pushers : held'[q] \subseteq held[q]
    BY <1>6, ZenonT(30) DEF PushStep, Store, Enqueue, Full, Undo, TypeOK
  <2>2. CASE Store(p)
    <3>1. PICK h \in held[p] : tracker' = [tracker EXCEPT ![IdOf[h.msg]] = h.seq]
      BY <2>2 DEF Store
    <3>2. h \in Record /\ IdOf[h.msg] \in Ids
      BY <3>1 DEF TypeOK, Record
    <3> QED BY <2>1, <3>1, <3>2 DEF TypeOK
  <2>3. CASE Undo(p)
    <3>1. \A i \in Ids : tracker'[i] \in {tracker[i], 0}
      BY <2>3 DEF Undo, TypeOK
    <3>2. TrackerSound'
      BY <1>nonzero, <2>1, <3>1
    <3>3. SeqBounded' /\ HeldSound'
      BY <1>counter, <2>1, <3>1
    <3> QED BY <3>2, <3>3
  <2>4. CASE Enqueue(p) \/ Full(p)
    BY <2>1, <2>4 DEF Enqueue, Full
  <2> QED BY <1>6, <2>2, <2>3, <2>4 DEF PushStep
<1>7. ASSUME NEW w \in Workers, WorkerStep(w) PROVE Seqs' /\ FlushSound'
  <2>1. CASE Receive(w) \/ Tick(w)
    <3>1. Seqs'
      BY <2>1 DEF Receive, Tick
    <3>2. delivered' = delivered
      BY <2>1 DEF Receive, Tick
    <3>3. ASSUME NEW v \in Workers, v # w
          PROVE  wpc'[v] = wpc[v] /\ ok'[v] = ok[v] /\ left'[v] = left[v] /\ batch'[v] = batch[v]
      BY <2>1, <3>3, ZenonT(60) DEF Receive, Tick, BeginFlush, TypeOK
    <3>4. wpc'[w] = "select" \/ left'[w] = Sinks
      BY <2>1 DEF Receive, Tick, BeginFlush, TypeOK
    <3> QED BY <3>1, <3>2, <3>3, <3>4 DEF FlushSound, Events
  <2>2. ASSUME NEW s \in Sinks, WriteOK(w, s) PROVE Seqs' /\ FlushSound'
    <3>1. Seqs'
      BY <2>2 DEF WriteOK
    <3>2. /\ wpc' = wpc /\ ok' = ok /\ batch' = batch
          /\ \A t \in Sinks : delivered'[t] = IF t = s THEN delivered[t] \cup Events(w)
                                                      ELSE delivered[t]
          /\ \A v \in Workers : left'[v] = IF v = w THEN left[v] \ {s} ELSE left[v]
      BY <2>2 DEF WriteOK, TypeOK
    <3>3. \A v \in Workers : Events(v)' = Events(v)
      BY <3>2 DEF Events
    <3>4. ASSUME NEW v \in Workers, wpc[v] = "flush", ok[v], NEW t \in Sinks \ left'[v]
          PROVE  Events(v) \subseteq delivered'[t]
      <4>1. CASE v = w /\ t = s
        BY <3>2, <4>1
      <4>2. CASE ~(v = w /\ t = s)
        <5>1. t \in Sinks \ left[v]
          BY <3>2, <3>4, <4>2
        <5> QED BY <3>2, <3>4, <5>1 DEF FlushSound
      <4> QED BY <4>1, <4>2
    <3> QED BY <3>1, <3>2, <3>3, <3>4 DEF FlushSound
  <2>3. ASSUME NEW s \in Sinks, WriteFail(w, s) PROVE Seqs' /\ FlushSound'
    <3>1. Seqs'
      BY <2>3 DEF WriteFail
    <3>2. /\ wpc' = wpc /\ batch' = batch /\ delivered' = delivered
          /\ \A v \in Workers : IF v = w THEN ok'[v] = FALSE
                                 ELSE ok'[v] = ok[v] /\ left'[v] = left[v]
      BY <2>3 DEF WriteFail, TypeOK
    <3> QED BY <3>1, <3>2 DEF FlushSound, Events
  <2>4. CASE Ack(w)
    <3>1. /\ wal' \subseteq wal /\ seq' = seq /\ held' = held
          /\ \A i \in Ids : tracker'[i] \in {tracker[i], 0}
      BY <2>4 DEF Ack, TypeOK
    <3>2. TrackerSound'
      BY <1>nonzero, <3>1
    <3>3. SeqBounded' /\ HeldSound'
      BY <1>counter, <3>1
    <3>4. /\ wpc' = wpc /\ ok' = ok /\ left' = left /\ delivered' = delivered
          /\ \A v \in Workers : batch'[v] = IF v = w THEN Tail(batch[v]) ELSE batch[v]
      BY <2>4 DEF Ack, TypeOK
    <3>5. \A v \in Workers : Events(v)' \subseteq Events(v)
      <4> TAKE v \in Workers
      <4>1. batch[w] \in Seq(Msgs) /\ batch[w] # <<>>
        BY <2>4 DEF Ack, TypeOK
      <4>2. \A k \in 1..Len(Tail(batch[w])) :
              k + 1 \in 1..Len(batch[w]) /\ Tail(batch[w])[k] = batch[w][k + 1]
        BY <4>1
      <4>3. CASE v = w
        <5>1. batch'[w] = Tail(batch[w])
          BY <3>4
        <5>2. \A k \in 1..Len(batch'[w]) : batch'[w][k] \in Events(w)
          BY <4>2, <5>1 DEF Events
        <5> QED BY <4>3, <5>2 DEF Events
      <4>4. CASE v # w
        BY <3>4, <4>4 DEF Events
      <4> QED BY <4>3, <4>4
    <3>6. FlushSound'
      BY <3>4, <3>5 DEF FlushSound
    <3> QED BY <3>2, <3>3, <3>6
  <2>5. CASE EndFlush(w)
    <3>1. Seqs'
      BY <2>5 DEF EndFlush
    <3>2. /\ left' = left /\ delivered' = delivered
          /\ \A v \in Workers : IF v = w THEN wpc'[v] = "select"
               ELSE wpc'[v] = wpc[v] /\ ok'[v] = ok[v] /\ batch'[v] = batch[v]
      BY <2>5 DEF EndFlush, TypeOK
    <3> QED BY <3>1, <3>2 DEF FlushSound, Events
  <2> QED BY <1>7, <2>1, <2>2, <2>3, <2>4, <2>5 DEF WorkerStep
<1> QED
  BY <1>1, <1>2, <1>3, <1>4, <1>5, <1>6, <1>7 DEF Next

(* The first start satisfies AckInv.                                       *)
LEMMA AckInit == Init => AckInv
<1> SUFFICES ASSUME Init PROVE AckInv
  OBVIOUS
<1>1. SeqBounded /\ HeldSound /\ TrackerSound
  BY DEF Init, SeqBounded, HeldSound, TrackerSound, AllPushers, EmptyTracker
<1>2. FlushSound
  BY DEF Init, FlushSound, AllWorkers
<1> QED BY TypeInit, <1>1, <1>2 DEF AckInv

(* With distinct ids, a record that leaves the log was delivered.          *)
LEMMA RemovedWasDelivered ==
  ASSUME OwnIds, AckInv, Next, NEW r \in wal, r \notin wal'
  PROVE  Everywhere(r.msg)
<1>1. PICK w \in Workers : /\ wpc[w] = "flush" /\ left[w] = {} /\ ok[w]
                          /\ batch[w] # <<>>
                          /\ r.seq = tracker[IdOf[Head(batch[w])]]
  BY Removal DEF AckInv
<1>2. batch[w] \in Seq(Msgs) /\ r.msg \in Msgs
  BY DEF AckInv, TypeOK, Record
<1>3. Head(batch[w]) \in Msgs /\ Head(batch[w]) \in Events(w)
  BY <1>1, <1>2 DEF Events
<1>4. IdOf[Head(batch[w])] \in Ids
  BY <1>3, PipelineAssumption
<1>5. r.msg = Head(batch[w])
  BY <1>1, <1>2, <1>3, <1>4 DEF OwnIds, AckInv, TrackerSound
<1> QED BY <1>1, <1>3, <1>5 DEF AckInv, FlushSound, Everywhere

(* With distinct ids, no record is acknowledged before its event reached   *)
(* every sink (flush in internal/worker/worker.go).                        *)
THEOREM NoEarlyAck == ASSUME OwnIds PROVE Spec => NoPrematureAck
<1>1. AckInv /\ [Next]_vars => [\A r \in wal \ wal' : Everywhere(r.msg)]_vars
  BY RemovedWasDelivered
<1> QED
  BY <1>1, AckInit, AckStep, PTL DEF Spec, NoPrematureAck

-----------------------------------------------------------------------------
(* An event that every sink has, or that the next restart replays.         *)
Safe(m) == Everywhere(m) \/ \E r \in wal : r.msg = m

(* Every event the process holds or has answered for is safe.              *)
HeldSafe     == \A p \in Pushers : \A h \in held[p] : Safe(h.msg)
BufferedSafe == \A k \in 1..Len(buffer) : Safe(buffer[k])
BatchesSafe  == \A w \in Workers : \A m \in Events(w) : Safe(m)

SafeInv == /\ AckInv /\ HeldSafe /\ BufferedSafe /\ BatchesSafe
           /\ AtLeastOnce /\ DeadLettersKept

(* With distinct ids, an event that is safe stays safe.                    *)
LEMMA SafeStays ==
  ASSUME OwnIds, AckInv, [Next]_vars, NEW m \in Msgs, Safe(m)
  PROVE  Safe(m)'
<1>1. TypeOK
  BY DEF AckInv
<1>2. \A s \in Sinks : delivered[s] \subseteq delivered'[s]
  BY <1>1, DeliveredGrows
<1>3. CASE Everywhere(m)
  BY <1>2, <1>3 DEF Safe, Everywhere
<1>4. ASSUME NEW r \in wal, r.msg = m PROVE Safe(m)'
  <2>1. CASE r \in wal'
    BY <1>4, <2>1 DEF Safe
  <2>2. CASE r \notin wal'
    <3>1. Next
      BY <2>2 DEF vars, log
    <3>2. Everywhere(r.msg)
      BY <2>2, <3>1, RemovedWasDelivered
    <3> QED BY <1>2, <1>4, <3>2 DEF Safe, Everywhere
  <2> QED BY <2>1, <2>2
<1> QED BY <1>3, <1>4 DEF Safe

(* With distinct ids, every step preserves SafeInv.                        *)
LEMMA SafeStep == ASSUME OwnIds PROVE SafeInv /\ [Next]_vars => SafeInv'
<1> SUFFICES ASSUME SafeInv, [Next]_vars PROVE SafeInv'
  OBVIOUS
<1>1. AckInv /\ AckInv' /\ TypeOK /\ TypeOK'
  BY AckStep DEF SafeInv, AckInv
<1>2. \A m \in Msgs : Safe(m) => Safe(m)'
  BY <1>1, SafeStays
<1>3. /\ \A p \in Pushers : \A h \in held[p] : h.msg \in Msgs /\ Safe(h.msg)'
      /\ \A k \in 1..Len(buffer) : \A m \in {buffer[k]} : m \in Msgs /\ Safe(m)'
      /\ \A w \in Workers : \A m \in Events(w) : m \in Msgs /\ Safe(m)'
      /\ \A m \in accepted \cup dead : Safe(m)'
  <2>1. \A p \in Pushers : \A h \in held[p] : h.msg \in Msgs
    BY <1>1 DEF TypeOK, Record
  <2>2. \A w \in Workers : \A m \in Events(w) : m \in Msgs
    BY <1>1 DEF TypeOK, Events
  <2>3. (\A k \in 1..Len(buffer) : buffer[k] \in Msgs) /\ accepted \cup dead \subseteq Msgs
    BY <1>1 DEF TypeOK
  <2>4. \A m \in accepted \cup dead : Safe(m)
    BY DEF SafeInv, AtLeastOnce, DeadLettersKept, Safe
  <2>5. HeldSafe /\ BufferedSafe /\ BatchesSafe
    BY DEF SafeInv
  <2>6. \A p \in Pushers : \A h \in held[p] : Safe(h.msg)'
    BY <1>2, <2>1, <2>5 DEF HeldSafe
  <2>7. \A k \in 1..Len(buffer) : \A m \in {buffer[k]} : Safe(m)'
    BY <1>2, <2>3, <2>5 DEF BufferedSafe
  <2>8. \A w \in Workers : \A m \in Events(w) : Safe(m)'
    BY <1>2, <2>2, <2>5 DEF BatchesSafe
  <2>9. \A m \in accepted \cup dead : Safe(m)'
    BY <1>2, <2>3, <2>4
  <2> QED
    BY <2>1, <2>2, <2>3, <2>6, <2>7, <2>8, <2>9
<1> DEFINE Goal == HeldSafe /\ BufferedSafe /\ BatchesSafe
                   /\ (\A m \in accepted \cup dead : Safe(m))
<1> SUFFICES Goal'
  BY <1>1 DEF SafeInv, AtLeastOnce, DeadLettersKept, Safe
<1> USE DEF HeldSafe, BufferedSafe, BatchesSafe, log, pushing, working, bounds
<1>4. CASE UNCHANGED vars
  <2>1. \A w \in Workers : Events(w)' = Events(w)
    BY <1>4 DEF vars, Events
  <2> QED BY <1>3, <1>4, <2>1 DEF vars
<1>5. CASE Boot \/ Recover \/ StartWorkers \/ Drain
  <2>1. /\ \A w \in Workers : Events(w)' = Events(w)
        /\ UNCHANGED <<held, buffer, accepted, dead>>
    BY <1>5 DEF Boot, Recover, StartWorkers, Drain, Events
  <2> QED BY <1>3, <2>1
<1>6. CASE Crash
  <2>1. /\ \A p \in Pushers : held'[p] = {}
        /\ Len(buffer') = 0
        /\ UNCHANGED <<accepted, dead>>
    BY <1>6 DEF Crash, AllPushers
  <2>2. \A w \in Workers : batch'[w] = <<>>
    BY <1>6 DEF Crash, AllWorkers
  <2>3. \A w \in Workers : Events(w)' = {}
    BY <2>2 DEF Events
  <2> QED BY <1>3, <2>1, <2>3
<1>7. ASSUME NEW p \in Pushers, Submit(p) \/ PushStep(p) PROVE Goal'
  <2>1. dead' = dead /\ \A w \in Workers : Events(w)' = Events(w)
    BY <1>7 DEF Submit, PushStep, LogAppend, AppendFail, Refuse, Call, Store, Enqueue,
       Full, Undo, Events
  <2>2. ASSUME NEW m \in Msgs, LogAppend(p, m) PROVE Goal'
    <3> DEFINE new == [seq |-> seq + 1, msg |-> m]
    <3>1. /\ \A q \in Pushers : held'[q] = IF q = p THEN {new} ELSE held[q]
          /\ UNCHANGED <<buffer, accepted>> /\ new \in wal' /\ new.msg = m
      BY <1>1, <2>2 DEF LogAppend, Call, TypeOK
    <3>2. Safe(m)'
      BY <3>1 DEF Safe
    <3> HIDE DEF new
    <3> QED BY <1>3, <2>1, <3>1, <3>2
  <2>3. ASSUME NEW m \in Msgs, AppendFail(p, m) \/ Refuse(p, m) PROVE Goal'
    BY <1>3, <2>1, <2>3 DEF AppendFail, Refuse, Call
  <2>4. CASE Store(p) \/ Full(p) \/ Undo(p)
    <3>1. (\A q \in Pushers : held'[q] \subseteq held[q]) /\ UNCHANGED <<buffer, accepted>>
      BY <1>1, <2>4 DEF Store, Full, Undo, TypeOK
    <3> QED BY <1>3, <2>1, <3>1
  <2>5. CASE Enqueue(p)
    <3>1. PICK r \in held[p] :
            /\ buffer' = Append(buffer, r.msg)
            /\ accepted' = accepted \cup {m \in {r.msg} : p \in Handlers}
      BY <2>5 DEF Enqueue
    <3>2. Safe(r.msg)' /\ r.msg \in Msgs
      BY <1>3
    <3>3. \A q \in Pushers : held'[q] \subseteq held[q]
      BY <1>1, <2>5 DEF Enqueue, TypeOK
    <3>4. \A k \in 1..Len(buffer') : buffer'[k] = r.msg \/ (k \in 1..Len(buffer) /\ buffer'[k] = buffer[k])
      BY <1>1, <3>1, <3>2 DEF TypeOK
    <3>5. BufferedSafe'
      BY <1>3, <3>2, <3>4
    <3>6. HeldSafe' /\ BatchesSafe'
      BY <1>3, <2>1, <3>3
    <3>7. \A m \in accepted' \cup dead' : Safe(m)'
      BY <1>3, <2>1, <3>1, <3>2
    <3> QED BY <3>5, <3>6, <3>7
  <2> QED BY <1>7, <2>2, <2>3, <2>4, <2>5 DEF Submit, PushStep
<1>8. ASSUME NEW w \in Workers, WorkerStep(w) PROVE Goal'
  <2>1. held' = held /\ accepted' = accepted
    BY <1>8 DEF WorkerStep, Receive, Tick, Ack, EndFlush, WriteOK, WriteFail
  <2>2. CASE Receive(w)
    <3>1. buffer \in Seq(Msgs) /\ buffer # <<>> /\ buffer' = Tail(buffer)
      BY <1>1, <2>2 DEF Receive, TypeOK
    <3>2. 1 \in 1..Len(buffer) /\ Head(buffer) = buffer[1]
      BY <3>1
    <3>3. \A k \in 1..Len(buffer') : k + 1 \in 1..Len(buffer) /\ buffer'[k] = buffer[k + 1]
      BY <3>1
    <3>4. /\ batch[w] \in Seq(Msgs) /\ Head(buffer) \in Msgs /\ dead' = dead
          /\ batch'[w] = Append(batch[w], Head(buffer))
          /\ \A v \in Workers : v # w => batch'[v] = batch[v]
      BY <1>1, <2>2 DEF Receive, TypeOK
    <3>5. \A k \in 1..Len(batch'[w]) :
            batch'[w][k] = Head(buffer) \/ (k \in 1..Len(batch[w]) /\ batch'[w][k] = batch[w][k])
      BY <3>4
    <3>6. \A m \in Events(w)' : m = Head(buffer) \/ m \in Events(w)
      BY <3>5 DEF Events
    <3>7. \A v \in Workers : v # w => Events(v)' = Events(v)
      BY <3>4 DEF Events
    <3>8. BatchesSafe'
      <4> SUFFICES ASSUME NEW v \in Workers, NEW m \in Events(v)' PROVE Safe(m)'
        OBVIOUS
      <4>1. CASE v # w
        BY <1>3, <3>7, <4>1
      <4>2. CASE v = w /\ m \in Events(w)
        BY <1>3, <4>2
      <4>3. CASE m = Head(buffer)
        BY <1>3, <3>2, <4>3
      <4> QED BY <3>6, <4>1, <4>2, <4>3
    <3>9. BufferedSafe'
      BY <1>3, <3>3
    <3> QED BY <1>3, <2>1, <3>4, <3>8, <3>9
  <2>3. CASE Tick(w) \/ \E s \in Sinks : WriteOK(w, s)
    <3>1. /\ \A v \in Workers : Events(v)' = Events(v)
          /\ UNCHANGED <<buffer, dead>>
      BY <2>3 DEF Tick, WriteOK, Events
    <3> QED BY <1>3, <2>1, <3>1
  <2>4. ASSUME NEW s \in Sinks, WriteFail(w, s) PROVE Goal'
    <3>1. /\ \A v \in Workers : Events(v)' = Events(v)
          /\ buffer' = buffer /\ dead' \subseteq dead \cup Events(w)
      BY <2>4 DEF WriteFail, Events
    <3> QED BY <1>3, <2>1, <3>1
  <2>5. CASE Ack(w) \/ EndFlush(w)
    <3>1. /\ UNCHANGED <<buffer, dead>>
          /\ \A v \in Workers : v # w => batch'[v] = batch[v]
          /\ batch'[w] = <<>> \/ (batch[w] # <<>> /\ batch'[w] = Tail(batch[w]))
      BY <1>1, <2>5 DEF Ack, EndFlush, TypeOK
    <3>2. batch[w] \in Seq(Msgs)
      BY <1>1 DEF TypeOK
    <3>3. \A k \in 1..Len(batch'[w]) : k + 1 \in 1..Len(batch[w]) /\ batch'[w][k] = batch[w][k + 1]
      <4>1. CASE batch'[w] = <<>>
        BY <4>1
      <4>2. CASE batch[w] # <<>> /\ batch'[w] = Tail(batch[w])
        BY <3>2, <4>2
      <4> QED BY <3>1, <4>1, <4>2
    <3>4. Events(w)' \subseteq Events(w)
      BY <3>3 DEF Events
    <3>5. \A v \in Workers : v # w => Events(v)' = Events(v)
      BY <3>1 DEF Events
    <3>6. BatchesSafe'
      BY <1>3, <3>4, <3>5
    <3> QED BY <1>3, <2>1, <3>1, <3>6
  <2> QED BY <1>8, <2>2, <2>3, <2>4, <2>5 DEF WorkerStep
<1> QED
  BY <1>4, <1>5, <1>6, <1>7, <1>8 DEF Next

(* The first start satisfies SafeInv.                                      *)
LEMMA SafeInit == Init => SafeInv
<1> SUFFICES ASSUME Init PROVE SafeInv
  OBVIOUS
<1>1. HeldSafe /\ BufferedSafe
  BY DEF Init, HeldSafe, BufferedSafe, AllPushers
<1>2. BatchesSafe
  BY DEF Init, BatchesSafe, Events, AllWorkers
<1>3. AtLeastOnce /\ DeadLettersKept
  BY DEF Init, AtLeastOnce, DeadLettersKept
<1> QED BY AckInit, <1>1, <1>2, <1>3 DEF SafeInv

(* With distinct ids, an accepted event is in the log until every sink has *)
(* it (Service.Push, flush, replayWAL): for any number of crashes.         *)
THEOREM Delivery == ASSUME OwnIds PROVE Spec => []AtLeastOnce
<1>1. SafeInv => AtLeastOnce
  BY DEF SafeInv
<1> QED
  BY <1>1, SafeInit, SafeStep, PTL DEF Spec

(* With distinct ids, replaying the dead-letter queue loses no event       *)
(* (handleDLQReplay in internal/server/http-handlers.go).                  *)
THEOREM DeadLetters == ASSUME OwnIds PROVE Spec => []DeadLettersKept
<1>1. SafeInv => DeadLettersKept
  BY DEF SafeInv
<1> QED
  BY <1>1, SafeInit, SafeStep, PTL DEF Spec
=============================================================================
