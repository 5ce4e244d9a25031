--------------------------- MODULE ShutdownProofs ---------------------------
(***************************************************************************)
(* Proofs about Shutdown and the workers it stops, for any number of       *)
(* events, workers, sinks and handlers and any limits.                     *)
(*                                                                         *)
(* Three inductive invariants, each on top of the one before: PoolInv,     *)
(* what the state of a worker says of its batch and counters; OrderInv,    *)
(* what the stage of the shutdown says of the handlers and of the workers  *)
(* that leave; and DrainInv and LateInv, where the events are.             *)
(***************************************************************************)
EXTENDS Shutdown, FiniteSetTheorems, TLAPS

Flushing(w) == wpc[w] \in {"write", "backoff"}

(* A batch in the making has room, a retry has an attempt left, a worker   *)
(* that runs a restart, and one that does not flush or select no batch.    *)
WorkerBounds ==
    \A w \in Workers : /\ wpc[w] = "select" => Len(batch[w]) < BatchSize
                       /\ wpc[w] = "backoff" => attempt[w] < MaxRetries
                       /\ wpc[w] # "ended" => panics[w] < MaxRestarts
                       /\ wpc[w] \in {"cooldown", "ended"} => batch[w] = <<>>

PoolInv == TypeOK /\ WorkerBounds

(* The servers are stopped one after the other, and the channel is closed  *)
(* only then.                                                              *)
Phases == /\ closed <=> stage \in {"drain", "force", "exit"}
          /\ cancelled => closed
          /\ stage \notin {"serving", "grpc"} => \A h \in GrpcHandlers : hpc[h] = "idle"
          /\ closed => deadline \/ \A h \in HttpHandlers : hpc[h] = "idle"

(* A worker in its last flush, or gone without a panic, has found the      *)
(* channel closed and empty, unless it was cancelled.  Only a last flush   *)
(* has a timeout of its own.                                               *)
Leaving == \A w \in Workers :
             /\ (Flushing(w) /\ final[w]) \/ (wpc[w] = "ended" /\ panics[w] < MaxRestarts)
                  => closed /\ (cancelled \/ buffer = <<>>)
             /\ expired[w] => final[w] /\ (Flushing(w) \/ wpc[w] = "ended")

OrderInv == PoolInv /\ Phases /\ Leaving /\ (stage = "exit" => Drained)

(* The events in a sequence.                                               *)
In(s) == {s[i] : i \in 1..Len(s)}

Settled(e) == \A s \in Sinks : <<e, s>> \in delivered \cup failed

(* An accepted event is in the channel or in the batch of a worker until   *)
(* it is settled, or lost with the batch of a panic.                       *)
Located == \A e \in accepted \ abandoned :
             e \in In(buffer) \/ (\E w \in Workers : e \in In(batch[w])) \/ Settled(e)

(* A flush has settled its batch with the sinks it is done with.           *)
FlushSettles == \A w \in Workers : Flushing(w) =>
                  \A e \in In(batch[w]), s \in Sinks \ left[w] : <<e, s>> \in delivered \cup failed

DrainInv == OrderInv /\ Located /\ FlushSettles

(* The entries the dead-letter queue was offered.                          *)
Offered == dead \cup unwritten

(* The events that were not offered to it are in the last batches of       *)
(* workers whose last flush timed out.                                     *)
Missed == {p \in failed \ Offered : p[1] \notin abandoned}

Batches == UNION {[1..n -> Events] : n \in 0..BatchSize}

Owned(last) == /\ \A w \in Workers : Flushing(w) => last[w] = batch[w]
               /\ \A p \in Missed : \E w \in Workers : expired[w] /\ p[1] \in In(last[w])

LateInv == /\ OrderInv
           /\ ~closed => failed \subseteq Offered
           /\ ~cancelled => \E last \in [Workers -> Batches] : Owned(last)

-----------------------------------------------------------------------------
(* What Append, Head and Tail do to a sequence and to its elements.        *)
LEMMA ListOps ==
    ASSUME NEW S, NEW q \in Seq(S)
    PROVE  /\ Len(q) \in Nat /\ (q = <<>> <=> Len(q) = 0) /\ In(q) \subseteq S
           /\ In(q) = {} <=> q = <<>>
           /\ \A e \in S : /\ Append(q, e) \in Seq(S) /\ Len(Append(q, e)) = Len(q) + 1
                           /\ In(Append(q, e)) = In(q) \cup {e}
           /\ q # <<>> => /\ Head(q) \in S /\ Tail(q) \in Seq(S)
                          /\ Len(Tail(q)) = Len(q) - 1
                          /\ In(q) = {Head(q)} \cup In(Tail(q))
<1> USE DEF In
<1>1. Len(q) \in Nat /\ (q = <<>> <=> Len(q) = 0) /\ In(q) \subseteq S
  OBVIOUS
<1>2. In(q) = {} <=> q = <<>>
  <2>1. ASSUME q # <<>> PROVE q[1] \in In(q)
    BY <1>1, <2>1
  <2>2. ASSUME q = <<>> PROVE 1..Len(q) = {}
    BY <1>1, <2>2
  <2> QED BY <2>1, <2>2
<1>3. ASSUME NEW e \in S
      PROVE  /\ Append(q, e) \in Seq(S) /\ Len(Append(q, e)) = Len(q) + 1
             /\ In(Append(q, e)) = In(q) \cup {e}
  <2> DEFINE a == Append(q, e)
  <2>1. /\ a \in Seq(S) /\ Len(a) = Len(q) + 1 /\ a[Len(q) + 1] = e
        /\ \A i \in 1..Len(q) : a[i] = q[i]
    OBVIOUS
  <2> HIDE DEF a
  <2>2. 1..Len(a) = 1..Len(q) \cup {Len(q) + 1}
    BY <1>1, <2>1
  <2>3. In(a) = In(q) \cup {e}
    BY <2>1, <2>2
  <2> QED BY <2>1, <2>3 DEF a
<1>4. ASSUME q # <<>>
      PROVE  /\ Head(q) \in S /\ Tail(q) \in Seq(S) /\ Len(Tail(q)) = Len(q) - 1
             /\ In(q) = {Head(q)} \cup In(Tail(q))
  <2> DEFINE t == Tail(q)
  <2>1. /\ Head(q) \in S /\ t \in Seq(S) /\ Len(t) = Len(q) - 1 /\ Head(q) = q[1]
        /\ \A i \in 1..Len(q) - 1 : t[i] = q[i + 1]
    BY <1>4
  <2> HIDE DEF t
  <2>2. ASSUME NEW i \in 1..Len(q) PROVE q[i] = Head(q) \/ \E j \in 1..Len(t) : t[j] = q[i]
    <3>1. CASE i = 1
      BY <2>1, <3>1
    <3>2. CASE i # 1
      <4>1. i - 1 \in 1..Len(t) /\ t[i - 1] = q[(i - 1) + 1] /\ (i - 1) + 1 = i
        BY <1>1, <2>1, <3>2
      <4> QED BY <4>1
    <3> QED BY <3>1, <3>2
  <2>3. \A j \in 1..Len(t) : \E i \in 1..Len(q) : t[j] = q[i]
    BY <1>1, <2>1
  <2>4. 1 \in 1..Len(q)
    BY <1>1, <1>4
  <2> QED BY <2>1, <2>2, <2>3, <2>4 DEF t
<1> QED BY <1>1, <1>2, <1>3, <1>4

(* The entries for some positions of a batch are some of the entries for   *)
(* all of them.                                                            *)
LEMMA EntriesGrow ==
    ASSUME NEW w \in Workers, NEW s \in Sinks, batch[w] \in Seq(Events),
           NEW k \in 0..Len(batch[w]), NEW bad \in SUBSET (1..k)
    PROVE  /\ Entries(w, s, (1..k) \ bad) \subseteq Entries(w, s, 1..Len(batch[w]))
           /\ Entries(w, s, bad) \subseteq Entries(w, s, 1..Len(batch[w]))
<1>1. Len(batch[w]) \in Nat /\ (1..k) \subseteq 1..Len(batch[w])
  OBVIOUS
<1>2. (1..k) \ bad \subseteq 1..Len(batch[w]) /\ bad \subseteq 1..Len(batch[w])
  BY <1>1
<1> QED BY <1>2 DEF Entries

(* Nobody has done anything yet.                                           *)
LEMMA PoolInit == Init => PoolInv
<1> SUFFICES ASSUME Init PROVE PoolInv
  OBVIOUS
<1> USE ShutdownAssumption, WorkerPoolAssumption DEF Init, WInit, AllWorkers
<1>1. WorkerBounds
  BY DEF WorkerBounds
<1>2. /\ buffer \in Seq(Events) /\ Len(buffer) <= BufferSize
      /\ batch \in [Workers -> Seq(Events)]
      /\ \A w \in Workers : Len(batch[w]) <= BatchSize
      /\ attempt \in [Workers -> 0..MaxRetries] /\ panics \in [Workers -> 0..MaxRestarts]
  OBVIOUS
<1>3. /\ wpc \in [Workers -> {"select"}] /\ left \in [Workers -> SUBSET Sinks]
      /\ final \in [Workers -> BOOLEAN] /\ expired \in [Workers -> BOOLEAN]
      /\ hpc \in [Handlers -> {"idle"}] /\ hev \in [Handlers -> SUBSET Events]
  OBVIOUS
<1>4. /\ closed = FALSE /\ cancelled = FALSE /\ deadline = FALSE /\ stage = "serving"
      /\ delivered = {} /\ failed = {} /\ dead = {} /\ unwritten = {} /\ abandoned = {}
      /\ accepted = {} /\ sent = {}
  OBVIOUS
<1> HIDE DEF Init
<1> QED BY <1>1, <1>2, <1>3, <1>4 DEF PoolInv, TypeOK

(* Every step keeps the types and the bounds of the workers.               *)
LEMMA PoolStep == PoolInv /\ [Next]_vars => PoolInv'
<1> SUFFICES ASSUME PoolInv, [Next]_vars PROVE PoolInv'
  OBVIOUS
<1>t. TypeOK /\ WorkerBounds
  BY DEF PoolInv
<1> USE ShutdownAssumption, WorkerPoolAssumption
<1> DEFINE
     PcType == {"select", "write", "backoff", "cooldown", "ended"}
     Pool == /\ wpc \in [Workers -> PcType]
             /\ batch \in [Workers -> Seq(Events)]
             /\ \A w \in Workers : Len(batch[w]) <= BatchSize
             /\ left \in [Workers -> SUBSET Sinks]
             /\ attempt \in [Workers -> 0..MaxRetries]
             /\ final \in [Workers -> BOOLEAN] /\ expired \in [Workers -> BOOLEAN]
             /\ panics \in [Workers -> 0..MaxRestarts]
     Results == /\ delivered \subseteq Pairs /\ failed \subseteq Pairs
                /\ dead \subseteq failed /\ unwritten \subseteq failed
                /\ abandoned \subseteq Events
     HpcType == {"idle", "push", "replay", "repush"}
     Channel == /\ buffer \in Seq(Events) /\ Len(buffer) <= BufferSize
                /\ closed \in BOOLEAN /\ cancelled \in BOOLEAN
     Sequence == /\ stage \in {"serving", "grpc", "http", "drain", "force", "exit"}
                 /\ deadline \in BOOLEAN
                 /\ hpc \in [Handlers -> HpcType] /\ hev \in [Handlers -> SUBSET Events]
                 /\ accepted \subseteq Events /\ sent \subseteq Events
<1>p. Pool /\ Results /\ Channel /\ Sequence
  BY <1>t DEF TypeOK
<1> SUFFICES (Pool /\ WorkerBounds /\ Results /\ Channel /\ Sequence)'
  BY DEF PoolInv, TypeOK
<1>1. ASSUME UNCHANGED <<wpc, batch, flushing, panics, outcome>>
      PROVE  (Pool /\ WorkerBounds /\ Results)'
  <2>1. UNCHANGED <<wpc, batch, left, attempt, final, expired, panics, delivered, failed,
                    dead, unwritten, abandoned>>
    BY <1>1 DEF flushing, outcome
  <2> QED BY <1>t, <1>p, <2>1 DEF WorkerBounds
<1>2. ASSUME UNCHANGED svars PROVE Sequence'
  BY <1>p, <1>2 DEF svars
<1>3. CASE UNCHANGED vars
  <2>1. UNCHANGED <<buffer, closed, cancelled>> /\ UNCHANGED svars
        /\ UNCHANGED <<wpc, batch, flushing, panics, outcome>>
    BY <1>3 DEF vars, wvars
  <2> QED BY <1>p, <1>1, <1>2, <2>1
<1>4. ASSUME NEW h \in Handlers, Accept(h) \/ Drop(h)
      PROVE  (Pool /\ WorkerBounds /\ Results /\ Channel /\ Sequence)'
  <2>1. /\ \E pc \in {"idle", "replay"} : hpc' = [hpc EXCEPT ![h] = pc]
        /\ hev' = [hev EXCEPT ![h] = {}]
        /\ UNCHANGED <<closed, cancelled, wpc, batch, flushing, panics, outcome, stage,
                       deadline, sent>>
    BY <1>4 DEF Accept, Drop, Reply
  <2>2. buffer' \in Seq(Events) /\ Len(buffer') <= BufferSize /\ accepted' \subseteq Events
    <3>1. CASE Accept(h)
      <4>1. PICK e \in hev[h] : buffer' = Append(buffer, e) /\ accepted' = accepted \cup {e}
        BY <3>1 DEF Accept
      <4>2. e \in Events /\ Len(buffer) < BufferSize
        BY <1>p, <3>1 DEF Accept
      <4> QED BY <1>p, <4>1, <4>2, ListOps
    <3>2. CASE Drop(h)
      BY <1>p, <3>2 DEF Drop
    <3> QED BY <1>4, <3>1, <3>2
  <2> QED BY <1>p, <1>1, <2>1, <2>2
<1>5. ASSUME NEW h \in Handlers, NEW e \in Events, NEW pc, NEW to \in {"push", "repush"},
             Begin(h, e, pc, to)
      PROVE  (Pool /\ WorkerBounds /\ Results /\ Channel /\ Sequence)'
  BY <1>p, <1>1, <1>5 DEF Begin, wvars
<1>8. ASSUME NEW h \in Handlers, Replay(h)
      PROVE  (Pool /\ WorkerBounds /\ Results /\ Channel /\ Sequence)'
  <2>1. /\ \E pc \in {"idle", "replay"} : hpc' = [hpc EXCEPT ![h] = pc]
        /\ UNCHANGED <<wvars, stage, deadline, hev, accepted, sent>>
    BY <1>8 DEF Replay
  <2> QED BY <1>p, <1>1, <2>1 DEF wvars
<1>6. CASE Terminate \/ Timeout \/ ShutdownStep
  <2>1. /\ UNCHANGED <<buffer, wpc, batch, flushing, panics, outcome, hpc, hev, accepted, sent>>
        /\ closed' \in {closed, TRUE} /\ cancelled' \in {cancelled, TRUE}
        /\ deadline' \in {deadline, TRUE}
        /\ stage' \in {"serving", "grpc", "http", "drain", "force", "exit"}
    BY <1>p, <1>6
       DEF Terminate, Timeout, ShutdownStep, StopGrpc, StopHttp, ForceStop, Exit, Goto, wvars
  <2> QED BY <1>p, <1>1, <2>1
<1>7. ASSUME NEW w \in Workers, WorkerStep(w) \/ WorkerFault(w), UNCHANGED svars
      PROVE  (Pool /\ WorkerBounds /\ Results /\ Channel /\ Sequence)'
  <2> USE DEF flushing, outcome, WorkerBounds
  <2>e. <<>> \in Seq(Events) /\ Len(<<>>) = 0
    OBVIOUS
  <2>f. ASSUME NEW pc \in {"select", "ended"}, wpc' = [wpc EXCEPT ![w] = pc],
               batch[w] = <<>>, wpc[w] # "ended",
               UNCHANGED <<buffer, closed, cancelled, batch, flushing, panics, outcome>>
        PROVE  (Pool /\ WorkerBounds /\ Results /\ Channel /\ Sequence)'
    <3>1. Pool'
      BY <1>p, <2>f
    <3>2. WorkerBounds'
      BY <1>t, <1>p, <2>e, <2>f
    <3> QED BY <1>p, <1>2, <1>7, <2>f, <3>1, <3>2
  <2>1. CASE Receive(w)
    <3>1. /\ wpc[w] = "select" /\ buffer # <<>> /\ Len(batch[w]) < BatchSize
          /\ batch[w] \in Seq(Events)
          /\ batch' = [batch EXCEPT ![w] = Append(batch[w], Head(buffer))]
          /\ buffer' = Tail(buffer)
          /\ UNCHANGED <<closed, cancelled, panics, outcome>>
      BY <1>t, <1>p, <2>1 DEF Receive
    <3>2. /\ buffer' \in Seq(Events) /\ Len(buffer') <= BufferSize
          /\ batch'[w] \in Seq(Events) /\ Len(batch'[w]) = Len(batch[w]) + 1
          /\ Len(batch[w]) \in Nat
      <4>1. Head(buffer) \in Events /\ Tail(buffer) \in Seq(Events)
            /\ Len(Tail(buffer)) = Len(buffer) - 1 /\ Len(buffer) \in Nat
        BY <1>p, <3>1, ListOps
      <4>2. /\ Append(batch[w], Head(buffer)) \in Seq(Events) /\ Len(batch[w]) \in Nat
            /\ Len(Append(batch[w], Head(buffer))) = Len(batch[w]) + 1
        BY <3>1, <4>1, ListOps
      <4> QED BY <1>p, <3>1, <4>1, <4>2
    <3>3. /\ batch' \in [Workers -> Seq(Events)] /\ \A x \in Workers : Len(batch'[x]) <= BatchSize
          /\ \A x \in Workers \ {w} : batch'[x] = batch[x]
      BY <1>p, <3>1, <3>2
    <3>a. (Results /\ Channel /\ Sequence)'
      BY <1>p, <1>2, <1>7, <3>1, <3>2
    <3>4. CASE Len(batch[w]) + 1 >= BatchSize
      <4>1. /\ wpc' = [wpc EXCEPT ![w] = "write"] /\ left' = [left EXCEPT ![w] = Sinks]
            /\ attempt' = [attempt EXCEPT ![w] = 1] /\ final' = [final EXCEPT ![w] = FALSE]
            /\ expired' = expired /\ panics' = panics
        BY <2>1, <3>4 DEF Receive, BeginFlush
      <4>2. Pool'
        BY <1>p, <3>3, <4>1
      <4>3. WorkerBounds'
        BY <1>t, <1>p, <3>1, <3>3, <4>1
      <4> QED BY <3>a, <4>2, <4>3
    <3>5. CASE ~(Len(batch[w]) + 1 >= BatchSize)
      <4>1. UNCHANGED <<wpc, left, attempt, final, expired, panics>>
        BY <2>1, <3>5 DEF Receive
      <4>2. Pool'
        BY <1>p, <3>3, <4>1
      <4>3. WorkerBounds'
        BY <1>t, <1>p, <3>1, <3>2, <3>3, <3>5, <4>1
      <4> QED BY <3>a, <4>2, <4>3
    <3> QED BY <3>4, <3>5
  <2>2. CASE Tick(w)
    BY <1>t, <1>p, <1>2, <1>7, <2>2 DEF Tick, BeginFlush
  <2>3. CASE Finish(w)
    <3>1. CASE batch[w] = <<>>
      <4>1. /\ wpc' = [wpc EXCEPT ![w] = "ended"] /\ wpc[w] # "ended"
            /\ UNCHANGED <<buffer, closed, cancelled, batch, flushing, panics, outcome>>
        BY <2>3, <3>1 DEF Finish, End
      <4> QED BY <2>f, <3>1, <4>1
    <3>2. CASE batch[w] # <<>>
      <4>1. /\ wpc' = [wpc EXCEPT ![w] = "write"] /\ left' = [left EXCEPT ![w] = Sinks]
            /\ attempt' = [attempt EXCEPT ![w] = 1] /\ final' = [final EXCEPT ![w] = TRUE]
            /\ UNCHANGED <<buffer, closed, cancelled, batch, expired, panics, outcome>>
            /\ wpc[w] = "select"
        BY <2>3, <3>2 DEF Finish, BeginFlush
      <4>2. Pool'
        BY <1>p, <4>1
      <4>3. WorkerBounds'
        BY <1>t, <1>p, <4>1
      <4> QED BY <1>p, <1>2, <1>7, <4>1, <4>2, <4>3
    <3> QED BY <3>1, <3>2
  <2>4. CASE Retry(w)
    BY <1>t, <1>p, <1>2, <1>7, <2>4 DEF Retry
  <2>5. CASE EndFlush(w)
    <3>1. /\ batch' = [batch EXCEPT ![w] = <<>>] /\ wpc[w] = "write"
          /\ wpc' = [wpc EXCEPT ![w] = IF final[w] THEN "ended" ELSE "select"]
          /\ UNCHANGED <<buffer, closed, cancelled, left, attempt, final, expired, panics,
                         delivered, failed, dead, unwritten, abandoned>>
      BY <2>5 DEF EndFlush
    <3>2. Pool'
      BY <1>p, <2>e, <3>1
    <3>3. WorkerBounds'
      BY <1>t, <1>p, <2>e, <3>1
    <3> QED BY <1>p, <1>2, <1>7, <3>1, <3>2, <3>3
  <2>6. CASE Restart(w)
    BY <1>t, <2>f, <2>6 DEF Restart, End
  <2>7. ASSUME NEW s \in Sinks, NextSink(w, s), Flushing(w)
        PROVE  (Pool /\ WorkerBounds /\ Channel /\ Sequence)' /\ abandoned' = abandoned
    BY <1>t, <1>p, <1>2, <1>7, <2>7 DEF NextSink, Flushing
  <2>8. InBatch(w) \subseteq Events
    BY <1>p DEF InBatch
  <2>9. ASSUME NEW s \in Sinks, WriteOK(w, s) PROVE (Pool /\ WorkerBounds /\ Results /\ Channel /\ Sequence)'
    BY <1>p, <2>7, <2>8, <2>9 DEF WriteOK, Pairs, Flushing
  <2>10. ASSUME NEW s \in Sinks, NEW k \in 0..Len(batch[w]), NEW bad \in SUBSET (1..k),
                GiveUp(w, s, k, bad), Flushing(w)
         PROVE  (Pool /\ WorkerBounds /\ Results /\ Channel /\ Sequence)'
    <3>1. (Pool /\ WorkerBounds /\ Channel /\ Sequence)' /\ abandoned' = abandoned
      BY <2>7, <2>10 DEF GiveUp
    <3>2. /\ failed' = failed \cup Entries(w, s, 1..Len(batch[w])) /\ delivered' = delivered
          /\ dead' = dead \cup Entries(w, s, (1..k) \ bad)
          /\ unwritten' = unwritten \cup Entries(w, s, bad)
      BY <2>10 DEF GiveUp
    <3>3. Entries(w, s, 1..Len(batch[w])) \subseteq Pairs
      BY <2>8 DEF Pairs, Entries, InBatch
    <3>4. /\ Entries(w, s, (1..k) \ bad) \subseteq Entries(w, s, 1..Len(batch[w]))
          /\ Entries(w, s, bad) \subseteq Entries(w, s, 1..Len(batch[w]))
      BY <1>p, <2>10, EntriesGrow
    <3> QED BY <1>p, <3>1, <3>2, <3>3, <3>4
  <2>11. ASSUME NEW s \in Sinks, WriteFail(w, s) \/ RetryCancelled(w, s)
         PROVE  (Pool /\ WorkerBounds /\ Results /\ Channel /\ Sequence)'
    <3>1. Flushing(w) /\ \E k \in 0..Len(batch[w]) : \E bad \in SUBSET (1..k) : GiveUp(w, s, k, bad)
      <4>1. Flushing(w)
        BY <1>p, <2>11 DEF WriteFail, RetryCancelled, Flushing
      <4>2. 0 \in 0..Len(batch[w]) /\ {} \in SUBSET (1..0)
        BY <1>p
      <4> QED BY <2>11, <4>1, <4>2 DEF WriteFail, RetryCancelled
    <3> QED BY <2>10, <3>1
  <2>12. ASSUME NEW s \in Sinks, WriteRetry(w, s)
         PROVE  (Pool /\ WorkerBounds /\ Results /\ Channel /\ Sequence)'
    BY <1>t, <1>p, <1>2, <1>7, <2>12 DEF WriteRetry
  <2>13. CASE Panic(w)
    <3>1. /\ batch' = [batch EXCEPT ![w] = <<>>] /\ wpc[w] = "write"
          /\ wpc' = [wpc EXCEPT ![w] = IF panics[w] + 1 >= MaxRestarts
                                       THEN "ended" ELSE "cooldown"]
          /\ panics' = [panics EXCEPT ![w] = @ + 1]
          /\ final' = [final EXCEPT ![w] = FALSE] /\ expired' = [expired EXCEPT ![w] = FALSE]
          /\ left' = [left EXCEPT ![w] = {}] /\ attempt' = [attempt EXCEPT ![w] = 0]
          /\ abandoned' = abandoned \cup InBatch(w)
          /\ UNCHANGED <<buffer, closed, cancelled, delivered, failed, dead, unwritten>>
      BY <2>13 DEF Panic
    <3>2. panics[w] + 1 \in 0..MaxRestarts
      BY <1>t, <1>p, <3>1
    <3>3. Pool'
      BY <1>p, <2>e, <3>1, <3>2
    <3>4. WorkerBounds'
      BY <1>t, <1>p, <2>e, <3>1, <3>2
    <3> QED BY <1>p, <1>2, <1>7, <2>8, <3>1, <3>3, <3>4
  <2>14. CASE Expire(w)
    BY <1>t, <1>p, <1>2, <1>7, <2>14 DEF Expire
  <2> QED
    BY <1>7, <2>1, <2>2, <2>3, <2>4, <2>5, <2>6, <2>9, <2>11, <2>12, <2>13, <2>14
       DEF WorkerStep, WorkerFault
<1> QED
  BY <1>3, <1>4, <1>5, <1>6, <1>7, <1>8 DEF Next, Request, ReplayEntry, Handlers

(* Neither the channel (internal/buffer/channel.go) nor a batch, the       *)
(* attempts of a write or the restarts of a worker                         *)
(* (internal/worker/worker.go) exceed their limit.                         *)
THEOREM TypeCorrect == Spec => []TypeOK
<1>1. PoolInv => TypeOK
  BY DEF PoolInv
<1> QED BY <1>1, PoolInit, PoolStep, PTL DEF Spec

-----------------------------------------------------------------------------
(* A worker that takes a step: what it does to the state of a worker, and  *)
(* that the other workers do not notice.                                   *)
LEMMA WorkerFrame ==
    ASSUME TypeOK, NEW w \in Workers, WorkerStep(w) \/ WorkerFault(w)
    PROVE  /\ UNCHANGED <<closed, cancelled>>
           /\ \A x \in Workers \ {w} :
                /\ wpc'[x] = wpc[x] /\ batch'[x] = batch[x] /\ left'[x] = left[x]
                /\ final'[x] = final[x] /\ expired'[x] = expired[x] /\ panics'[x] = panics[x]
<1> USE DEF flushing, outcome
<1>1. CASE Receive(w) \/ Tick(w) \/ Finish(w)
  BY <1>1 DEF Receive, Tick, Finish, BeginFlush, End, TypeOK
<1>2. CASE Retry(w) \/ EndFlush(w) \/ Restart(w)
  BY <1>2 DEF Retry, EndFlush, Restart, End, TypeOK
<1>3. ASSUME NEW s \in Sinks, WriteOK(w, s) \/ WriteFail(w, s) \/ RetryCancelled(w, s)
      PROVE  NextSink(w, s)
  BY <1>3 DEF WriteOK, WriteFail, RetryCancelled, GiveUp
<1>4. ASSUME NEW s \in Sinks, NextSink(w, s) \/ WriteRetry(w, s)
      PROVE  /\ UNCHANGED <<closed, cancelled>>
             /\ \A x \in Workers \ {w} :
                  /\ wpc'[x] = wpc[x] /\ batch'[x] = batch[x] /\ left'[x] = left[x]
                  /\ final'[x] = final[x] /\ expired'[x] = expired[x] /\ panics'[x] = panics[x]
  BY <1>4 DEF NextSink, WriteRetry, TypeOK
<1>5. CASE Panic(w) \/ Expire(w)
  BY <1>5 DEF Panic, Expire, TypeOK
<1> QED BY <1>1, <1>2, <1>3, <1>4, <1>5 DEF WorkerStep, WorkerFault

(* The worker's own state: where it can be after a step, and on which      *)
(* conditions it begins its last flush or ends.                            *)
LEMMA WorkerMoves ==
    ASSUME PoolInv, Leaving, Phases, NEW w \in Workers, WorkerStep(w) \/ WorkerFault(w)
    PROVE  /\ Flushing(w)' /\ final'[w] => \/ Flushing(w) /\ final[w]
                                           \/ cancelled \/ (closed /\ buffer = <<>>)
           /\ wpc'[w] = "ended" /\ panics'[w] < MaxRestarts =>
                 (Flushing(w) /\ final[w]) \/ cancelled \/ (closed /\ buffer = <<>>)
           /\ expired'[w] => final'[w] /\ (Flushing(w)' \/ wpc'[w] = "ended")
           /\ buffer = <<>> => buffer' = <<>>
           /\ wpc[w] # "ended"
<1> USE DEF flushing, outcome, Flushing, Leaving
<1>t. /\ wpc \in [Workers -> {"select", "write", "backoff", "cooldown", "ended"}]
      /\ final \in [Workers -> BOOLEAN] /\ expired \in [Workers -> BOOLEAN]
      /\ panics \in [Workers -> 0..MaxRestarts]
  BY DEF PoolInv, TypeOK
<1>1. CASE Receive(w) \/ Tick(w) \/ Finish(w)
  BY <1>t, <1>1 DEF Receive, Tick, Finish, BeginFlush, End
<1>2. CASE Retry(w) \/ EndFlush(w) \/ Restart(w)
  BY <1>t, <1>2 DEF Retry, EndFlush, Restart, End
<1>3. ASSUME NEW s \in Sinks, WriteOK(w, s) \/ WriteFail(w, s) \/ RetryCancelled(w, s)
      PROVE  NextSink(w, s) /\ Flushing(w)
  BY <1>3 DEF WriteOK, WriteFail, RetryCancelled, GiveUp
<1>4. ASSUME NEW s \in Sinks, (NextSink(w, s) /\ Flushing(w)) \/ WriteRetry(w, s)
      PROVE  /\ Flushing(w)' /\ Flushing(w) /\ UNCHANGED <<final, expired, panics, buffer>>
             /\ wpc'[w] \in {"write", "backoff"}
  BY <1>t, <1>4 DEF NextSink, WriteRetry
<1>5. CASE Panic(w)
  <2>1. /\ wpc[w] = "write" /\ buffer' = buffer /\ ~expired'[w] /\ ~final'[w]
        /\ panics'[w] = panics[w] + 1
        /\ wpc'[w] = IF panics[w] + 1 >= MaxRestarts THEN "ended" ELSE "cooldown"
    BY <1>t, <1>5 DEF Panic
  <2>2. panics[w] \in Nat /\ MaxRestarts \in Nat
    BY <1>t, WorkerPoolAssumption
  <2> QED BY <2>1, <2>2
<1>6. CASE Expire(w)
  BY <1>t, <1>6 DEF Expire
<1> QED BY <1>1, <1>2, <1>3, <1>4, <1>5, <1>6 DEF WorkerStep, WorkerFault

(* Every step preserves the order of the shutdown.                         *)
LEMMA OrderStep == OrderInv /\ [Next]_vars => OrderInv'
<1> SUFFICES ASSUME OrderInv, [Next]_vars PROVE OrderInv'
  OBVIOUS
<1>t. PoolInv /\ PoolInv' /\ TypeOK /\ Phases /\ Leaving /\ (stage = "exit" => Drained)
  BY PoolStep DEF OrderInv, PoolInv
<1>h. hpc \in [Handlers -> {"idle", "push", "replay", "repush"}]
  BY <1>t DEF TypeOK
<1> SUFFICES (Phases /\ Leaving /\ (stage = "exit" => Drained))'
  BY <1>t DEF OrderInv
<1>1. ASSUME UNCHANGED <<wpc, batch, flushing, panics>>,
             closed => closed' /\ (buffer = <<>> => buffer' = <<>>), cancelled => cancelled'
      PROVE  Leaving' /\ (Drained => Drained')
  BY <1>t, <1>1 DEF Leaving, Flushing, Drained, flushing
<1>2. CASE UNCHANGED vars
  BY <1>t, <1>1, <1>2 DEF vars, wvars, svars, Phases
<1>3. ASSUME NEW h \in Handlers, Accept(h) \/ Drop(h)
      PROVE  (Phases /\ Leaving /\ (stage = "exit" => Drained))'
  <2>1. /\ hpc[h] # "idle"
        /\ \A x \in Handlers : x # h => hpc'[x] = hpc[x]
        /\ UNCHANGED <<closed, cancelled, wpc, batch, flushing, panics, stage, deadline>>
        /\ closed => buffer' = buffer
    BY <1>h, <1>3 DEF Accept, Drop, Reply
  <2>2. Phases'
    BY <1>t, <2>1 DEF Phases, Handlers
  <2> QED BY <1>t, <1>1, <2>1, <2>2
<1>4. ASSUME NEW h \in Handlers, NEW e \in Events,
             Request(h, e) \/ (h \in HttpHandlers /\ ReplayEntry(h, e))
      PROVE  (Phases /\ Leaving /\ (stage = "exit" => Drained))'
  <2>1. /\ UNCHANGED <<wvars, stage, deadline>>
        /\ hpc[h] # "idle" \/ stage \in {"serving", "grpc"}
        /\ \A x \in Handlers : x # h => hpc'[x] = hpc[x]
    BY <1>h, <1>4 DEF Request, ReplayEntry, Begin
  <2>2. Phases'
    BY <1>t, <2>1 DEF Phases, wvars, Handlers
  <2> QED BY <1>t, <1>1, <2>1, <2>2 DEF wvars
<1>5. CASE Terminate \/ Timeout \/ ShutdownStep
  <2>1. /\ UNCHANGED <<buffer, wpc, batch, flushing, panics, hpc>>
        /\ (closed => closed') /\ (cancelled => cancelled')
    BY <1>5 DEF Terminate, Timeout, ShutdownStep, StopGrpc, StopHttp, ForceStop, Exit, Goto,
                wvars
  <2>2. Phases'
    BY <1>t, <1>5 DEF Phases, Terminate, Timeout, ShutdownStep, StopGrpc, StopHttp, ForceStop,
                      Exit, Goto, wvars
  <2>3. stage' = "exit" => Drained
    BY <1>t, <1>5 DEF Terminate, Timeout, ShutdownStep, StopGrpc, StopHttp, ForceStop,
                      Exit, Goto
  <2> QED BY <1>1, <2>1, <2>2, <2>3
<1>6. ASSUME NEW w \in Workers, WorkerStep(w) \/ WorkerFault(w), UNCHANGED svars
      PROVE  (Phases /\ Leaving /\ (stage = "exit" => Drained))'
  <2>1. /\ UNCHANGED <<closed, cancelled>>
        /\ \A x \in Workers \ {w} :
             /\ wpc'[x] = wpc[x] /\ final'[x] = final[x] /\ expired'[x] = expired[x]
             /\ panics'[x] = panics[x]
    BY <1>t, <1>6, WorkerFrame
  <2>2. /\ Flushing(w)' /\ final'[w] => \/ Flushing(w) /\ final[w]
                                        \/ cancelled \/ (closed /\ buffer = <<>>)
        /\ wpc'[w] = "ended" /\ panics'[w] < MaxRestarts =>
              (Flushing(w) /\ final[w]) \/ cancelled \/ (closed /\ buffer = <<>>)
        /\ expired'[w] => final'[w] /\ (Flushing(w)' \/ wpc'[w] = "ended")
        /\ buffer = <<>> => buffer' = <<>>
        /\ wpc[w] # "ended"
    BY <1>t, <1>6, WorkerMoves
  <2>3. Phases'
    BY <1>t, <1>6, <2>1 DEF Phases, svars
  <2>4. Leaving'
    BY <1>t, <2>1, <2>2 DEF Leaving, Flushing, Phases
  <2>5. stage' # "exit"
    BY <1>t, <1>6, <2>2 DEF Drained, svars
  <2> QED BY <2>3, <2>4, <2>5
<1>7. ASSUME NEW h \in HttpHandlers, Replay(h)
      PROVE  (Phases /\ Leaving /\ (stage = "exit" => Drained))'
  <2>1. /\ UNCHANGED <<wvars, stage, deadline>>
        /\ hpc[h] # "idle" \/ stage \in {"serving", "grpc"}
        /\ \A x \in Handlers : x # h => hpc'[x] = hpc[x]
    BY <1>h, <1>7 DEF Replay, Handlers
  <2>2. Phases'
    BY <1>t, <2>1 DEF Phases, wvars, Handlers
  <2> QED BY <1>t, <1>1, <2>1, <2>2 DEF wvars
<1> QED BY <1>2, <1>3, <1>4, <1>5, <1>6, <1>7 DEF Next, Handlers

(* Nothing is closed yet.                                                  *)
LEMMA OrderInit == Init => OrderInv
<1> SUFFICES ASSUME Init PROVE OrderInv
  OBVIOUS
<1>1. Phases /\ Leaving
  BY DEF Init, WInit, AllWorkers, Phases, Leaving, Flushing
<1> QED BY <1>1, PoolInit DEF OrderInv, Init

(* shutdown (cmd/ingestor/shutdown.go) never closes the channel under a    *)
(* gRPC call, and under an HTTP request only past its deadline.            *)
THEOREM CloseIsOrdered == Spec => []ClosedWhenQuiet
<1>1. OrderInv => ClosedWhenQuiet
  BY DEF OrderInv, PoolInv, TypeOK, Phases, ClosedWhenQuiet, Handlers
<1> QED BY <1>1, OrderInit, OrderStep, PTL DEF Spec

-----------------------------------------------------------------------------
(* What a worker may do to the events: it takes one from the channel,      *)
(* settles its batch with a sink, drops a batch that is settled with all,  *)
(* or abandons it.                                                         *)
LEMMA WorkerEvents ==
    ASSUME DrainInv, NEW w \in Workers, WorkerStep(w) \/ WorkerFault(w), accepted' = accepted
    PROVE  Located' /\ FlushSettles'
<1>t. TypeOK /\ Located /\ FlushSettles
  BY DEF DrainInv, OrderInv, PoolInv
<1>y. /\ buffer \in Seq(Events) /\ batch \in [Workers -> Seq(Events)]
      /\ wpc \in [Workers -> {"select", "write", "backoff", "cooldown", "ended"}]
      /\ left \in [Workers -> SUBSET Sinks]
  BY <1>t DEF TypeOK
<1>f. \A x \in Workers \ {w} : wpc'[x] = wpc[x] /\ batch'[x] = batch[x] /\ left'[x] = left[x]
  BY <1>t, WorkerFrame
<1> USE DEF flushing, outcome
<1>1. ASSUME UNCHANGED <<buffer, batch, delivered, failed, abandoned>>,
             left' = left \/ left' = [left EXCEPT ![w] = Sinks],
             Flushing(w)' => Flushing(w) \/ left'[w] = Sinks
      PROVE  Located' /\ FlushSettles'
  <2>1. Located'
    BY <1>t, <1>1 DEF Located, Settled
  <2>2. FlushSettles'
    BY <1>t, <1>y, <1>f, <1>1 DEF FlushSettles, Flushing
  <2> QED BY <2>1, <2>2
<1>2. CASE Tick(w) \/ (Finish(w) /\ batch[w] # <<>>)
  <2>1. /\ UNCHANGED <<buffer, batch, delivered, failed, abandoned>>
        /\ left' = [left EXCEPT ![w] = Sinks]
    BY <1>2 DEF Tick, Finish, BeginFlush
  <2> QED BY <1>y, <1>1, <2>1
<1>3. CASE Retry(w) \/ Restart(w) \/ Expire(w) \/ (Finish(w) /\ batch[w] = <<>>)
  <2>1. /\ UNCHANGED <<buffer, batch, delivered, failed, abandoned, left>>
        /\ Flushing(w)' => Flushing(w)
    BY <1>y, <1>3 DEF Retry, Restart, Expire, Finish, End, Flushing
  <2> QED BY <1>1, <2>1
<1>4. ASSUME NEW s \in Sinks, WriteRetry(w, s) PROVE Located' /\ FlushSettles'
  <2>1. UNCHANGED <<buffer, batch, delivered, failed, abandoned, left>> /\ Flushing(w)
    BY <1>4 DEF WriteRetry, Flushing
  <2> QED BY <1>1, <2>1
<1>5. CASE Receive(w)
  <2> DEFINE e == Head(buffer)
  <2>1. /\ buffer # <<>> /\ buffer' = Tail(buffer) /\ batch'[w] = Append(batch[w], e)
        /\ UNCHANGED <<delivered, failed, abandoned>>
        /\ Flushing(w)' => left'[w] = Sinks
    BY <1>y, <1>5 DEF Receive, BeginFlush, Flushing
  <2>2. e \in Events /\ In(buffer) = {e} \cup In(buffer')
    BY <1>y, <2>1, ListOps
  <2>3. In(batch'[w]) = In(batch[w]) \cup {e}
    BY <1>y, <2>1, <2>2, ListOps
  <2>4. \A x \in Workers : In(batch[x]) \subseteq In(batch'[x])
    BY <1>f, <2>3
  <2>5. Located'
    BY <1>t, <2>1, <2>2, <2>3, <2>4 DEF Located, Settled
  <2>6. FlushSettles'
    BY <1>t, <1>f, <2>1 DEF FlushSettles, Flushing
  <2> QED BY <2>5, <2>6
<1>6. ASSUME NEW s \in Sinks, NextSink(w, s), Flushing(w),
             delivered \subseteq delivered', failed \subseteq failed',
             InBatch(w) \X {s} \subseteq delivered' \cup failed'
      PROVE  Located' /\ FlushSettles'
  <2>1. UNCHANGED <<buffer, batch, abandoned>> /\ left'[w] = left[w] \ {s}
    BY <1>y, <1>6 DEF NextSink
  <2>2. \A e \in In(batch[w]) : <<e, s>> \in delivered' \cup failed'
    BY <1>6 DEF InBatch, In
  <2>3. Located'
    BY <1>t, <1>6, <2>1 DEF Located, Settled
  <2>4. FlushSettles'
    BY <1>t, <1>f, <1>6, <2>1, <2>2 DEF FlushSettles, Flushing
  <2> QED BY <2>3, <2>4
<1>7. ASSUME NEW s \in Sinks, WriteOK(w, s) \/ WriteFail(w, s) \/ RetryCancelled(w, s)
      PROVE  Located' /\ FlushSettles'
  <2>1. /\ NextSink(w, s) /\ Flushing(w) /\ delivered \subseteq delivered'
        /\ failed \subseteq failed' /\ InBatch(w) \X {s} \subseteq delivered' \cup failed'
    BY <1>7 DEF WriteOK, WriteFail, RetryCancelled, GiveUp, Flushing, Entries, InBatch
  <2> QED BY <1>6, <2>1
<1>8. CASE EndFlush(w)
  <2>1. /\ wpc[w] = "write" /\ left[w] = {} /\ batch'[w] = <<>> /\ ~Flushing(w)'
        /\ UNCHANGED <<buffer, delivered, failed, abandoned>>
    BY <1>y, <1>8 DEF EndFlush, Flushing
  <2>2. \A e \in In(batch[w]) : Settled(e)
    BY <1>t, <2>1 DEF FlushSettles, Flushing, Settled
  <2>3. Located'
    BY <1>t, <1>f, <2>1, <2>2 DEF Located, Settled
  <2>4. FlushSettles'
    BY <1>t, <1>f, <2>1 DEF FlushSettles, Flushing
  <2> QED BY <2>3, <2>4
<1>9. CASE Panic(w)
  <2>1. /\ batch'[w] = <<>> /\ ~Flushing(w)' /\ abandoned' = abandoned \cup In(batch[w])
        /\ UNCHANGED <<buffer, delivered, failed>>
    BY <1>y, <1>9 DEF Panic, Flushing, InBatch, In
  <2>2. Located'
    BY <1>t, <1>f, <2>1 DEF Located, Settled
  <2>3. FlushSettles'
    BY <1>t, <1>f, <2>1 DEF FlushSettles, Flushing
  <2> QED BY <2>2, <2>3
<1> QED
  BY <1>2, <1>3, <1>4, <1>5, <1>7, <1>8, <1>9 DEF WorkerStep, WorkerFault

(* No step loses an accepted event.                                        *)
LEMMA DrainStep == DrainInv /\ [Next]_vars => DrainInv'
<1> SUFFICES ASSUME DrainInv, [Next]_vars PROVE DrainInv'
  OBVIOUS
<1>t. OrderInv' /\ TypeOK /\ Located /\ FlushSettles
  BY OrderStep DEF DrainInv, OrderInv, PoolInv
<1> SUFFICES Located' /\ FlushSettles'
  BY <1>t DEF DrainInv
<1>1. ASSUME UNCHANGED <<wpc, batch, flushing, outcome>>,
             In(buffer) \subseteq In(buffer'),
             accepted' \subseteq accepted \cup In(buffer')
      PROVE  Located' /\ FlushSettles'
  <2>1. UNCHANGED <<wpc, batch, left, delivered, failed, abandoned>>
    BY <1>1 DEF flushing, outcome
  <2>2. Located'
    BY <1>t, <1>1, <2>1 DEF Located, Settled
  <2>3. FlushSettles'
    BY <1>t, <2>1 DEF FlushSettles, Flushing
  <2> QED BY <2>2, <2>3
<1>2. ASSUME NEW h \in Handlers, Accept(h) \/ Drop(h)
      PROVE  Located' /\ FlushSettles'
  <2>1. UNCHANGED <<wpc, batch, flushing, outcome>>
    BY <1>2 DEF Accept, Drop, Reply
  <2>2. CASE Accept(h)
    <3>1. PICK e \in hev[h] : buffer' = Append(buffer, e) /\ accepted' = accepted \cup {e}
      BY <2>2 DEF Accept
    <3>2. e \in Events /\ buffer \in Seq(Events)
      BY <1>t DEF TypeOK
    <3>3. In(buffer') = In(buffer) \cup {e}
      BY <3>1, <3>2, ListOps
    <3> QED BY <1>1, <2>1, <3>1, <3>3
  <2>3. CASE Drop(h)
    BY <1>1, <2>1, <2>3 DEF Drop
  <2> QED BY <1>2, <2>2, <2>3
<1>3. CASE \/ UNCHANGED vars \/ Terminate \/ Timeout \/ ShutdownStep
           \/ \E h \in Handlers : Replay(h) \/ \E e \in Events : Request(h, e) \/ ReplayEntry(h, e)
  <2>1. UNCHANGED <<buffer, wpc, batch, flushing, outcome, accepted>>
    BY <1>3 DEF vars, wvars, svars, Replay, Request, ReplayEntry, Begin, Terminate, Timeout, ShutdownStep, StopGrpc,
                StopHttp, ForceStop, Exit, Goto
  <2> QED BY <1>1, <2>1
<1>4. ASSUME NEW w \in Workers, WorkerStep(w) \/ WorkerFault(w), UNCHANGED svars
      PROVE  Located' /\ FlushSettles'
  BY <1>4, WorkerEvents DEF svars
<1> QED BY <1>2, <1>3, <1>4 DEF Next, Handlers

(* Nothing has been pushed yet.                                            *)
LEMMA DrainInit == Init => DrainInv
<1> SUFFICES ASSUME Init PROVE DrainInv
  OBVIOUS
<1>1. Located /\ FlushSettles
  BY DEF Init, WInit, AllWorkers, Located, FlushSettles, Flushing
<1> QED BY <1>1, OrderInit DEF DrainInv

(* A shutdown that is not forced drains: when it returns, the channel is   *)
(* empty and every accepted event has been written to, or given up on for, *)
(* every sink, unless a panic took its batch.                              *)
THEOREM ShutdownDrains == Spec => []DrainedOnExit
<1>1. DrainInv => DrainedOnExit
  <2> SUFFICES ASSUME DrainInv, stage = "exit", ~cancelled, Manned
               PROVE  buffer = <<>> /\ \A e \in accepted \ abandoned : Settled(e)
    BY DEF DrainedOnExit, Settled
  <2>1. TypeOK /\ WorkerBounds /\ Leaving /\ Drained /\ Located
    BY DEF DrainInv, OrderInv, PoolInv
  <2>2. PICK w \in Workers : ~Exhausted(w)
    BY DEF Manned
  <2>3. panics[w] < MaxRestarts
    BY <2>1, <2>2, WorkerPoolAssumption DEF Exhausted, TypeOK
  <2>4. buffer = <<>>
    BY <2>1, <2>3 DEF Leaving, Drained
  <2>5. \A x \in Workers : batch[x] = <<>>
    BY <2>1 DEF WorkerBounds, Drained
  <2>6. In(<<>>) = {}
    BY DEF In
  <2> QED BY <2>1, <2>4, <2>5, <2>6 DEF Located
<1> QED BY <1>1, DrainInit, DrainStep, PTL DEF Spec

-----------------------------------------------------------------------------
(* A short sequence is one of Batches.                                     *)
LEMMA SmallBatch ==
    ASSUME NEW q \in Seq(Events), Len(q) <= BatchSize PROVE q \in Batches
<1>1. q \in [1..Len(q) -> Events] /\ Len(q) \in 0..BatchSize
  BY WorkerPoolAssumption
<1> QED BY <1>1 DEF Batches

(* No more pairs than slots in the last batches of the late workers.       *)
LEMMA SlotCount ==
    ASSUME NEW late \in SUBSET Workers, NEW last \in [Workers -> Batches],
           NEW M \in SUBSET Pairs,
           \A p \in M : \E w \in late : p[1] \in In(last[w])
    PROVE  Cardinality(M) <= BatchSize * Cardinality(Sinks) * Cardinality(late)
<1> DEFINE Slots == late \X ((1..BatchSize) \X Sinks)
           Held(x) == <<last[x[1]][x[2][1]], x[2][2]>>
           Used == {x \in Slots : x[2][1] \in 1..Len(last[x[1]]) /\ Held(x) \in M}
           f == [x \in Used |-> Held(x)]
<1>1. BatchSize \in Nat /\ IsFiniteSet(1..BatchSize) /\ Cardinality(1..BatchSize) = BatchSize
  BY WorkerPoolAssumption, FS_Interval
<1>2. /\ IsFiniteSet(late) /\ Cardinality(late) \in Nat
      /\ IsFiniteSet(Sinks) /\ Cardinality(Sinks) \in Nat
  BY ShutdownAssumption, FS_Subset, FS_CardinalityType
<1>3. /\ IsFiniteSet((1..BatchSize) \X Sinks)
      /\ Cardinality((1..BatchSize) \X Sinks) = BatchSize * Cardinality(Sinks)
  BY <1>1, <1>2, FS_Product, ZenonT(40)
<1>4. /\ IsFiniteSet(Slots)
      /\ Cardinality(Slots) = Cardinality(late) * (BatchSize * Cardinality(Sinks))
  <2> DEFINE Inner == (1..BatchSize) \X Sinks
  <2>1. IsFiniteSet(Inner) /\ Cardinality(Inner) = BatchSize * Cardinality(Sinks)
    BY <1>3
  <2> HIDE DEF Inner
  <2>2. IsFiniteSet(late \X Inner) /\ Cardinality(late \X Inner) = Cardinality(late) * Cardinality(Inner)
    BY <1>2, <2>1, FS_Product
  <2>3. Slots = late \X Inner
    BY DEF Inner
  <2> HIDE DEF Slots
  <2> QED BY <2>1, <2>2, <2>3
<1>5. IsFiniteSet(Used) /\ Cardinality(Used) <= Cardinality(Slots)
  BY <1>4, FS_Subset
<1>6. ASSUME NEW p \in M PROVE \E x \in Used : Held(x) = p
  <2>1. PICK w \in late : p[1] \in In(last[w])
    OBVIOUS
  <2>2. PICK n \in 0..BatchSize : last[w] \in [1..n -> Events]
    BY DEF Batches
  <2>3. n \in Nat /\ 1..Len(last[w]) = 1..n /\ \A i \in 1..n : i \in 1..BatchSize
    BY <1>1, <2>2
  <2>4. PICK i \in 1..n : last[w][i] = p[1]
    BY <2>1, <2>3 DEF In
  <2>5. p[2] \in Sinks /\ p = <<p[1], p[2]>>
    BY DEF Pairs
  <2> DEFINE x == <<w, <<i, p[2]>>>>
  <2>6. x \in Slots /\ x[1] = w /\ x[2][1] = i /\ x[2][2] = p[2]
    BY <2>3, <2>4, <2>5
  <2>7. Held(x) = p
    BY <2>4, <2>5, <2>6
  <2>8. x \in Used
    BY <2>3, <2>4, <2>6, <2>7
  <2> QED BY <2>7, <2>8
<1>7. f \in Surjection(Used, M)
  <2>1. f \in [Used -> M]
    OBVIOUS
  <2>2. \A p \in M : \E x \in Used : f[x] = p
    BY <1>6
  <2> QED BY <2>1, <2>2 DEF Surjection
<1>8. IsFiniteSet(M) /\ Cardinality(M) <= Cardinality(Used)
  BY <1>5, <1>7, FS_Surjection, SMTT(30)
<1>9. Cardinality(M) \in Nat /\ Cardinality(Used) \in Nat /\ Cardinality(Slots) \in Nat
  BY <1>4, <1>5, <1>8, FS_CardinalityType
<1>10. Cardinality(M) <= Cardinality(late) * (BatchSize * Cardinality(Sinks))
  <2> HIDE DEF Slots, Used
  <2> QED BY <1>4, <1>5, <1>8, <1>9
<1> QED
  <2>1. ASSUME NEW a \in Nat, NEW b \in Nat, NEW c \in Nat PROVE a * (b * c) = b * c * a
    OBVIOUS
  <2> QED BY <1>1, <1>2, <1>10, <2>1

(* What a worker may do to the pairs that missed the queue: only a last    *)
(* flush whose time is up adds to them, and only from its own batch.       *)
LEMMA WorkerMisses ==
    ASSUME LateInv, TypeOK', NEW w \in Workers, WorkerStep(w) \/ WorkerFault(w)
    PROVE  /\ ~closed' => failed' \subseteq Offered'
           /\ ~cancelled' => \E last \in [Workers -> Batches] : Owned(last)'
<1>t. TypeOK /\ Phases /\ Leaving /\ (~closed => failed \subseteq Offered)
  BY DEF LateInv, OrderInv, PoolInv
<1>y. /\ batch \in [Workers -> Seq(Events)]
      /\ wpc \in [Workers -> {"select", "write", "backoff", "cooldown", "ended"}]
      /\ expired \in [Workers -> BOOLEAN] /\ \A x \in Workers : batch[x] \in Batches
  BY <1>t, SmallBatch DEF TypeOK
<1>f. /\ UNCHANGED <<closed, cancelled>>
      /\ \A x \in Workers \ {w} : /\ wpc'[x] = wpc[x] /\ batch'[x] = batch[x]
                                  /\ expired'[x] = expired[x]
  BY <1>t, WorkerFrame
<1> DEFINE Goal == /\ ~closed' => failed' \subseteq Offered'
                   /\ ~cancelled' => \E last \in [Workers -> Batches] : Owned(last)'
<1> SUFFICES Goal
  OBVIOUS
<1> USE DEF flushing, outcome
<1>1. ASSUME Missed' \subseteq Missed, failed' \ Offered' \subseteq failed \ Offered,
             expired[w] => expired'[w],
             Flushing(w)' => Flushing(w) /\ batch'[w] = batch[w]
      PROVE  Goal
  <2>1. ASSUME ~cancelled', NEW last \in [Workers -> Batches], Owned(last)
        PROVE  Owned(last)'
    BY <1>f, <1>1, <2>1 DEF Owned, Flushing
  <2> QED BY <1>t, <1>f, <1>1, <2>1 DEF LateInv
<1>2. ASSUME UNCHANGED <<failed, Offered, abandoned, expired>>, batch'[w] \in Batches, wpc[w] = "select"
      PROVE  Goal
  <2>1. ~expired[w] /\ Missed' = Missed
    BY <1>t, <1>2 DEF Leaving, Flushing, Missed
  <2>2. ASSUME NEW last \in [Workers -> Batches], Owned(last)
        PROVE  \E new \in [Workers -> Batches] : Owned(new)'
    <3>0. [last EXCEPT ![w] = batch'[w]] \in [Workers -> Batches]
      BY <1>2
    <3>1. PICK new \in [Workers -> Batches] :
             new[w] = batch'[w] /\ \A x \in Workers \ {w} : new[x] = last[x]
      BY <3>0
    <3>2. Owned(new)'
      BY <1>f, <1>2, <2>1, <2>2, <3>1 DEF Owned, Flushing
    <3> QED BY <3>1, <3>2
  <2> QED BY <1>t, <1>f, <1>2, <2>2 DEF LateInv
<1>3. CASE Receive(w) \/ Tick(w) \/ Finish(w)
  <2>1. UNCHANGED <<failed, Offered, abandoned, expired>> /\ wpc[w] = "select"
    BY <1>3 DEF Receive, Tick, Finish, BeginFlush, Offered
  <2>2. batch'[w] \in Batches
    BY SmallBatch DEF TypeOK
  <2> QED BY <1>2, <2>1, <2>2
<1>4. CASE Retry(w) \/ Restart(w) \/ EndFlush(w) \/ Expire(w)
  <2>1. /\ UNCHANGED <<failed, Offered, abandoned>> /\ (expired[w] => expired'[w])
        /\ Flushing(w)' => Flushing(w) /\ batch'[w] = batch[w]
    BY <1>y, <1>4 DEF Retry, Restart, EndFlush, Expire, End, Flushing, Offered
  <2> QED BY <1>1, <2>1 DEF Missed
<1>5. ASSUME NEW s \in Sinks, WriteRetry(w, s) \/ WriteOK(w, s) PROVE Goal
  <2>1. /\ UNCHANGED <<failed, Offered, abandoned, expired, batch>> /\ Flushing(w)
    BY <1>y, <1>5 DEF WriteRetry, WriteOK, NextSink, Flushing, Offered
  <2> QED BY <1>1, <2>1 DEF Missed
<1>6. ASSUME NEW s \in Sinks, NEW k \in 0..Len(batch[w]), NEW bad \in SUBSET (1..k),
             GiveUp(w, s, k, bad), Flushing(w)
      PROVE  Goal
  <2>1. /\ k < Len(batch[w]) => Done(w)
        /\ failed' = failed \cup (In(batch[w]) \X {s})
        /\ Offered' = Offered \cup Entries(w, s, 1..k)
        /\ UNCHANGED <<abandoned, expired, batch>>
    <3>0. ((1..k) \ bad) \cup bad = 1..k
      BY <1>6
    <3>1. /\ Entries(w, s, (1..k) \ bad) \cup Entries(w, s, bad) = Entries(w, s, 1..k)
          /\ Entries(w, s, 1..Len(batch[w])) = In(batch[w]) \X {s}
      BY <3>0 DEF Entries, In
    <3>2. /\ dead' = dead \cup Entries(w, s, (1..k) \ bad)
          /\ unwritten' = unwritten \cup Entries(w, s, bad)
          /\ failed' = failed \cup Entries(w, s, 1..Len(batch[w]))
      BY <1>6 DEF GiveUp
    <3> QED BY <1>6, <3>1, <3>2 DEF GiveUp, NextSink, Offered
  <2>2. CASE k = Len(batch[w])
    <3>1. In(batch[w]) \X {s} = Entries(w, s, 1..k)
      BY <2>2 DEF In, Entries
    <3>2. failed' \ Offered' \subseteq failed \ Offered
      BY <2>1, <3>1
    <3>3. Missed' \subseteq Missed
      BY <2>1, <3>2 DEF Missed
    <3> QED BY <1>1, <1>6, <2>1, <3>2, <3>3
  <2>3. CASE Done(w)
    <3>1. closed /\ (cancelled \/ expired[w])
      BY <1>t, <1>6, <2>3 DEF Done, Leaving, Phases
    <3>2. ASSUME NEW last \in [Workers -> Batches], Owned(last), ~cancelled
          PROVE  Owned(last)'
      <4>1. last[w] = batch[w] /\ expired[w]
        BY <1>6, <3>1, <3>2 DEF Owned
      <4>2. ASSUME NEW p \in Missed' PROVE p \in Missed \/ p[1] \in In(batch[w])
        BY <2>1, <4>2 DEF Missed
      <4>3. Flushing(w)' => batch'[w] = batch[w]
        BY <2>1
      <4> QED BY <1>f, <2>1, <3>2, <4>1, <4>2 DEF Owned, Flushing
    <3> QED BY <1>f, <3>1, <3>2 DEF LateInv
  <2>4. Len(batch[w]) \in Nat
    BY <1>y
  <2> QED BY <2>1, <2>2, <2>3, <2>4
<1>7. ASSUME NEW s \in Sinks, WriteFail(w, s) \/ RetryCancelled(w, s) PROVE Goal
  <2>1. Flushing(w) /\ \E k \in 0..Len(batch[w]) : \E bad \in SUBSET (1..k) : GiveUp(w, s, k, bad)
    <3>1. Flushing(w)
      BY <1>y, <1>7 DEF WriteFail, RetryCancelled, Flushing
    <3>2. 0 \in 0..Len(batch[w]) /\ {} \in SUBSET (1..0)
      BY <1>y
    <3> QED BY <1>7, <3>1, <3>2 DEF WriteFail, RetryCancelled
  <2> QED BY <1>6, <2>1
<1>8. CASE Panic(w)
  <2>1. /\ abandoned' = abandoned \cup In(batch[w]) /\ UNCHANGED <<failed, Offered>>
        /\ ~Flushing(w)' /\ Flushing(w)
    BY <1>y, <1>8 DEF Panic, InBatch, In, Flushing, Offered
  <2>2. ASSUME NEW last \in [Workers -> Batches], Owned(last)
        PROVE  Owned(last)'
    <3>1. ASSUME NEW p \in Missed' PROVE p \in Missed /\ p[1] \notin In(last[w])
      BY <2>1, <2>2, <3>1 DEF Missed, Owned
    <3> QED BY <1>f, <2>1, <2>2, <3>1 DEF Owned, Flushing
  <2> QED BY <1>t, <1>f, <2>1, <2>2 DEF LateInv
<1> QED
  BY <1>3, <1>4, <1>5, <1>7, <1>8 DEF WorkerStep, WorkerFault

(* Every step preserves where the missed pairs come from.                  *)
LEMMA LateStep == LateInv /\ [Next]_vars => LateInv'
<1> SUFFICES ASSUME LateInv, [Next]_vars PROVE LateInv'
  OBVIOUS
<1>t. OrderInv /\ OrderInv'
  BY OrderStep DEF LateInv
<1>1. CASE \/ UNCHANGED vars \/ Terminate \/ Timeout \/ ShutdownStep
           \/ \E h \in Handlers : Replay(h) \/ \E e \in Events : Request(h, e) \/ ReplayEntry(h, e)
           \/ \E h \in Handlers : Accept(h) \/ Drop(h)
  <2>1. /\ UNCHANGED <<wpc, batch, flushing, outcome>>
        /\ (closed => closed') /\ (cancelled => cancelled')
    BY <1>1 DEF vars, wvars, svars, Replay, Request, ReplayEntry, Begin, Terminate, Timeout, ShutdownStep, StopGrpc,
                StopHttp, ForceStop, Exit, Goto, Accept, Drop, Reply
  <2>2. UNCHANGED <<wpc, batch, expired, failed, Offered, abandoned>>
    BY <2>1 DEF flushing, outcome, Offered
  <2>3. ASSUME NEW last \in [Workers -> Batches], Owned(last) PROVE Owned(last)'
    BY <2>2, <2>3 DEF Owned, Flushing, Missed
  <2> QED BY <1>t, <2>1, <2>2, <2>3 DEF LateInv
<1>2. ASSUME NEW w \in Workers, WorkerStep(w) \/ WorkerFault(w) PROVE LateInv'
  BY <1>t, <1>2, WorkerMisses DEF LateInv, OrderInv, PoolInv
<1> QED BY <1>1, <1>2 DEF Next, Handlers

(* Nothing is late yet.                                                    *)
LEMMA LateInit == Init => LateInv
<1> SUFFICES ASSUME Init PROVE LateInv
  OBVIOUS
<1>1. TypeOK
  BY OrderInit DEF OrderInv, PoolInv
<1>2. batch \in [Workers -> Batches]
  BY <1>1, SmallBatch DEF TypeOK
<1>3. Owned(batch)
  BY DEF Init, WInit, Owned, Missed
<1>4. failed \subseteq Offered
  BY DEF Init, WInit, Offered
<1> QED BY <1>2, <1>3, <1>4, OrderInit DEF LateInv

(* An event a sink did not take is offered to the dead-letter queue, where *)
(* it is unless the file did not take its entry: an entry that cannot be   *)
(* written keeps no other out.  Until a forced stop, what is not offered   *)
(* is the last batch of a worker whose drainFlushTimeout has passed        *)
(* (internal/worker/worker.go).                                            *)
THEOREM FailuresAreKept == Spec => []FailedIsDeadLettered
<1>1. LateInv => FailedIsDeadLettered
  <2> SUFFICES ASSUME LateInv PROVE FailedIsDeadLettered
    OBVIOUS
  <2> DEFINE late == {w \in Workers : expired[w]}
  <2>1. ASSUME ~cancelled
        PROVE  Cardinality(Missed) <= BatchSize * Cardinality(Sinks) * Cardinality(late)
    <3>1. PICK last \in [Workers -> Batches] : Owned(last)
      BY <2>1 DEF LateInv
    <3>2. Missed \in SUBSET Pairs /\ late \in SUBSET Workers
      BY DEF LateInv, OrderInv, PoolInv, TypeOK, Missed
    <3>3. \A p \in Missed : \E w \in late : p[1] \in In(last[w])
      BY <3>1 DEF Owned
    <3> HIDE DEF late
    <3> QED BY <3>2, <3>3, SlotCount
  <2> QED BY <2>1 DEF FailedIsDeadLettered, LateInv, Missed, Offered
<1> QED BY <1>1, LateInit, LateStep, PTL DEF Spec
=============================================================================
