---------------------------- MODULE RedisProofs ----------------------------
(***************************************************************************)
(* What RedisBuffer promises for any number of events, replicas, crashes,  *)
(* stops and network faults.                                               *)
(***************************************************************************)
EXTENDS RedisBuffer, FiniteSetTheorems, TLAPS

(* The logs are functions to sets of events, and LoggedOrDelivered.        *)
LogInv == /\ tracked \in [Replicas -> SUBSET Events]
          /\ old \in [Replicas -> SUBSET Events]
          /\ LoggedOrDelivered

(* Nothing has been accepted yet.                                          *)
LEMMA LogInvInit == Init => LogInv
BY DEF Init, All, LogInv, LoggedOrDelivered

(* A step that keeps every record and accepts nothing keeps the invariant. *)
LEMMA LogKept ==
    ASSUME LogInv, UNCHANGED accepted, delivered \subseteq delivered',
           tracked' \in [Replicas -> SUBSET Events], old' \in [Replicas -> SUBSET Events],
           \A r \in Replicas : tracked[r] \cup old[r] \subseteq tracked'[r] \cup old'[r]
    PROVE  LogInv'
BY DEF LogInv, LoggedOrDelivered

(* One step per operation that touches the log; the others leave it alone. *)
LEMMA LogInvNext == LogInv /\ [Next]_vars => LogInv'
<1> SUFFICES ASSUME LogInv, [Next]_vars PROVE LogInv'
  OBVIOUS
<1>0. CASE UNCHANGED <<tracked, old, accepted, delivered>>
  BY <1>0 DEF LogInv, LoggedOrDelivered
<1>1. ASSUME NEW r \in Replicas, NEW e \in Events, LogEvent(r, e) \/ Forget(r, e)
      PROVE  /\ tracked' \in [Replicas -> SUBSET Events]
             /\ old' \in [Replicas -> SUBSET Events]
             /\ \A q \in Replicas : tracked[q] \cup old[q] \subseteq tracked'[q] \cup old'[q]
             /\ e \in tracked'[r] \cup old'[r]
  BY <1>1 DEF LogInv, LogEvent, Forget
<1>2. ASSUME NEW r \in Replicas, NEW e \in Events, Push(r, e)
      PROVE  LogInv'
  BY <1>1, <1>2 DEF Push, LogInv, LoggedOrDelivered
<1>3. ASSUME NEW r \in Replicas, NEW e \in Events, PushFail(r, e)
      PROVE  LogInv'
  BY <1>1, <1>3, LogKept DEF PushFail
<1>4. ASSUME NEW r \in Replicas, NEW e \in Events, Replay(r, e)
      PROVE  LogInv'
  BY <1>1, <1>4, LogKept DEF Replay, hist
<1>5. ASSUME NEW r \in Replicas, Deliver(r)
      PROVE  LogInv'
  <2>1. /\ tracked' = [tracked EXCEPT ![r] = @ \ {Head(chan[r])}]
        /\ delivered' = delivered \cup {Head(chan[r])}
        /\ UNCHANGED <<old, accepted>>
    BY <1>5 DEF Deliver, Receive
  <2> QED
    BY <2>1 DEF LogInv, LoggedOrDelivered
<1>6. ASSUME NEW r \in Replicas, Stop(r)
      PROVE  LogInv'
  <2>1. /\ tracked' = [tracked EXCEPT ![r] = {}]
        /\ old' = [old EXCEPT ![r] = @ \cup tracked[r]]
        /\ UNCHANGED <<accepted, delivered>>
    BY <1>6 DEF Stop, hist
  <2>2. /\ tracked' \in [Replicas -> SUBSET Events] /\ old' \in [Replicas -> SUBSET Events]
        /\ \A q \in Replicas : tracked[q] \cup old[q] \subseteq tracked'[q] \cup old'[q]
    BY <2>1 DEF LogInv
  <2> QED
    BY <2>1, <2>2, LogKept
<1>7. ASSUME NEW r \in Replicas, PollStep(r) \/ PopLost(r)
      PROVE  LogInv'
  BY <1>0, <1>7 DEF PollStep, Pop, PopNone, PopLost, Send, SendQuit, Again, PollTo, log, hist
<1>8. ASSUME NEW r \in Replicas, GiveUp(r) \/ CloseChan(r) \/ Cancel(r) \/ Start(r)
      PROVE  LogInv'
  BY <1>0, <1>8 DEF GiveUp, Receive, CloseChan, Cancel, Start, log, hist
<1>9. ASSUME NEW r \in Replicas, Exit(r) \/ Crash(r)
      PROVE  LogInv'
  BY <1>6, <1>9 DEF Exit, Crash
<1>10. CASE UNCHANGED vars
  BY <1>0, <1>10 DEF vars, log, hist
<1> QED
  BY <1>2, <1>3, <1>4, <1>5, <1>7, <1>8, <1>9, <1>10 DEF Next, ReplicaStep

(* An accepted event is delivered or in some replica's log, for any number *)
(* of replicas that pop each other's events, stop, crash and lose answers  *)
(* of Redis.                                                               *)
THEOREM AtLeastOnceWithLogs == Spec => []LoggedOrDelivered
<1>1. LogInv => LoggedOrDelivered
  BY DEF LogInv
<1> QED
  BY <1>1, LogInvInit, LogInvNext, PTL DEF Spec

-----------------------------------------------------------------------------
(* The state of poll against that of Close: a closed channel has no poll.  *)
CloseInv == /\ life \in [Replicas -> {"up", "closing", "closed", "down"}]
            /\ poll \in [Replicas -> {"call", "send", "ended"}]
            /\ chan \in [Replicas -> Seq(Events)]
            /\ hand \in [Replicas -> SUBSET Events]
            /\ list \in Seq(Events)
            /\ \A r \in Replicas : life[r] \in {"closed", "down"} => poll[r] = "ended"

(* What a list of events becomes is a list of events, and what is in it.   *)
LEMMA ListOps ==
    ASSUME NEW s \in Seq(Events)
    PROVE  /\ Len(s) \in Nat /\ Elems(s) \subseteq Events
           /\ \A e \in Events : /\ Append(s, e) \in Seq(Events)
                                /\ Len(Append(s, e)) = Len(s) + 1
                                /\ Elems(Append(s, e)) = Elems(s) \cup {e}
           /\ s # <<>> => /\ Head(s) \in Events /\ Tail(s) \in Seq(Events)
                          /\ Len(Tail(s)) = Len(s) - 1
                          /\ Elems(s) = {Head(s)} \cup Elems(Tail(s))
<1> USE DEF Elems
<1>1. Len(s) \in Nat /\ Elems(s) \subseteq Events
  OBVIOUS
<1>2. ASSUME NEW e \in Events
      PROVE  /\ Append(s, e) \in Seq(Events) /\ Len(Append(s, e)) = Len(s) + 1
             /\ Elems(Append(s, e)) = Elems(s) \cup {e}
  <2> DEFINE a == Append(s, e)
  <2>1. /\ a \in Seq(Events) /\ Len(a) = Len(s) + 1 /\ a[Len(s) + 1] = e
        /\ \A i \in 1..Len(s) : a[i] = s[i]
    OBVIOUS
  <2> HIDE DEF a
  <2>2. 1..Len(a) = 1..Len(s) \cup {Len(s) + 1}
    BY <1>1, <2>1
  <2>3. Elems(a) = Elems(s) \cup {e}
    BY <2>1, <2>2
  <2> QED BY <2>1, <2>3 DEF a
<1>3. ASSUME s # <<>>
      PROVE  /\ Head(s) \in Events /\ Tail(s) \in Seq(Events) /\ Len(Tail(s)) = Len(s) - 1
             /\ Elems(s) = {Head(s)} \cup Elems(Tail(s))
  <2> DEFINE t == Tail(s)
  <2>1. /\ Head(s) \in Events /\ t \in Seq(Events) /\ Len(t) = Len(s) - 1 /\ Head(s) = s[1]
        /\ \A i \in 1..Len(s) - 1 : t[i] = s[i + 1]
    BY <1>3
  <2> HIDE DEF t
  <2>2. ASSUME NEW i \in 1..Len(s) PROVE s[i] = Head(s) \/ \E j \in 1..Len(t) : t[j] = s[i]
    <3>1. CASE i = 1
      BY <2>1, <3>1
    <3>2. CASE i # 1
      <4>1. i - 1 \in 1..Len(t) /\ t[i - 1] = s[(i - 1) + 1] /\ (i - 1) + 1 = i
        BY <1>1, <2>1, <3>2
      <4> QED BY <4>1
    <3> QED BY <3>1, <3>2
  <2>3. \A j \in 1..Len(t) : \E i \in 1..Len(s) : t[j] = s[i]
    BY <1>1, <2>1
  <2>4. 1 \in 1..Len(s)
    BY <1>1, <1>3
  <2> QED BY <2>1, <2>2, <2>3, <2>4 DEF t
<1> QED BY <1>1, <1>2, <1>3

(* The buffer starts open.                                                 *)
LEMMA CloseInvInit == Init => CloseInv
BY DEF Init, All, CloseInv

(* Every step keeps it.                                                    *)
LEMMA CloseInvNext == CloseInv /\ [Next]_vars => CloseInv'
<1> SUFFICES ASSUME CloseInv, [Next]_vars PROVE CloseInv'
  OBVIOUS
<1>0. CASE UNCHANGED <<life, poll, chan, hand, list>>
  BY <1>0 DEF CloseInv
<1>1. ASSUME NEW r \in Replicas, NEW e \in Events, Push(r, e) \/ PushFail(r, e) \/ Replay(r, e)
      PROVE  CloseInv'
  <2>1. list' = Append(list, e) \/ list' = list
    BY <1>1 DEF Push, PushFail, Replay, LPush
  <2>2. list' \in Seq(Events)
    <3>1. list \in Seq(Events)
      BY DEF CloseInv
    <3> QED
      BY <2>1, <3>1, ListOps
  <2>3. UNCHANGED <<life, poll, chan, hand>>
    BY <1>1 DEF Push, PushFail, Replay, memory
  <2> QED
    BY <2>2, <2>3 DEF CloseInv
<1>2. ASSUME NEW r \in Replicas, Pop(r)
      PROVE  CloseInv'
  BY <1>2 DEF CloseInv, Pop, PollTo
<1>3. ASSUME NEW r \in Replicas, PopNone(r) \/ PopLost(r)
      PROVE  CloseInv'
  <2>1. list' = list \/ (list # <<>> /\ list' = Tail(list))
    BY <1>3 DEF PopNone, PopLost
  <2>2. list' \in Seq(Events)
    <3>1. list \in Seq(Events)
      BY DEF CloseInv
    <3> QED
      BY <2>1, <3>1, ListOps
  <2>3. /\ poll' = [poll EXCEPT ![r] = IF life[r] = "up" THEN "call" ELSE "ended"]
        /\ UNCHANGED <<life, chan, hand>>
    BY <1>3 DEF PopNone, PopLost, Again, PollTo
  <2> QED
    BY <2>2, <2>3 DEF CloseInv
<1>4. ASSUME NEW r \in Replicas, Send(r)
      PROVE  CloseInv'
  BY <1>4 DEF CloseInv, Send, Again, PollTo
<1>5. ASSUME NEW r \in Replicas, SendQuit(r)
      PROVE  CloseInv'
  BY <1>5 DEF CloseInv, SendQuit, PollTo
<1>6. ASSUME NEW r \in Replicas, Deliver(r) \/ GiveUp(r)
      PROVE  CloseInv'
  <2>1. /\ chan[r] # <<>> /\ chan' = [chan EXCEPT ![r] = Tail(@)]
        /\ UNCHANGED <<life, poll, hand, list>>
    BY <1>6 DEF Deliver, GiveUp, Receive
  <2>2. Tail(chan[r]) \in Seq(Events)
    BY <2>1 DEF CloseInv
  <2> QED
    BY <2>1, <2>2 DEF CloseInv
<1>7. ASSUME NEW r \in Replicas, Cancel(r) \/ CloseChan(r)
      PROVE  CloseInv'
  BY <1>7 DEF CloseInv, Cancel, CloseChan, memory
<1>8. ASSUME NEW r \in Replicas, Exit(r) \/ Crash(r)
      PROVE  CloseInv'
  <2>1. list' = list \/ (list # <<>> /\ list' = Tail(list))
    BY <1>8 DEF Exit, Crash
  <2>2. list' \in Seq(Events)
    <3>1. list \in Seq(Events)
      BY DEF CloseInv
    <3> QED
      BY <2>1, <3>1, ListOps
  <2>3. /\ life' = [life EXCEPT ![r] = "down"]
        /\ poll' = [poll EXCEPT ![r] = "ended"]
        /\ hand' = [hand EXCEPT ![r] = {}] /\ chan' = [chan EXCEPT ![r] = <<>>]
    BY <1>8 DEF Exit, Crash, Stop
  <2> QED
    BY <2>2, <2>3 DEF CloseInv
<1>9. ASSUME NEW r \in Replicas, Start(r)
      PROVE  CloseInv'
  BY <1>9 DEF CloseInv, Start
<1>10. CASE UNCHANGED vars
  BY <1>0, <1>10 DEF vars, memory
<1> QED
  BY <1>1, <1>2, <1>3, <1>4, <1>5, <1>6, <1>7, <1>8, <1>9, <1>10
     DEF Next, ReplicaStep, PollStep

(* Only Send lengthens a channel, and poll is not there any more when the  *)
(* channel is closed.                                                      *)
LEMMA NoSendStep ==
    ASSUME CloseInv, [Next]_vars, NEW q \in Replicas, life[q] = "closed"
    PROVE  Len(chan'[q]) <= Len(chan[q])
<1>0. chan[q] \in Seq(Events) /\ Len(chan[q]) \in Nat /\ poll[q] = "ended"
  BY DEF CloseInv
<1>1. CASE UNCHANGED chan
  BY <1>0, <1>1
<1>2. ASSUME NEW r \in Replicas, Send(r)
      PROVE  UNCHANGED chan[q]
  BY <1>0, <1>2 DEF Send, CloseInv
<1>3. ASSUME NEW r \in Replicas, chan[r] # <<>>, chan' = [chan EXCEPT ![r] = Tail(@)]
      PROVE  Len(chan'[q]) <= Len(chan[q])
  BY <1>0, <1>3 DEF CloseInv
<1>4. ASSUME NEW r \in Replicas, Stop(r)
      PROVE  Len(chan'[q]) <= Len(chan[q])
  BY <1>0, <1>4 DEF Stop, CloseInv
<1>5. ASSUME NEW r \in Replicas, Deliver(r) \/ GiveUp(r) \/ Exit(r) \/ Crash(r)
      PROVE  Len(chan'[q]) <= Len(chan[q])
  BY <1>3, <1>4, <1>5 DEF Deliver, GiveUp, Receive, Exit, Crash
<1>6. ASSUME NEW r \in Replicas,
             Pop(r) \/ PopNone(r) \/ PopLost(r) \/ SendQuit(r) \/ CloseChan(r) \/ Cancel(r)
             \/ Start(r) \/ \E e \in Events : Push(r, e) \/ PushFail(r, e) \/ Replay(r, e)
      PROVE  UNCHANGED chan
  BY <1>6 DEF Pop, PopNone, PopLost, SendQuit, CloseChan, Cancel, Start, Push, PushFail,
              Replay, memory
<1>7. CASE UNCHANGED vars
  BY <1>1, <1>7 DEF vars, memory
<1> QED
  BY <1>0, <1>1, <1>2, <1>5, <1>6, <1>7 DEF Next, ReplicaStep, PollStep

(* Close never closes the channel under poll, wherever poll is when it is  *)
(* called, at any number of replicas.                                      *)
THEOREM CloseIsSafe == Spec => NoSendAfterClose
<1>1. CloseInv /\ [Next]_vars =>
        [\A r \in Replicas : life[r] = "closed" => Len(chan'[r]) <= Len(chan[r])]_vars
  BY NoSendStep
<1> QED
  BY <1>1, CloseInvInit, CloseInvNext, PTL DEF Spec, NoSendAfterClose
-----------------------------------------------------------------------------
(* Whatever travels was sent by a client.                                  *)
Sourced == /\ Elems(list) \subseteq sent
           /\ \A r \in Replicas : /\ hand[r] \subseteq sent /\ Elems(chan[r]) \subseteq sent
                                  /\ todo[r] \cup old[r] \cup tracked[r] \subseteq sent

TypeInv == /\ TypeOK /\ CloseInv /\ Sourced
           /\ {crashes, closes, faults} \subseteq Nat
           /\ crashes + closes + faults <= MaxTrouble

(* A replica that closes may still drop one event, the one its poll has or *)
(* gets in hand.                                                           *)
Losing == {r \in Replicas : life[r] = "closing" /\ poll[r] # "ended"}

(* poll has at most one event in hand.                                     *)
OneInHand == \A r \in Replicas : \A d, e \in hand[r] : d = e

LossInv == /\ TypeInv /\ OneInHand
           /\ Cardinality(Missing) + Cardinality(Losing)
                  <= (ChanSize + 1) * crashes + closes + faults

(* The types hold at the start.                                            *)
LEMMA TypeInit == Init => TypeInv
<1> SUFFICES ASSUME Init PROVE TypeInv
  OBVIOUS
<1> USE RedisAssumption
<1>1. CloseInv
  BY CloseInvInit
<1>2. Elems(<<>>) = {} /\ Len(<<>>) = 0
  BY DEF Elems
<1>3. Sourced
  BY <1>2 DEF Init, All, Sourced
<1>4. TypeOK
  <2>1. /\ \A r \in Replicas : hand[r] = {} /\ poll[r] = "call" /\ Len(chan[r]) <= ChanSize
        /\ tracked \in [Replicas -> SUBSET Events] /\ old \in [Replicas -> SUBSET Events]
        /\ todo \in [Replicas -> SUBSET Events]
    BY <1>2 DEF Init, All
  <2>2. sent = {} /\ accepted = {} /\ delivered = {} /\ dead = {}
        /\ {crashes, closes, faults} \subseteq 0..MaxTrouble
    BY DEF Init
  <2> QED BY <1>1, <2>1, <2>2 DEF TypeOK, CloseInv
<1>5. {crashes, closes, faults} \subseteq Nat /\ crashes + closes + faults <= MaxTrouble
  BY DEF Init
<1> QED BY <1>1, <1>3, <1>4, <1>5 DEF TypeInv

(* Every step keeps the types, and makes up no event.                      *)
LEMMA TypeStep == TypeInv /\ [Next]_vars => TypeInv'
<1> SUFFICES ASSUME TypeInv, [Next]_vars PROVE TypeInv'
  OBVIOUS
<1> USE RedisAssumption
<1>t. TypeOK /\ CloseInv /\ CloseInv' /\ Sourced
  BY CloseInvNext DEF TypeInv
<1>y. /\ list \in Seq(Events) /\ chan \in [Replicas -> Seq(Events)]
      /\ hand \in [Replicas -> SUBSET Events] /\ todo \in [Replicas -> SUBSET Events]
      /\ tracked \in [Replicas -> SUBSET Events] /\ old \in [Replicas -> SUBSET Events]
      /\ sent \subseteq Events /\ poll \in [Replicas -> {"call", "send", "ended"}]
  BY <1>t DEF TypeOK
<1> DEFINE
     Counters == /\ {crashes, closes, faults} \subseteq Nat
                 /\ crashes + closes + faults <= MaxTrouble
     Logs == /\ tracked \in [Replicas -> SUBSET sent] /\ old \in [Replicas -> SUBSET sent]
             /\ todo \in [Replicas -> SUBSET sent]
     Queues == /\ Elems(list) \subseteq sent
               /\ \A r \in Replicas : /\ hand[r] \subseteq sent /\ Elems(chan[r]) \subseteq sent
                                      /\ hand[r] # {} <=> poll[r] = "send"
                                      /\ Len(chan[r]) <= ChanSize
     Clients == /\ sent \subseteq Events /\ accepted \subseteq sent
                /\ delivered \subseteq sent /\ dead \subseteq sent
<1>i. Counters /\ Logs /\ Queues /\ Clients
  <2>1. Counters /\ Clients
    BY <1>t DEF TypeInv, TypeOK
  <2>2. Logs
    BY <1>t, <1>y DEF Sourced
  <2>3. Queues
    BY <1>t DEF Sourced, TypeOK
  <2> QED BY <2>1, <2>2, <2>3
<1>o. ASSUME Counters', Logs', Queues', Clients' PROVE TypeInv'
  <2>1. Sourced'
    BY <1>o DEF Sourced
  <2>2. {crashes', closes', faults'} \subseteq 0..MaxTrouble
    BY <1>o
  <2>3. /\ tracked' \in [Replicas -> SUBSET Events] /\ old' \in [Replicas -> SUBSET Events]
        /\ todo' \in [Replicas -> SUBSET Events]
    BY <1>o
  <2>4. TypeOK'
    BY <1>t, <1>o, <2>2, <2>3 DEF TypeOK, CloseInv
  <2> QED BY <1>t, <1>o, <2>1, <2>4 DEF TypeInv
<1>1. ASSUME NEW r \in Replicas, NEW e \in Events, LogEvent(r, e) \/ Forget(r, e),
             sent' = sent \cup {e}, todo' = todo \/ todo' = [todo EXCEPT ![r] = @ \ {e}]
      PROVE  Logs'
  BY <1>i, <1>1 DEF LogEvent, Forget
<1>2. ASSUME NEW r \in Replicas, NEW e \in Events,
             list' = Append(list, e) \/ list' = list, sent' = sent \cup {e},
             UNCHANGED <<hand, chan, poll>>
      PROVE  Queues'
  <2>1. Elems(list') \subseteq Elems(list) \cup {e}
    BY <1>y, <1>2, ListOps, ZenonT(30)
  <2> QED BY <1>i, <1>2, <2>1
<1>3. ASSUME NEW r \in Replicas, NEW e \in Events, Push(r, e) PROVE TypeInv'
  <2>1. /\ LogEvent(r, e) /\ list' = Append(list, e) /\ sent' = sent \cup {e}
        /\ accepted' = accepted \cup {e}
        /\ UNCHANGED <<hand, chan, poll, todo, delivered, dead, crashes, closes, faults>>
    BY <1>3 DEF Push, LPush, memory, bounds
  <2>2. Logs' /\ Queues'
    BY <1>1, <1>2, <2>1
  <2> QED BY <1>i, <1>o, <2>1, <2>2
<1>4. ASSUME NEW r \in Replicas, NEW e \in Events, PushFail(r, e) PROVE TypeInv'
  <2>1. /\ Forget(r, e) /\ (list' = Append(list, e) \/ list' = list) /\ sent' = sent \cup {e}
        /\ UNCHANGED <<hand, chan, poll, todo, accepted, delivered, dead, crashes, closes>>
        /\ faults' = faults \/ NetworkFault
    BY <1>4 DEF PushFail, LPush, memory
  <2>2. Logs' /\ Queues'
    BY <1>1, <1>2, <2>1
  <2>3. Counters'
    BY <1>i, <2>1 DEF NetworkFault, Trouble
  <2> QED BY <1>i, <1>o, <2>1, <2>2, <2>3
<1>5. ASSUME NEW r \in Replicas, NEW e \in Events, Replay(r, e) PROVE TypeInv'
  <2>1. /\ LogEvent(r, e) \/ Forget(r, e)
        /\ list' = Append(list, e) \/ list' = list
        /\ e \in todo[r] /\ todo' = [todo EXCEPT ![r] = @ \ {e}]
        /\ UNCHANGED <<hand, chan, poll, sent, accepted, delivered, dead, crashes, closes>>
        /\ faults' = faults \/ NetworkFault
    BY <1>5 DEF Replay, LPush, memory, hist
  <2>2. sent' = sent \cup {e}
    BY <1>i, <2>1
  <2>3. Logs' /\ Queues'
    BY <1>1, <1>2, <2>1, <2>2
  <2>4. Counters'
    BY <1>i, <2>1 DEF NetworkFault, Trouble
  <2> QED BY <1>i, <1>o, <2>1, <2>3, <2>4
<1>6. ASSUME NEW r \in Replicas, PollStep(r) \/ PopLost(r) PROVE TypeInv'
  <2>1. /\ UNCHANGED <<tracked, old, todo, sent, accepted, delivered, dead, crashes, closes>>
        /\ faults' = faults \/ NetworkFault
    BY <1>6 DEF PollStep, Pop, PopNone, PopLost, Send, SendQuit, Again, PollTo, log, hist,
                NetworkFault
  <2>2. Counters'
    BY <1>i, <2>1 DEF NetworkFault, Trouble
  <2>3. CASE Pop(r)
    <3>1. /\ list # <<>> /\ list' = Tail(list) /\ hand' = [hand EXCEPT ![r] = {Head(list)}]
          /\ poll' = [poll EXCEPT ![r] = "send"] /\ chan' = chan
      BY <2>3 DEF Pop, PollTo
    <3>2. Elems(list') \subseteq sent /\ Head(list) \in sent
      BY <1>y, <1>i, <3>1, ListOps
    <3>3. Queues'
      BY <1>y, <1>i, <2>1, <3>1, <3>2
    <3> QED BY <1>i, <1>o, <2>1, <2>2, <3>3
  <2>4. CASE PopNone(r) \/ PopLost(r)
    <3>1. /\ list' = list \/ (list # <<>> /\ list' = Tail(list))
          /\ poll' = [poll EXCEPT ![r] = IF life[r] = "up" THEN "call" ELSE "ended"]
          /\ UNCHANGED <<hand, chan>> /\ poll[r] = "call"
      BY <2>4 DEF PopNone, PopLost, Again, PollTo
    <3>2. Elems(list') \subseteq sent
      BY <1>y, <1>i, <3>1, ListOps
    <3>3. Queues'
      BY <1>y, <1>i, <2>1, <3>1, <3>2
    <3> QED BY <1>i, <1>o, <2>1, <2>2, <3>3
  <2>5. CASE Send(r)
    <3>1. PICK e \in hand[r] : chan' = [chan EXCEPT ![r] = Append(@, e)]
      BY <2>5 DEF Send
    <3>2. /\ hand' = [hand EXCEPT ![r] = {}] /\ Len(chan[r]) < ChanSize /\ list' = list
          /\ poll' = [poll EXCEPT ![r] = IF life[r] = "up" THEN "call" ELSE "ended"]
      BY <2>5 DEF Send, Again, PollTo
    <3>3. e \in Events /\ e \in sent /\ chan[r] \in Seq(Events)
      BY <1>y, <1>i
    <3>4. /\ Elems(Append(chan[r], e)) = Elems(chan[r]) \cup {e}
          /\ Len(Append(chan[r], e)) = Len(chan[r]) + 1 /\ Len(chan[r]) \in Nat
      BY <3>3, ListOps
    <3>5. chan'[r] = Append(chan[r], e) /\ \A q \in Replicas \ {r} : chan'[q] = chan[q]
      BY <1>y, <3>1
    <3>6. ASSUME NEW q \in Replicas
          PROVE  Elems(chan'[q]) \subseteq sent /\ Len(chan'[q]) <= ChanSize
      <4>0. Elems(chan[r]) \subseteq sent /\ Len(chan[r]) < ChanSize
        BY <1>i, <3>2
      <4>1. CASE q = r
        <5> HIDE DEF Counters, Logs, Queues, Clients
        <5>1. Elems(chan'[r]) \subseteq sent
          BY <3>3, <3>4, <3>5, <4>0
        <5>2. Len(chan'[r]) <= ChanSize
          BY <3>4, <3>5, <4>0
        <5> QED BY <4>1, <5>1, <5>2
      <4>2. CASE q # r
        BY <1>i, <3>5, <4>2
      <4> QED BY <4>1, <4>2
    <3>7. \A q \in Replicas : hand'[q] \subseteq sent /\ (hand'[q] # {} <=> poll'[q] = "send")
      BY <1>y, <1>i, <3>2
    <3>8. Queues'
      BY <1>i, <2>1, <3>2, <3>6, <3>7
    <3> QED BY <1>i, <1>o, <2>1, <2>2, <3>8
  <2>6. CASE SendQuit(r)
    <3>1. /\ hand' = [hand EXCEPT ![r] = {}] /\ UNCHANGED <<list, chan>>
          /\ poll' = [poll EXCEPT ![r] = "ended"]
      BY <2>6 DEF SendQuit, PollTo
    <3>2. Queues'
      BY <1>y, <1>i, <2>1, <3>1
    <3> QED BY <1>i, <1>o, <2>1, <2>2, <3>2
  <2> QED BY <1>6, <2>3, <2>4, <2>5, <2>6 DEF PollStep
<1>7. ASSUME NEW r \in Replicas, Deliver(r) \/ GiveUp(r) PROVE TypeInv'
  <2>1. /\ chan[r] # <<>> /\ chan' = [chan EXCEPT ![r] = Tail(@)]
        /\ UNCHANGED <<list, poll, hand, todo, old, sent, accepted, crashes, closes, faults>>
        /\ tracked' = tracked \/ tracked' = [tracked EXCEPT ![r] = @ \ {Head(chan[r])}]
        /\ delivered' \cup dead' \subseteq delivered \cup dead \cup {Head(chan[r])}
    BY <1>7 DEF Deliver, GiveUp, Receive, log, bounds
  <2>2. /\ Len(Tail(chan[r])) = Len(chan[r]) - 1 /\ Len(chan[r]) \in Nat
        /\ Elems(chan[r]) = {Head(chan[r])} \cup Elems(Tail(chan[r]))
    BY <1>y, <2>1, ListOps
  <2>3. chan'[r] = Tail(chan[r]) /\ \A q \in Replicas \ {r} : chan'[q] = chan[q]
    BY <1>y, <2>1
  <2>4. Head(chan[r]) \in sent
    BY <1>i, <2>2
  <2>5. Queues'
    BY <1>i, <2>1, <2>2, <2>3
  <2>6. Clients'
    BY <1>i, <2>1, <2>4
  <2>7. Logs'
    BY <1>i, <2>1
  <2> QED BY <1>i, <1>o, <2>1, <2>5, <2>6, <2>7
<1>8. ASSUME NEW r \in Replicas, Exit(r) \/ Crash(r) PROVE TypeInv'
  <2>1. /\ list' = list \/ (list # <<>> /\ list' = Tail(list))
        /\ crashes' = crashes \/ (Trouble /\ crashes' = crashes + 1)
        /\ poll' = [poll EXCEPT ![r] = "ended"] /\ hand' = [hand EXCEPT ![r] = {}]
        /\ chan' = [chan EXCEPT ![r] = <<>>] /\ todo' = [todo EXCEPT ![r] = {}]
        /\ old' = [old EXCEPT ![r] = @ \cup tracked[r]]
        /\ tracked' = [tracked EXCEPT ![r] = {}]
        /\ UNCHANGED <<sent, accepted, delivered, dead, closes, faults>>
    BY <1>8 DEF Exit, Crash, Stop, hist
  <2>2. Elems(list') \subseteq sent
    BY <1>y, <1>i, <2>1, ListOps
  <2>3. Elems(<<>>) = {} /\ Len(<<>>) = 0
    BY DEF Elems
  <2>4. Queues'
    BY <1>y, <1>i, <2>1, <2>2, <2>3
  <2>5. Logs'
    BY <1>i, <2>1
  <2>6. Counters'
    BY <1>i, <2>1 DEF Trouble
  <2> QED BY <1>i, <1>o, <2>1, <2>4, <2>5, <2>6
<1>9. ASSUME NEW r \in Replicas, Cancel(r) \/ CloseChan(r) PROVE TypeInv'
  <2>1. /\ UNCHANGED <<list, poll, hand, chan, tracked, old, todo, sent, accepted, delivered,
                       dead, crashes, faults>>
        /\ closes' = closes \/ (Trouble /\ closes' = closes + 1)
    BY <1>9 DEF Cancel, CloseChan, memory, log, hist, bounds
  <2>2. Counters'
    BY <1>i, <2>1 DEF Trouble
  <2> QED BY <1>i, <1>o, <2>1, <2>2
<1>10. ASSUME NEW r \in Replicas, Start(r) PROVE TypeInv'
  <2>1. /\ poll' = [poll EXCEPT ![r] = "call"] /\ todo' = [todo EXCEPT ![r] = old[r]]
        /\ UNCHANGED <<list, hand, chan, tracked, old, sent, accepted, delivered, dead,
                       crashes, closes, faults>>
        /\ life[r] = "down"
    BY <1>10 DEF Start, log, hist, bounds
  <2>2. hand[r] = {}
    BY <1>t, <1>i, <2>1 DEF CloseInv
  <2>3. Queues'
    BY <1>y, <1>i, <2>1, <2>2
  <2>4. Logs'
    BY <1>i, <2>1
  <2> QED BY <1>i, <1>o, <2>1, <2>3, <2>4
<1>11. CASE UNCHANGED vars
  BY <1>11, <1>i, <1>o DEF vars, memory, log, hist, bounds
<1> QED
  BY <1>3, <1>4, <1>5, <1>6, <1>7, <1>8, <1>9, <1>10, <1>11 DEF Next, ReplicaStep

(* The channel of a replica (internal/buffer/redis.go) never holds more    *)
(* than its capacity, and poll has an event in hand exactly while it sends.*)
THEOREM TypeCorrect == Spec => []TypeOK
<1>1. TypeInv => TypeOK
  BY DEF TypeInv
<1> QED BY <1>1, TypeInit, TypeStep, PTL DEF Spec

-----------------------------------------------------------------------------
(* A channel holds at most as many events as it is long.                   *)
LEMMA ElemsCount ==
    ASSUME NEW s \in Seq(Events)
    PROVE  Cardinality(Elems(s)) \in Nat /\ Cardinality(Elems(s)) <= Len(s)
<1>1. Len(s) \in Nat /\ Elems(s) \subseteq Events
  BY ListOps
<1>2. s \in Surjection(1..Len(s), Elems(s))
  <2>1. s \in [1..Len(s) -> Elems(s)]
    BY DEF Elems
  <2> QED BY <2>1 DEF Surjection, Elems
<1>3. IsFiniteSet(1..Len(s)) /\ Cardinality(1..Len(s)) = Len(s)
  BY <1>1, FS_Interval, SMTT(30)
<1>4. IsFiniteSet(Elems(s)) /\ Cardinality(Elems(s)) <= Cardinality(1..Len(s))
  BY <1>2, <1>3, FS_Surjection
<1> QED BY <1>3, <1>4, FS_CardinalityType

(* A step that takes the events of X out of play, and accepts only events  *)
(* that are in play, makes at most those of X missing.                     *)
LEMMA MissingGrows ==
    ASSUME TypeInv, NEW X \in SUBSET Events, NEW n \in Nat, Cardinality(X) <= n,
           InPlay \subseteq InPlay' \cup X \cup delivered' \cup dead',
           accepted' \subseteq accepted \cup InPlay',
           delivered \cup dead \subseteq delivered' \cup dead'
    PROVE  /\ Cardinality(Missing) \in Nat /\ Cardinality(Missing') \in Nat
           /\ Cardinality(Missing') <= Cardinality(Missing) + n
<1>1. Missing' \subseteq Missing \cup X
  BY DEF Missing
<1>2. Missing \subseteq Events
  BY DEF TypeInv, TypeOK, Missing
<1>3. IsFiniteSet(Missing) /\ IsFiniteSet(X) /\ IsFiniteSet(Missing \cup X)
  BY <1>2, RedisAssumption, FS_Subset
<1>4. /\ IsFiniteSet(Missing')
      /\ Cardinality(Missing') <= Cardinality(Missing \cup X)
  BY <1>1, <1>3, FS_Subset
<1>5. /\ Cardinality(Missing \cup X)
             = Cardinality(Missing) + Cardinality(X) - Cardinality(Missing \cap X)
      /\ IsFiniteSet(Missing \cap X)
  BY <1>3, FS_Union, FS_Intersection
<1>6. /\ Cardinality(Missing) \in Nat /\ Cardinality(Missing') \in Nat
      /\ Cardinality(X) \in Nat /\ Cardinality(Missing \cap X) \in Nat
  BY <1>3, <1>4, <1>5, FS_CardinalityType
<1> QED
  BY <1>4, <1>5, <1>6

(* How the number of closing replicas changes.                             *)
LEMMA LosingCount ==
    ASSUME NEW S \in SUBSET Replicas, NEW r \in Replicas
    PROVE  /\ Cardinality(S) \in Nat
           /\ \A T \in SUBSET S : Cardinality(T) \in Nat /\ Cardinality(T) <= Cardinality(S)
           /\ r \in S => Cardinality(S \ {r}) = Cardinality(S) - 1
           /\ Cardinality(S \cup {r}) \in Nat /\ Cardinality(S \cup {r}) <= Cardinality(S) + 1
<1>1. IsFiniteSet(S) /\ Cardinality(S) \in Nat
  BY RedisAssumption, FS_Subset, FS_CardinalityType
<1>2. \A T \in SUBSET S : Cardinality(T) \in Nat /\ Cardinality(T) <= Cardinality(S)
  BY <1>1, FS_Subset, FS_CardinalityType
<1>3. r \in S => Cardinality(S \ {r}) = Cardinality(S) - 1
  BY <1>1, FS_RemoveElement
<1>4. CASE r \in S
  <2>1. S \cup {r} = S
    BY <1>4
  <2> QED BY <1>1, <1>2, <1>3, <2>1
<1>5. CASE r \notin S
  <2>1. Cardinality(S \cup {r}) = Cardinality(S) + 1
    BY <1>1, <1>5, FS_AddElement
  <2> QED BY <1>1, <1>2, <1>3, <2>1
<1> QED BY <1>4, <1>5

(* Only Pop puts an event in poll's hand, and it puts one.                 *)
LEMMA HandStep == TypeInv /\ OneInHand /\ [Next]_vars => OneInHand'
<1> SUFFICES ASSUME TypeInv, OneInHand, [Next]_vars PROVE OneInHand'
  OBVIOUS
<1>y. hand \in [Replicas -> SUBSET Events]
  BY DEF TypeInv, TypeOK
<1>1. CASE UNCHANGED hand
  BY <1>1 DEF OneInHand
<1>2. ASSUME NEW r \in Replicas, NEW e, hand' = [hand EXCEPT ![r] = {e}] PROVE OneInHand'
  BY <1>y, <1>2 DEF OneInHand
<1>3. ASSUME NEW r \in Replicas, hand' = [hand EXCEPT ![r] = {}] PROVE OneInHand'
  BY <1>y, <1>3 DEF OneInHand
<1>4. ASSUME NEW r \in Replicas, NEW e \in Events, Push(r, e) \/ PushFail(r, e) \/ Replay(r, e)
      PROVE  OneInHand'
  BY <1>1, <1>4 DEF Push, PushFail, Replay, memory
<1>5. ASSUME NEW r \in Replicas, PollStep(r) \/ PopLost(r) PROVE OneInHand'
  BY <1>1, <1>2, <1>3, <1>5 DEF PollStep, Pop, PopNone, PopLost, Send, SendQuit
<1>6. ASSUME NEW r \in Replicas,
             \/ Deliver(r) \/ GiveUp(r) \/ CloseChan(r) \/ Cancel(r) \/ Start(r)
             \/ Exit(r) \/ Crash(r)
      PROVE  OneInHand'
  BY <1>1, <1>3, <1>6
     DEF Deliver, GiveUp, Receive, CloseChan, Cancel, Start, Exit, Crash, Stop, memory
<1>7. CASE UNCHANGED vars
  BY <1>1, <1>7 DEF vars, memory
<1> QED BY <1>4, <1>5, <1>6, <1>7 DEF Next, ReplicaStep

(* Every step stays within the budget of losses.                           *)
LEMMA LossStep == LossInv /\ [Next]_vars => LossInv'
<1> SUFFICES ASSUME LossInv, [Next]_vars PROVE LossInv'
  OBVIOUS
<1>t. TypeInv /\ TypeInv' /\ TypeOK /\ CloseInv /\ OneInHand /\ OneInHand'
  BY TypeStep, HandStep DEF LossInv, TypeInv
<1>y. /\ list \in Seq(Events) /\ chan \in [Replicas -> Seq(Events)]
      /\ hand \in [Replicas -> SUBSET Events]
      /\ poll \in [Replicas -> {"call", "send", "ended"}]
      /\ life \in [Replicas -> {"up", "closing", "closed", "down"}]
      /\ crashes \in Nat /\ closes \in Nat /\ faults \in Nat /\ ChanSize \in Nat
  BY <1>t, RedisAssumption DEF TypeInv, TypeOK
<1> DEFINE Budget == (ChanSize + 1) * crashes + closes + faults
<1>l. Losing \in SUBSET Replicas /\ Cardinality(Losing) \in Nat /\ Budget \in Nat
  <2>1. Losing \in SUBSET Replicas /\ IsFiniteSet(Losing)
    BY RedisAssumption, FS_Subset DEF Losing
  <2>2. (ChanSize + 1) * crashes \in Nat
    BY <1>y
  <2>3. \A p \in Nat : p + closes + faults \in Nat
    BY <1>y
  <2>4. Budget \in Nat
    BY <2>2, <2>3
  <2> HIDE DEF Budget
  <2> QED BY <2>1, <2>4, FS_CardinalityType
<1>p. /\ Elems(list) \subseteq InPlay /\ \A r \in Replicas : hand[r] \cup Elems(chan[r]) \subseteq InPlay
      /\ Elems(list') \subseteq InPlay'
      /\ \A r \in Replicas : hand'[r] \cup Elems(chan'[r]) \subseteq InPlay'
  BY DEF InPlay
<1>b. ASSUME NEW X \in SUBSET Events, NEW n \in Nat, NEW k \in Nat, Cardinality(X) <= n,
             InPlay \subseteq InPlay' \cup X \cup delivered' \cup dead',
             accepted' \subseteq accepted \cup InPlay',
             delivered \cup dead \subseteq delivered' \cup dead',
             Cardinality(Losing') \in Nat,
             n + Cardinality(Losing') <= Cardinality(Losing) + k,
             Budget' = Budget + k
      PROVE  LossInv'
  <2>1. /\ Cardinality(Missing) \in Nat /\ Cardinality(Missing') \in Nat
        /\ Cardinality(Missing') <= Cardinality(Missing) + n
    BY <1>t, <1>b, MissingGrows
  <2>2. Cardinality(Missing) + Cardinality(Losing) <= Budget
    BY DEF LossInv
  <2> HIDE DEF Budget
  <2>3. Cardinality(Missing') + Cardinality(Losing') <= Budget'
    BY <1>l, <1>b, <2>1, <2>2
  <2> QED BY <1>t, <2>3 DEF LossInv, Budget
<1>z. Cardinality({}) = 0 /\ \A e \in Events : IsFiniteSet({e}) /\ Cardinality({e}) = 1
  BY FS_EmptySet, FS_Singleton
<1>0. ASSUME InPlay \subseteq InPlay' \cup delivered' \cup dead',
             accepted' \subseteq accepted \cup InPlay',
             delivered \cup dead \subseteq delivered' \cup dead',
             Losing' \subseteq Losing, NEW k \in Nat, Budget' = Budget + k
      PROVE  LossInv'
  <2>1. /\ Cardinality(Losing') \in Nat
        /\ 0 + Cardinality(Losing') <= Cardinality(Losing) + k
    <3>1. Cardinality(Losing') \in Nat /\ Cardinality(Losing') <= Cardinality(Losing)
      <4>1. Losing' \in SUBSET Replicas /\ IsFiniteSet(Losing)
        BY <1>l, RedisAssumption, FS_Subset DEF Losing
      <4> QED BY <1>0, <4>1, FS_Subset, FS_CardinalityType
    <3> QED BY <1>l, <3>1
  <2>2. Cardinality({}) <= 0
    BY <1>z
  <2> HIDE DEF Budget
  <2> QED BY <1>0, <1>b, <2>1, <2>2
<1>1. ASSUME NEW r \in Replicas, NEW e \in Events, Push(r, e) \/ PushFail(r, e) \/ Replay(r, e)
      PROVE  LossInv'
  <2>1. /\ list' = Append(list, e) \/ list' = list
        /\ UNCHANGED <<life, poll, hand, chan, delivered, dead, crashes, closes>>
        /\ faults' \in {faults, faults + 1}
        /\ accepted' = accepted \/ (accepted' = accepted \cup {e} /\ list' = Append(list, e))
    BY <1>1 DEF Push, PushFail, Replay, LPush, memory, hist, bounds, NetworkFault
  <2>2. Elems(list) \subseteq Elems(list') /\ (list' = Append(list, e) => e \in Elems(list'))
    <3>1. Elems(Append(list, e)) = Elems(list) \cup {e}
      BY <1>y, ListOps
    <3> QED BY <2>1, <3>1
  <2>3. InPlay \subseteq InPlay' /\ accepted' \subseteq accepted \cup InPlay'
    BY <2>1, <2>2 DEF InPlay
  <2>4. Losing' = Losing
    BY <2>1 DEF Losing
  <2>5. \E k \in Nat : Budget' = Budget + k
    <3>1. crashes' = crashes /\ closes' = closes
      BY <2>1
    <3>2. (ChanSize + 1) * crashes \in Nat
      BY <1>y
    <3>3. CASE faults' = faults
      BY <1>l, <3>1, <3>3
    <3>4. CASE faults' = faults + 1
      <4>1. Budget' = Budget + 1
        BY <1>y, <3>1, <3>2, <3>4
      <4> QED BY <4>1
    <3> QED BY <2>1, <3>3, <3>4
  <2> HIDE DEF Budget
  <2> QED BY <1>0, <2>1, <2>3, <2>4, <2>5
<1>2. ASSUME NEW r \in Replicas, Pop(r) PROVE LossInv'
  <2>1. /\ list # <<>> /\ list' = Tail(list) /\ hand' = [hand EXCEPT ![r] = {Head(list)}]
        /\ poll[r] = "call" /\ poll' = [poll EXCEPT ![r] = "send"]
        /\ UNCHANGED <<life, chan, accepted, delivered, dead, crashes, closes, faults>>
    BY <1>2 DEF Pop, PollTo, hist
  <2>2. Elems(list) = {Head(list)} \cup Elems(list') /\ hand[r] = {} /\ hand'[r] = {Head(list)}
    BY <1>t, <1>y, <2>1, ListOps DEF TypeOK
  <2>3. \A q \in Replicas : hand[q] \subseteq hand'[q] /\ chan'[q] = chan[q]
    BY <1>y, <2>1, <2>2
  <2>4. InPlay \subseteq InPlay'
    BY <1>p, <2>2, <2>3 DEF InPlay
  <2>5. Losing' \subseteq Losing
    BY <1>y, <2>1 DEF Losing
  <2>6. Budget' = Budget + 0
    BY <1>l, <2>1
  <2> HIDE DEF Budget
  <2> QED BY <1>0, <2>1, <2>4, <2>5, <2>6
<1>3. ASSUME NEW r \in Replicas, PopNone(r) PROVE LossInv'
  <2>1. /\ UNCHANGED <<life, list, hand, chan, accepted, delivered, dead, crashes, closes, faults>>
        /\ poll[r] = "call" /\ \E x : poll' = [poll EXCEPT ![r] = x]
    BY <1>3 DEF PopNone, Again, PollTo, hist
  <2>2. InPlay \subseteq InPlay'
    BY <2>1 DEF InPlay
  <2>3. Losing' \subseteq Losing
    BY <1>y, <2>1 DEF Losing
  <2>4. Budget' = Budget + 0
    BY <1>l, <2>1
  <2> HIDE DEF Budget
  <2> QED BY <1>0, <2>1, <2>2, <2>3, <2>4
<1>4. ASSUME NEW r \in Replicas, PopLost(r) PROVE LossInv'
  <2>1. /\ list # <<>> /\ list' = Tail(list) /\ faults' = faults + 1
        /\ poll[r] = "call" /\ \E x : poll' = [poll EXCEPT ![r] = x]
        /\ UNCHANGED <<life, hand, chan, accepted, delivered, dead, crashes, closes>>
    BY <1>4 DEF PopLost, NetworkFault, Again, PollTo, hist
  <2>2. Elems(list) = {Head(list)} \cup Elems(list') /\ Head(list) \in Events
    BY <1>y, <2>1, ListOps
  <2>3. InPlay \subseteq InPlay' \cup {Head(list)}
    BY <1>p, <2>1, <2>2 DEF InPlay
  <2>4. Losing' \subseteq Losing
    BY <1>y, <2>1 DEF Losing
  <2>5. Cardinality(Losing') \in Nat /\ Cardinality(Losing') <= Cardinality(Losing)
    BY <1>l, <2>4, LosingCount
  <2>6. Budget' = Budget + 1
    <3>1. (ChanSize + 1) * crashes \in Nat
      BY <1>y
    <3> QED BY <1>y, <2>1, <3>1
  <2>7. {Head(list)} \in SUBSET Events /\ Cardinality({Head(list)}) <= 1
    BY <1>z, <2>2
  <2>8. 1 + Cardinality(Losing') <= Cardinality(Losing) + 1
    BY <1>l, <2>5
  <2> HIDE DEF Budget
  <2> QED BY <1>b, <2>1, <2>3, <2>5, <2>6, <2>7, <2>8
<1>5. ASSUME NEW r \in Replicas, Send(r) PROVE LossInv'
  <2>1. PICK e \in hand[r] : chan' = [chan EXCEPT ![r] = Append(@, e)]
    BY <1>5 DEF Send
  <2>2. /\ hand' = [hand EXCEPT ![r] = {}] /\ poll[r] = "send"
        /\ \E x : poll' = [poll EXCEPT ![r] = x]
        /\ UNCHANGED <<life, list, accepted, delivered, dead, crashes, closes, faults>>
    BY <1>5 DEF Send, Again, PollTo, hist
  <2>3. e \in Events /\ hand[r] = {e} /\ chan'[r] = Append(chan[r], e) /\ hand'[r] = {}
    BY <1>t, <1>y, <2>1, <2>2 DEF OneInHand
  <2>4. Elems(chan'[r]) = Elems(chan[r]) \cup {e}
    BY <1>y, <2>3, ListOps
  <2>5. ASSUME NEW q \in Replicas
        PROVE  hand[q] \cup Elems(chan[q]) \subseteq hand'[q] \cup Elems(chan'[q])
    <3>1. CASE q = r
      BY <2>3, <2>4, <3>1
    <3>2. CASE q # r
      BY <1>y, <2>1, <2>2, <3>2
    <3> QED BY <3>1, <3>2
  <2>6. InPlay \subseteq InPlay'
    BY <1>p, <2>2, <2>5 DEF InPlay
  <2>7. Losing' \subseteq Losing
    BY <1>y, <2>2 DEF Losing
  <2>8. Budget' = Budget + 0
    BY <1>l, <2>2
  <2> HIDE DEF Budget
  <2> QED BY <1>0, <2>2, <2>6, <2>7, <2>8
<1>6. ASSUME NEW r \in Replicas, SendQuit(r) PROVE LossInv'
  <2>1. /\ hand' = [hand EXCEPT ![r] = {}] /\ poll[r] = "send" /\ life[r] # "up"
        /\ poll' = [poll EXCEPT ![r] = "ended"]
        /\ UNCHANGED <<life, list, chan, accepted, delivered, dead, crashes, closes, faults>>
    BY <1>6 DEF SendQuit, PollTo, hist
  <2>2. PICK e \in Events : hand[r] = {e}
    BY <1>t, <1>y, <2>1 DEF TypeOK, OneInHand
  <2>3. life[r] = "closing"
    BY <1>t, <1>y, <2>1 DEF CloseInv
  <2>4. Losing' = Losing \ {r} /\ r \in Losing
    BY <1>y, <2>1, <2>3 DEF Losing
  <2>5. Cardinality(Losing') = Cardinality(Losing) - 1 /\ Cardinality(Losing') \in Nat
    <3>1. Losing \ {r} \in SUBSET Losing
      OBVIOUS
    <3> QED BY <1>l, <2>4, <3>1, LosingCount
  <2>6. \A q \in Replicas : hand[q] \subseteq hand'[q] \cup {e} /\ chan'[q] = chan[q]
    BY <1>y, <2>1, <2>2
  <2>7. InPlay \subseteq InPlay' \cup {e}
    BY <1>p, <2>1, <2>6 DEF InPlay
  <2>8. Budget' = Budget + 0
    BY <1>l, <2>1
  <2>9. {e} \in SUBSET Events /\ Cardinality({e}) <= 1
    BY <1>z, <2>2
  <2>10. 1 + Cardinality(Losing') <= Cardinality(Losing) + 0
    BY <1>l, <2>5
  <2> HIDE DEF Budget
  <2> QED BY <1>b, <2>1, <2>5, <2>7, <2>8, <2>9, <2>10
<1>7. ASSUME NEW r \in Replicas, Deliver(r) \/ GiveUp(r) PROVE LossInv'
  <2>1. /\ chan[r] # <<>> /\ chan' = [chan EXCEPT ![r] = Tail(@)]
        /\ UNCHANGED <<life, list, poll, hand, accepted, crashes, closes, faults>>
        /\ delivered \cup dead \cup {Head(chan[r])} \subseteq delivered' \cup dead'
    BY <1>7 DEF Deliver, GiveUp, Receive, bounds
  <2>2. Elems(chan[r]) = {Head(chan[r])} \cup Elems(chan'[r])
    BY <1>y, <2>1, ListOps
  <2>3. \A q \in Replicas : q # r => chan'[q] = chan[q]
    BY <1>y, <2>1
  <2>4. InPlay \subseteq InPlay' \cup delivered' \cup dead'
    BY <1>p, <2>1, <2>2, <2>3 DEF InPlay
  <2>5. Losing' \subseteq Losing
    BY <2>1 DEF Losing
  <2>6. Budget' = Budget + 0
    BY <1>l, <2>1
  <2> HIDE DEF Budget
  <2> QED BY <1>0, <2>1, <2>4, <2>5, <2>6
<1>8. ASSUME NEW r \in Replicas, Stop(r)
      PROVE  /\ Losing' \subseteq Losing
             /\ \A q \in Replicas : q # r => hand'[q] = hand[q] /\ chan'[q] = chan[q]
             /\ UNCHANGED <<accepted, delivered, dead, closes, faults>>
  <2>1. /\ life' = [life EXCEPT ![r] = "down"] /\ poll' = [poll EXCEPT ![r] = "ended"]
        /\ hand' = [hand EXCEPT ![r] = {}] /\ chan' = [chan EXCEPT ![r] = <<>>]
        /\ UNCHANGED <<accepted, delivered, dead, closes, faults>>
    BY <1>8 DEF Stop, hist
  <2> QED BY <1>y, <2>1 DEF Losing
<1>9. ASSUME NEW r \in Replicas, Exit(r) PROVE LossInv'
  <2>1. life[r] = "closed" /\ chan[r] = <<>> /\ Stop(r) /\ UNCHANGED <<list, crashes>>
    BY <1>9 DEF Exit
  <2>2. hand[r] \cup Elems(chan[r]) = {}
    <3>1. hand[r] = {}
      BY <1>t, <1>y, <2>1 DEF CloseInv, TypeOK
    <3>2. Elems(<<>>) = {}
      BY DEF Elems
    <3> QED BY <2>1, <3>1, <3>2
  <2>3. InPlay \subseteq InPlay'
    BY <1>8, <1>p, <2>1, <2>2 DEF InPlay
  <2>4. Budget' = Budget + 0
    BY <1>8, <1>l, <2>1
  <2> HIDE DEF Budget
  <2> QED BY <1>0, <1>8, <2>1, <2>3, <2>4
<1>10. ASSUME NEW r \in Replicas, Crash(r) PROVE LossInv'
  <2>1. /\ Stop(r) /\ crashes' = crashes + 1
        /\ list' = list \/ (poll[r] = "call" /\ list # <<>> /\ list' = Tail(list))
    BY <1>10 DEF Crash
  <2>2. \E E \in SUBSET Events : /\ IsFiniteSet(E) /\ Cardinality(E) <= 1 /\ hand[r] \subseteq E
                                 /\ Elems(list) \subseteq Elems(list') \cup E
    <3>1. CASE list' = list /\ hand[r] = {}
      <4>1. {} \in SUBSET Events /\ IsFiniteSet({}) /\ Cardinality({}) <= 1
        BY FS_EmptySet
      <4> QED BY <3>1, <4>1
    <3>2. CASE list' = list /\ hand[r] # {}
      <4>1. PICK e \in Events : hand[r] = {e}
        BY <1>t, <1>y, <3>2, SMTT(30) DEF OneInHand
      <4>2. IsFiniteSet({e}) /\ Cardinality({e}) <= 1
        BY <1>z
      <4> QED BY <3>2, <4>1, <4>2
    <3>3. CASE poll[r] = "call" /\ list # <<>> /\ list' = Tail(list)
      <4>1. hand[r] = {} /\ Head(list) \in Events /\ Elems(list) = {Head(list)} \cup Elems(list')
        BY <1>t, <1>y, <3>3, ListOps DEF TypeOK
      <4>2. IsFiniteSet({Head(list)}) /\ Cardinality({Head(list)}) <= 1
        BY <1>z, <4>1
      <4> QED BY <4>1, <4>2
    <3> QED BY <2>1, <3>1, <3>2, <3>3
  <2>3. PICK E \in SUBSET Events : /\ IsFiniteSet(E) /\ Cardinality(E) <= 1 /\ hand[r] \subseteq E
                                   /\ Elems(list) \subseteq Elems(list') \cup E
    BY <2>2
  <2> DEFINE C == Elems(chan[r])
  <2>4. /\ C \in SUBSET Events /\ IsFiniteSet(C)
        /\ Cardinality(C) \in Nat /\ Cardinality(C) <= ChanSize
    <3>1. chan[r] \in Seq(Events) /\ Len(chan[r]) <= ChanSize
      BY <1>t, <1>y DEF TypeOK
    <3>2. Len(chan[r]) \in Nat /\ C \subseteq Events
      BY <3>1, ListOps
    <3>3. Cardinality(C) \in Nat /\ Cardinality(C) <= Len(chan[r])
      BY <3>1, ElemsCount
    <3>4. IsFiniteSet(C)
      BY <3>2, RedisAssumption, FS_Subset
    <3> HIDE DEF C
    <3> QED BY <1>y, <3>1, <3>2, <3>3, <3>4
  <2>5. InPlay \subseteq InPlay' \cup (E \cup C)
    BY <1>8, <1>p, <2>1, <2>3 DEF InPlay
  <2> HIDE DEF C
  <2>6. E \cup C \in SUBSET Events /\ Cardinality(E \cup C) <= ChanSize + 1
    <3>1. /\ Cardinality(E \cup C) = Cardinality(E) + Cardinality(C) - Cardinality(E \cap C)
          /\ IsFiniteSet(E \cap C)
      BY <2>3, <2>4, FS_Union, FS_Intersection
    <3>2. Cardinality(E) \in Nat /\ Cardinality(E \cap C) \in Nat
      BY <2>3, <3>1, FS_CardinalityType
    <3>3. Cardinality(E \cup C) <= ChanSize + 1
      BY <1>y, <2>3, <2>4, <3>1, <3>2
    <3> QED BY <2>3, <2>4, <3>3
  <2>7. Budget' = Budget + (ChanSize + 1)
    <3>1. (ChanSize + 1) * (crashes + 1) = (ChanSize + 1) * crashes + (ChanSize + 1)
      BY <1>y
    <3>2. (ChanSize + 1) * crashes \in Nat
      BY <1>y
    <3>3. closes' = closes /\ faults' = faults
      BY <1>8, <2>1
    <3>4. Budget' = (ChanSize + 1) * (crashes + 1) + closes + faults
      BY <2>1, <3>3
    <3> QED BY <1>y, <3>1, <3>2, <3>4
  <2>8. /\ Cardinality(Losing') \in Nat
        /\ (ChanSize + 1) + Cardinality(Losing') <= Cardinality(Losing) + (ChanSize + 1)
    <3>1. Losing' \in SUBSET Losing
      BY <1>8, <2>1
    <3>2. Cardinality(Losing') \in Nat /\ Cardinality(Losing') <= Cardinality(Losing)
      BY <1>l, <3>1, LosingCount
    <3> QED BY <1>l, <1>y, <3>2
  <2>9. ChanSize + 1 \in Nat
    BY <1>y
  <2>10. UNCHANGED <<accepted, delivered, dead>>
    BY <1>8, <2>1
  <2> HIDE DEF Budget
  <2> QED BY <1>b, <2>5, <2>6, <2>7, <2>8, <2>9, <2>10
<1>11. ASSUME NEW r \in Replicas, Cancel(r) PROVE LossInv'
  <2>1. /\ life' = [life EXCEPT ![r] = "closing"] /\ closes' = closes + 1
        /\ UNCHANGED <<list, poll, hand, chan, accepted, delivered, dead, crashes, faults>>
    BY <1>11 DEF Cancel, memory, hist
  <2>2. InPlay' = InPlay
    BY <2>1 DEF InPlay
  <2>3. Losing' \subseteq Losing \cup {r}
    BY <1>y, <2>1 DEF Losing
  <2>4. Cardinality(Losing') \in Nat /\ Cardinality(Losing') <= Cardinality(Losing) + 1
    <3>1. /\ Losing \cup {r} \in SUBSET Replicas /\ Losing' \in SUBSET (Losing \cup {r})
          /\ Cardinality(Losing \cup {r}) \in Nat
          /\ Cardinality(Losing \cup {r}) <= Cardinality(Losing) + 1
      BY <1>l, <2>3, LosingCount
    <3>2. Cardinality(Losing') \in Nat /\ Cardinality(Losing') <= Cardinality(Losing \cup {r})
      BY <3>1, LosingCount
    <3> QED BY <1>l, <3>1, <3>2
  <2>5. Budget' = Budget + 1
    <3>1. (ChanSize + 1) * crashes \in Nat
      BY <1>y
    <3> QED BY <1>y, <2>1, <3>1
  <2>6. Cardinality({}) <= 0 /\ 0 + Cardinality(Losing') <= Cardinality(Losing) + 1
    BY <1>l, <1>z, <2>4
  <2> HIDE DEF Budget
  <2> QED BY <1>b, <2>1, <2>2, <2>4, <2>5, <2>6
<1>12. ASSUME NEW r \in Replicas, CloseChan(r) \/ Start(r) PROVE LossInv'
  <2>1. /\ \/ life' = [life EXCEPT ![r] = "closed"] /\ poll' = poll
           \/ life' = [life EXCEPT ![r] = "up"] /\ poll' = [poll EXCEPT ![r] = "call"]
        /\ UNCHANGED <<list, hand, chan, accepted, delivered, dead, crashes, closes, faults>>
    BY <1>12 DEF CloseChan, Start, memory, hist, bounds
  <2>2. InPlay \subseteq InPlay'
    BY <2>1 DEF InPlay
  <2>3. Losing' \subseteq Losing
    BY <1>y, <2>1 DEF Losing
  <2>4. Budget' = Budget + 0
    BY <1>l, <2>1
  <2> HIDE DEF Budget
  <2> QED BY <1>0, <2>1, <2>2, <2>3, <2>4
<1>13. CASE UNCHANGED vars
  <2>1. UNCHANGED <<list, life, poll, hand, chan, accepted, delivered, dead, crashes, closes, faults>>
    BY <1>13 DEF vars, memory, hist, bounds
  <2>2. InPlay \subseteq InPlay' /\ Losing' \subseteq Losing
    BY <2>1 DEF InPlay, Losing
  <2>3. Budget' = Budget + 0
    BY <1>l, <2>1
  <2> HIDE DEF Budget
  <2> QED BY <1>0, <2>1, <2>2, <2>3
<1> QED
  BY <1>1, <1>2, <1>3, <1>4, <1>5, <1>6, <1>7, <1>9, <1>10, <1>11, <1>12, <1>13
     DEF Next, ReplicaStep, PollStep

(* At first nothing is accepted, so nothing is missing.                    *)
LEMMA LossInit == Init => LossInv
<1> SUFFICES ASSUME Init PROVE LossInv
  OBVIOUS
<1>1. Missing = {} /\ Losing = {} /\ OneInHand
  BY DEF Init, All, Missing, Losing, OneInHand
<1>2. crashes = 0 /\ closes = 0 /\ faults = 0 /\ ChanSize \in Nat
  BY RedisAssumption DEF Init
<1>3. Cardinality({}) = 0
  BY FS_EmptySet
<1>4. Cardinality(Missing) + Cardinality(Losing) <= (ChanSize + 1) * crashes + closes + faults
  <2>1. (ChanSize + 1) * 0 = 0
    BY <1>2
  <2> QED BY <1>1, <1>2, <1>3, <2>1
<1> QED BY <1>1, <1>4, TypeInit DEF LossInv

(* Without the logs, a crash of a replica loses its channel and one event  *)
(* at most, a Close and a lost answer of BRPOP one event each: the windows *)
(* of poll (internal/buffer/redis.go) do not add up to more.               *)
THEOREM LossIsBounded == Spec => []LossBounded
<1>1. ASSUME LossInv PROVE LossBounded
  <2>1. Missing \subseteq Events /\ Losing \subseteq Replicas
    BY <1>1 DEF LossInv, TypeInv, TypeOK, Missing, Losing
  <2>2. Cardinality(Missing) \in Nat /\ Cardinality(Losing) \in Nat
    BY <2>1, RedisAssumption, FS_Subset, FS_CardinalityType
  <2>3. crashes \in Nat /\ closes \in Nat /\ faults \in Nat /\ ChanSize \in Nat
    BY <1>1, RedisAssumption DEF LossInv, TypeInv
  <2>4. (ChanSize + 1) * crashes \in Nat
    BY <2>3
  <2> QED BY <1>1, <2>2, <2>3, <2>4 DEF LossInv, LossBounded
<1> QED BY <1>1, LossInit, LossStep, PTL DEF Spec
=============================================================================
