---------------------------- MODULE RedisBuffer ----------------------------
(***************************************************************************)
(* The Redis buffer (internal/buffer/redis.go): replicas of the ingestor   *)
(* share one list.  Each pushes what it accepts, and has a goroutine, poll,*)
(* that pops events into the channel of its own workers.  Every replica    *)
(* has a write-ahead log and a SeqTracker of its own, which the others     *)
(* cannot see.                                                             *)
(*                                                                         *)
(* Service.Push is one step here (Pipeline has its steps), and so is the   *)
(* flush of an event.  Of a log only this matters: does it hold a record   *)
(* of the event that the tracker knows, or one that it does not know.      *)
(***************************************************************************)
EXTENDS Naturals, Sequences, FiniteSets

CONSTANTS
    Events,
    Replicas,
    ChanSize,  \* capacity of the channel, and of the workers' batches
    MaxTrouble \* bound on stops and network faults together

ASSUME RedisAssumption ==
    /\ IsFiniteSet(Events) /\ IsFiniteSet(Replicas)
    /\ ChanSize \in Nat /\ MaxTrouble \in Nat

VARIABLES
    list,      \* the Redis list, the next event to pop first
    life,      \* each replica: "up", "closing", "closed" (its channel) or "down"
    poll,      \* its poll: "call" (in BRPOP), "send" or "ended"
    hand,      \* the event poll has popped
    chan,      \* its channel
    tracked,   \* events with an un-acknowledged record that its tracker knows
    old,       \* events with an un-acknowledged record that it does not know
    todo,      \* replayWAL: recovered events still to push
    \* history
    sent,      \* events a client has sent, each once (Pipeline has retries)
    accepted, delivered, dead,
    crashes, closes, faults

memory == <<poll, hand, chan>>
log    == <<tracked, old>>
hist   == <<sent, accepted, delivered, dead>>
bounds == <<crashes, closes, faults>>
vars == <<list, life, memory, log, todo, hist, bounds>>

All(x) == [r \in Replicas |-> x]
Elems(s) == {s[i] : i \in 1..Len(s)}

Init == /\ list = <<>> /\ life = All("up")
        /\ poll = All("call") /\ hand = All({}) /\ chan = All(<<>>)
        /\ tracked = All({}) /\ old = All({}) /\ todo = All({})
        /\ sent = {} /\ accepted = {} /\ delivered = {} /\ dead = {}
        /\ crashes = 0 /\ closes = 0 /\ faults = 0

-----------------------------------------------------------------------------
(* Service.Push at replica r                                               *)

(* wal.Append and tracker.Store: the number of an earlier record of the    *)
(* event is overwritten.                                                   *)
LogEvent(r, e) == /\ old' = [old EXCEPT ![r] = @ \cup (tracked[r] \cap {e})]
                  /\ tracked' = [tracked EXCEPT ![r] = @ \cup {e}]

(* LoadAndDelete after a failed push.                                      *)
Forget(r, e) == /\ old' = [old EXCEPT ![r] = @ \cup {e}]
                /\ tracked' = [tracked EXCEPT ![r] = @ \ {e}]

LPush(e) == list' = Append(list, e)

Trouble == crashes + closes + faults < MaxTrouble

NetworkFault == Trouble /\ faults' = faults + 1

(* A client's event is logged and put in the list.                         *)
Push(r, e) == /\ life[r] = "up" /\ e \notin sent
              /\ LogEvent(r, e) /\ LPush(e)
              /\ sent' = sent \cup {e} /\ accepted' = accepted \cup {e}
              /\ UNCHANGED <<life, memory, todo, delivered, dead, bounds>>

(* LPUSH reports an error, with or without effect; always once the context *)
(* of the buffer is cancelled.                                             *)
PushFail(r, e) == /\ e \notin sent /\ sent' = sent \cup {e}
                  /\ \/ life[r] = "up" /\ NetworkFault /\ (LPush(e) \/ UNCHANGED list)
                     \/ life[r] \in {"closing", "closed"} /\ UNCHANGED <<list, faults>>
                  /\ Forget(r, e)
                  /\ UNCHANGED <<life, memory, todo, accepted, delivered, dead, crashes, closes>>

(* replayWAL pushes a recovered event, under a new number.                 *)
Replay(r, e) == /\ life[r] = "up" /\ e \in todo[r]
                /\ todo' = [todo EXCEPT ![r] = @ \ {e}]
                /\ \/ LogEvent(r, e) /\ LPush(e) /\ UNCHANGED faults
                   \/ Forget(r, e) /\ NetworkFault /\ (LPush(e) \/ UNCHANGED list)
                /\ UNCHANGED <<life, memory, hist, crashes, closes>>

-----------------------------------------------------------------------------
(* poll                                                                    *)
PollTo(r, s) == /\ poll' = [poll EXCEPT ![r] = s]
                /\ UNCHANGED <<life, log, todo, hist, crashes, closes>>

(* The loop is entered again: BRPOP is called unless the context is done.  *)
Again(r) == PollTo(r, IF life[r] = "up" THEN "call" ELSE "ended")

(* Mutant: the event is read and left in the list.                         *)
Pop_Peek(r) == /\ poll[r] = "call" /\ list # <<>>
               /\ hand' = [hand EXCEPT ![r] = {Head(list)}]
               /\ PollTo(r, "send")
               /\ UNCHANGED <<list, chan, faults>>

(* BRPOP returns an event, even if the context is done by now.             *)
Pop(r) == /\ poll[r] = "call" /\ list # <<>>
          /\ hand' = [hand EXCEPT ![r] = {Head(list)}]
          /\ list' = Tail(list)
          /\ PollTo(r, "send")
          /\ UNCHANGED <<chan, faults>>

(* BRPOP times out on an empty list, or its context is done.               *)
PopNone(r) == /\ poll[r] = "call" /\ (list = <<>> \/ life[r] # "up")
              /\ Again(r)
              /\ UNCHANGED <<list, hand, chan, faults>>

(* BRPOP has taken an event and its answer is lost, or the event cannot be *)
(* unmarshalled.                                                           *)
PopLost(r) == /\ poll[r] = "call" /\ list # <<>> /\ NetworkFault
              /\ list' = Tail(list)
              /\ Again(r)
              /\ UNCHANGED <<hand, chan>>

(* Mutant: a full channel drops the event, as ChannelBuffer.Push does.     *)
Send_OrDrop(r) == /\ poll[r] = "send"
                  /\ \E e \in hand[r] : chan' = [chan EXCEPT ![r] =
                                             IF Len(@) < ChanSize THEN Append(@, e) ELSE @]
                  /\ hand' = [hand EXCEPT ![r] = {}]
                  /\ Again(r)
                  /\ UNCHANGED <<list, faults>>

(* Mutant: the event stays in poll's hand after it is sent.                *)
Send_KeepsHand(r) == /\ poll[r] = "send" /\ Len(chan[r]) < ChanSize
                     /\ \E e \in hand[r] : chan' = [chan EXCEPT ![r] = Append(@, e)]
                     /\ Again(r)
                     /\ UNCHANGED <<list, hand, faults>>

(* The event is sent to the workers.                                       *)
Send(r) == /\ poll[r] = "send" /\ Len(chan[r]) < ChanSize
           /\ \E e \in hand[r] : chan' = [chan EXCEPT ![r] = Append(@, e)]
           /\ hand' = [hand EXCEPT ![r] = {}]
           /\ Again(r)
           /\ UNCHANGED <<list, faults>>

(* The context is done: poll returns, with the event, room or not.         *)
SendQuit(r) == /\ poll[r] = "send" /\ life[r] # "up"
               /\ hand' = [hand EXCEPT ![r] = {}]
               /\ PollTo(r, "ended")
               /\ UNCHANGED <<list, chan, faults>>

PollStep(r) == Pop(r) \/ PopNone(r) \/ Send(r) \/ SendQuit(r)

-----------------------------------------------------------------------------
(* A worker of r has the next event.                                       *)
Receive(r) == /\ chan[r] # <<>>
              /\ chan' = [chan EXCEPT ![r] = Tail(@)]
              /\ UNCHANGED <<list, life, poll, hand, todo, sent, accepted, bounds>>

(* It delivers the event and acknowledges the record its tracker knows, if *)
(* this replica has one.                                                   *)
Deliver(r) == /\ Receive(r)
              /\ delivered' = delivered \cup {Head(chan[r])}
              /\ tracked' = [tracked EXCEPT ![r] = @ \ {Head(chan[r])}]
              /\ UNCHANGED <<old, dead>>

(* Mutant: a dead-lettered event is acknowledged.                          *)
GiveUp_Acks(r) == /\ Receive(r)
                  /\ dead' = dead \cup {Head(chan[r])}
                  /\ tracked' = [tracked EXCEPT ![r] = @ \ {Head(chan[r])}]
                  /\ UNCHANGED <<old, delivered>>

(* It gives up on the event: dead-lettered, not acknowledged.              *)
GiveUp(r) == /\ Receive(r)
             /\ dead' = dead \cup {Head(chan[r])}
             /\ UNCHANGED <<log, delivered>>

-----------------------------------------------------------------------------
(* Stops and starts                                                        *)

(* RedisBuffer.Close cancels the context ...                               *)
Cancel(r) == /\ life[r] = "up" /\ Trouble
             /\ life' = [life EXCEPT ![r] = "closing"]
             /\ closes' = closes + 1
             /\ UNCHANGED <<list, memory, log, todo, hist, crashes, faults>>

(* Mutant: Close does not wait for poll.                                   *)
CloseChan_NoWait(r) ==
    /\ life[r] = "closing"
    /\ life' = [life EXCEPT ![r] = "closed"]
    /\ UNCHANGED <<list, memory, log, todo, hist, bounds>>

(* ... waits for poll, and closes the channel.                             *)
CloseChan(r) == /\ life[r] = "closing" /\ poll[r] = "ended"
                /\ life' = [life EXCEPT ![r] = "closed"]
                /\ UNCHANGED <<list, memory, log, todo, hist, bounds>>

(* The process is gone: its memory with it, and with the tracker the       *)
(* knowledge of its records.                                               *)
Stop(r) == /\ life' = [life EXCEPT ![r] = "down"]
           /\ poll' = [poll EXCEPT ![r] = "ended"] /\ hand' = [hand EXCEPT ![r] = {}]
           /\ chan' = [chan EXCEPT ![r] = <<>>] /\ todo' = [todo EXCEPT ![r] = {}]
           /\ old' = [old EXCEPT ![r] = @ \cup tracked[r]]
           /\ tracked' = [tracked EXCEPT ![r] = {}]
           /\ UNCHANGED <<hist, closes, faults>>

(* The workers have emptied the closed channel.                            *)
Exit(r) == /\ life[r] = "closed" /\ chan[r] = <<>>
           /\ Stop(r)
           /\ UNCHANGED <<list, crashes>>

(* The process dies, perhaps with the answer to its BRPOP on the way, or   *)
(* its shutdown is forced and leaves events in the closed channel.         *)
Crash(r) == /\ life[r] # "down" /\ Trouble
            /\ Stop(r)
            /\ crashes' = crashes + 1
            /\ \/ UNCHANGED list
               \/ poll[r] = "call" /\ list # <<>> /\ list' = Tail(list)

(* NewRedisBuffer; replayWAL recovers the log.                             *)
Start(r) == /\ life[r] = "down"
            /\ life' = [life EXCEPT ![r] = "up"]
            /\ poll' = [poll EXCEPT ![r] = "call"]
            /\ todo' = [todo EXCEPT ![r] = old[r]]
            /\ UNCHANGED <<list, hand, chan, log, hist, bounds>>

ReplicaStep(r) == \/ PollStep(r) \/ Deliver(r) \/ GiveUp(r) \/ CloseChan(r) \/ Exit(r)
                  \/ Start(r) \/ \E e \in Events : Replay(r, e)

Next == \E r \in Replicas :
            \/ ReplicaStep(r) \/ PopLost(r) \/ Cancel(r) \/ Crash(r)
            \/ \E e \in Events : Push(r, e) \/ PushFail(r, e)

Spec == Init /\ [][Next]_vars

(* The goroutines of a replica keep running (poll, the workers, Close,     *)
(* the replay) and a supervisor starts it again.                           *)
Fairness == \A r \in Replicas :
    /\ WF_vars(PollStep(r)) /\ WF_vars(Deliver(r) \/ GiveUp(r))
    /\ WF_vars(CloseChan(r)) /\ WF_vars(Exit(r)) /\ WF_vars(Start(r))
    /\ WF_vars(\E e \in Events : Replay(r, e))

FairSpec == Spec /\ Fairness

-----------------------------------------------------------------------------
(* Types; no channel holds more than its capacity, and poll has an event   *)
(* in hand exactly while it sends.                                         *)
TypeOK == /\ list \in Seq(Events)
          /\ life \in [Replicas -> {"up", "closing", "closed", "down"}]
          /\ poll \in [Replicas -> {"call", "send", "ended"}]
          /\ hand \in [Replicas -> SUBSET Events]
          /\ \A r \in Replicas : hand[r] # {} <=> poll[r] = "send"
          /\ chan \in [Replicas -> Seq(Events)]
          /\ \A r \in Replicas : Len(chan[r]) <= ChanSize
          /\ tracked \in [Replicas -> SUBSET Events] /\ old \in [Replicas -> SUBSET Events]
          /\ todo \in [Replicas -> SUBSET Events]
          /\ sent \subseteq Events /\ accepted \subseteq sent
          /\ delivered \subseteq sent /\ dead \subseteq sent
          /\ {crashes, closes, faults} \subseteq 0..MaxTrouble

InPlay == Elems(list) \cup UNION {hand[r] \cup Elems(chan[r]) : r \in Replicas}

(* Accepted events that are on their way nowhere.                          *)
Missing == accepted \ (delivered \cup dead \cup InPlay)

(* With the logs on, an accepted event is delivered or in a log for a      *)
(* restart, whichever replica popped it and whichever stops: no replica    *)
(* releases the record of another.                                         *)
LoggedOrDelivered ==
    accepted \subseteq delivered \cup UNION {tracked[r] \cup old[r] : r \in Replicas}

(* What the buffer loses without the help of a log is bounded: the event   *)
(* in poll's hand for a Close, the channel as well for a crash, one event  *)
(* for a lost answer of BRPOP.                                             *)
LossBounded == Cardinality(Missing) <= (ChanSize + 1) * crashes + closes + faults

(* Nothing is sent to a channel that Close has closed (the send would      *)
(* panic), although poll may be inside BRPOP when Close is called.         *)
NoSendAfterClose ==
    [][\A r \in Replicas : life[r] = "closed" => Len(chan'[r]) <= Len(chan[r])]_vars

(* An accepted event does not wait for ever: some replica's worker gets    *)
(* it, unless it goes missing on the way.                                  *)
NoEventWaits == \A e \in Events : e \in accepted ~> e \in delivered \cup dead \cup Missing
=============================================================================
