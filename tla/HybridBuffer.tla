---------------------------- MODULE HybridBuffer ----------------------------
(***************************************************************************)
(* The hybrid buffer (internal/buffer/hybrid.go): a channel that spills to *)
(* a DiskQueue, the pump goroutine that refills the channel from it, the   *)
(* callers of Push and the workers that receive, over crashes, a graceful  *)
(* Close and restarts.                                                     *)
(***************************************************************************)
EXTENDS DiskQueue

CONSTANTS
    Pushers,    \* goroutines that call Push
    MemSize,    \* the capacity of the channel
    MaxCrashes  \* bound on restarts

ASSUME HybridAssumption == MemSize \in Nat \ {0} /\ MaxCrashes \in Nat

VARIABLES
    up,        \* a process runs
    chan,      \* the channel
    quit,      \* Close has closed h.quit
    pump,      \* "wait", "batch", "taken", "hand", "drain", "dtaken", "dhand", "ended",
               \* and "closed" when Close has closed the queue as well
    hand,      \* the event the pump has taken from the disk and not sent yet
    ppc, pev,  \* each Push: "idle", "direct" or "spill", and its event
    \* history
    offered,   \* events passed to Push
    pushed,    \* events whose Push returned nil in the running process
    consumed,  \* events the workers received
    dropped,   \* events the pump took from the disk and let go, in this process
    crashes

hvars == <<up, chan, quit, pump, hand, ppc, pev, offered, pushed, consumed, dropped,
           crashes>>
vars  == <<qvars, hvars>>

Init == /\ QInit
        /\ up = TRUE /\ chan = <<>> /\ quit = FALSE
        /\ pump = "wait" /\ hand = {}
        /\ ppc = [p \in Pushers |-> "idle"] /\ pev = [p \in Pushers |-> {}]
        /\ offered = {} /\ pushed = {} /\ consumed = {} /\ dropped = {} /\ crashes = 0

-----------------------------------------------------------------------------
(* Push looks at IsEmpty, without the mutex.                               *)
Look(p, e) == /\ up /\ ppc[p] = "idle" /\ e \notin offered
              /\ offered' = offered \cup {e}
              /\ ppc' = [ppc EXCEPT ![p] = IF count <= 0 THEN "direct" ELSE "spill"]
              /\ pev' = [pev EXCEPT ![p] = {e}]
              /\ UNCHANGED <<qvars, up, chan, quit, pump, hand, pushed, consumed, dropped,
                             crashes>>

Return(p) == /\ ppc' = [ppc EXCEPT ![p] = "idle"]
             /\ pev' = [pev EXCEPT ![p] = {}]
             /\ pushed' = pushed \cup pev[p]
             /\ UNCHANGED <<up, quit, pump, hand, offered, consumed, dropped, crashes>>

(* Mutant: the channel takes the event whether or not it has room.         *)
Direct_Unbounded(p) == /\ ppc[p] = "direct"
                       /\ \E e \in pev[p] : chan' = Append(chan, e)
                       /\ Return(p)
                       /\ UNCHANGED qvars

(* The pump has closed the channel.                                        *)
ChanClosed == pump \in {"ended", "closed"}

(* The queue was empty and the channel has room.                           *)
Direct(p) == /\ ppc[p] = "direct" /\ Len(chan) < MemSize /\ ~ChanClosed
             /\ \E e \in pev[p] : chan' = Append(chan, e)
             /\ Return(p)
             /\ UNCHANGED qvars

(* The queue was empty, the channel is full.                               *)
ChanFull(p) == /\ ppc[p] = "direct" /\ Len(chan) >= MemSize /\ ~ChanClosed
               /\ ppc' = [ppc EXCEPT ![p] = "spill"]
               /\ UNCHANGED <<qvars, up, chan, quit, pump, hand, pev, offered, pushed,
                              consumed, dropped, crashes>>

Spill(p) == /\ ppc[p] = "spill" /\ pump # "closed"
            /\ \E e \in pev[p] : Enqueue(e)
            /\ Return(p)
            /\ UNCHANGED chan

(* Push does not accept the event: Enqueue fails, of necessity once the    *)
(* queue is closed, or the send on the closed channel panics.              *)
Refuse(p) == /\ \/ /\ ppc[p] = "spill"
                   /\ IF pump = "closed" THEN UNCHANGED qvars
                                         ELSE \E e \in pev[p] : EnqueueFail(e)
                \/ ppc[p] = "direct" /\ ChanClosed /\ UNCHANGED qvars
             /\ ppc' = [ppc EXCEPT ![p] = "idle"]
             /\ pev' = [pev EXCEPT ![p] = {}]
             /\ UNCHANGED <<up, chan, quit, pump, hand, offered, pushed, consumed, dropped,
                            crashes>>

-----------------------------------------------------------------------------
PumpTo(s) == /\ pump' = s
             /\ UNCHANGED <<up, quit, ppc, pev, offered, pushed, consumed, crashes>>

(* The ticker fires: pumpBatch.                                            *)
PumpTick == /\ pump = "wait" /\ count > 0
            /\ PumpTo("batch")
            /\ UNCHANGED <<qvars, chan, hand, dropped>>

(* pumpBatch returns: the queue is empty, the channel full, or Dequeue     *)
(* reports an error.                                                       *)
PumpRest == /\ pump = "batch"
            /\ count <= 0 \/ Len(chan) >= MemSize \/ (dpc = "free" /\ ~HasNext)
            /\ PumpTo("wait")
            /\ UNCHANGED <<qvars, chan, hand, dropped>>

(* Dequeue, in pumpBatch or in drainOverflow.                              *)
PumpTake == /\ \/ pump = "batch" /\ count > 0 /\ Len(chan) < MemSize /\ PumpTo("taken")
               \/ pump = "drain" /\ PumpTo("dtaken")
            /\ Take
            /\ hand' = {Next1}
            /\ UNCHANGED <<chan, dropped>>

(* The rest of Dequeue; when it is done the pump has the event.            *)
PumpCompact == /\ pump \in {"taken", "dtaken"}
               /\ CompactStep
               /\ PumpTo(IF dpc' # "free" THEN pump
                         ELSE IF pump = "taken" THEN "hand" ELSE "dhand")
               /\ UNCHANGED <<chan, hand, dropped>>

(* The pump sends the event.                                               *)
PumpSend == /\ \/ pump = "hand" /\ PumpTo("batch")
               \/ pump = "dhand" /\ PumpTo("drain")
            /\ Len(chan) < MemSize
            /\ \E e \in hand : chan' = Append(chan, e)
            /\ hand' = {}
            /\ UNCHANGED <<qvars, dropped>>

(* The event in hand is neither sent nor put back.                         *)
LetGo == /\ dropped' = dropped \cup hand
         /\ hand' = {}
         /\ UNCHANGED <<qvars, chan>>

(* Mutant: pumpBatch gives up on a full channel as drainOverflow does.     *)
PumpQuit_Full == /\ pump = "hand" /\ Len(chan) >= MemSize
                 /\ PumpTo("wait")
                 /\ LetGo

(* pumpBatch sees quit while it waits to send: the event is not sent.      *)
PumpQuit == /\ pump = "hand" /\ quit
            /\ PumpTo("wait")
            /\ LetGo

(* The pump sees quit between batches: drainOverflow.                      *)
PumpDrain == /\ pump = "wait" /\ quit
             /\ PumpTo("drain")
             /\ UNCHANGED <<qvars, chan, hand, dropped>>

(* drainOverflow ends: nothing more to dequeue, or no room for the event   *)
(* in hand.  The channel is closed behind it.                              *)
PumpEnd == /\ \/ pump = "drain" /\ dpc = "free" /\ ~HasNext
              \/ pump = "dhand" /\ Len(chan) >= MemSize
           /\ PumpTo("ended")
           /\ LetGo

(* pump has returned, and Close closes the queue.                          *)
CloseQueue == /\ pump = "ended"
              /\ PumpTo("closed")
              /\ UNCHANGED <<qvars, chan, hand, dropped>>

PumpStep == \/ PumpTick \/ PumpRest \/ PumpTake \/ PumpCompact \/ PumpSend
            \/ PumpQuit \/ PumpDrain \/ PumpEnd \/ CloseQueue

-----------------------------------------------------------------------------
(* A worker receives.                                                      *)
Consume == /\ chan # <<>>
           /\ consumed' = consumed \cup {Head(chan)}
           /\ chan' = Tail(chan)
           /\ UNCHANGED <<qvars, up, quit, pump, hand, ppc, pev, offered, pushed, dropped,
                          crashes>>

(* Close.  Past the deadline of the shutdown calls of Push may be in       *)
(* progress, and a replay of dead letters makes new ones.                  *)
Close == /\ up /\ ~quit
         /\ quit' = TRUE
         /\ UNCHANGED <<qvars, up, chan, pump, hand, ppc, pev, offered, pushed, consumed, dropped,
                        crashes>>

(* The process dies: channel, hand and calls with it.                      *)
Die == /\ up /\ crashes < MaxCrashes
       /\ up' = FALSE /\ chan' = <<>> /\ quit' = FALSE /\ pump' = "off" /\ hand' = {}
       /\ ppc' = [p \in Pushers |-> "idle"] /\ pev' = [p \in Pushers |-> {}]
       /\ pushed' = {} /\ dropped' = {}
       /\ crashes' = crashes + 1
       /\ UNCHANGED <<offered, consumed>>

Crash == Die /\ CrashQueue

(* NewHybridBuffer on the files of an earlier process.                     *)
Start == /\ ~up
         /\ LoadQueue
         /\ up' = TRUE /\ pump' = "wait"
         /\ UNCHANGED <<chan, quit, hand, ppc, pev, offered, pushed, consumed, dropped, crashes>>

PushStep(p) == Direct(p) \/ ChanFull(p) \/ Spill(p) \/ Refuse(p)

Next == \/ \E p \in Pushers : PushStep(p) \/ \E e \in Events : Look(p, e)
        \/ PumpStep \/ Consume \/ Close \/ Crash \/ Start

Spec == Init /\ [][Next]_vars

(* The pump's ticker keeps firing and the workers keep receiving; calls of *)
(* Push run to their end.                                                  *)
Fairness == /\ WF_vars(PumpStep) /\ WF_vars(Consume) /\ WF_vars(Start)
            /\ \A p \in Pushers : WF_vars(PushStep(p))

FairSpec == Spec /\ Fairness

-----------------------------------------------------------------------------
InChan == {chan[i] : i \in 1..Len(chan)}

(* The types of the state; the channel never holds more than its capacity, *)
(* and the offset never leaves the file.                                   *)
TypeOK == /\ file \in Seq(Events \cup {Torn}) /\ tail \in Seq(Events \cup {Torn})
          /\ offFile \in Nat /\ readOff \in 0..Len(file)
          /\ count \in Int
          /\ dpc \in {"free", "store", "truncate", "copy", "persist"}
          /\ stale \in BOOLEAN /\ overwritten \subseteq offered \cup {Torn}
          /\ up \in BOOLEAN /\ quit \in BOOLEAN
          /\ chan \in Seq(Events) /\ Len(chan) <= MemSize
          /\ pump \in {"off", "wait", "batch", "taken", "hand", "drain", "dtaken", "dhand",
                       "ended", "closed"}
          /\ hand \subseteq Events
          /\ ppc \in [Pushers -> {"idle", "direct", "spill"}]
          /\ pev \in [Pushers -> SUBSET Events]
          /\ offered \subseteq Events /\ pushed \subseteq offered /\ consumed \subseteq offered
          /\ dropped \subseteq offered
          /\ crashes \in 0..MaxCrashes

(* In a running process an event whose Push succeeded is received by a     *)
(* worker, in the channel, in the pump's hand or unread on disk: neither   *)
(* the unguarded IsEmpty nor a compaction that succeeds loses one, nor a   *)
(* Push that overlaps Close.  The exceptions are the frames that a failed  *)
(* compaction overwrote, and what the pump lets go because Close has been  *)
(* called: the one event that drainOverflow has no room for, and one for   *)
(* each tick that the select of pump prefers to quit.                      *)
NoLossWhileUp ==
    up => /\ pushed \subseteq consumed \cup InChan \cup hand \cup Unread \cup dropped
                              \cup overwritten
          /\ ~quit => dropped = {}

(* What Dequeue can still return is what it can return after a restart,    *)
(* except from the end of a compaction on until its offset, or a later     *)
(* one, is stored (persistOffset ignores errors, so that may take any      *)
(* number of steps: a restart skips frames spilled below the stale         *)
(* offset), and except where a compaction that failed has torn frames      *)
(* between the stored offset and the one in memory.                        *)
SpillSurvives ==
    LET k == Least(offFile, Len(file))
    IN  up /\ dpc # "persist" /\ ~stale /\ (\A i \in (k + 1)..readOff : file[i] # Torn)
            => Readable(readOff) \subseteq Readable(k)

(* The counter that IsEmpty reads without the mutex agrees with the        *)
(* offsets, through every compaction and after every restart, unless there *)
(* is a torn frame to be read, or was until a failed compaction.           *)
CountAgrees == up /\ Intact(readOff) /\ overwritten = {} => count = Len(file) - readOff

(* A spilled event that no torn frame precedes reaches the workers, unless *)
(* the process dies or is closed first, or a failed compaction overwrites  *)
(* unread frames.                                                          *)
Drains(e) == (up /\ e \in Readable(readOff))
                 ~> (e \in consumed \/ ~up \/ quit \/ overwritten # {})
=============================================================================
