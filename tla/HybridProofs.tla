---------------------------- MODULE HybridProofs ----------------------------
(***************************************************************************)
(* What HybridBuffer promises for any number of events, pushers, crashes,  *)
(* any capacity of the channel and any threshold of the compaction.        *)
(***************************************************************************)
EXTENDS HybridBuffer, TLAPS

Frame == Events \cup {Torn}

(* The frames behind writeOffset.                                          *)
Remains == {tail[i] : i \in 1..Len(tail)}

(* The disk queue by itself: its types, and where Dequeue is.              *)
QueueTypes == /\ file \in Seq(Frame) /\ tail \in Seq(Frame)
              /\ offFile \in Nat /\ readOff \in Nat /\ readOff <= Len(file)
              /\ count \in Int
              /\ dpc \in {"free", "store", "truncate", "copy", "persist"}
              /\ stale \in BOOLEAN

Phases == /\ dpc = "truncate" => readOff = Len(file)
          /\ dpc = "persist" => readOff = 0

QueueInv == QueueTypes /\ Phases

(* The stored offset is never ahead of the one in memory, nor beyond the   *)
(* end of the file, unless a compaction has still to store it or could not.*)
Offsets == ~stale /\ dpc # "persist" => /\ offFile <= Len(file)
                                        /\ up => offFile <= readOff

(* The process: its types, and what the pump holds.  One frame is in the   *)
(* pump's hand from the moment Dequeue has read it; nobody else has the    *)
(* mutex until Dequeue is done.                                            *)
ProcTypes == /\ up \in BOOLEAN /\ quit \in BOOLEAN
             /\ chan \in Seq(Events) /\ Len(chan) <= MemSize
             /\ pump \in {"off", "wait", "batch", "taken", "hand", "drain", "dtaken", "dhand",
                          "ended", "closed"}
             /\ hand \subseteq Events
             /\ ppc \in [Pushers -> {"idle", "direct", "spill"}]
             /\ pev \in [Pushers -> SUBSET Events]
             /\ offered \subseteq Events /\ pushed \subseteq offered /\ consumed \subseteq offered
             /\ dropped \subseteq offered
             /\ crashes \in 0..MaxCrashes

PumpInv == /\ dpc # "free" <=> pump \in {"taken", "dtaken"}
           /\ hand # {} <=> pump \in {"taken", "dtaken", "hand", "dhand"}
           /\ \A d, e \in hand : d = e
           /\ \A p \in Pushers : \A d, e \in pev[p] : d = e
           /\ pump \in {"drain", "dtaken", "dhand", "ended", "closed"} => quit

(* A process that is not up has nothing.                                   *)
DownInv == /\ pump = "off" <=> ~up
           /\ ~up => /\ readOff = 0 /\ count = 0 /\ chan = <<>> /\ pushed = {} /\ dropped = {}
                     /\ overwritten = {} /\ \A p \in Pushers : ppc[p] = "idle"

(* Whatever the buffer holds was passed to Push.                           *)
Sourced == /\ From(0) \cup Remains \cup overwritten \subseteq offered \cup {Torn}
           /\ InChan \subseteq offered /\ hand \subseteq offered
           /\ \A p \in Pushers : pev[p] \subseteq offered

HybridInv == /\ QueueInv /\ Offsets
             /\ ProcTypes /\ PumpInv /\ DownInv /\ Sourced
             /\ CountAgrees /\ NoLossWhileUp

-----------------------------------------------------------------------------
(* The operations of the disk queue.                                       *)

LEMMA EnqueueFacts ==
    ASSUME QueueInv, NEW e \in Events, Enqueue(e)
    PROVE  /\ QueueInv' /\ dpc = "free" /\ Len(file') = Len(file) + 1 /\ count' = count + 1
           /\ Unread' = Unread \cup {e} /\ From(0)' = From(0) \cup {e}
           /\ Remains' \subseteq {Torn}
           /\ UNCHANGED <<offFile, readOff, dpc, stale, overwritten>>
<1> DEFINE f == Append(file, e)
<1>y. file \in Seq(Frame) /\ Len(file) \in Nat /\ readOff \in Nat /\ readOff <= Len(file)
  BY DEF QueueInv, QueueTypes
<1>1. /\ f \in Seq(Frame) /\ Len(f) = Len(file) + 1 /\ f[Len(file) + 1] = e
      /\ \A i \in 1..Len(file) : f[i] = file[i]
  BY <1>y DEF Frame
<1>2. /\ file' = f /\ dpc = "free" /\ count' = count + 1
      /\ tail' \in {<<>>, <<Torn>>} /\ UNCHANGED <<offFile, readOff, dpc, stale, overwritten>>
  BY DEF Enqueue
<1>6. tail' \in Seq(Frame) /\ Remains' \subseteq {Torn}
  <2>1. CASE tail' = <<>>
    BY <2>1 DEF Remains
  <2>2. CASE tail' = <<Torn>>
    <3>1. Torn \in Frame
      BY DEF Frame
    <3>2. Len(<<Torn>>) = 1 /\ <<Torn>>[1] = Torn /\ <<Torn>> \in Seq(Frame)
      BY <3>1
    <3> QED BY <2>2, <3>2 DEF Remains
  <2> QED BY <1>2, <2>1, <2>2
<1> HIDE DEF f
<1>3. ASSUME NEW k \in Nat, k <= Len(file)
      PROVE  {f[i] : i \in (k + 1)..Len(f)} = {file[i] : i \in (k + 1)..Len(file)} \cup {e}
  <2>1. (k + 1)..Len(f) = (k + 1)..Len(file) \cup {Len(file) + 1}
    BY <1>y, <1>1, <1>3
  <2>2. \A i \in (k + 1)..Len(file) : i \in 1..Len(file)
    BY <1>y, <1>3
  <2> QED BY <1>1, <2>1, <2>2
<1>4. Unread' = Unread \cup {e} /\ From(0)' = From(0) \cup {e}
  <2>1. 0 \in Nat /\ 0 <= Len(file)
    BY <1>y
  <2>2. {f[i] : i \in (0 + 1)..Len(f)} = {file[i] : i \in (0 + 1)..Len(file)} \cup {e}
    BY <1>3, <2>1
  <2>3. {f[i] : i \in (readOff + 1)..Len(f)}
            = {file[i] : i \in (readOff + 1)..Len(file)} \cup {e}
    BY <1>3, <1>y
  <2>4. From(0)' = {f[i] : i \in (0 + 1)..Len(f)}
    BY <1>2 DEF From
  <2>5. Unread' = {f[i] : i \in (readOff + 1)..Len(f)} /\ Unread = From(readOff)
    BY <1>2 DEF Unread, From
  <2> QED BY <2>2, <2>3, <2>4, <2>5 DEF From
<1>5. QueueInv'
  BY <1>y, <1>1, <1>2, <1>6 DEF QueueInv, QueueTypes, Phases
<1> QED BY <1>1, <1>2, <1>4, <1>5, <1>6

(* What a failed Enqueue leaves behind.                                    *)
LEMMA EnqueueFailFacts ==
    ASSUME QueueInv, NEW e \in Events, EnqueueFail(e)
    PROVE  /\ tail' \in Seq(Frame) /\ Remains' \subseteq Remains \cup {Torn, e}
           /\ UNCHANGED <<file, offFile, readOff, count, dpc, stale, overwritten>>
<1>1. /\ tail' \in {tail, <<Torn>>, <<e>>, <<e, Torn>>} /\ tail \in Seq(Frame)
      /\ UNCHANGED <<file, offFile, readOff, count, dpc, stale, overwritten>>
  BY DEF EnqueueFail, QueueInv, QueueTypes
<1>2. Torn \in Frame /\ e \in Frame
  BY DEF Frame
<1>3. ASSUME NEW x \in Frame, tail' = <<x>> PROVE tail' \in Seq(Frame) /\ Remains' = {x}
  <2>1. Len(<<x>>) = 1 /\ <<x>>[1] = x /\ <<x>> \in Seq(Frame)
    OBVIOUS
  <2> QED BY <1>3, <2>1 DEF Remains
<1>4. ASSUME tail' = <<e, Torn>> PROVE tail' \in Seq(Frame) /\ Remains' \subseteq {e, Torn}
  <2>1. /\ Len(<<e, Torn>>) = 2 /\ <<e, Torn>>[1] = e /\ <<e, Torn>>[2] = Torn
        /\ <<e, Torn>> \in Seq(Frame) /\ 1..2 = {1, 2}
    BY <1>2
  <2> QED BY <1>4, <2>1 DEF Remains
<1>5. ASSUME tail' = tail PROVE tail' \in Seq(Frame) /\ Remains' = Remains
  BY <1>1, <1>5 DEF Remains
<1> QED BY <1>1, <1>2, <1>3, <1>4, <1>5

(* What Dequeue leaves in the file and in memory.                          *)
LEMMA TakeFacts ==
    ASSUME QueueInv, Take
    PROVE  /\ QueueInv' /\ dpc = "free" /\ dpc' = "store"
           /\ readOff' = readOff + 1 /\ count' = count - 1
           /\ Next1 \in Events /\ Next1 \in From(0)
           /\ Unread = Unread' \cup {Next1} /\ From(0)' = From(0)
           /\ UNCHANGED <<file, tail, offFile, stale, overwritten>>
<1>y. file \in Seq(Frame) /\ Len(file) \in Nat /\ readOff \in Nat /\ readOff <= Len(file)
  BY DEF QueueInv, QueueTypes
<1>1. /\ dpc = "free" /\ dpc' = "store" /\ readOff < Len(file) /\ file[readOff + 1] # Torn
      /\ readOff' = readOff + 1 /\ count' = count - 1 /\ UNCHANGED <<file, tail, offFile, stale, overwritten>>
  BY DEF Take, HasNext
<1>2. readOff + 1 \in 1..Len(file)
  BY <1>y, <1>1
<1>3. Next1 \in Events /\ Next1 \in From(0)
  <2>1. file[readOff + 1] \in Frame
    BY <1>y, <1>2
  <2> QED BY <1>1, <1>2, <2>1 DEF Next1, From, Frame
<1>4. Unread = Unread' \cup {Next1}
  <2>1. (readOff + 1)..Len(file) = ((readOff + 1) + 1)..Len(file) \cup {readOff + 1}
    BY <1>y, <1>2
  <2>2. Unread = {file[i] : i \in (readOff + 1)..Len(file)}
        /\ Unread' = {file[i] : i \in ((readOff + 1) + 1)..Len(file)}
    BY <1>1 DEF Unread, From
  <2> QED BY <2>1, <2>2 DEF Next1
<1>5. QueueInv'
  BY <1>y, <1>1, <1>2 DEF QueueInv, QueueTypes, Phases
<1> QED BY <1>1, <1>3, <1>4, <1>5 DEF From

(* What a compaction that failed, or was cut off, can make of the file.    *)
LEMMA HalfCopiedFacts ==
    ASSUME QueueInv, NEW f \in HalfCopied
    PROVE  /\ f \in Seq(Frame) /\ Len(f) = Len(file)
           /\ \A i \in 1..Len(file) : f[i] \in From(0) \cup {Torn}
<1>y. /\ file \in Seq(Frame) /\ Len(file) \in Nat /\ readOff \in Nat /\ readOff <= Len(file)
  BY DEF QueueInv, QueueTypes
<1>1. \A i \in 1..Len(file) : file[i] \in From(0) /\ file[i] \in Frame
  <2>1. ASSUME NEW i \in 1..Len(file) PROVE i \in (0 + 1)..Len(file)
    BY <1>y
  <2> QED BY <1>y, <2>1 DEF From
<1>2. Torn \in Frame
  BY DEF Frame
<1>3. ASSUME f \in [1..Len(file) -> Frame] PROVE f \in Seq(Frame) /\ Len(f) = Len(file)
  BY <1>y, <1>3
<1>4. CASE \E n \in 0..Len(file) : f = [i \in 1..Len(file) |-> IF i <= n THEN Torn ELSE file[i]]
  <2>1. \A i \in 1..Len(file) : f[i] \in {Torn, file[i]}
    BY <1>4
  <2>2. f \in [1..Len(file) -> Frame]
    BY <1>1, <1>2, <1>4
  <2> QED BY <1>1, <1>3, <2>1, <2>2
<1>5. CASE \E n \in 0..(Len(file) - readOff) :
              f = [i \in 1..Len(file) |-> IF i <= n THEN file[readOff + i] ELSE file[i]]
  <2>1. PICK n \in 0..(Len(file) - readOff) :
            f = [i \in 1..Len(file) |-> IF i <= n THEN file[readOff + i] ELSE file[i]]
    BY <1>5
  <2>2. ASSUME NEW i \in 1..Len(file) PROVE f[i] \in From(0) /\ f[i] \in Frame
    <3>1. CASE i <= n
      <4>1. readOff + i \in 1..Len(file)
        BY <1>y, <2>1, <3>1
      <4> QED BY <1>1, <2>1, <3>1, <4>1
    <3>2. CASE ~(i <= n)
      BY <1>1, <2>1, <3>2
    <3> QED BY <3>1, <3>2
  <2>3. f \in [1..Len(file) -> Frame]
    BY <2>1, <2>2
  <2> QED BY <1>3, <2>2, <2>3
<1> QED BY <1>4, <1>5 DEF HalfCopied

(* A step of compact keeps the number of unread frames, and every unread   *)
(* frame that it does not report as overwritten.                           *)
LEMMA CompactFacts ==
    ASSUME QueueInv, CompactStep
    PROVE  /\ QueueInv' /\ dpc # "free" /\ count' = count
           /\ Len(file') - readOff' = Len(file) - readOff
           /\ From(0)' \subseteq From(0) \cup {Torn} /\ Remains' \subseteq Remains
           /\ overwritten \subseteq overwritten' /\ overwritten' \subseteq overwritten \cup From(0)
           /\ Unread \subseteq Unread' \cup overwritten'
<1>y. /\ file \in Seq(Frame) /\ Len(file) \in Nat /\ readOff \in Nat /\ readOff <= Len(file)
      /\ offFile \in Nat /\ stale \in BOOLEAN /\ tail \in Seq(Frame)
  BY DEF QueueInv, QueueTypes
<1>e. <<>> \in Seq(Frame) /\ Len(<<>>) = 0 /\ 1..0 = {}
  OBVIOUS
<1>r. ASSUME tail' = <<>> PROVE tail' \in Seq(Frame) /\ Remains' = {}
  BY <1>e, <1>r DEF Remains
<1>1. CASE StoreOffset
  <2>a. offFile' \in {readOff, 0, offFile} /\ (stale' = FALSE \/ stale' = stale)
    BY <1>1 DEF StoreOffset
  <2>b. offFile' \in Nat
    BY <1>y, <2>a
  <2>0. offFile' \in Nat /\ stale' \in BOOLEAN
    BY <1>y, <2>a, <2>b, Zenon
  <2>1. /\ dpc = "store" /\ dpc' \in {"truncate", "copy", "free"}
        /\ dpc' = "truncate" => readOff >= Len(file)
        /\ UNCHANGED <<file, tail, readOff, count, overwritten>>
    BY <1>1 DEF StoreOffset
  <2>2. QueueInv'
    BY <1>y, <2>0, <2>1 DEF QueueInv, QueueTypes, Phases
  <2>3. Unread' = Unread /\ From(0)' = From(0) /\ Remains' = Remains
    BY <2>1 DEF Unread, From, Remains
  <2> QED BY <2>1, <2>2, <2>3
<1>2. CASE Truncate
  <2>1. /\ dpc = "truncate" /\ dpc' = "persist" /\ file' = <<>> /\ tail' = <<>> /\ readOff' = 0
        /\ UNCHANGED <<offFile, count, stale, overwritten>>
    BY <1>2 DEF Truncate
  <2>2. readOff = Len(file)
    BY <2>1 DEF QueueInv, Phases
  <2>4. QueueInv'
    BY <2>1, <1>e, <1>r DEF QueueInv, QueueTypes, Phases
  <2>5. Unread = {} /\ From(0)' = {}
    <3>1. (readOff + 1)..Len(file) = {}
      BY <1>y, <2>2
    <3>2. (0 + 1)..Len(<<>>) = {}
      BY <1>e
    <3> QED BY <2>1, <3>1, <3>2 DEF Unread, From
  <2> QED BY <1>y, <1>e, <1>r, <2>1, <2>2, <2>4, <2>5
<1>3. CASE Compact
  <2> DEFINE m == Len(file) - readOff
             f == SubSeq(file, readOff + 1, Len(file))
  <2>1. /\ dpc = "copy" /\ dpc' = "persist" /\ file' = f /\ tail' = <<>> /\ readOff' = 0
        /\ UNCHANGED <<offFile, count, stale, overwritten>>
    BY <1>3 DEF Compact
  <2>2. m \in Nat /\ \A i \in 1..m : readOff + i \in (readOff + 1)..Len(file)
                                     /\ readOff + i \in (0 + 1)..Len(file)
    BY <1>y
  <2>3. f \in Seq(Frame) /\ Len(f) = m /\ \A i \in 1..m : f[i] = file[readOff + i]
    BY <1>y, <2>2
  <2> HIDE DEF f
  <2>4. QueueInv'
    BY <1>r, <2>1, <2>2, <2>3 DEF QueueInv, QueueTypes, Phases
  <2>5. From(0)' = {f[i] : i \in 1..m} /\ Unread' = {f[i] : i \in 1..m}
    BY <2>1, <2>2, <2>3 DEF Unread, From
  <2>6. ASSUME NEW j \in (readOff + 1)..Len(file) PROVE \E i \in 1..m : f[i] = file[j]
    <3>1. j - readOff \in 1..m /\ readOff + (j - readOff) = j
      BY <1>y
    <3> QED BY <2>3, <3>1
  <2>7. Unread \subseteq Unread'
    BY <2>5, <2>6 DEF Unread, From
  <2>8. From(0)' \subseteq From(0)
    BY <2>2, <2>3, <2>5 DEF From
  <2> QED BY <1>r, <2>1, <2>2, <2>3, <2>4, <2>7, <2>8
<1>5. CASE CompactFail
  <2>1. /\ dpc \in {"truncate", "copy"} /\ dpc' = "free"
        /\ file' \in HalfCopied \/ file' = file
        /\ overwritten' = overwritten \cup
               {file[i] : i \in {j \in (readOff + 1)..Len(file) : file'[j] # file[j]}}
        /\ UNCHANGED <<tail, offFile, readOff, count, stale>>
    BY <1>5 DEF CompactFail
  <2>0. \A i \in (readOff + 1)..Len(file) : i \in 1..Len(file) /\ i \in (0 + 1)..Len(file)
    BY <1>y
  <2>2. /\ file' \in Seq(Frame) /\ Len(file') = Len(file)
        /\ \A i \in 1..Len(file) : file'[i] \in From(0) \cup {Torn}
    <3>1. CASE file' = file
      BY <1>y, <3>1 DEF From
    <3>2. CASE file' \in HalfCopied
      BY <3>2, HalfCopiedFacts
    <3> QED BY <2>1, <3>1, <3>2
  <2>3. QueueInv'
    BY <1>y, <2>1, <2>2 DEF QueueInv, QueueTypes, Phases
  <2>4. Unread \subseteq Unread' \cup overwritten'
    <3>1. Unread' = {file'[i] : i \in (readOff + 1)..Len(file)}
      BY <2>1, <2>2 DEF Unread, From
    <3>2. ASSUME NEW i \in (readOff + 1)..Len(file) PROVE file[i] \in Unread' \cup overwritten'
      BY <2>1, <3>1, <3>2
    <3> QED BY <3>2 DEF Unread, From
  <2>5. From(0)' \subseteq From(0) \cup {Torn}
    <3>1. From(0)' = {file'[i] : i \in 1..Len(file)}
      BY <2>2 DEF From
    <3> QED BY <2>2, <3>1
  <2>6. overwritten' \subseteq overwritten \cup From(0) /\ overwritten \subseteq overwritten'
    BY <2>0, <2>1 DEF From
  <2>7. Remains' = Remains
    BY <2>1 DEF Remains
  <2> QED BY <2>1, <2>2, <2>3, <2>4, <2>5, <2>6, <2>7
<1>6. CASE Persist
  <2>1. /\ dpc = "persist" /\ dpc' = "free" /\ offFile' \in Nat /\ stale' \in BOOLEAN
        /\ UNCHANGED <<file, tail, readOff, count, overwritten>>
    BY <1>y, <1>6 DEF Persist
  <2>2. QueueInv'
    BY <2>1 DEF QueueInv, QueueTypes, Phases
  <2>3. Unread' = Unread /\ From(0)' = From(0) /\ Remains' = Remains
    BY <2>1 DEF Unread, From, Remains
  <2> QED BY <2>1, <2>2, <2>3
<1> QED BY <1>1, <1>2, <1>3, <1>5, <1>6 DEF CompactStep

(* How the stored offset fares in a compaction.                            *)
LEMMA CompactOffsets ==
    ASSUME QueueInv, CompactStep, Offsets, up, UNCHANGED up
    PROVE  Offsets'
<1>y. /\ Len(file) \in Nat /\ readOff \in Nat /\ readOff <= Len(file)
      /\ offFile \in Nat /\ stale \in BOOLEAN
  BY DEF QueueInv, QueueTypes
<1>1. CASE StoreOffset
  BY <1>y, <1>1 DEF StoreOffset, Offsets
<1>2. CASE Truncate \/ Compact
  BY <1>2 DEF Truncate, Compact, Offsets
<1>4. CASE CompactFail
  <2>1. /\ dpc # "persist" /\ UNCHANGED <<offFile, readOff, stale>>
    BY <1>4 DEF CompactFail
  <2>2. Len(file') = Len(file)
    BY <1>4, HalfCopiedFacts DEF CompactFail
  <2> QED BY <2>1, <2>2 DEF Offsets
<1>5. CASE Persist
  <2>1. readOff = 0 /\ readOff' = 0 /\ file' = file /\ (~stale' => offFile' = 0)
    BY <1>5 DEF Persist, QueueInv, Phases
  <2> QED BY <1>y, <2>1 DEF Offsets
<1> QED BY <1>1, <1>2, <1>4, <1>5 DEF CompactStep

-----------------------------------------------------------------------------
(* The process.                                                            *)

LEMMA ChanAppend ==
    ASSUME chan \in Seq(Events), NEW e \in Events, chan' = Append(chan, e)
    PROVE  chan' \in Seq(Events) /\ Len(chan') = Len(chan) + 1 /\ InChan' = InChan \cup {e}
<1> DEFINE s == Append(chan, e)
<1>1. /\ s \in Seq(Events) /\ Len(chan) \in Nat /\ Len(s) = Len(chan) + 1 /\ s[Len(chan) + 1] = e
      /\ \A i \in 1..Len(chan) : s[i] = chan[i]
  OBVIOUS
<1> HIDE DEF s
<1>2. 1..Len(s) = 1..Len(chan) \cup {Len(chan) + 1}
  BY <1>1
<1>3. {s[i] : i \in 1..Len(s)} = {chan[i] : i \in 1..Len(chan)} \cup {e}
  BY <1>1, <1>2
<1>4. chan' = s
  BY DEF s
<1> QED BY <1>1, <1>3, <1>4 DEF InChan

(* A receive leaves the rest of the channel.                               *)
LEMMA ChanTail ==
    ASSUME chan \in Seq(Events), chan # <<>>, chan' = Tail(chan)
    PROVE  /\ chan' \in Seq(Events) /\ Len(chan') <= Len(chan)
           /\ Head(chan) \in InChan /\ InChan = InChan' \cup {Head(chan)}
<1> DEFINE s == Tail(chan)
<1>1. /\ s \in Seq(Events) /\ Len(chan) \in Nat /\ Len(s) = Len(chan) - 1 /\ Head(chan) = chan[1]
      /\ Len(chan) >= 1 /\ \A i \in 1..Len(chan) - 1 : s[i] = chan[i + 1]
  OBVIOUS
<1>2. chan' = s
  OBVIOUS
<1> HIDE DEF s
<1>3. ASSUME NEW i \in 1..Len(chan) PROVE chan[i] = chan[1] \/ \E j \in 1..Len(s) : s[j] = chan[i]
  <2>1. CASE i # 1
    <3>1. i - 1 \in 1..Len(s) /\ s[i - 1] = chan[(i - 1) + 1] /\ (i - 1) + 1 = i
      BY <1>1, <2>1
    <3> QED BY <3>1
  <2> QED BY <2>1
<1>4. \A j \in 1..Len(s) : \E i \in 1..Len(chan) : s[j] = chan[i]
  BY <1>1
<1>5. 1 \in 1..Len(chan)
  BY <1>1
<1>6. InChan = InChan' \cup {chan[1]}
  <2>1. InChan' = {s[j] : j \in 1..Len(s)}
    BY <1>2 DEF InChan
  <2>2. ASSUME NEW x \in InChan PROVE x \in InChan' \cup {chan[1]}
    BY <1>3, <2>1 DEF InChan
  <2>3. ASSUME NEW x \in InChan' PROVE x \in InChan
    BY <1>4, <2>1 DEF InChan
  <2>4. chan[1] \in InChan
    BY <1>5 DEF InChan
  <2> QED BY <2>2, <2>3, <2>4
<1>7. Head(chan) \in InChan
  BY <1>1, <1>5 DEF InChan
<1>8. Len(s) <= Len(chan)
  BY <1>1
<1> QED BY <1>1, <1>2, <1>6, <1>7, <1>8

(* A step that does not move the queue.                                    *)
LEMMA QueueKept ==
    ASSUME HybridInv, UNCHANGED <<file, offFile, readOff, count, dpc, stale, overwritten, up>>,
           tail' \in Seq(Frame)
    PROVE  /\ QueueInv' /\ Offsets' /\ CountAgrees'
           /\ Unread' = Unread /\ From(0)' = From(0)
<1>1. Unread' = Unread /\ From(0)' = From(0)
  BY DEF Unread, From
<1>2. Intact(readOff)' <=> Intact(readOff)
  BY DEF Intact, From
<1> QED
  BY <1>1, <1>2 DEF HybridInv, QueueInv, QueueTypes, Phases, Offsets, CountAgrees

(* A step that leaves the queue alone.                                     *)
LEMMA QueueStill ==
    ASSUME HybridInv, UNCHANGED <<qvars, up>>
    PROVE  /\ QueueInv' /\ Offsets' /\ CountAgrees'
           /\ Unread' = Unread /\ From(0)' = From(0) /\ Remains' = Remains
           /\ UNCHANGED <<dpc, readOff, count, overwritten>>
<1>1. UNCHANGED <<file, tail, offFile, readOff, count, dpc, stale, overwritten, up>>
  BY DEF qvars
<1>2. tail' \in Seq(Frame) /\ Remains' = Remains
  BY <1>1 DEF HybridInv, QueueInv, QueueTypes, Remains
<1> QED BY <1>1, <1>2, QueueKept

(* Both queues start empty.                                                *)
LEMMA HybridInit == Init => HybridInv
<1> SUFFICES ASSUME Init PROVE HybridInv
  OBVIOUS
<1> USE HybridAssumption
<1>0. /\ file = <<>> /\ offFile = 0 /\ readOff = 0 /\ count = 0 /\ dpc = "free"
      /\ tail = <<>> /\ stale = FALSE /\ overwritten = {}
      /\ up = TRUE /\ chan = <<>> /\ quit = FALSE /\ pump = "wait" /\ hand = {}
      /\ ppc = [p \in Pushers |-> "idle"] /\ pev = [p \in Pushers |-> {}]
      /\ offered = {} /\ pushed = {} /\ consumed = {} /\ dropped = {} /\ crashes = 0
  BY DEF Init, QInit
<1>1. /\ <<>> \in Seq(Frame) /\ <<>> \in Seq(Events) /\ Len(<<>>) = 0 /\ (0 + 1)..0 = {} /\ 1..0 = {}
  OBVIOUS
<1>2. QueueInv
  <2>1. file \in Seq(Frame) /\ Len(file) = 0 /\ tail \in Seq(Frame)
    BY <1>0, <1>1
  <2>2. QueueTypes
    <3>1. offFile \in Nat /\ readOff \in Nat /\ readOff <= Len(file) /\ count \in Int
      BY <1>0, <2>1
    <3>2. stale \in BOOLEAN /\ dpc = "free"
      BY <1>0
    <3> QED BY <2>1, <3>1, <3>2 DEF QueueTypes
  <2>3. Phases
    BY <1>0 DEF Phases
  <2> QED BY <2>2, <2>3 DEF QueueInv
<1>3. From(0) = {} /\ InChan = {} /\ Remains = {}
  BY <1>0, <1>1 DEF From, InChan, Remains
<1>4. Offsets /\ CountAgrees /\ NoLossWhileUp
  BY <1>0, <1>1, <1>3 DEF Offsets, CountAgrees, NoLossWhileUp
<1>5. ProcTypes
  <2>1. chan \in Seq(Events) /\ Len(chan) <= MemSize /\ crashes \in 0..MaxCrashes
    BY <1>0, <1>1
  <2>2. ppc \in [Pushers -> {"idle", "direct", "spill"}] /\ pev \in [Pushers -> SUBSET Events]
    BY <1>0
  <2> QED BY <1>0, <2>1, <2>2 DEF ProcTypes
<1>6. PumpInv /\ DownInv /\ Sourced
  BY <1>0, <1>3 DEF PumpInv, DownInv, Sourced
<1> QED BY <1>2, <1>4, <1>5, <1>6 DEF HybridInv

(* One step per operation of hybrid.go.                                    *)
LEMMA HybridStep == HybridInv /\ [Next]_vars => HybridInv'
<1> SUFFICES ASSUME HybridInv, [Next]_vars PROVE HybridInv'
  OBVIOUS
<1>q. QueueInv /\ Offsets /\ CountAgrees
  BY DEF HybridInv
<1>y. /\ up \in BOOLEAN /\ quit \in BOOLEAN /\ chan \in Seq(Events) /\ Len(chan) \in Nat
      /\ Len(chan) <= MemSize /\ MemSize \in Nat
      /\ pump \in {"off", "wait", "batch", "taken", "hand", "drain", "dtaken", "dhand", "ended",
                   "closed"}
      /\ hand \subseteq Events
      /\ ppc \in [Pushers -> {"idle", "direct", "spill"}] /\ pev \in [Pushers -> SUBSET Events]
      /\ offered \subseteq Events /\ pushed \subseteq offered /\ consumed \subseteq offered
      /\ dropped \subseteq offered /\ crashes \in 0..MaxCrashes /\ MaxCrashes \in Nat
  BY HybridAssumption DEF HybridInv, ProcTypes
<1>s. /\ From(0) \cup Remains \cup overwritten \subseteq offered \cup {Torn} /\ InChan \subseteq offered /\ hand \subseteq offered
      /\ \A p \in Pushers : pev[p] \subseteq offered
  BY DEF HybridInv, Sourced
<1>n. up => /\ pushed \subseteq consumed \cup InChan \cup hand \cup Unread \cup dropped
                              \cup overwritten
            /\ ~quit => dropped = {}
  BY DEF HybridInv, NoLossWhileUp
<1>u. PumpInv /\ DownInv
  BY DEF HybridInv
<1>1. ASSUME NEW p \in Pushers, NEW e \in Events, Look(p, e) PROVE HybridInv'
  <2>1. /\ up /\ offered' = offered \cup {e} /\ pev' = [pev EXCEPT ![p] = {e}]
        /\ ppc' \in [Pushers -> {"idle", "direct", "spill"}]
        /\ UNCHANGED <<qvars, up, chan, quit, pump, hand, pushed, consumed, dropped, crashes>>
    BY <1>1, <1>y DEF Look
  <2>2. /\ QueueInv' /\ Offsets' /\ CountAgrees'
        /\ Unread' = Unread /\ From(0)' = From(0) /\ Remains' = Remains
        /\ UNCHANGED <<dpc, readOff, count, overwritten>>
    BY <2>1, QueueStill
  <2>3. ProcTypes' /\ InChan' = InChan
    BY <1>y, <2>1 DEF ProcTypes, InChan
  <2>4. \A r \in Pushers : pev'[r] = {e} \/ pev'[r] = pev[r]
    BY <1>y, <2>1
  <2>5. PumpInv' /\ DownInv' /\ Sourced'
    BY <1>u, <1>s, <2>1, <2>2, <2>3, <2>4 DEF PumpInv, DownInv, Sourced
  <2>6. NoLossWhileUp'
    BY <1>n, <2>1, <2>2, <2>3 DEF NoLossWhileUp
  <2> QED BY <2>2, <2>3, <2>5, <2>6 DEF HybridInv
<1>2. ASSUME NEW p \in Pushers, Direct(p) PROVE HybridInv'
  <2>1. PICK e \in pev[p] : chan' = Append(chan, e)
    BY <1>2 DEF Direct
  <2>2. /\ ppc[p] = "direct" /\ Len(chan) < MemSize
        /\ ppc' = [ppc EXCEPT ![p] = "idle"] /\ pev' = [pev EXCEPT ![p] = {}]
        /\ pushed' = pushed \cup pev[p]
        /\ UNCHANGED <<qvars, up, quit, pump, hand, offered, consumed, dropped, crashes>>
    BY <1>2 DEF Direct, Return
  <2>3. /\ QueueInv' /\ Offsets' /\ CountAgrees'
        /\ Unread' = Unread /\ From(0)' = From(0) /\ Remains' = Remains
        /\ UNCHANGED <<dpc, readOff, count, overwritten>>
    BY <2>2, QueueStill
  <2>4. e \in Events /\ e \in offered /\ pev[p] = {e} /\ up
    BY <1>y, <1>s, <1>u, <2>2 DEF PumpInv, DownInv
  <2>5. chan' \in Seq(Events) /\ Len(chan') = Len(chan) + 1 /\ InChan' = InChan \cup {e}
    BY <1>y, <2>1, <2>4, ChanAppend
  <2>6. ProcTypes'
    BY <1>y, <2>2, <2>4, <2>5 DEF ProcTypes
  <2>7. \A r \in Pushers : pev'[r] = {} \/ pev'[r] = pev[r]
    BY <1>y, <2>2
  <2>8. PumpInv' /\ DownInv' /\ Sourced'
    BY <1>u, <1>s, <2>2, <2>3, <2>4, <2>5, <2>7 DEF PumpInv, DownInv, Sourced
  <2>9. NoLossWhileUp'
    BY <1>n, <2>2, <2>3, <2>4, <2>5 DEF NoLossWhileUp
  <2> QED BY <2>3, <2>6, <2>8, <2>9 DEF HybridInv
<1>3. ASSUME NEW p \in Pushers, ChanFull(p) \/ Refuse(p), UNCHANGED qvars PROVE HybridInv'
  <2>1. /\ ppc[p] # "idle"
        /\ ppc' \in [Pushers -> {"idle", "direct", "spill"}]
        /\ pev' = pev \/ pev' = [pev EXCEPT ![p] = {}]
        /\ UNCHANGED <<qvars, up, chan, quit, pump, hand, offered, pushed, consumed, dropped, crashes>>
    BY <1>3, <1>y DEF ChanFull, Refuse
  <2>2. /\ QueueInv' /\ Offsets' /\ CountAgrees'
        /\ Unread' = Unread /\ From(0)' = From(0) /\ Remains' = Remains
        /\ UNCHANGED <<dpc, readOff, count, overwritten>>
    BY <2>1, QueueStill
  <2>3. \A r \in Pushers : pev'[r] = {} \/ pev'[r] = pev[r]
    BY <1>y, <2>1
  <2>4. ProcTypes' /\ InChan' = InChan
    BY <1>y, <2>1 DEF ProcTypes, InChan
  <2>5. up
    BY <1>y, <1>u, <2>1 DEF DownInv
  <2>6. PumpInv' /\ DownInv' /\ Sourced'
    BY <1>u, <1>s, <2>1, <2>2, <2>3, <2>4, <2>5 DEF PumpInv, DownInv, Sourced
  <2>7. NoLossWhileUp'
    BY <1>n, <2>1, <2>2, <2>4 DEF NoLossWhileUp
  <2> QED BY <2>2, <2>4, <2>6, <2>7 DEF HybridInv
<1>17. ASSUME NEW p \in Pushers, Refuse(p), ~UNCHANGED qvars PROVE HybridInv'
  <2>1. PICK e \in pev[p] : EnqueueFail(e)
    BY <1>17 DEF Refuse
  <2>2. /\ ppc[p] = "spill"
        /\ ppc' = [ppc EXCEPT ![p] = "idle"] /\ pev' = [pev EXCEPT ![p] = {}]
        /\ UNCHANGED <<up, chan, quit, pump, hand, offered, pushed, consumed, dropped, crashes>>
    BY <1>17 DEF Refuse
  <2>3. e \in Events /\ e \in offered /\ up
    BY <1>y, <1>s, <1>u, <2>2 DEF DownInv
  <2>4. /\ tail' \in Seq(Frame) /\ Remains' \subseteq Remains \cup {Torn, e}
        /\ UNCHANGED <<file, offFile, readOff, count, dpc, stale, overwritten>>
    BY <1>q, <2>1, <2>3, EnqueueFailFacts
  <2>5. QueueInv' /\ Offsets' /\ CountAgrees' /\ Unread' = Unread /\ From(0)' = From(0)
    BY <2>2, <2>4, QueueKept
  <2>6. \A r \in Pushers : pev'[r] = {} \/ pev'[r] = pev[r]
    BY <1>y, <2>2
  <2>7. ProcTypes' /\ InChan' = InChan
    BY <1>y, <2>2 DEF ProcTypes, InChan
  <2>8. PumpInv' /\ DownInv' /\ Sourced'
    BY <1>u, <1>s, <2>2, <2>3, <2>4, <2>5, <2>6, <2>7 DEF PumpInv, DownInv, Sourced
  <2>9. NoLossWhileUp'
    BY <1>n, <2>2, <2>4, <2>5, <2>7 DEF NoLossWhileUp
  <2> QED BY <2>5, <2>7, <2>8, <2>9 DEF HybridInv
<1>4. ASSUME NEW p \in Pushers, Spill(p) PROVE HybridInv'
  <2>1. PICK e \in pev[p] : Enqueue(e)
    BY <1>4 DEF Spill
  <2>2. /\ ppc[p] = "spill"
        /\ ppc' = [ppc EXCEPT ![p] = "idle"] /\ pev' = [pev EXCEPT ![p] = {}]
        /\ pushed' = pushed \cup pev[p]
        /\ UNCHANGED <<chan, up, quit, pump, hand, offered, consumed, dropped, crashes>>
    BY <1>4 DEF Spill, Return
  <2>3. e \in Events /\ e \in offered /\ pev[p] = {e} /\ up
    BY <1>y, <1>s, <1>u, <2>2 DEF PumpInv, DownInv
  <2>4. /\ QueueInv' /\ dpc = "free" /\ Len(file') = Len(file) + 1 /\ count' = count + 1
        /\ Unread' = Unread \cup {e} /\ From(0)' = From(0) \cup {e} /\ Remains' \subseteq {Torn}
        /\ UNCHANGED <<offFile, readOff, dpc, stale, overwritten>>
    BY <1>q, <2>1, <2>3, EnqueueFacts
  <2>5. Offsets' /\ CountAgrees'
    <3>1. Len(file) \in Nat /\ readOff \in Nat /\ offFile \in Nat /\ count \in Int
      BY <1>q DEF QueueInv, QueueTypes
    <3>2. Intact(readOff)' => Intact(readOff)
      BY <2>4 DEF Intact, Unread
    <3> QED BY <1>q, <2>2, <2>4, <3>1, <3>2 DEF Offsets, CountAgrees
  <2>7. ProcTypes' /\ InChan' = InChan
    BY <1>y, <2>2, <2>3 DEF ProcTypes, InChan
  <2>8. \A r \in Pushers : pev'[r] = {} \/ pev'[r] = pev[r]
    BY <1>y, <2>2
  <2>9. PumpInv' /\ DownInv' /\ Sourced'
    BY <1>u, <1>s, <2>2, <2>3, <2>4, <2>7, <2>8 DEF PumpInv, DownInv, Sourced
  <2>10. NoLossWhileUp'
    BY <1>n, <2>2, <2>3, <2>4, <2>7 DEF NoLossWhileUp
  <2> QED BY <2>4, <2>5, <2>7, <2>9, <2>10 DEF HybridInv
<1>5. CASE PumpTick \/ PumpRest \/ PumpDrain \/ CloseQueue
  <2>1. /\ pump \in {"wait", "batch", "ended"} /\ pump' \in {"wait", "batch", "drain", "closed"}
        /\ pump' = "drain" => quit
        /\ pump' = "closed" => pump = "ended"
        /\ UNCHANGED <<qvars, chan, hand, dropped, up, quit, ppc, pev, offered, pushed, consumed,
                       crashes>>
    BY <1>5 DEF PumpTick, PumpRest, PumpDrain, CloseQueue, PumpTo
  <2>2. /\ QueueInv' /\ Offsets' /\ CountAgrees'
        /\ Unread' = Unread /\ From(0)' = From(0) /\ Remains' = Remains
        /\ UNCHANGED <<dpc, readOff, count, overwritten>>
    BY <2>1, QueueStill
  <2>3. ProcTypes' /\ InChan' = InChan
    BY <1>y, <2>1 DEF ProcTypes, InChan
  <2>4. PumpInv' /\ DownInv' /\ Sourced'
    BY <1>u, <1>s, <2>1, <2>2, <2>3 DEF PumpInv, DownInv, Sourced
  <2>5. NoLossWhileUp'
    BY <1>n, <2>1, <2>2, <2>3 DEF NoLossWhileUp
  <2> QED BY <2>2, <2>3, <2>4, <2>5 DEF HybridInv
<1>6. CASE PumpTake
  <2>1. /\ \/ pump = "batch" /\ pump' = "taken"
           \/ pump = "drain" /\ pump' = "dtaken"
        /\ Take /\ hand' = {Next1}
        /\ UNCHANGED <<chan, dropped, up, quit, ppc, pev, offered, pushed, consumed, crashes>>
    BY <1>6 DEF PumpTake, PumpTo
  <2>2. /\ QueueInv' /\ dpc = "free" /\ dpc' = "store"
        /\ readOff' = readOff + 1 /\ count' = count - 1
        /\ Next1 \in Events /\ Next1 \in From(0)
        /\ Unread = Unread' \cup {Next1} /\ From(0)' = From(0)
        /\ UNCHANGED <<file, tail, offFile, stale, overwritten>>
    BY <1>q, <2>1, TakeFacts
  <2>3. hand = {} /\ up
    BY <1>u, <1>y, <2>1 DEF PumpInv, DownInv
  <2>4. Next1 \in offered
    BY <1>s, <2>2, DiskQueueAssumption
  <2>5. Offsets' /\ CountAgrees'
    <3>1. Len(file) \in Nat /\ readOff \in Nat /\ offFile \in Nat /\ count \in Int
      BY <1>q DEF QueueInv, QueueTypes
    <3>2. Intact(readOff)' => Intact(readOff)
      <4>1. Torn # Next1
        BY <2>2, DiskQueueAssumption
      <4> QED BY <2>2, <4>1 DEF Intact, Unread
    <3> QED BY <1>q, <2>1, <2>2, <3>1, <3>2 DEF Offsets, CountAgrees
  <2>6. Remains' = Remains
    BY <2>2 DEF Remains
  <2>7. ProcTypes' /\ InChan' = InChan
    BY <1>y, <2>1, <2>2 DEF ProcTypes, InChan
  <2>8. PumpInv' /\ DownInv' /\ Sourced'
    BY <1>u, <1>s, <2>1, <2>2, <2>3, <2>4, <2>6, <2>7 DEF PumpInv, DownInv, Sourced
  <2>9. NoLossWhileUp'
    BY <1>n, <2>1, <2>2, <2>3, <2>7 DEF NoLossWhileUp
  <2> QED BY <2>2, <2>5, <2>7, <2>8, <2>9 DEF HybridInv
<1>7. CASE PumpCompact
  <2>1. /\ pump \in {"taken", "dtaken"} /\ CompactStep
        /\ pump' = IF dpc' # "free" THEN pump ELSE IF pump = "taken" THEN "hand" ELSE "dhand"
        /\ UNCHANGED <<chan, hand, dropped, up, quit, ppc, pev, offered, pushed, consumed, crashes>>
    BY <1>7 DEF PumpCompact, PumpTo
  <2>2. /\ QueueInv' /\ dpc # "free" /\ count' = count
        /\ Len(file') - readOff' = Len(file) - readOff
        /\ From(0)' \subseteq From(0) \cup {Torn} /\ Remains' \subseteq Remains
        /\ overwritten \subseteq overwritten' /\ overwritten' \subseteq overwritten \cup From(0)
        /\ Unread \subseteq Unread' \cup overwritten'
    BY <1>q, <2>1, CompactFacts
  <2>3. up
    BY <1>u, <1>y, <2>1 DEF DownInv
  <2>4. Offsets'
    BY <1>q, <2>1, <2>3, CompactOffsets
  <2>5. CountAgrees'
    <3>1. Intact(readOff)' /\ overwritten' = {} => Intact(readOff) /\ overwritten = {}
      BY <2>2 DEF Intact, Unread
    <3> QED BY <1>q, <2>1, <2>2, <3>1 DEF CountAgrees
  <2>6. ProcTypes' /\ InChan' = InChan
    BY <1>y, <2>1 DEF ProcTypes, InChan
  <2>7. PumpInv' /\ DownInv' /\ Sourced'
    BY <1>u, <1>s, <2>1, <2>2, <2>3, <2>6 DEF PumpInv, DownInv, Sourced
  <2>8. NoLossWhileUp'
    BY <1>n, <2>1, <2>2, <2>3, <2>6 DEF NoLossWhileUp
  <2> QED BY <2>2, <2>4, <2>5, <2>6, <2>7, <2>8 DEF HybridInv
<1>8. CASE PumpSend
  <2>1. PICK e \in hand : chan' = Append(chan, e)
    BY <1>8 DEF PumpSend
  <2>2. /\ \/ pump = "hand" /\ pump' = "batch"
           \/ pump = "dhand" /\ pump' = "drain"
        /\ Len(chan) < MemSize /\ hand' = {}
        /\ UNCHANGED <<qvars, dropped, up, quit, ppc, pev, offered, pushed, consumed, crashes>>
    BY <1>8 DEF PumpSend, PumpTo
  <2>3. /\ QueueInv' /\ Offsets' /\ CountAgrees'
        /\ Unread' = Unread /\ From(0)' = From(0) /\ Remains' = Remains
        /\ UNCHANGED <<dpc, readOff, count, overwritten>>
    BY <2>2, QueueStill
  <2>4. e \in Events /\ e \in offered /\ hand = {e} /\ up
    BY <1>y, <1>s, <1>u, <2>2 DEF PumpInv, DownInv
  <2>5. chan' \in Seq(Events) /\ Len(chan') = Len(chan) + 1 /\ InChan' = InChan \cup {e}
    BY <1>y, <2>1, <2>4, ChanAppend
  <2>6. ProcTypes'
    BY <1>y, <2>2, <2>5 DEF ProcTypes
  <2>7. PumpInv' /\ DownInv' /\ Sourced'
    BY <1>u, <1>s, <2>2, <2>3, <2>4, <2>5 DEF PumpInv, DownInv, Sourced
  <2>8. NoLossWhileUp'
    BY <1>n, <2>2, <2>3, <2>4, <2>5 DEF NoLossWhileUp
  <2> QED BY <2>3, <2>6, <2>7, <2>8 DEF HybridInv
<1>9. CASE PumpQuit \/ PumpEnd
  <2>1. /\ pump \in {"hand", "drain", "dhand"} /\ (pump = "hand" => quit)
        /\ pump' \in {"wait", "ended"} /\ (pump' = "ended" => pump \in {"drain", "dhand"})
        /\ dropped' = dropped \cup hand /\ hand' = {}
        /\ UNCHANGED <<qvars, chan, up, quit, ppc, pev, offered, pushed, consumed, crashes>>
    BY <1>9 DEF PumpQuit, PumpEnd, LetGo, PumpTo
  <2>2. /\ QueueInv' /\ Offsets' /\ CountAgrees'
        /\ Unread' = Unread /\ From(0)' = From(0) /\ Remains' = Remains
        /\ UNCHANGED <<dpc, readOff, count, overwritten>>
    BY <2>1, QueueStill
  <2>3. quit /\ up
    BY <1>u, <1>y, <2>1 DEF PumpInv, DownInv
  <2>4. ProcTypes' /\ InChan' = InChan
    BY <1>y, <1>s, <2>1 DEF ProcTypes, InChan
  <2>5. PumpInv' /\ DownInv' /\ Sourced'
    BY <1>u, <1>s, <2>1, <2>2, <2>3, <2>4 DEF PumpInv, DownInv, Sourced
  <2>6. NoLossWhileUp'
    BY <1>n, <2>1, <2>2, <2>3, <2>4 DEF NoLossWhileUp
  <2> QED BY <2>2, <2>4, <2>5, <2>6 DEF HybridInv
<1>10. CASE Consume
  <2>1. /\ chan # <<>> /\ consumed' = consumed \cup {Head(chan)} /\ chan' = Tail(chan)
        /\ UNCHANGED <<qvars, up, quit, pump, hand, ppc, pev, offered, pushed, dropped, crashes>>
    BY <1>10 DEF Consume
  <2>2. /\ QueueInv' /\ Offsets' /\ CountAgrees'
        /\ Unread' = Unread /\ From(0)' = From(0) /\ Remains' = Remains
        /\ UNCHANGED <<dpc, readOff, count, overwritten>>
    BY <2>1, QueueStill
  <2>3. /\ chan' \in Seq(Events) /\ Len(chan') <= Len(chan)
        /\ Head(chan) \in InChan /\ InChan = InChan' \cup {Head(chan)}
    BY <1>y, <2>1, ChanTail
  <2>4. up
    BY <1>u, <2>1 DEF DownInv
  <2>5. ProcTypes'
    BY <1>y, <1>s, <2>1, <2>3 DEF ProcTypes
  <2>6. PumpInv' /\ DownInv' /\ Sourced'
    BY <1>u, <1>s, <2>1, <2>2, <2>3, <2>4 DEF PumpInv, DownInv, Sourced
  <2>7. NoLossWhileUp'
    BY <1>n, <2>1, <2>2, <2>3 DEF NoLossWhileUp
  <2> QED BY <2>2, <2>5, <2>6, <2>7 DEF HybridInv
<1>11. CASE Close
  <2>1. /\ up /\ quit' = TRUE
        /\ UNCHANGED <<qvars, up, chan, pump, hand, ppc, pev, offered, pushed, consumed, dropped,
                       crashes>>
    BY <1>11 DEF Close
  <2>2. /\ QueueInv' /\ Offsets' /\ CountAgrees'
        /\ Unread' = Unread /\ From(0)' = From(0) /\ Remains' = Remains
        /\ UNCHANGED <<dpc, readOff, count, overwritten>>
    BY <2>1, QueueStill
  <2>3. ProcTypes' /\ InChan' = InChan
    BY <1>y, <2>1 DEF ProcTypes, InChan
  <2>4. PumpInv' /\ DownInv' /\ Sourced'
    BY <1>u, <1>s, <2>1, <2>2, <2>3 DEF PumpInv, DownInv, Sourced
  <2>5. NoLossWhileUp'
    BY <1>n, <2>1, <2>2, <2>3 DEF NoLossWhileUp
  <2> QED BY <2>2, <2>3, <2>4, <2>5 DEF HybridInv
<1>12. ASSUME Die, QueueInv', Offsets', dpc' = "free", readOff' = 0, count' = 0,
              overwritten' = {}, Remains' = Remains, From(0)' \subseteq From(0) \cup {Torn}
       PROVE  HybridInv'
  <2>1. /\ up' = FALSE /\ chan' = <<>> /\ quit' = FALSE /\ pump' = "off" /\ hand' = {}
        /\ ppc' = [p \in Pushers |-> "idle"] /\ pev' = [p \in Pushers |-> {}]
        /\ pushed' = {} /\ dropped' = {} /\ crashes < MaxCrashes /\ crashes' = crashes + 1
        /\ UNCHANGED <<offered, consumed>>
    BY <1>12 DEF Die
  <2>2. <<>> \in Seq(Events) /\ Len(<<>>) = 0
    OBVIOUS
  <2>3. ProcTypes'
    <3>1. chan' \in Seq(Events) /\ Len(chan') <= MemSize /\ crashes' \in 0..MaxCrashes
      BY <1>y, <2>1, <2>2
    <3>2. /\ ppc' \in [Pushers -> {"idle", "direct", "spill"}]
          /\ pev' \in [Pushers -> SUBSET Events]
      BY <2>1
    <3> QED BY <1>y, <2>1, <3>1, <3>2 DEF ProcTypes
  <2>4. InChan' = {}
    BY <2>1, <2>2 DEF InChan
  <2>5. PumpInv' /\ DownInv' /\ Sourced'
    BY <1>12, <1>s, <2>1, <2>4 DEF PumpInv, DownInv, Sourced
  <2>6. CountAgrees' /\ NoLossWhileUp'
    BY <2>1 DEF CountAgrees, NoLossWhileUp
  <2> QED BY <1>12, <2>3, <2>5, <2>6 DEF HybridInv
<1>13. CASE Crash
  <2>1. /\ Die /\ up /\ up' = FALSE
        /\ offFile' \in {offFile} \cup (IF dpc \in {"store", "persist"} THEN {0} ELSE {})
        /\ stale' = (offFile' # 0 /\ (stale \/ dpc = "persist"))
        /\ file' \in HalfCopied \/ file' = file
        /\ readOff' = 0 /\ count' = 0 /\ dpc' = "free" /\ overwritten' = {} /\ tail' = tail
    BY <1>13 DEF Crash, CrashQueue, Die
  <2>2. /\ Len(file) \in Nat /\ offFile \in Nat /\ file \in Seq(Frame) /\ tail \in Seq(Frame)
        /\ readOff \in Nat /\ readOff <= Len(file)
    BY <1>q DEF QueueInv, QueueTypes
  <2>3. offFile' \in Nat /\ offFile' \in {0, offFile} /\ stale' \in BOOLEAN
    <3>1. offFile' \in {0, offFile}
      <4>1. CASE dpc \in {"store", "persist"}
        BY <2>1, <4>1
      <4>2. CASE dpc \notin {"store", "persist"}
        BY <2>1, <4>2
      <4> QED BY <4>1, <4>2
    <3>2. stale' \in BOOLEAN
      BY <2>1
    <3> QED BY <2>2, <3>1, <3>2
  <2>4. /\ file' \in Seq(Frame) /\ Len(file') = Len(file)
        /\ \A i \in 1..Len(file) : file'[i] \in From(0) \cup {Torn}
    <3>1. CASE file' = file
      BY <2>2, <3>1 DEF From
    <3>2. CASE file' \in HalfCopied
      BY <1>q, <3>2, HalfCopiedFacts
    <3> QED BY <2>1, <3>1, <3>2
  <2>5. QueueInv'
    BY <2>1, <2>2, <2>3, <2>4 DEF QueueInv, QueueTypes, Phases
  <2>6. ASSUME ~stale' PROVE offFile' <= Len(file')
    <3>1. offFile' = 0 \/ (offFile' = offFile /\ ~stale /\ dpc # "persist")
      BY <2>1, <2>3, <2>6
    <3> QED BY <1>q, <2>2, <2>4, <3>1 DEF Offsets
  <2>7. Offsets'
    BY <2>1, <2>6 DEF Offsets
  <2>8. From(0)' \subseteq From(0) \cup {Torn} /\ Remains' = Remains
    <3>1. From(0)' = {file'[i] : i \in 1..Len(file)}
      BY <2>2, <2>4 DEF From
    <3> QED BY <2>1, <2>4, <3>1 DEF Remains
  <2> QED BY <1>12, <2>1, <2>5, <2>7, <2>8
<1>15. CASE Start
  <2> DEFINE g == file \o tail
  <2>1. PICK k \in 0..Len(g) : \E c \in 0..Len(g) : Load(k, c) /\ c \in ScanCount(file', k)
    BY <1>15 DEF Start, LoadQueue
  <2>2. /\ Len(file) \in Nat /\ offFile \in Nat /\ file \in Seq(Frame) /\ tail \in Seq(Frame)
        /\ Len(tail) \in Nat
    BY <1>q DEF QueueInv, QueueTypes
  <2>3. /\ g \in Seq(Frame) /\ Len(g) = Len(file) + Len(tail)
        /\ \A i \in 1..Len(g) : g[i] \in From(0) \cup Remains
    <3>1. /\ g \in Seq(Frame) /\ Len(g) = Len(file) + Len(tail)
          /\ \A i \in 1..Len(g) : g[i] = IF i <= Len(file) THEN file[i] ELSE tail[i - Len(file)]
      BY <2>2
    <3> HIDE DEF g
    <3>2. ASSUME NEW i \in 1..Len(g) PROVE g[i] \in From(0) \cup Remains
      <4>1. CASE i <= Len(file)
        <5>1. i \in (0 + 1)..Len(file) /\ g[i] = file[i]
          BY <2>2, <3>1, <4>1
        <5> QED BY <5>1 DEF From
      <4>2. CASE ~(i <= Len(file))
        <5>1. i - Len(file) \in 1..Len(tail) /\ g[i] = tail[i - Len(file)]
          BY <2>2, <3>1, <4>2
        <5> QED BY <5>1 DEF Remains
      <4> QED BY <4>1, <4>2
    <3> QED BY <3>1, <3>2
  <2>4. /\ readOff' = k /\ tail' = <<>> /\ UNCHANGED <<dpc, overwritten>>
        /\ \/ ~stale /\ k = Least(offFile, Len(g)) /\ UNCHANGED <<offFile, stale>>
           \/ stale /\ offFile' = k /\ stale' = FALSE
           \/ stale /\ UNCHANGED <<offFile, stale>>
        /\ file' = g \/ (k < Len(g) /\ file' = [g EXCEPT ![k + 1] = Torn])
        /\ count' \in ScanCount(file', k)
    BY <2>1 DEF Load
  <2>5. /\ ~up /\ up' = TRUE /\ pump' = "wait"
        /\ UNCHANGED <<chan, quit, hand, ppc, pev, offered, pushed, consumed, dropped, crashes>>
    BY <1>15 DEF Start
  <2>6. /\ dpc = "free" /\ pushed = {} /\ dropped = {} /\ chan = <<>> /\ hand = {}
        /\ pump = "off"
    BY <1>u, <2>5 DEF DownInv, PumpInv
  <2> HIDE DEF g
  <2>7. /\ file' \in Seq(Frame) /\ Len(file') = Len(g)
        /\ \A i \in 1..Len(g) : file'[i] \in From(0) \cup Remains \cup {Torn}
    <3>1. CASE file' = g
      BY <2>3, <3>1
    <3>2. CASE k < Len(g) /\ file' = [g EXCEPT ![k + 1] = Torn]
      <4>1. k + 1 \in 1..Len(g) /\ Torn \in Frame
        BY <2>2, <2>3, <3>2 DEF Frame
      <4>2. g \in [1..Len(g) -> Frame] /\ Len(g) \in Nat
        BY <2>2, <2>3
      <4>3. /\ file' \in [1..Len(g) -> Frame]
            /\ \A i \in 1..Len(g) : file'[i] = Torn \/ file'[i] = g[i]
        BY <3>2, <4>1, <4>2
      <4> QED BY <2>3, <4>2, <4>3
    <3> QED BY <2>4, <3>1, <3>2
  <2>8. k \in Nat /\ k <= Len(file') /\ tail' \in Seq(Frame) /\ Remains' = {}
    <3>1. <<>> \in Seq(Frame) /\ Len(<<>>) = 0 /\ 1..0 = {}
      OBVIOUS
    <3> QED BY <2>2, <2>3, <2>4, <2>7, <3>1 DEF Remains
  <2>9. /\ count' \in 0..(Len(file') - k)
        /\ count' = Len(file') - k \/ \E i \in (k + 1)..(k + count' + 1) : file'[i] = Torn
    BY <2>4 DEF ScanCount
  <2>10. QueueInv'
    <3>1. offFile' \in Nat /\ stale' \in BOOLEAN
      BY <1>q, <2>2, <2>4, <2>8 DEF QueueInv, QueueTypes
    <3>2. count' \in Int
      BY <2>2, <2>3, <2>7, <2>8, <2>9
    <3> QED BY <2>4, <2>6, <2>7, <2>8, <3>1, <3>2 DEF QueueInv, QueueTypes, Phases
  <2>11. Offsets'
    <3>1. ~stale => offFile <= Len(file)
      BY <1>q, <2>6 DEF Offsets
    <3>2. ~stale => Least(offFile, Len(g)) = offFile
      BY <2>2, <2>3, <3>1 DEF Least
    <3> QED BY <1>q, <2>2, <2>3, <2>4, <2>7, <2>8, <3>1, <3>2 DEF Offsets, QueueInv, QueueTypes
  <2>12. From(0)' \subseteq From(0) \cup Remains \cup {Torn}
    <3>1. From(0)' = {file'[i] : i \in 1..Len(g)}
      BY <2>7 DEF From
    <3> QED BY <2>7, <3>1
  <2>13. CountAgrees'
    <3>1. ASSUME Torn \notin {file'[i] : i \in (k + 1)..Len(file')}, count' # Len(file') - k
          PROVE  FALSE
      <4>1. PICK n \in Int : n = count'
        BY <2>10 DEF QueueInv, QueueTypes
      <4>2. Len(file') \in Nat /\ 0 <= n /\ n <= Len(file') - k /\ n # Len(file') - k
        BY <2>7, <2>8, <2>9, <3>1, <4>1
      <4>3. PICK i \in (k + 1)..(k + n + 1) : file'[i] = Torn
        BY <2>9, <3>1, <4>1
      <4>4. i \in (k + 1)..Len(file')
        BY <2>8, <4>2, <4>3
      <4> QED BY <3>1, <4>3, <4>4
    <3>2. Intact(readOff)' => Torn \notin {file'[i] : i \in (k + 1)..Len(file')}
      BY <2>4 DEF Intact, From
    <3> QED BY <2>4, <3>1, <3>2 DEF CountAgrees
  <2>14. ProcTypes' /\ InChan' = InChan
    BY <1>y, <2>5 DEF ProcTypes, InChan
  <2>15. PumpInv' /\ DownInv' /\ Sourced'
    BY <1>u, <1>s, <2>4, <2>5, <2>6, <2>8, <2>12, <2>14 DEF PumpInv, DownInv, Sourced
  <2>16. NoLossWhileUp'
    BY <2>5, <2>6 DEF NoLossWhileUp
  <2> QED BY <2>10, <2>11, <2>13, <2>14, <2>15, <2>16 DEF HybridInv
<1>16. CASE UNCHANGED vars
  <2>1. UNCHANGED <<qvars, up, chan, quit, pump, hand, ppc, pev, offered, pushed, consumed, dropped,
                    crashes>>
    BY <1>16 DEF vars, hvars
  <2>2. /\ QueueInv' /\ Offsets' /\ CountAgrees'
        /\ Unread' = Unread /\ From(0)' = From(0) /\ Remains' = Remains
        /\ UNCHANGED <<dpc, readOff, count, overwritten>>
    BY <2>1, QueueStill
  <2>3. ProcTypes' /\ InChan' = InChan
    BY <1>y, <2>1 DEF ProcTypes, InChan
  <2>4. PumpInv' /\ DownInv' /\ Sourced'
    BY <1>u, <1>s, <2>1, <2>2, <2>3 DEF PumpInv, DownInv, Sourced
  <2>5. NoLossWhileUp'
    BY <1>n, <2>1, <2>2, <2>3 DEF NoLossWhileUp
  <2> QED BY <2>2, <2>3, <2>4, <2>5 DEF HybridInv
<1>18. ASSUME NEW p \in Pushers, ChanFull(p) \/ Refuse(p) PROVE HybridInv'
  <2>1. ChanFull(p) => UNCHANGED qvars
    BY DEF ChanFull, qvars
  <2> QED BY <1>3, <1>17, <1>18, <2>1
<1>19. ASSUME NEW p \in Pushers, PushStep(p) \/ \E e \in Events : Look(p, e) PROVE HybridInv'
  BY <1>1, <1>2, <1>4, <1>18, <1>19 DEF PushStep
<1>20. CASE PumpStep
  BY <1>5, <1>6, <1>7, <1>8, <1>9, <1>20 DEF PumpStep
<1> QED
  BY <1>10, <1>11, <1>13, <1>15, <1>16, <1>19, <1>20 DEF Next

(* The invariant holds throughout.                                         *)
LEMMA HybridInvariant == Spec => []HybridInv
BY HybridInit, HybridStep, PTL DEF Spec

-----------------------------------------------------------------------------
(* The channel of hybrid.go never holds more than its capacity, and the    *)
(* read offset of disk_queue.go never leaves the file.                     *)
THEOREM TypeCorrect == Spec => []TypeOK
<1>1. ASSUME HybridInv PROVE TypeOK
  <2>1. QueueTypes /\ ProcTypes /\ Sourced
    BY <1>1 DEF HybridInv, QueueInv
  <2>2. file \in Seq(Frame) /\ Len(file) \in Nat /\ readOff \in Nat /\ readOff <= Len(file)
    BY <2>1 DEF QueueTypes
  <2>3. readOff \in 0..Len(file) /\ overwritten \subseteq offered \cup {Torn}
    BY <2>1, <2>2 DEF Sourced
  <2> QED BY <2>1, <2>3 DEF QueueTypes, ProcTypes, TypeOK, Frame
<1> QED BY <1>1, HybridInvariant, PTL

(* The counter that Push and pump read without the mutex (IsEmpty in       *)
(* disk_queue.go) is right at every step of every Dequeue and Enqueue,     *)
(* through compactions, crashes and restarts, as long as no torn frame is  *)
(* ahead of the read offset, or was until a failed compaction.             *)
THEOREM CounterIsExact == Spec => []CountAgrees
<1>1. HybridInv => CountAgrees
  BY DEF HybridInv
<1> QED BY <1>1, HybridInvariant, PTL

(* An event whose Push returned nil is consumed, in the channel, in the    *)
(* pump's hand or unread on disk, in whatever order pushers, pump, workers *)
(* and Close run, unless a failed compaction overwrote its frame; and      *)
(* nothing is let go before Close.                                         *)
THEOREM NothingIsLost == Spec => []NoLossWhileUp
<1>1. HybridInv => NoLossWhileUp
  BY DEF HybridInv
<1> QED BY <1>1, HybridInvariant, PTL

(* A crash loses nothing that Dequeue could have returned, unless it comes *)
(* after the file was compacted and before an offset into the new file was *)
(* stored (stale covers every later moment until then), or a failed        *)
(* compaction has torn frames between the two offsets: the offset file of  *)
(* disk_queue.go does not point past an unread frame.                      *)
THEOREM DiskSurvivesCrash == Spec => []SpillSurvives
<1>1. ASSUME HybridInv PROVE SpillSurvives
  <2> DEFINE k == Least(offFile, Len(file))
  <2>1. SUFFICES ASSUME up, ~stale, dpc # "persist", \A i \in (k + 1)..readOff : file[i] # Torn
                 PROVE  Readable(readOff) \subseteq Readable(k)
    BY DEF SpillSurvives
  <2>2. /\ Len(file) \in Nat /\ readOff \in Nat /\ readOff <= Len(file) /\ offFile \in Nat
    BY <1>1 DEF HybridInv, QueueInv, QueueTypes
  <2>3. offFile <= readOff
    BY <1>1, <2>1 DEF HybridInv, Offsets
  <2>4. k \in Nat /\ k <= readOff
    BY <2>2, <2>3 DEF Least
  <2> HIDE DEF k
  <2>5. ASSUME NEW j \in (readOff + 1)..Len(file), \A h \in (readOff + 1)..j : file[h] # Torn
        PROVE  j \in (k + 1)..Len(file) /\ \A h \in (k + 1)..j : file[h] # Torn
    <3>1. \A h \in (k + 1)..j : h \in (k + 1)..readOff \/ h \in (readOff + 1)..j
      BY <2>2, <2>4, <2>5
    <3> QED BY <2>1, <2>2, <2>4, <2>5, <3>1
  <2> QED BY <2>5 DEF Readable
<1> QED BY <1>1, HybridInvariant, PTL
=============================================================================
