----------------------------- MODULE DiskQueue -----------------------------
(***************************************************************************)
(* The overflow queue on disk (internal/buffer/disk_queue.go): a data file *)
(* of frames, a file with the read offset, and the offsets and the counter *)
(* of the process that has them open.  A frame is one position of file, so *)
(* offsets count frames; writeOffset is the length of file.  A torn frame  *)
(* stands for bytes that are not a frame: Dequeue reports an error.        *)
(*                                                                         *)
(* Operations hold q.mu (dpc = "free" when nobody does).  Enqueue is one   *)
(* step.  Dequeue is a step for each change of the files, since a crash    *)
(* may come between any two.                                               *)
(***************************************************************************)
EXTENDS Integers, Sequences

CONSTANTS Events, CompactAt \* dqCompactThreshold, in frames

Torn == "torn"  \* bytes that Dequeue cannot decode

ASSUME DiskQueueAssumption == CompactAt \in Nat /\ Torn \notin Events

VARIABLES
    file,    \* overflow.bin up to writeOffset
    tail,    \* what a failed Enqueue left behind writeOffset
    offFile, \* overflow.offset
    readOff, \* q.readOffset
    count,   \* q.count, read without the mutex
    dpc,     \* Dequeue: "free", "store", "truncate", "copy" or "persist"
    \* history
    stale,      \* the stored offset is one into the file before its last compaction
    overwritten \* unread frames that a failed compaction of this process overwrote

qvars == <<file, tail, offFile, readOff, count, dpc, stale, overwritten>>

QInit == /\ file = <<>> /\ tail = <<>> /\ offFile = 0 /\ readOff = 0 /\ count = 0
         /\ dpc = "free" /\ stale = FALSE /\ overwritten = {}

-----------------------------------------------------------------------------
Least(a, b) == IF a < b THEN a ELSE b

(* The frames from offset k to the end of the file.                        *)
From(k) == {file[i] : i \in (k + 1)..Len(file)}

(* What Dequeue has still to return.                                       *)
Unread == From(readOff)

(* There is no torn frame from offset k on.                                *)
Intact(k) == Torn \notin From(k)

(* What Dequeue can return from offset k on: it does not get past a torn   *)
(* frame.                                                                  *)
Readable(k) == {file[i] : i \in {j \in (k + 1)..Len(file) :
                                   \A h \in (k + 1)..j : file[h] # Torn}}

(* What scanCount may return on file f from offset k: every frame to the   *)
(* end, or, where a torn frame is on the way, any number from there on.    *)
ScanCount(f, k) == {n \in 0..(Len(f) - k) :
                       n = Len(f) - k \/ \E i \in (k + 1)..(k + n + 1) : f[i] = Torn}

(* The counter is set to c, and offset k is where the stored one points.   *)
(* A stale offset may point anywhere in the file it is not about, into the *)
(* middle of a frame too, or be beyond its end and stay so.                *)
Load(k, c) ==
    /\ readOff' = k /\ count' = c
    /\ tail' = <<>>
    /\ \/ /\ ~stale /\ k = Least(offFile, Len(file \o tail))
          /\ file' = file \o tail
          /\ UNCHANGED <<offFile, stale>>
       \/ /\ stale
          /\ \/ file' = file \o tail
             \/ /\ k < Len(file \o tail)
                /\ file' = [file \o tail EXCEPT ![k + 1] = Torn]
          /\ \/ offFile' = k /\ stale' = FALSE
             \/ k = Len(file \o tail) /\ UNCHANGED <<offFile, stale>>
    /\ UNCHANGED <<dpc, overwritten>>

(* Mutant: the counter starts at 0 whatever the file holds.                *)
LoadQueue_NoScan == \E k \in 0..Len(file \o tail) : Load(k, 0)

(* newDiskQueue on the files a process left behind.  The size of the file  *)
(* is the writeOffset, so the remains of a failed Enqueue are in the queue.*)
LoadQueue == \E k \in 0..Len(file \o tail) : \E c \in 0..Len(file \o tail) :
                Load(k, c) /\ c \in ScanCount(file', k)

-----------------------------------------------------------------------------
(* Write a frame at writeOffset and sync.  It overwrites what a failed one *)
(* left there, all of it unless it is shorter.                             *)
Enqueue(e) == /\ dpc = "free"
              /\ file' = Append(file, e)
              /\ tail' \in {<<>>} \cup (IF tail = <<>> THEN {} ELSE {<<Torn>>})
              /\ count' = count + 1
              /\ UNCHANGED <<offFile, readOff, dpc, stale, overwritten>>

(* Enqueue fails, with an error of Marshal, of WriteAt at any point, or of *)
(* Sync.  writeOffset does not move, so Dequeue does not see what was      *)
(* written; a restart does.  A crash within Enqueue leaves the same.       *)
EnqueueFail(e) == /\ dpc = "free"
                  /\ tail' \in {tail, <<Torn>>, <<e>>}
                               \cup (IF tail = <<>> THEN {} ELSE {<<e, Torn>>})
                  /\ UNCHANGED <<file, offFile, readOff, count, dpc, stale, overwritten>>

(* Dequeue has something to return: the frame at readOffset is whole.      *)
HasNext == readOff < Len(file) /\ file[readOff + 1] # Torn

Next1 == file[readOff + 1]

(* Dequeue reads the frame and moves the offset and the counter on.        *)
Take == /\ dpc = "free" /\ HasNext
        /\ readOff' = readOff + 1
        /\ count' = count - 1
        /\ dpc' = "store"
        /\ UNCHANGED <<file, tail, offFile, stale, overwritten>>

(* Mutant: the offset is stored one frame too far.                         *)
StoreOffset_Ahead ==
    /\ dpc = "store"
    /\ offFile' = readOff + 1 /\ stale' = FALSE
    /\ dpc' = IF readOff >= Len(file) THEN "truncate"
              ELSE IF readOff > CompactAt THEN "copy" ELSE "free"
    /\ UNCHANGED <<file, tail, readOff, count, overwritten>>

(* persistOffset, and the choice of a compaction.  An error of WriteFile   *)
(* is ignored: the offset file keeps the old offset, or is left empty.     *)
StoreOffset == /\ dpc = "store"
               /\ \/ offFile' \in {readOff, 0} /\ stale' = FALSE
                  \/ UNCHANGED <<offFile, stale>>
               /\ dpc' = IF readOff >= Len(file) THEN "truncate"
                         ELSE IF readOff > CompactAt THEN "copy" ELSE "free"
               /\ UNCHANGED <<file, tail, readOff, count, overwritten>>

(* compact with nothing left: the file is emptied.                         *)
Truncate == /\ dpc = "truncate"
            /\ file' = <<>> /\ tail' = <<>> /\ readOff' = 0
            /\ dpc' = "persist"
            /\ UNCHANGED <<offFile, count, stale, overwritten>>

(* Mutant: the file is cut one frame short.                                *)
Compact_Short == /\ dpc = "copy"
                 /\ file' = SubSeq(file, readOff + 1, Len(file) - 1)
                 /\ tail' = <<>> /\ readOff' = 0
                 /\ dpc' = "persist"
                 /\ UNCHANGED <<offFile, count, stale, overwritten>>

(* compact: the rest is copied over the front of the file, and the file is *)
(* cut behind it.                                                          *)
Compact == /\ dpc = "copy"
           /\ file' = SubSeq(file, readOff + 1, Len(file))
           /\ tail' = <<>> /\ readOff' = 0
           /\ dpc' = "persist"
           /\ UNCHANGED <<offFile, count, stale, overwritten>>

(* What the file may look like when the copy, or the cut after it, has     *)
(* failed: the bytes written so far cover some of its first frames, which  *)
(* are torn, or, where the sizes happen to fit, replaced.                  *)
HalfCopied ==
    {[i \in 1..Len(file) |-> IF i <= n THEN Torn ELSE file[i]] : n \in 0..Len(file)}
    \cup {[i \in 1..Len(file) |-> IF i <= n THEN file[readOff + i] ELSE file[i]] :
              n \in 0..(Len(file) - readOff)}

(* compact gives up on an error.                                           *)
CompactFail ==
    /\ dpc \in {"truncate", "copy"}
    /\ file' \in IF dpc = "copy" THEN HalfCopied ELSE {file}
    /\ overwritten' = overwritten \cup
           {file[i] : i \in {j \in (readOff + 1)..Len(file) : file'[j] # file[j]}}
    /\ dpc' = "free"
    /\ UNCHANGED <<tail, offFile, readOff, count, stale>>

(* persistOffset at the end of compact.  If it fails, the offset file has  *)
(* an offset into the file as it was before.                               *)
Persist == /\ dpc = "persist"
           /\ \/ offFile' = readOff /\ stale' = FALSE
              \/ offFile' = offFile /\ stale' = (offFile # 0)
           /\ dpc' = "free"
           /\ UNCHANGED <<file, tail, readOff, count, overwritten>>

CompactStep == StoreOffset \/ Truncate \/ Compact \/ CompactFail \/ Persist

(* What the files look like after a crash: os.WriteFile empties the offset *)
(* file before it writes to it, and a compaction may be half done.         *)
CrashQueue == /\ offFile' \in {offFile} \cup (IF dpc \in {"store", "persist"} THEN {0} ELSE {})
              /\ stale' = (offFile' # 0 /\ (stale \/ dpc = "persist"))
              /\ file' \in IF dpc = "copy" THEN HalfCopied ELSE {file}
              /\ readOff' = 0 /\ count' = 0 /\ dpc' = "free" /\ overwritten' = {}
              /\ UNCHANGED tail
=============================================================================
