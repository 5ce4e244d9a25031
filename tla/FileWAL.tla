------------------------------ MODULE FileWAL ------------------------------
(***************************************************************************)
(* The file-backed write-ahead log (internal/wal/file_wal.go): the two     *)
(* files of its directory, the in-memory state of the process that has it  *)
(* open, and a caller that acknowledges what Append and Recover gave it.   *)
(*                                                                         *)
(* Every operation holds fw.mu, so each is one action; Checkpoint is two,  *)
(* split where a crash leaves the files in different states.  A crash      *)
(* inside Append leaves what AppendTear or AppendUnsynced leaves and is    *)
(* followed by Crash.                                                      *)
(***************************************************************************)
EXTENDS Naturals

CONSTANTS Events, \* the events offered to Append, one per call
          Faults  \* which of FaultKinds the environment may produce

(* torn       a record reaches the file in part (a crash or a full disk    *)
(*            between or inside the two writes of writeRecord)             *)
(* halfCkpt   Checkpoint ends, by a crash or a failed reopen, after the    *)
(*            rename and before the ack file is truncated                  *)
(* powerLoss  the machine stops: acknowledgements not yet synced may go    *)
FaultKinds == {"torn", "halfCkpt", "powerLoss"}

ASSUME FaultsAssumption == Faults \subseteq FaultKinds

VARIABLES
    \* the directory
    walFile,  \* the records of wal.log a reader gets to
    torn,     \* a partial record ends the readable part of wal.log
    ackFile,  \* the sequence numbers in wal.ack
    synced,   \* those of ackFile that are known to be on the disk
    \* the FileWAL struct
    up,       \* a process has the log open
    walOpen,  \* fw.walFile can be written to
    ackOpen,  \* fw.ackFile can be written to
    seq,      \* fw.seq
    acked,    \* fw.acked
    swapped,  \* Checkpoint, holding fw.mu, is past os.Rename
    \* the caller
    issued,   \* records Append or Recover returned and not acknowledged since
    \* history
    offered,  \* events passed to Append
    stored,   \* records whose Append returned no error
    finished, \* records passed to Acknowledge
    settled   \* records whose acknowledgement the restart must remember

disk    == <<walFile, torn, ackFile, synced>>
handles == <<walOpen, ackOpen>>
history == <<offered, stored, finished, settled>>
vars    == <<disk, up, handles, seq, acked, swapped, issued, history>>

Record == [seq : Nat \ {0}, ev : Events]

Init == /\ walFile = {} /\ torn = FALSE /\ ackFile = {} /\ synced = {}
        /\ up = FALSE /\ walOpen = FALSE /\ ackOpen = FALSE
        /\ seq = 0 /\ acked = {} /\ swapped = FALSE
        /\ issued = {}
        /\ offered = {} /\ stored = {} /\ finished = {} /\ settled = {}

-----------------------------------------------------------------------------
(* The process is up and fw.mu is free.                                    *)
Idle == up /\ ~swapped

(* What Recover returns of the records a reader gets to, given the set of  *)
(* acknowledged sequence numbers it filters by.                            *)
Unacked(acks) == {r \in walFile : r.seq \notin acks}

(* What a fresh process would replay: NewFileWAL loads acked from wal.ack. *)
NextRecovery == Unacked(ackFile)

(* Mutant: loadMaxSeq is not called.                                       *)
IsMaxSeq_NotLoaded(m) == m = 0

(* loadMaxSeq: the largest sequence number a reader of wal.log gets to.    *)
IsMaxSeq(m) == \A r \in walFile : r.seq <= m

(* NewFileWAL: loadAcked, then loadMaxSeq.                                 *)
Open == /\ ~up
        /\ up' = TRUE /\ walOpen' = TRUE /\ ackOpen' = TRUE
        /\ acked' = ackFile
        /\ \E m \in {0} \cup {r.seq : r \in walFile} : IsMaxSeq(m) /\ seq' = m
        /\ UNCHANGED <<disk, swapped, issued, history>>

(* Mutant: fw.seq is advanced after the record is built.                   *)
NewRecord_Late(e) == [seq |-> seq, ev |-> e]

(* The record Append writes: fw.seq is advanced before anything can fail.  *)
NewRecord(e) == [seq |-> seq + 1, ev |-> e]

(* The common part of every outcome of Append: the next event is offered   *)
(* and its sequence number is consumed.                                    *)
Offer(e) == /\ Idle /\ e \notin offered
            /\ offered' = offered \cup {e}
            /\ seq' = seq + 1
            /\ UNCHANGED <<ackFile, synced, up, handles, acked, swapped, finished, settled>>

(* Mutant: wal.log is not opened for appending.                            *)
Written_Overwrites(e) == /\ walOpen
                         /\ walFile' = {NewRecord(e)}
                         /\ UNCHANGED torn

(* A whole record lands in wal.log; behind a partial one no reader gets to *)
(* it.                                                                     *)
Written(e) == /\ walOpen
              /\ walFile' = IF torn THEN walFile ELSE walFile \cup {NewRecord(e)}
              /\ UNCHANGED torn

Append(e) == /\ Offer(e)
             /\ Written(e)
             /\ stored' = stored \cup {NewRecord(e)}
             /\ issued' = issued \cup {NewRecord(e)}

(* walFile.Sync fails after both writes: the caller gets an error, the     *)
(* record is in the file.                                                  *)
AppendUnsynced(e) == Offer(e) /\ Written(e) /\ UNCHANGED <<stored, issued>>

(* The first write fails, or walFile is closed or nil: nothing is written. *)
AppendFail(e) == Offer(e) /\ UNCHANGED <<walFile, torn, stored, issued>>

(* A write stops inside the record; nothing removes the part.              *)
AppendTear(e) == /\ "torn" \in Faults
                 /\ Offer(e)
                 /\ walOpen
                 /\ torn' = TRUE
                 /\ UNCHANGED <<walFile, stored, issued>>

(* Acknowledge marks the record in memory first, then appends to wal.ack   *)
(* without a sync.                                                         *)
Mark(r) == /\ Idle /\ r \in issued
           /\ acked' = acked \cup {r.seq}
           /\ issued' = issued \ {r}
           /\ finished' = finished \cup {r}
           /\ UNCHANGED <<walFile, torn, synced, up, handles, seq, swapped, offered, stored>>

Acknowledge(r) == /\ Mark(r)
                  /\ ackOpen
                  /\ ackFile' = ackFile \cup {r.seq}
                  /\ settled' = settled \cup {r}

AcknowledgeFail(r) == Mark(r) /\ UNCHANGED <<ackFile, settled>>

(* Recover reads the file and hands out what memory does not hold as       *)
(* acknowledged.                                                           *)
Recover == /\ Idle
           /\ issued' = issued \cup Unacked(acked)
           /\ UNCHANGED <<disk, up, handles, seq, acked, swapped, history>>

(* Mutant: the ack file is truncated before the rename.                    *)
CheckpointRename_AckFirst ==
    /\ Idle
    /\ ackFile' = {} /\ synced' = {}
    /\ swapped' = TRUE
    /\ UNCHANGED <<walFile, torn, up, handles, seq, acked, issued, history>>

(* Checkpoint up to os.Rename: the records it could read and that are not  *)
(* acknowledged replace the file; walFile is reopened on it.  Errors before *)
(* the old handle is closed change nothing.                                *)
CheckpointRename ==
    /\ Idle
    /\ walFile' = Unacked(acked)
    /\ torn' = FALSE
    /\ walOpen' = TRUE
    /\ swapped' = TRUE
    /\ UNCHANGED <<ackFile, synced, up, ackOpen, seq, acked, issued, history>>

(* os.Rename fails: the old handle is closed already.                      *)
CheckpointRenameFail ==
    /\ Idle
    /\ walOpen' = FALSE
    /\ UNCHANGED <<disk, up, ackOpen, seq, acked, swapped, issued, history>>

(* The rest of Checkpoint: wal.ack is truncated, the memory reset.         *)
CheckpointTruncate ==
    /\ swapped
    /\ ackFile' = {} /\ synced' = {}
    /\ ackOpen' = TRUE
    /\ acked' = {}
    /\ swapped' = FALSE
    /\ UNCHANGED <<walFile, torn, up, walOpen, seq, issued, history>>

(* wal.log or wal.ack cannot be reopened after the rename: Checkpoint      *)
(* returns, and the ack file and acked keep what they had.                 *)
CheckpointReopenFail ==
    /\ "halfCkpt" \in Faults
    /\ swapped
    /\ \/ walOpen' = FALSE /\ UNCHANGED ackOpen
       \/ ackOpen' = FALSE /\ UNCHANGED walOpen
    /\ swapped' = FALSE
    /\ UNCHANGED <<disk, up, seq, acked, issued, history>>

(* The process is gone: its memory and its handles with it.                *)
Exit == /\ up' = FALSE /\ walOpen' = FALSE /\ ackOpen' = FALSE
        /\ seq' = 0 /\ acked' = {} /\ swapped' = FALSE
        /\ issued' = {}
        /\ UNCHANGED <<walFile, torn, offered, stored, finished>>

(* Close syncs both files; the process exits after it.                     *)
Close == /\ Idle
         /\ Exit
         /\ synced' = IF ackOpen THEN ackFile ELSE synced
         /\ UNCHANGED <<ackFile, settled>>

Crash == /\ up
         /\ swapped => "halfCkpt" \in Faults
         /\ Exit
         /\ UNCHANGED <<ackFile, synced, settled>>

(* The machine stops, whether or not the process runs: any acknowledgement *)
(* that was not synced may be missing afterwards.                          *)
PowerLoss == /\ "powerLoss" \in Faults
             /\ swapped => "halfCkpt" \in Faults
             /\ Exit
             /\ ackFile' \in {synced \cup s : s \in SUBSET ackFile}
             /\ settled' = {r \in settled : r.seq \in synced \/ r \notin walFile}
             /\ UNCHANGED synced

Next == \/ Open \/ Recover \/ Close \/ Crash \/ PowerLoss
        \/ \E e \in Events : \/ Append(e) \/ AppendUnsynced(e)
                             \/ AppendFail(e) \/ AppendTear(e)
        \/ \E r \in issued : Acknowledge(r) \/ AcknowledgeFail(r)
        \/ CheckpointRename \/ CheckpointRenameFail
        \/ CheckpointTruncate \/ CheckpointReopenFail

Spec == Init /\ [][Next]_vars

-----------------------------------------------------------------------------
(* Types.  Memory of a process that is not there is at its zero value, and *)
(* a handle is only usable while there is a process.                       *)
TypeOK == /\ walFile \subseteq Record
          /\ torn \in BOOLEAN
          /\ ackFile \subseteq Nat \ {0} /\ synced \subseteq ackFile
          /\ up \in BOOLEAN /\ walOpen \in BOOLEAN /\ ackOpen \in BOOLEAN
          /\ seq \in Nat /\ acked \subseteq Nat \ {0} /\ swapped \in BOOLEAN
          /\ issued \subseteq Record
          /\ offered \subseteq Events
          /\ stored \subseteq Record /\ finished \subseteq Record
          /\ settled \subseteq finished

(* An event whose Append succeeded and that nobody acknowledged is what a  *)
(* restart replays, and what Recover returns in the running process: the   *)
(* promise behind "at-least-once".  It holds as long as no record is torn  *)
(* and no checkpoint ends half way.                                        *)
Durable == /\ stored \ finished \subseteq NextRecovery
           /\ Idle => stored \ finished \subseteq Unacked(acked)

(* An acknowledged event is not replayed: not after Close and a restart,   *)
(* nor, unless the machine lost power, after a crash, wherever Checkpoint  *)
(* was interrupted.                                                        *)
AckedStaysAcked == settled \cap NextRecovery = {}

(* The files implement the abstract log: what a restart would replay loses *)
(* an entry only when the caller acknowledged it, and two live entries     *)
(* never have one sequence number.                                         *)
Log == INSTANCE DurableLog WITH live <- NextRecovery, done <- finished

LogSpec == Log!Spec
=============================================================================
