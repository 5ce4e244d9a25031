--------------------------- MODULE FileWALProofs ---------------------------
(***************************************************************************)
(* Proofs about FileWAL, for any set of events.                            *)
(*                                                                         *)
(* Two inductive invariants.  AckInv needs no assumption on the faults and *)
(* gives AckedStaysAcked.  LogInv holds when no record is torn and no      *)
(* checkpoint ends half way, and gives Durable and the refinement.         *)
(***************************************************************************)
EXTENDS FileWAL, TLAPS

(* The environment produces neither of the two faults that lose records.   *)
NoLossyFault == "torn" \notin Faults /\ "halfCkpt" \notin Faults

(* Memory knows at least what the ack file holds.                          *)
AcksLoaded == up => ackFile \subseteq acked

(* Between the rename and the truncation no record of the new file is      *)
(* acknowledged.                                                           *)
Compacted == swapped => up /\ \A r \in walFile : r.seq \notin acked

(* Every record stems from an event offered to Append.                     *)
Offered == \A r \in walFile \cup issued \cup finished : r.ev \in offered

AckInv == TypeOK /\ AcksLoaded /\ Compacted /\ Offered /\ AckedStaysAcked

-----------------------------------------------------------------------------
(* The variables have their types after every step of the log.             *)
LEMMA TypeStep == TypeOK /\ [Next]_vars => TypeOK'
<1> SUFFICES ASSUME TypeOK, [Next]_vars PROVE TypeOK'
  OBVIOUS
<1> USE DEF TypeOK, Record, disk, handles, history
<1>1. CASE UNCHANGED vars
  BY <1>1 DEF vars
<1>2. CASE Open
  BY <1>2 DEF Open
<1>3. CASE Recover
  BY <1>3 DEF Recover, Unacked
<1>4. CASE Close
  BY <1>4 DEF Close, Exit
<1>5. CASE Crash
  BY <1>5 DEF Crash, Exit
<1>6. CASE PowerLoss
  BY <1>6 DEF PowerLoss, Exit
<1>7. ASSUME NEW e \in Events,
             Append(e) \/ AppendUnsynced(e) \/ AppendFail(e) \/ AppendTear(e)
      PROVE  TypeOK'
  <2>1. NewRecord(e) \in Record
    BY DEF NewRecord
  <2>2. CASE Append(e)
    BY <2>1, <2>2 DEF Append, Offer, Written
  <2>3. CASE AppendUnsynced(e)
    BY <2>1, <2>3 DEF AppendUnsynced, Offer, Written
  <2>4. CASE AppendFail(e)
    BY <2>4 DEF AppendFail, Offer
  <2>5. CASE AppendTear(e)
    BY <2>5 DEF AppendTear, Offer
  <2> QED BY <1>7, <2>2, <2>3, <2>4, <2>5
<1>8. ASSUME NEW r \in issued, Acknowledge(r) \/ AcknowledgeFail(r)
      PROVE  TypeOK'
  BY <1>8 DEF Acknowledge, AcknowledgeFail, Mark
<1>9. CASE CheckpointRename
  BY <1>9 DEF CheckpointRename, Unacked
<1>10. CASE CheckpointRenameFail
  BY <1>10 DEF CheckpointRenameFail
<1>11. CASE CheckpointTruncate
  BY <1>11 DEF CheckpointTruncate
<1>12. CASE CheckpointReopenFail
  BY <1>12 DEF CheckpointReopenFail
<1> QED
  BY <1>1, <1>2, <1>3, <1>4, <1>5, <1>6, <1>7, <1>8, <1>9, <1>10, <1>11, <1>12
     DEF Next

(* A fresh directory has its type.                                         *)
LEMMA TypeInit == Init => TypeOK
<1> SUFFICES ASSUME Init PROVE TypeOK
  OBVIOUS
<1>1. /\ walFile \subseteq Record /\ issued \subseteq Record
      /\ stored \subseteq Record /\ finished \subseteq Record
      /\ offered \subseteq Events
  BY DEF Init
<1> QED BY <1>1 DEF Init, TypeOK

(* Type correctness of the log (internal/wal/file_wal.go).                 *)
THEOREM TypeCorrect == Spec => []TypeOK
  BY TypeInit, TypeStep, PTL DEF Spec

-----------------------------------------------------------------------------
(* Every step preserves AckInv, under all faults.                          *)
LEMMA AckStep == AckInv /\ [Next]_vars => AckInv'
<1> SUFFICES ASSUME AckInv, [Next]_vars PROVE AckInv'
  OBVIOUS
<1> TypeOK /\ TypeOK'
  BY TypeStep DEF AckInv
<1> SUFFICES (AcksLoaded /\ Compacted /\ Offered /\ AckedStaysAcked)'
  BY DEF AckInv
<1> USE DEF AckInv, AcksLoaded, Compacted, Offered, AckedStaysAcked,
            NextRecovery, Unacked, disk, handles, history
<1>1. CASE UNCHANGED vars
  BY <1>1 DEF vars
<1>2. CASE Open
  BY <1>2 DEF Open
<1>3. CASE Recover
  BY <1>3 DEF Recover, Idle
<1>4. CASE Close \/ Crash
  BY <1>4 DEF Close, Crash, Exit, Idle
<1>5. CASE PowerLoss
  BY <1>5 DEF PowerLoss, Exit, TypeOK
<1>6. ASSUME NEW e \in Events,
             Append(e) \/ AppendUnsynced(e) \/ AppendFail(e) \/ AppendTear(e)
      PROVE  (AcksLoaded /\ Compacted /\ Offered /\ AckedStaysAcked)'
  <2>1. NewRecord(e).ev = e /\ e \notin offered /\ offered' = offered \cup {e}
    BY <1>6 DEF NewRecord, Append, AppendUnsynced, AppendFail, AppendTear, Offer
  <2>2. walFile' \subseteq walFile \cup {NewRecord(e)}
        /\ issued' \subseteq issued \cup {NewRecord(e)}
    BY <1>6 DEF Append, AppendUnsynced, AppendFail, AppendTear, Written
  <2>3. UNCHANGED <<ackFile, acked, up, swapped, finished, settled>> /\ ~swapped
    BY <1>6 DEF Append, AppendUnsynced, AppendFail, AppendTear, Offer, Idle
  <2>4. NewRecord(e) \notin settled
    BY <2>1 DEF TypeOK
  <2> QED BY <2>1, <2>2, <2>3, <2>4
<1>7. ASSUME NEW r \in issued, Acknowledge(r) \/ AcknowledgeFail(r)
      PROVE  (AcksLoaded /\ Compacted /\ Offered /\ AckedStaysAcked)'
  BY <1>7 DEF Acknowledge, AcknowledgeFail, Mark, Idle
<1>8. CASE CheckpointRename
  BY <1>8 DEF CheckpointRename, Idle
<1>9. CASE CheckpointRenameFail
  BY <1>9 DEF CheckpointRenameFail
<1>10. CASE CheckpointTruncate
  BY <1>10 DEF CheckpointTruncate
<1>11. CASE CheckpointReopenFail
  BY <1>11 DEF CheckpointReopenFail
<1> QED
  BY <1>1, <1>2, <1>3, <1>4, <1>5, <1>6, <1>7, <1>8, <1>9, <1>10, <1>11 DEF Next

(* An acknowledged event is never replayed, whichever faults occur: the    *)
(* rename of Checkpoint comes before the truncation of wal.ack.            *)
THEOREM AcksRemembered == Spec => []AckedStaysAcked
<1>1. Init => AckInv
  BY TypeInit DEF Init, AckInv, AcksLoaded, Compacted, Offered,
         AckedStaysAcked, NextRecovery, Unacked
<1>2. AckInv => AckedStaysAcked
  BY DEF AckInv
<1> QED
  BY <1>1, <1>2, AckStep, PTL DEF Spec

-----------------------------------------------------------------------------
(* One sequence number, one record; none beyond the counter of a running   *)
(* process, in the log or among the acknowledgements it knows.             *)
SeqsFresh == /\ Log!Distinct(walFile)
             /\ up => /\ \A r \in walFile : r.seq <= seq
                      /\ \A a \in acked : a <= seq

(* Outside a checkpoint every acknowledgement on the disk has its record   *)
(* there too, so that a restart resumes above all of them.                 *)
AcksCovered == ~swapped => \A a \in ackFile : \E r \in walFile : r.seq = a

(* What the caller still holds is in the file and not acknowledged.        *)
HeldByCaller == /\ \A r \in issued : r \in walFile /\ r.seq \notin acked
                /\ ~up => issued = {} /\ acked = {}

(* No acknowledgement hides a record the caller did not acknowledge.       *)
NoFalseAck == \A r \in walFile : r.seq \in ackFile \cup acked => r \in finished

(* No accepted record leaves the file before it is acknowledged.           *)
Kept == ~torn /\ stored \ finished \subseteq walFile

LogInv == TypeOK /\ AcksLoaded /\ Compacted /\ SeqsFresh /\ AcksCovered
          /\ HeldByCaller /\ NoFalseAck /\ Kept

(* Without torn records and half-done checkpoints every step preserves     *)
(* LogInv.                                                                 *)
LEMMA LogStep ==
  ASSUME NoLossyFault
  PROVE  LogInv /\ [Next]_vars => LogInv'
<1> SUFFICES ASSUME LogInv, [Next]_vars PROVE LogInv'
  OBVIOUS
<1> TypeOK /\ TypeOK'
  BY TypeStep DEF LogInv
<1> DEFINE Parts == AcksLoaded /\ Compacted /\ SeqsFresh /\ AcksCovered
                    /\ HeldByCaller /\ NoFalseAck /\ Kept
<1> SUFFICES Parts'
  BY DEF LogInv
<1> USE DEF LogInv, AcksLoaded, Compacted, SeqsFresh, AcksCovered, HeldByCaller,
            NoFalseAck, Kept, Unacked, Log!Distinct, disk, handles, history
<1>1. CASE UNCHANGED vars
  BY <1>1 DEF vars
<1>2. CASE Open
  <2>1. \A r \in walFile : r.seq <= seq'
    BY <1>2 DEF Open, IsMaxSeq
  <2>2. ~swapped
    BY <1>2 DEF Open
  <2> QED BY <1>2, <2>1, <2>2 DEF Open
<1>3. CASE Recover
  BY <1>3 DEF Recover, Idle
<1>4. CASE Close \/ Crash
  BY <1>4 DEF Close, Crash, Exit, Idle, NoLossyFault
<1>5. CASE PowerLoss
  <2>1. ackFile' \subseteq ackFile /\ ~swapped
    BY <1>5 DEF PowerLoss, NoLossyFault, TypeOK
  <2> QED BY <1>5, <2>1 DEF PowerLoss, Exit
<1>6. ASSUME NEW e \in Events,
             Append(e) \/ AppendUnsynced(e) \/ AppendFail(e) \/ AppendTear(e)
      PROVE  Parts'
  <2>1. up /\ ~swapped /\ seq' = seq + 1
        /\ UNCHANGED <<ackFile, acked, up, swapped, finished>>
    BY <1>6 DEF Append, AppendUnsynced, AppendFail, AppendTear, Offer, Idle
  <2>2. CASE AppendFail(e)
    BY <2>1, <2>2 DEF AppendFail, TypeOK, Record
  <2>3. CASE Append(e) \/ AppendUnsynced(e)
    <3>1. walFile' = walFile \cup {NewRecord(e)} /\ ~torn'
      BY <2>3 DEF Append, AppendUnsynced, Written
    <3>2. /\ issued' \subseteq issued \cup {NewRecord(e)}
          /\ stored' \subseteq stored \cup {NewRecord(e)}
      BY <2>3 DEF Append, AppendUnsynced
    <3>3. /\ NewRecord(e).seq = seq + 1
          /\ seq + 1 \notin acked
          /\ \A r \in walFile : r.seq # seq + 1 /\ r.seq <= seq + 1
          /\ \A a \in acked : a <= seq + 1
      BY <2>1 DEF NewRecord, TypeOK, Record
    <3> QED BY <2>1, <3>1, <3>2, <3>3
  <2> QED BY <1>6, <2>2, <2>3 DEF AppendTear, NoLossyFault
<1>7. ASSUME NEW r \in issued, Acknowledge(r) \/ AcknowledgeFail(r)
      PROVE  Parts'
  <2>1. r \in walFile /\ up /\ ~swapped
    BY <1>7 DEF Acknowledge, AcknowledgeFail, Mark, Idle
  <2>2. /\ acked' = acked \cup {r.seq} /\ issued' = issued \ {r}
        /\ finished' = finished \cup {r}
        /\ ackFile' \subseteq ackFile \cup {r.seq}
        /\ UNCHANGED <<walFile, torn, up, seq, swapped, stored>>
    BY <1>7 DEF Acknowledge, AcknowledgeFail, Mark
  <2> QED BY <2>1, <2>2
<1>8. CASE CheckpointRename
  BY <1>8 DEF CheckpointRename, Idle
<1>9. CASE CheckpointRenameFail
  BY <1>9 DEF CheckpointRenameFail
<1>10. CASE CheckpointTruncate
  BY <1>10 DEF CheckpointTruncate
<1>11. CASE CheckpointReopenFail
  BY <1>11 DEF CheckpointReopenFail, NoLossyFault
<1> QED
  BY <1>1, <1>2, <1>3, <1>4, <1>5, <1>6, <1>7, <1>8, <1>9, <1>10, <1>11 DEF Next

(* A fresh directory satisfies LogInv.                                     *)
LEMMA LogInit == Init => LogInv
  BY TypeInit DEF Init, LogInv, AcksLoaded, Compacted, SeqsFresh, AcksCovered,
     HeldByCaller, NoFalseAck, Kept, Log!Distinct

(* Without torn records and half-done checkpoints, every record whose      *)
(* Append succeeded is replayed by a restart until it is acknowledged.     *)
THEOREM Durability == ASSUME NoLossyFault PROVE Spec => []Durable
<1>1. LogInv => Durable
  BY DEF LogInv, Durable, NoFalseAck, Kept, NextRecovery, Unacked
<1> QED
  BY <1>1, LogInit, LogStep, PTL DEF Spec

-----------------------------------------------------------------------------
(* A step of the files is a step of the abstract log, or changes nothing   *)
(* it can see.                                                             *)
LEMMA LogRefines ==
  ASSUME NoLossyFault
  PROVE  LogInv /\ LogInv' /\ [Next]_vars => [Log!Next]_(Log!vars)
<1> SUFFICES ASSUME LogInv, LogInv', [Next]_vars PROVE [Log!Next]_(Log!vars)
  OBVIOUS
<1> USE DEF Log!vars, NextRecovery, Unacked, disk, handles, history
<1> DEFINE Live == NextRecovery
<1>1. CASE UNCHANGED vars \/ Open \/ Recover \/ CheckpointRenameFail
  BY <1>1 DEF vars, Open, Recover, CheckpointRenameFail
<1>2. CASE Close \/ Crash
  BY <1>2 DEF Close, Crash, Exit
<1>3. CASE PowerLoss
  <2>1. walFile' = walFile /\ finished' = finished /\ ackFile' \subseteq ackFile
    BY <1>3 DEF PowerLoss, Exit, LogInv, TypeOK
  <2>2. Live \subseteq Live' /\ Live' \ Live \subseteq finished
    BY <2>1 DEF LogInv, NoFalseAck
  <2>3. Log!Distinct(Live')
    BY <2>1 DEF Log!Distinct, LogInv, SeqsFresh
  <2> QED BY <2>1, <2>2, <2>3 DEF Log!Next, Log!Revive
<1>4. ASSUME NEW e \in Events,
             Append(e) \/ AppendUnsynced(e) \/ AppendFail(e) \/ AppendTear(e)
      PROVE  [Log!Next]_(Log!vars)
  <2>1. CASE AppendFail(e)
    BY <2>1 DEF AppendFail, Offer
  <2>2. CASE Append(e) \/ AppendUnsynced(e)
    <3>1. /\ up /\ seq' = seq + 1 /\ ackFile' = ackFile /\ finished' = finished
          /\ walFile' = walFile \cup {NewRecord(e)}
      BY <2>2 DEF Append, AppendUnsynced, Offer, Written, Idle, LogInv, Kept
    <3>2. NewRecord(e) \in Log!Record /\ NewRecord(e).seq \notin ackFile
      BY <3>1 DEF NewRecord, Log!Record, LogInv, TypeOK, AcksLoaded, SeqsFresh
    <3>3. Live' = Live \cup {NewRecord(e)}
      BY <3>1, <3>2
    <3>4. Log!Distinct(Live')
      BY DEF Log!Distinct, LogInv, SeqsFresh
    <3>5. Log!Append
      BY <3>1, <3>2, <3>3, <3>4 DEF Log!Append
    <3> QED BY <3>5 DEF Log!Next
  <2> QED BY <1>4, <2>1, <2>2 DEF AppendTear, NoLossyFault
<1>5. ASSUME NEW r \in issued, Acknowledge(r) \/ AcknowledgeFail(r)
      PROVE  [Log!Next]_(Log!vars)
  <2>1. /\ walFile' = walFile /\ finished' = finished \cup {r} /\ r \in walFile
        /\ ackFile' \in {ackFile, ackFile \cup {r.seq}}
    BY <1>5 DEF Acknowledge, AcknowledgeFail, Mark, LogInv, HeldByCaller
  <2>2. Live' \in {Live, Live \ {r}}
    BY <2>1 DEF LogInv, SeqsFresh, Log!Distinct
  <2>3. Log!Acknowledge
    BY <2>1, <2>2 DEF Log!Acknowledge
  <2> QED BY <2>3 DEF Log!Next
<1>6. CASE CheckpointRename
  <2>1. finished' = finished /\ ackFile' = ackFile /\ walFile' = Unacked(acked)
    BY <1>6 DEF CheckpointRename
  <2>2. Live' \subseteq Live /\ Live \ Live' \subseteq finished
    BY <2>1 DEF LogInv, NoFalseAck
  <2> QED BY <2>1, <2>2 DEF Log!Next, Log!Release
<1>7. CASE CheckpointTruncate
  <2>1. Live = walFile
    BY <1>7 DEF CheckpointTruncate, LogInv, Compacted, AcksLoaded
  <2>2. Live' = walFile /\ finished' = finished
    BY <1>7 DEF CheckpointTruncate
  <2> QED BY <2>1, <2>2
<1>8. CASE CheckpointReopenFail
  BY <1>8 DEF CheckpointReopenFail, NoLossyFault
<1> QED
  BY <1>1, <1>2, <1>3, <1>4, <1>5, <1>6, <1>7, <1>8 DEF Next

(* The two files implement the abstract log of DurableLog: no entry leaves *)
(* what a restart would replay unless the caller acknowledged it, and no   *)
(* two live entries share a sequence number.                               *)
THEOREM Refinement == ASSUME NoLossyFault PROVE Spec => LogSpec
<1>1. Init => Log!Init
  BY DEF Init, Log!Init, NextRecovery, Unacked
<1> QED
  BY <1>1, LogInit, LogStep, LogRefines, PTL DEF Spec, LogSpec, Log!Spec
=============================================================================
