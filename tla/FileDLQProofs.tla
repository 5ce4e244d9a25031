--------------------------- MODULE FileDLQProofs ---------------------------
(***************************************************************************)
(* Proofs about FileDLQ, for any entries, days and number of restarts.     *)
(*                                                                         *)
(* DrainEntries is not atomic, so what it promises needs to be told of a   *)
(* directory that is half way through: QueueInv relates what was read      *)
(* (taken) to the files that are still to be renamed (rest).               *)
(***************************************************************************)
EXTENDS FileDLQ, TLAPS

(* What the files hold, and what was read, was pushed.                     *)
Sourced == /\ \A d \in Days : lines[d] \cup archive[d] \subseteq pushed
           /\ taken \subseteq pushed

(* A running DrainEntries has closed d.file.                               *)
FileClosed == dpc = "archive" => up /\ ~open

Types == TypeOK /\ Sourced /\ FileClosed

(* An entry is in one place: Push writes one line, Rename moves it.        *)
OnePlace == \A d \in Days, x \in Days :
               /\ d # x => lines[d] \cap lines[x] = {}
               /\ archive[d] \cap lines[x] = {}

(* A running DrainEntries has read whatever is still pending, and unless a *)
(* rename failed the files that exist are the ones it has to rename.       *)
ReadBeforeRename == dpc = "archive" => /\ \A d \in Days : lines[d] \subseteq taken
                                       /\ ~kept => rest = present

(* An archive holds what some drain returned or left behind, or what the   *)
(* running one has renamed itself; never in a file it has still to rename. *)
ArchivesSettled ==
    \A d \in Days : /\ archive[d] \subseteq handed \cup stranded \cup taken
                    /\ d \in rest => archive[d] \subseteq handed \cup stranded

QueueInv == /\ Types /\ OnePlace /\ ReadBeforeRename /\ ArchivesSettled
            /\ DrainLosesNothing /\ HandedOutOnce /\ KeptUntilReplaced

-----------------------------------------------------------------------------
(* An empty queue satisfies the invariant.                                 *)
LEMMA QueueInit == Init => QueueInv
<1> SUFFICES ASSUME Init PROVE QueueInv
  OBVIOUS
<1> USE FileDLQAssumption DEF Init, Days
<1>1. /\ lines \in [Days -> SUBSET Entries] /\ archive \in [Days -> SUBSET Entries]
      /\ 1 \in Days /\ crashes \in 0..MaxCrashes
  OBVIOUS
<1>a. TypeOK
  BY <1>1, Zenon DEF TypeOK
<1>2. Sourced /\ FileClosed /\ OnePlace /\ ReadBeforeRename /\ ArchivesSettled
  BY DEF Sourced, FileClosed, OnePlace, ReadBeforeRename, ArchivesSettled
<1>3. DrainLosesNothing /\ HandedOutOnce /\ KeptUntilReplaced
  BY DEF DrainLosesNothing, HandedOutOnce, KeptUntilReplaced
<1> QED BY <1>a, <1>2, <1>3 DEF QueueInv, Types

(* Every step keeps the types; an entry that is read, or returned, has to  *)
(* have been pushed.                                                       *)
LEMMA TypeStep == Types /\ [Next]_vars => Types'
<1> SUFFICES ASSUME Types, [Next]_vars PROVE Types'
  OBVIOUS
<1> USE FileDLQAssumption DEF Types, TypeOK, Sourced, FileClosed, Days, directory, history
<1>1. CASE UNCHANGED vars
  BY <1>1 DEF vars
<1>2. ASSUME NEW e \in Entries, Push(e) PROVE Types'
  <2>1. lines' \in [Days -> SUBSET Entries] /\ \A d \in Days : lines'[d] \subseteq pushed'
    BY <1>2 DEF Push
  <2>2. \A d \in Days \ present : lines'[d] = {}
    BY <1>2 DEF Push
  <2> QED BY <1>2, <2>1, <2>2 DEF Push
<1>3. CASE PushTear
  BY <1>3 DEF PushTear
<1>4. CASE DrainRead
  BY <1>4, ZenonT(30) DEF DrainRead, ReadAll, Pending
<1>5. CASE Archive
  <2>1. PICK d \in rest : (Rename(d) \/ RenameFail) /\ rest' = rest \ {d}
    BY <1>5 DEF Archive
  <2>2. UNCHANGED <<today, up, open, cur, dpc, taken, pushed, spoiled, handed, stranded,
                    crashes>> /\ dpc = "archive"
    BY <1>5 DEF Archive
  <2>3. CASE Rename(d)
    BY <2>1, <2>2, <2>3 DEF Rename
  <2>4. CASE RenameFail
    BY <2>1, <2>2, <2>4 DEF RenameFail
  <2> QED BY <2>1, <2>3, <2>4
<1>6. CASE DrainReturn
  BY <1>6 DEF DrainReturn, OpenToday
<1>7. CASE ReopenFail
  BY <1>7 DEF ReopenFail, Abandon
<1>8. CASE Stop
  <2>1. crashes' \in 0..MaxCrashes
    BY <1>8 DEF Stop
  <2>2. stranded' \subseteq pushed
    BY <1>8 DEF Stop, Abandon
  <2>3. UNCHANGED <<directory, today, cur, pushed, spoiled, handed, replaced, kept>>
        /\ up' = FALSE /\ open' = FALSE /\ taken' = {} /\ rest' = {} /\ dpc' = "free"
    BY <1>8 DEF Stop, Abandon
  <2> QED BY <2>1, <2>2, <2>3
<1>9. CASE Start
  BY <1>9 DEF Start, OpenToday
<1>10. CASE Midnight
  BY <1>10 DEF Midnight
<1>11. CASE CloseFail
  BY <1>11 DEF CloseFail
<1> QED
  BY <1>1, <1>2, <1>3, <1>4, <1>5, <1>6, <1>7, <1>8, <1>9, <1>10, <1>11 DEF Next

-----------------------------------------------------------------------------
(* What is pending is in the file of some day, there or not.               *)
LEMMA PendingIs ==
    TypeOK => \A e : e \in Pending <=> \E d \in Days : e \in lines[d]
  BY DEF TypeOK, Pending

(* An entry is archived if some day's archive has it.                      *)
LEMMA ArchivedIs == \A e : e \in Archived <=> \E d \in Days : e \in archive[d]
  BY DEF Archived

(* Every step preserves the relations between the files, what was read and *)
(* what was returned.                                                      *)
LEMMA QueueStep == QueueInv /\ [Next]_vars => QueueInv'
<1> SUFFICES ASSUME QueueInv, [Next]_vars PROVE QueueInv'
  OBVIOUS
<1>t. TypeOK /\ Sourced /\ FileClosed /\ TypeOK' /\ Sourced' /\ Types'
  BY TypeStep DEF QueueInv, Types
<1>p. \A e : e \in Pending <=> \E d \in Days : e \in lines[d]
  BY <1>t, PendingIs
<1>pp. \A e : e \in Pending' <=> \E d \in Days : e \in lines'[d]
  BY <1>t DEF TypeOK, Pending
<1>a. \A e : e \in Archived <=> \E d \in Days : e \in archive[d]
  BY ArchivedIs
<1>ap. \A e : e \in Archived' <=> \E d \in Days : e \in archive'[d]
  BY DEF Archived
<1> DEFINE Files == OnePlace /\ ReadBeforeRename /\ ArchivesSettled
           Promises == DrainLosesNothing /\ HandedOutOnce /\ KeptUntilReplaced
<1> SUFFICES Files' /\ Promises'
  BY <1>t DEF QueueInv
<1> USE <1>t, <1>p, <1>pp, <1>a, <1>ap
<1> USE DEF OnePlace, ReadBeforeRename, ArchivesSettled, DrainLosesNothing,
            HandedOutOnce, KeptUntilReplaced, directory, history
<1> HIDE DEF Types
<1> Files /\ Promises
  BY DEF QueueInv
<1>1. CASE UNCHANGED <<directory, dpc, rest, taken, pushed, spoiled, handed, stranded,
                       replaced, kept>>
  BY <1>1
<1>2. ASSUME NEW e \in Entries, Push(e) PROVE Files' /\ Promises'
  <2>1. CASE cur \in tail
    BY <1>2, <2>1 DEF Push
  <2>2. CASE cur \notin tail
    <3>1. /\ e \notin pushed /\ pushed' = pushed \cup {e} /\ cur \in Days
          /\ dpc = "free" /\ dpc' = "free"
          /\ \A d \in Days : lines'[d] = IF d = cur THEN lines[d] \cup {e} ELSE lines[d]
          /\ UNCHANGED <<archive, rest, taken, spoiled, handed, stranded, replaced, kept>>
      BY <1>2, <2>2 DEF Push, TypeOK
    <3>2. e \notin handed /\ \A d \in Days : e \notin lines[d] /\ e \notin archive[d]
      BY <3>1 DEF Sourced, TypeOK
    <3>4. OnePlace'
      <4> SUFFICES ASSUME NEW d \in Days, NEW x \in Days
                   PROVE  /\ d # x => lines'[d] \cap lines'[x] = {}
                          /\ archive'[d] \cap lines'[x] = {}
        OBVIOUS
      <4>1. /\ d # x => lines[d] \cap lines[x] = {}
            /\ archive[d] \cap lines[x] = {}
        OBVIOUS
      <4>2. /\ lines'[d] = IF d = cur THEN lines[d] \cup {e} ELSE lines[d]
            /\ lines'[x] = IF x = cur THEN lines[x] \cup {e} ELSE lines[x]
            /\ archive'[d] = archive[d]
            /\ e \notin lines[d] /\ e \notin lines[x] /\ e \notin archive[d]
        BY <3>1, <3>2
      <4> HIDE DEF OnePlace, ReadBeforeRename, ArchivesSettled, DrainLosesNothing,
                   HandedOutOnce, KeptUntilReplaced
      <4> QED BY <4>1, <4>2
    <3>5. ReadBeforeRename' /\ ArchivesSettled'
      BY <3>1
    <3>6. Pending' = Pending \cup {e}
      <4>1. e \in lines'[cur]
        BY <3>1
      <4>2. \A f : (\E d \in Days : f \in lines'[d]) <=> f = e \/ \E d \in Days : f \in lines[d]
        BY ONLY <3>1, <4>1
      <4> QED BY <4>2
    <3>7. Archived' = Archived
      BY <3>1 DEF Archived
    <3> QED BY <3>1, <3>2, <3>4, <3>5, <3>6, <3>7
  <2> QED BY <2>1, <2>2
<1>3. CASE DrainRead
  <2>1. /\ taken = {} /\ rest' = present /\ dpc' = "archive"
        /\ \A d \in Days : lines[d] \subseteq taken'
        /\ Pending' = Pending /\ Archived' = Archived /\ taken' = Pending
        /\ UNCHANGED <<present, lines, archive, pushed, spoiled, handed, stranded, replaced,
                       kept>>
    BY <1>3 DEF DrainRead, ReadAll, TypeOK, Pending, Archived
  <2> QED BY <2>1
<1>4. CASE Archive
  <2>1. PICK d \in rest : (Rename(d) \/ RenameFail) /\ rest' = rest \ {d}
    BY <1>4 DEF Archive
  <2>2. /\ UNCHANGED <<dpc, taken, pushed, spoiled, handed, stranded>>
        /\ dpc = "archive" /\ d \in Days
    BY <1>4 DEF Archive, TypeOK
  <2>3. CASE Rename(d)
    <3>1. /\ \A x \in Days : /\ lines'[x] = IF x = d THEN {} ELSE lines[x]
                             /\ archive'[x] = IF x = d THEN lines[d] ELSE archive[x]
          /\ replaced' = replaced \cup archive[d]
          /\ present' = present \ {d} /\ kept' = kept
      BY <2>2, <2>3 DEF Rename, TypeOK
    <3>2. Files'
      BY <2>1, <2>2, <3>1
    <3>3. Pending \subseteq Pending' \cup lines[d] /\ Pending' \subseteq Pending
      BY <2>2, <3>1
    <3>4. Archived \subseteq Archived' \cup archive[d] /\ lines[d] \subseteq Archived'
      BY <2>2, <3>1
    <3> QED BY <2>1, <2>2, <3>1, <3>2, <3>3, <3>4
  <2>4. CASE RenameFail
    BY <2>1, <2>2, <2>4 DEF RenameFail, Pending, Archived
  <2> QED BY <2>1, <2>3, <2>4
<1>5. CASE DrainReturn
  <2>1. /\ rest = {} /\ rest' = {} /\ dpc = "archive" /\ dpc' = "free"
        /\ handed' = handed \cup taken /\ taken' = {}
        /\ UNCHANGED <<lines, archive, pushed, spoiled, stranded, replaced, kept>>
    BY <1>5 DEF DrainReturn, OpenToday
  <2>2. Pending' = Pending /\ Archived' = Archived
    BY <2>1 DEF Archived
  <2>3. ~kept => Pending = {}
    BY <2>1 DEF TypeOK
  <2> QED BY <2>1, <2>2, <2>3
<1>6. CASE Abandon
  <2>1. /\ stranded' = stranded \cup (taken \ Pending)
        /\ taken' = {} /\ rest' = {} /\ dpc' = "free"
        /\ UNCHANGED <<lines, archive, pushed, spoiled, handed, replaced, kept>>
    BY <1>6 DEF Abandon
  <2>2. Pending' = Pending /\ Archived' = Archived
    BY <2>1 DEF Archived
  <2> QED BY <2>1, <2>2
<1>7. CASE Start
  <2>1. UNCHANGED <<lines, archive, dpc, rest, taken, pushed, spoiled, handed, stranded,
                    replaced, kept>> /\ dpc = "free"
    BY <1>7 DEF Start, OpenToday, FileClosed, TypeOK
  <2>2. Pending' = Pending
    BY <2>1, ZenonT(30)
  <2>3. Archived' = Archived
    BY <2>1 DEF Archived
  <2> QED BY <2>1, <2>2, <2>3
<1> QED
  BY <1>1, <1>2, <1>3, <1>4, <1>5, <1>6, <1>7
     DEF Next, vars, PushTear, CloseFail, ReopenFail, Stop, Midnight

(* The queue is in a consistent state at all times, drains and restarts    *)
(* included: an open file exists, entries are only in files that exist     *)
(* (internal/dlq/dlq-file.go).                                             *)
THEOREM TypeCorrect == Spec => []TypeOK
<1>1. QueueInv => TypeOK
  BY DEF QueueInv, Types
<1> QED BY <1>1, QueueInit, QueueStep, PTL DEF Spec

(* DrainEntries hands over every entry whose Push returned nil, except the *)
(* ones named in DrainLosesNothing.                                        *)
THEOREM DrainIsComplete == Spec => []DrainLosesNothing
<1>1. QueueInv => DrainLosesNothing
  BY DEF QueueInv
<1> QED BY <1>1, QueueInit, QueueStep, PTL DEF Spec

(* DrainEntries hands an entry over once, unless a rename failed.          *)
THEOREM DrainIsExact == Spec => []HandedOutOnce
<1>1. QueueInv => HandedOutOnce
  BY DEF QueueInv
<1> QED BY <1>1, QueueInit, QueueStep, PTL DEF Spec

(* No drain overwrites an archive whose entries were not returned, or left *)
(* behind, by an earlier one.                                              *)
THEOREM ArchivesAreSafe == Spec => []KeptUntilReplaced
<1>1. QueueInv => KeptUntilReplaced
  BY DEF QueueInv
<1> QED BY <1>1, QueueInit, QueueStep, PTL DEF Spec
=============================================================================
