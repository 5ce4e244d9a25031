------------------------------ MODULE FileDLQ ------------------------------
(***************************************************************************)
(* The dead-letter queue on files (internal/dlq/dlq-file.go): a file per   *)
(* day that workers append entries to, and DrainEntries, which reads every *)
(* pending file, renames each to its archive and opens a fresh one.        *)
(*                                                                         *)
(* Operations hold d.mu.  DrainEntries is a step for each change of the    *)
(* directory, since a crash may come between any two.                      *)
(***************************************************************************)
EXTENDS Naturals

CONSTANTS
    Entries,    \* one per call of Push
    Long,       \* entries whose line is longer than readDLQFile's buffer
    LastDay,    \* bound on the days that pass
    MaxCrashes  \* bound on the restarts

ASSUME FileDLQAssumption ==
    Long \subseteq Entries /\ LastDay \in Nat \ {0} /\ MaxCrashes \in Nat

Days == 1..LastDay

VARIABLES
    \* the directory
    present,  \* the days whose dlq-<day>.jsonl exists
    lines,    \* the entries in each of them that parse
    tail,     \* the days whose file ends in part of a line
    archive,  \* the entries in each dlq-<day>.jsonl.replayed
    \* the process
    today,
    up,
    open,     \* d.file can be written to
    cur,      \* the day of the file d.file was opened on
    dpc,      \* DrainEntries: "free" or "archive"
    rest,     \* the files it has still to rename
    taken,    \* the entries it has read
    \* history
    pushed,   \* entries whose Push returned nil
    spoiled,  \* of these, the ones whose line was joined to part of another
    handed,   \* entries DrainEntries returned
    stranded, \* entries in files renamed by a DrainEntries that returned nothing
    replaced, \* entries in archives that a later rename overwrote
    kept,     \* a rename failed
    crashes

directory == <<present, lines, tail, archive>>
history   == <<pushed, spoiled, handed, stranded, replaced, kept, crashes>>
vars == <<directory, today, up, open, cur, dpc, rest, taken, history>>

Init == /\ present = {1} /\ lines = [d \in Days |-> {}] /\ tail = {}
        /\ archive = [d \in Days |-> {}]
        /\ today = 1 /\ up = TRUE /\ open = TRUE /\ cur = 1
        /\ dpc = "free" /\ rest = {} /\ taken = {}
        /\ pushed = {} /\ spoiled = {} /\ handed = {} /\ stranded = {}
        /\ replaced = {} /\ kept = FALSE /\ crashes = 0

Pending == UNION {lines[d] : d \in present}

-----------------------------------------------------------------------------
(* Push appends a line to the file that is open, whatever day it is.  A    *)
(* line behind part of another one is read as one line that does not parse.*)
Push(e) == /\ up /\ dpc = "free" /\ open /\ e \notin pushed
           /\ pushed' = pushed \cup {e}
           /\ IF cur \in tail
                THEN spoiled' = spoiled \cup {e} /\ UNCHANGED lines
                ELSE lines' = [lines EXCEPT ![cur] = @ \cup {e}] /\ UNCHANGED spoiled
           /\ tail' = tail \ {cur}
           /\ UNCHANGED <<present, archive, today, up, open, cur, dpc, rest, taken,
                          handed, stranded, replaced, kept, crashes>>

(* The write stops inside the line and Push returns an error.              *)
PushTear == /\ up /\ dpc = "free" /\ open
            /\ tail' = tail \cup {cur}
            /\ UNCHANGED <<present, lines, archive, today, up, open, cur, dpc, rest, taken,
                           history>>

-----------------------------------------------------------------------------
(* Mutant: only the file of the running process is read.                   *)
ReadAll_Current == lines[cur]

(* readDLQFile on every file of the glob.                                  *)
ReadAll == Pending

(* DrainEntries reads every pending file and closes its own.  It gives up, *)
(* with nothing changed, when a line is too long or d.file is closed.      *)
DrainRead == /\ up /\ dpc = "free" /\ open
             /\ Pending \cap Long = {}
             /\ taken' = ReadAll
             /\ rest' = present
             /\ open' = FALSE
             /\ dpc' = "archive"
             /\ UNCHANGED <<directory, today, up, cur, history>>

(* DrainEntries has read the files and its Close reports an error: nothing *)
(* is renamed or returned, and d.file is closed all the same.              *)
CloseFail == /\ up /\ dpc = "free" /\ open
             /\ Pending \cap Long = {}
             /\ open' = FALSE
             /\ UNCHANGED <<directory, today, up, cur, dpc, rest, taken, history>>

(* Mutant: the files are removed once they have been read.                 *)
Rename_Remove(d) == /\ lines' = [lines EXCEPT ![d] = {}]
                    /\ present' = present \ {d} /\ tail' = tail \ {d}
                    /\ UNCHANGED <<archive, replaced, kept>>

(* The next file is renamed; an archive of an earlier drain on the same    *)
(* day is overwritten.                                                     *)
Rename(d) == /\ replaced' = replaced \cup archive[d]
             /\ archive' = [archive EXCEPT ![d] = lines[d]]
             /\ lines' = [lines EXCEPT ![d] = {}]
             /\ present' = present \ {d} /\ tail' = tail \ {d}
             /\ UNCHANGED kept

(* A rename that fails is only logged.                                     *)
RenameFail == kept' = TRUE /\ UNCHANGED <<directory, replaced>>

(* Mutant: the file of the running process is left where it is.            *)
Archive_NotCurrent ==
    /\ dpc = "archive"
    /\ \E d \in rest : /\ \A x \in rest : d <= x
                       /\ IF d = cur THEN UNCHANGED <<directory, replaced, kept>> ELSE Rename(d)
                       /\ rest' = rest \ {d}
    /\ UNCHANGED <<today, up, open, cur, dpc, taken, pushed, spoiled, handed, stranded, crashes>>

Archive == /\ dpc = "archive"
           /\ \E d \in rest : /\ \A x \in rest : d <= x
                              /\ Rename(d) \/ RenameFail
                              /\ rest' = rest \ {d}
           /\ UNCHANGED <<today, up, open, cur, dpc, taken, pushed, spoiled, handed,
                          stranded, crashes>>

(* Mutant: the file is opened without O_CREATE.                            *)
OpenToday_NoCreate == /\ cur' = today /\ open' = TRUE
                      /\ UNCHANGED <<present, lines, tail, archive>>

(* The file of the day is opened, and created if need be.                  *)
OpenToday == /\ cur' = today /\ open' = TRUE
             /\ present' = present \cup {today}
             /\ UNCHANGED <<lines, tail, archive>>

(* DrainEntries opens a fresh file and returns what it read.               *)
DrainReturn == /\ dpc = "archive" /\ rest = {}
               /\ OpenToday
               /\ handed' = handed \cup taken
               /\ taken' = {} /\ dpc' = "free"
               /\ UNCHANGED <<today, up, rest, pushed, spoiled, stranded, replaced, kept,
                              crashes>>

(* What DrainEntries read, and does not return, is lost to its caller where *)
(* the file has been renamed.                                              *)
Abandon == /\ stranded' = stranded \cup (taken \ Pending)
           /\ taken' = {} /\ rest' = {} /\ dpc' = "free" /\ open' = FALSE
           /\ UNCHANGED <<directory, today, cur, pushed, spoiled, handed, replaced, kept>>

(* The fresh file cannot be opened: an error, and d.file stays closed.     *)
ReopenFail == /\ dpc = "archive" /\ rest = {}
              /\ Abandon
              /\ UNCHANGED <<up, crashes>>

(* The process ends, by a crash or after Close.                            *)
Stop == /\ up /\ crashes < MaxCrashes
        /\ Abandon
        /\ up' = FALSE /\ crashes' = crashes + 1

(* newFileDLQ                                                              *)
Start == /\ ~up
         /\ up' = TRUE
         /\ OpenToday
         /\ UNCHANGED <<today, dpc, rest, taken, history>>

Midnight == /\ today < LastDay
            /\ today' = today + 1
            /\ UNCHANGED <<directory, up, open, cur, dpc, rest, taken, history>>

Next == \/ \E e \in Entries : Push(e)
        \/ PushTear \/ DrainRead \/ CloseFail \/ Archive \/ DrainReturn \/ ReopenFail
        \/ Stop \/ Start \/ Midnight

Spec == Init /\ [][Next]_vars

-----------------------------------------------------------------------------
(* Types.  A file that is open for writing is there, entries are only in   *)
(* files that exist, and only while DrainEntries runs is anything taken.   *)
TypeOK == /\ present \subseteq Days /\ tail \subseteq present
          /\ lines \in [Days -> SUBSET Entries] /\ archive \in [Days -> SUBSET Entries]
          /\ \A d \in Days \ present : lines[d] = {}
          /\ today \in Days /\ cur \in Days
          /\ up \in BOOLEAN /\ open \in BOOLEAN /\ (open => up /\ cur \in present)
          /\ dpc \in {"free", "archive"} /\ rest \subseteq present
          /\ taken \subseteq Entries /\ (dpc = "free" => taken = {} /\ rest = {})
          /\ pushed \subseteq Entries /\ spoiled \subseteq pushed
          /\ handed \subseteq pushed /\ stranded \subseteq pushed
          /\ replaced \subseteq pushed
          /\ kept \in BOOLEAN /\ crashes \in 0..MaxCrashes

(* An entry whose Push succeeded stays pending, over days, restarts and    *)
(* failed drains, until a DrainEntries returns it; the exceptions are a    *)
(* line joined to a torn one and a drain that ended between the renames    *)
(* and its return.                                                         *)
DrainLosesNothing ==
    pushed \subseteq Pending \cup taken \cup handed \cup stranded \cup spoiled

(* An entry is returned once: what was handed out is not pending any more, *)
(* unless its file could not be renamed.                                   *)
HandedOutOnce == ~kept => handed \cap (Pending \cup taken) = {}

Archived == UNION {archive[d] : d \in Days}

(* No line is ever deleted: an entry is in a pending file or an archive,   *)
(* also after a drain that returned nothing, until the archive of its day  *)
(* is overwritten.  That takes a second drain of the day, and no drain     *)
(* overwrites what it has itself archived and not yet returned.            *)
KeptUntilReplaced ==
    /\ pushed \subseteq Pending \cup Archived \cup replaced \cup spoiled
    /\ replaced \subseteq handed \cup stranded
=============================================================================
