----------------------------- MODULE DurableLog -----------------------------
(***************************************************************************)
(* What the write-ahead log promises the ingestion service, without files: *)
(* a set of live entries, the ones a restart would hand back.  An entry    *)
(* becomes live when it is appended, and leaves only after the caller has  *)
(* acknowledged it.  An acknowledgement need not survive (the ack file is  *)
(* not synced), so an acknowledged entry may become live again; an entry   *)
(* nobody acknowledged may never disappear.                                *)
(***************************************************************************)
EXTENDS Naturals

CONSTANT Events

VARIABLES live, \* the entries a restart and a Recover would return
          done  \* the entries the caller has acknowledged, ever

vars == <<live, done>>

Record == [seq : Nat \ {0}, ev : Events]

(* Two live entries never share a sequence number: acknowledging one would *)
(* otherwise acknowledge the other.                                        *)
Distinct(S) == \A r, q \in S : r.seq = q.seq => r = q

Init == live = {} /\ done = {}

Append == \E r \in live' : /\ r \in Record
                           /\ live' = live \cup {r}
                           /\ Distinct(live')
                           /\ UNCHANGED done

(* The caller acknowledges r.  The entry may stay live (the acknowledgement *)
(* was not written) and is then released by a later compaction.             *)
Acknowledge == \E r \in done' : /\ done' = done \cup {r}
                                /\ live' \in {live, live \ {r}}

Release == /\ live' \subseteq live
           /\ live \ live' \subseteq done
           /\ UNCHANGED done

(* Acknowledgements were lost: their entries are live again.                *)
Revive == /\ live \subseteq live'
          /\ live' \ live \subseteq done
          /\ Distinct(live')
          /\ UNCHANGED done

Next == Append \/ Acknowledge \/ Release \/ Revive

Spec == Init /\ [][Next]_vars
=============================================================================
