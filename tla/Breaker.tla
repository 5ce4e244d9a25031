------------------------------ MODULE Breaker ------------------------------
(***************************************************************************)
(* The circuit breaker in front of one sink (internal/sinks/               *)
(* circuit-breaker.go) and the workers that write through it, each with    *)
(* the attempts of writeWithRetry.  Execute of the gobreaker library is    *)
(* two critical sections, before and after the call of the sink, between   *)
(* which other workers run.                                                *)
(*                                                                         *)
(* The library numbers the periods of the breaker (its generations) and    *)
(* ignores a result whose call was let through in an earlier one.  Here    *)
(* cb.live is the set of workers whose call belongs to the current period. *)
(***************************************************************************)
EXTENDS Naturals, FiniteSets

CONSTANTS
    Workers,
    Threshold,  \* consecutive failures that open the breaker
    MaxRetries, \* maxRetries of writeWithRetry
    MaxIntervals  \* bound on the Intervals that pass without a success

ASSUME BreakerAssumption ==
    /\ IsFiniteSet(Workers)
    /\ Threshold \in Nat \ {0} /\ MaxRetries \in Nat \ {0} /\ MaxIntervals \in Nat

VARIABLES
    cb,      \* the breaker: state, failures, requests let through half-open, live
    due,     \* the expiry of its state has passed
    up,      \* the sink takes what it is sent
    wpc,     \* each worker: "idle", "try", "sink" or "backoff"
    attempt, \* the attempt of writeWithRetry it is in
    \* history
    trial,   \* workers whose call was let through as a trial
    strain,  \* calls let through since the breaker's state last changed or the last
             \* success that it counted
    spans    \* how often its Interval passed meanwhile, and its counts were cleared

load == <<strain, spans>>
vars == <<cb, due, up, wpc, attempt, trial, load>>

(* Mutant: one more failure before the breaker opens.                      *)
ReadyToTrip_Late(n) == n > Threshold

ReadyToTrip(n) == n >= Threshold

(* Mutant: two trials at a time.                                           *)
MaxRequests_Two == 2

MaxRequests == 1

(* A period begins: no counts, no calls.                                   *)
Fresh(s) == [state |-> s, failures |-> 0, requests |-> 0, live |-> {}]

Init == /\ cb = Fresh("closed") /\ due = FALSE /\ up = TRUE
        /\ wpc = [w \in Workers |-> "idle"] /\ attempt = [w \in Workers |-> 0]
        /\ trial = {} /\ strain = 0 /\ spans = 0

-----------------------------------------------------------------------------
(* currentState: an open breaker whose Timeout has passed is half-open, a  *)
(* closed one whose Interval has passed forgets its counts.                *)
Current == IF ~due THEN cb ELSE Fresh(IF cb.state = "open" THEN "half" ELSE "closed")

(* Every use of the breaker evaluates currentState first, and makes c of   *)
(* it.  The load of the sink is counted anew in every state: n calls and   *)
(* k Intervals.                                                            *)
Becomes(c, n, k) ==
    /\ cb' = c
    /\ due' = FALSE
    /\ strain' = IF c.state = cb.state THEN n ELSE 0
    /\ spans' = IF c.state = cb.state THEN k ELSE 0

(* The Intervals that passed, with the one that currentState notices now.  *)
Spans == IF due THEN spans + 1 ELSE spans

(* Mutant: only a closed breaker lets a call through.                      *)
Admits_Closed(c) == c.state = "closed"

(* beforeRequest *)
Admits(c) == \/ c.state = "closed"
             \/ c.state = "half" /\ c.requests < MaxRequests

(* The expiry of the state passes; a half-open breaker has none.           *)
Elapse == /\ cb.state # "half" /\ ~due
          /\ cb.state = "closed" => spans < MaxIntervals
          /\ due' = TRUE
          /\ UNCHANGED <<cb, up, wpc, attempt, trial, load>>

(* The sink goes down, or comes back.                                      *)
Toggle == up' = ~up /\ UNCHANGED <<cb, due, wpc, attempt, trial, load>>

-----------------------------------------------------------------------------
(* writeWithRetry is called with a batch.                                  *)
Begin(w) == /\ wpc[w] = "idle"
            /\ wpc' = [wpc EXCEPT ![w] = "try"]
            /\ attempt' = [attempt EXCEPT ![w] = 1]
            /\ UNCHANGED <<cb, due, up, trial, load>>

(* The attempt of w returned an error that is not permanent.               *)
Again(w) == wpc' = [wpc EXCEPT ![w] = IF attempt[w] < MaxRetries THEN "backoff" ELSE "idle"]

(* Write is let through to the sink.                                       *)
Call(w) == /\ wpc[w] = "try" /\ Admits(Current)
           /\ LET half == Current.state = "half"
              IN  /\ Becomes([Current EXCEPT !.live = @ \cup {w},
                                             !.requests = IF half THEN @ + 1 ELSE @],
                             strain + 1, Spans)
                  /\ trial' = IF half THEN trial \cup {w} ELSE trial
           /\ wpc' = [wpc EXCEPT ![w] = "sink"]
           /\ UNCHANGED <<up, attempt>>

(* Write returns without a call: ErrOpenState, as an error of its own, or  *)
(* ErrTooManyRequests, as it is.  Both count as transient.                 *)
Refuse(w) == /\ wpc[w] = "try" /\ ~Admits(Current)
             /\ Becomes(Current, strain, Spans)
             /\ Again(w)
             /\ UNCHANGED <<up, attempt, trial>>

(* The call of w is over; afterRequest gets its result.                    *)
Leave(w) == wpc[w] = "sink" /\ trial' = trial \ {w} /\ UNCHANGED <<up, attempt>>

(* The sink took the batch: a closed breaker forgets the failures, a       *)
(* half-open one closes after MaxRequests successes in a row.              *)
Succeed(w) ==
    /\ Leave(w)
    /\ LET rest == [Current EXCEPT !.failures = 0, !.live = @ \ {w}]
           wins == Current.requests - Cardinality(rest.live)
       IN  IF w \notin Current.live THEN Becomes(Current, strain, Spans)
           ELSE IF Current.state = "half" /\ wins >= MaxRequests
                  THEN Becomes(Fresh("closed"), 0, 0)
                  ELSE Becomes(rest, Cardinality(rest.live), 0)
    /\ wpc' = [wpc EXCEPT ![w] = "idle"]

(* The sink failed, for good or not, or panicked (Execute counts a panic   *)
(* as a failure and passes it on).                                         *)
Fail(w) ==
    /\ Leave(w) /\ ~up
    /\ LET more == [Current EXCEPT !.failures = @ + 1, !.live = @ \ {w}]
       IN  IF w \notin Current.live THEN Becomes(Current, strain, Spans)
           ELSE IF Current.state = "half" \/ ReadyToTrip(more.failures)
                  THEN Becomes(Fresh("open"), 0, 0)
                  ELSE Becomes(more, strain, spans)
    /\ Again(w) \/ wpc' = [wpc EXCEPT ![w] = "idle"]

(* The backoff passes.                                                     *)
Retry(w) == /\ wpc[w] = "backoff"
            /\ wpc' = [wpc EXCEPT ![w] = "try"]
            /\ attempt' = [attempt EXCEPT ![w] = @ + 1]
            /\ UNCHANGED <<cb, due, up, trial, load>>

WorkerStep(w) == Call(w) \/ Refuse(w) \/ Succeed(w) \/ Fail(w) \/ Retry(w)

Next == \/ Elapse \/ Toggle
        \/ \E w \in Workers : Begin(w) \/ WorkerStep(w)

Spec == Init /\ [][Next]_vars

(* Time passes, the workers run, and a call of the sink returns: the Kafka *)
(* writer has a time-out, the HTTP client the one that is configured       *)
(* (without one, a trial that hangs keeps the breaker half-open).  No      *)
(* batch has to arrive.                                                    *)
Fairness == WF_vars(Elapse) /\ \A w \in Workers : WF_vars(WorkerStep(w))

FairSpec == Spec /\ Fairness

-----------------------------------------------------------------------------
(* Types; the counts keep below the limits that reset them, and attempts   *)
(* within maxRetries.                                                      *)
TypeOK == /\ cb \in [state : {"closed", "open", "half"}, failures : 0..Threshold - 1,
                     requests : 0..MaxRequests, live : SUBSET Workers]
          /\ due \in BOOLEAN /\ up \in BOOLEAN
          /\ wpc \in [Workers -> {"idle", "try", "sink", "backoff"}]
          /\ attempt \in [Workers -> 0..MaxRetries]
          /\ trial \subseteq Workers /\ strain \in Nat /\ spans \in Nat

(* A recovering sink is tried by one worker at a time: whatever calls of   *)
(* earlier periods still hang, no two trials are at the sink together.     *)
OneTrial == Cardinality(trial) <= 1

(* What a dead sink still gets from a closed breaker: without a success in *)
(* between, Threshold - 1 calls and one for each worker, and as many again *)
(* for each Interval that passes, since it clears the failures counted so  *)
(* far.  So failures open the breaker only when Threshold of them fall     *)
(* into one Interval: a sink that fails more slowly is never cut off.      *)
SinkSpared == strain <= (Threshold - 1 + Cardinality(Workers)) * (spans + 1)

(* A sink that stays up gets its traffic back: if workers keep writing,    *)
(* the breaker is closed from some time on.  No late result of an earlier  *)
(* period, and no trial, leaves it open or half-open for good.             *)
Recovers == <>[]up /\ []<>(\E w \in Workers : wpc[w] = "try") => <>[](cb.state = "closed")
=============================================================================
