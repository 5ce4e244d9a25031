--------------------------- MODULE BreakerProofs ---------------------------
(***************************************************************************)
(* Proofs about Breaker, for any number of workers and any threshold.      *)
(*                                                                         *)
(* Every use of the breaker begins with currentState, so the invariant is  *)
(* stated for a breaker c and proved of Current first, then of what each   *)
(* operation makes of it.                                                  *)
(***************************************************************************)
EXTENDS Breaker, FiniteSetTheorems, TLAPS

States == [state : {"closed", "open", "half"}, failures : 0..Threshold - 1,
           requests : 0..MaxRequests, live : SUBSET Workers]

(* No call belongs to an open breaker, only a half-open one counts its     *)
(* calls, and it has as many under way as it counted: none or one.         *)
Period(c) ==
    /\ c \in States
    /\ c.state = "open" => c.live = {}
    /\ c.state # "half" => c.requests = 0
    /\ c.state = "half" => /\ c.failures = 0
                           /\ \/ c.requests = 0 /\ c.live = {}
                              \/ c.requests = 1 /\ \E w \in Workers : c.live = {w}

(* The calls of the period are at the sink.  The trials are the calls of a *)
(* half-open breaker: no trial outlives its period.                        *)
Calls(c, at, t) == /\ \A w \in c.live : at[w] = "sink"
                   /\ t = IF c.state = "half" THEN c.live ELSE {}

(* What one Interval can add to the load of a dead sink.                   *)
Burst == Threshold - 1 + Cardinality(Workers)

(* The n calls that the sink got since its last success have failed or are *)
(* under way, but for a Burst in each of the k Intervals that passed.      *)
Load(c, n, k) == n \in Nat /\ k \in Nat /\ n <= Burst * k + (c.failures + Cardinality(c.live))

(* A worker that waits has an attempt left.                                *)
AttemptsLeft == \A w \in Workers : wpc[w] = "backoff" => attempt[w] < MaxRetries

BreakerInv == /\ TypeOK /\ Period(cb) /\ Calls(cb, wpc, trial) /\ Load(cb, strain, spans)
              /\ cb.state = "half" => ~due
              /\ AttemptsLeft

-----------------------------------------------------------------------------
(* Sets of workers are finite: how adding and removing one changes the     *)
(* number of calls under way.                                              *)
LEMMA CallCount ==
    ASSUME NEW S \in SUBSET Workers
    PROVE  /\ Cardinality(S) \in Nat /\ Cardinality(S) <= Cardinality(Workers)
           /\ Cardinality(Workers) \in Nat
           /\ \A w \in Workers :
                /\ w \notin S => Cardinality(S \cup {w}) = Cardinality(S) + 1
                /\ w \in S => Cardinality(S \ {w}) = Cardinality(S) - 1
<1>1. IsFiniteSet(S) /\ Cardinality(S) <= Cardinality(Workers)
  BY BreakerAssumption, FS_Subset
<1>2. \A w \in Workers : /\ w \notin S => Cardinality(S \cup {w}) = Cardinality(S) + 1
                         /\ w \in S => Cardinality(S \ {w}) = Cardinality(S) - 1
  BY <1>1, FS_AddElement, FS_RemoveElement
<1> QED BY <1>1, <1>2, BreakerAssumption, FS_CardinalityType

(* The load that is allowed grows by a Burst with every Interval.          *)
LEMMA BurstSteps ==
    /\ Burst \in Nat /\ Burst * 0 = 0
    /\ \A k \in Nat : Burst * k \in Nat /\ Burst * (k + 1) = Burst * k + Burst
<1>1. Burst \in Nat
  BY BreakerAssumption, FS_CardinalityType DEF Burst
<1> QED BY <1>1

(* What a period that ends leaves behind fits into one more Burst.         *)
LEMMA PeriodFits ==
    ASSUME NEW c, Period(c)
    PROVE  /\ c.failures \in Nat /\ Cardinality(c.live) \in Nat
           /\ c.failures + Cardinality(c.live) <= Burst
<1>1. c.failures \in 0..Threshold - 1 /\ c.live \in SUBSET Workers
  BY DEF Period, States
<1>2. /\ Cardinality(c.live) \in Nat /\ Cardinality(c.live) <= Cardinality(Workers)
      /\ Cardinality(Workers) \in Nat
  BY <1>1, CallCount
<1> QED BY <1>1, <1>2, BreakerAssumption DEF Burst

(* A period has a load of nothing.                                         *)
LEMMA NoLoad == ASSUME NEW c, Period(c) PROVE Load(c, 0, 0)
<1>1. c.failures \in Nat /\ Cardinality(c.live) \in Nat
  BY PeriodFits
<1> QED BY <1>1, BurstSteps DEF Load

(* A period without counts and calls.                                      *)
LEMMA FreshPeriod ==
    ASSUME NEW s \in {"closed", "open", "half"}
    PROVE  /\ Period(Fresh(s)) /\ Fresh(s).state = s /\ Fresh(s).live = {}
           /\ Fresh(s).failures = 0 /\ Fresh(s).requests = 0
           /\ Cardinality(Fresh(s).live) = 0
<1>1. Cardinality({}) = 0
  BY FS_EmptySet
<1> QED BY <1>1, BreakerAssumption DEF Fresh, Period, States, MaxRequests

(* currentState preserves the invariant: the calls of a period that has    *)
(* ended are no longer counted, and none of them was a trial.              *)
LEMMA CurrentPeriod ==
    BreakerInv => /\ Period(Current) /\ Calls(Current, wpc, trial)
                  /\ Load(Current, strain, Spans)
                  /\ due => Current.live = {}
<1> SUFFICES ASSUME BreakerInv
             PROVE  /\ Period(Current) /\ Calls(Current, wpc, trial)
                    /\ Load(Current, strain, Spans)
                    /\ due => Current.live = {}
  OBVIOUS
<1>1. CASE ~due
  BY <1>1 DEF Current, Spans, BreakerInv
<1>2. CASE due
  <2> DEFINE s == IF cb.state = "open" THEN "half" ELSE "closed"
  <2>1. Current = Fresh(s) /\ s \in {"closed", "open", "half"}
    BY <1>2 DEF Current
  <2>2. trial = {}
    BY <1>2 DEF BreakerInv, Calls
  <2>3. /\ Period(Current) /\ Current.live = {} /\ Current.failures = 0
        /\ Cardinality(Current.live) = 0
    BY <2>1, FreshPeriod
  <2>4. Load(Current, strain, Spans)
    <3>1. /\ strain \in Nat /\ spans \in Nat
          /\ strain <= Burst * spans + (cb.failures + Cardinality(cb.live))
      BY DEF BreakerInv, Load
    <3>2. /\ cb.failures \in Nat /\ Cardinality(cb.live) \in Nat
          /\ cb.failures + Cardinality(cb.live) <= Burst
      BY PeriodFits DEF BreakerInv
    <3>3. /\ Burst \in Nat /\ Burst * spans \in Nat
          /\ Burst * (spans + 1) = Burst * spans + Burst
      BY <3>1, BurstSteps
    <3>4. strain <= Burst * spans + Burst
      BY <3>1, <3>2, <3>3
    <3>5. Spans = spans + 1
      BY <1>2 DEF Spans
    <3>6. strain <= Burst * Spans + (0 + 0)
      BY <3>3, <3>4, <3>5
    <3> QED BY <2>3, <3>1, <3>5, <3>6 DEF Load
  <2> QED BY <1>2, <2>2, <2>3, <2>4 DEF Calls
<1> QED BY <1>1, <1>2 DEF BreakerInv, TypeOK

(* The breaker after an operation, given what the operation made of it.    *)
LEMMA BecomesInv ==
    ASSUME BreakerInv, NEW c, NEW n, NEW k, Becomes(c, n, k), Period(c),
           Calls(c, wpc', trial'), Load(c, n, k),
           wpc' \in [Workers -> {"idle", "try", "sink", "backoff"}],
           attempt' \in [Workers -> 0..MaxRetries], up' \in BOOLEAN, AttemptsLeft'
    PROVE  BreakerInv'
<1>1. /\ cb' = c /\ due' = FALSE
      /\ \/ strain' = n /\ spans' = k
         \/ strain' = 0 /\ spans' = 0
  BY DEF Becomes
<1>2. Load(cb', strain', spans')
  BY <1>1, NoLoad
<1>3. Period(cb') /\ Calls(cb', wpc', trial')
  BY <1>1
<1>4. trial' \subseteq Workers /\ cb' \in States /\ strain' \in Nat /\ spans' \in Nat
  BY <1>2, <1>3 DEF Calls, Period, States, Load
<1>5. TypeOK'
  BY <1>1, <1>4 DEF TypeOK, States
<1> QED BY <1>1, <1>2, <1>3, <1>5 DEF BreakerInv, Calls, Load, Period

(* What a call that returns leaves of a closed breaker, with f failures    *)
(* counted from then on.                                                   *)
LEMMA CallOver ==
    ASSUME NEW c, Period(c), NEW w \in c.live, NEW f \in 0..Threshold - 1,
           c.state = "closed"
    PROVE  LET d == [c EXCEPT !.failures = f, !.live = @ \ {w}]
           IN  /\ Period(d) /\ d.failures = f /\ d.live = c.live \ {w} /\ d.state = "closed"
               /\ Cardinality(d.live) = Cardinality(c.live) - 1
               /\ Cardinality(d.live) \in Nat
<1> DEFINE d == [c EXCEPT !.failures = f, !.live = @ \ {w}]
<1>1. c.live \in SUBSET Workers /\ w \in Workers
  BY DEF Period, States
<1>2. d \in States /\ d.failures = f /\ d.live = c.live \ {w} /\ d.state = "closed"
      /\ d.requests = c.requests
  BY DEF Period, States
<1>3. Cardinality(d.live) = Cardinality(c.live) - 1 /\ Cardinality(d.live) \in Nat
  BY <1>1, <1>2, CallCount
<1> QED BY <1>2, <1>3 DEF Period

(* Every step preserves the invariant.                                     *)
LEMMA BreakerStep == BreakerInv /\ [Next]_vars => BreakerInv'
<1> SUFFICES ASSUME BreakerInv, [Next]_vars PROVE BreakerInv'
  OBVIOUS
<1>t. /\ TypeOK /\ AttemptsLeft /\ BreakerAssumption
      /\ wpc \in [Workers -> {"idle", "try", "sink", "backoff"}]
      /\ attempt \in [Workers -> 0..MaxRetries] /\ up \in BOOLEAN
  BY BreakerAssumption DEF BreakerInv, TypeOK
<1>c. /\ Period(Current) /\ Calls(Current, wpc, trial)
      /\ Load(Current, strain, Spans)
      /\ due => Current.live = {}
  BY CurrentPeriod
<1>1. CASE UNCHANGED vars
  BY <1>1 DEF vars, load, BreakerInv, TypeOK, AttemptsLeft
<1>2. CASE Elapse
  BY <1>2 DEF Elapse, load, BreakerInv, TypeOK, AttemptsLeft
<1>3. CASE Toggle
  BY <1>3 DEF Toggle, load, BreakerInv, TypeOK, AttemptsLeft
<1>4. ASSUME NEW w \in Workers, Begin(w) \/ Retry(w) PROVE BreakerInv'
  <2>1. /\ wpc' = [wpc EXCEPT ![w] = "try"] /\ wpc[w] \in {"idle", "backoff"}
        /\ UNCHANGED <<cb, due, up, trial, strain, spans>>
    BY <1>4 DEF Begin, Retry, load
  <2>2. attempt' \in [Workers -> 0..MaxRetries] /\ \A x \in Workers \ {w} : attempt'[x] = attempt[x]
    BY <1>t, <1>4 DEF Begin, Retry, AttemptsLeft, BreakerAssumption
  <2>3. Calls(cb, wpc', trial)
    BY <1>t, <2>1 DEF BreakerInv, Calls, Period, States
  <2>4. AttemptsLeft' /\ wpc' \in [Workers -> {"idle", "try", "sink", "backoff"}]
    BY <1>t, <2>1, <2>2 DEF AttemptsLeft
  <2> QED BY <1>t, <2>1, <2>2, <2>3, <2>4 DEF BreakerInv, TypeOK
<1>5. ASSUME NEW w \in Workers, Call(w) PROVE BreakerInv'
  <2> DEFINE half == Current.state = "half"
             c == [Current EXCEPT !.live = @ \cup {w},
                                  !.requests = IF half THEN @ + 1 ELSE @]
  <2>1. /\ wpc[w] = "try" /\ Admits(Current) /\ Becomes(c, strain + 1, Spans)
        /\ trial' = IF half THEN trial \cup {w} ELSE trial
        /\ wpc' = [wpc EXCEPT ![w] = "sink"] /\ up' = up /\ attempt' = attempt
    BY <1>5 DEF Call
  <2>2. w \notin Current.live /\ Current.live \in SUBSET Workers
    BY <1>c, <2>1 DEF Calls, Period, States
  <2>3. Cardinality(c.live) = Cardinality(Current.live) + 1 /\ Cardinality(Current.live) \in Nat
    BY <2>2, CallCount, <1>c DEF Period, States
  <2>4. Period(c) /\ c.live = Current.live \cup {w} /\ c.state = Current.state
        /\ c.failures = Current.failures
    <3>1. Current \in States
      BY <1>c DEF Period
    <3>2. half => Current.requests = 0 /\ Current.live = {} /\ Current.failures = 0
      BY <1>c, <2>1 DEF Period, Admits, MaxRequests
    <3>3. ~half => Current.state = "closed" /\ Current.requests = 0
      BY <1>c, <2>1 DEF Period, Admits
    <3>4. /\ c.live = Current.live \cup {w} /\ c.state = Current.state
          /\ c.failures = Current.failures
          /\ c.requests = IF half THEN Current.requests + 1 ELSE Current.requests
      BY <3>1 DEF States
    <3>5. c.requests \in 0..MaxRequests /\ c.requests = IF half THEN 1 ELSE 0
      BY <3>2, <3>3, <3>4 DEF MaxRequests
    <3>6. c \in States
      BY <3>1, <3>5 DEF States
    <3> HIDE DEF c
    <3> QED BY <3>2, <3>3, <3>4, <3>5, <3>6 DEF Period
  <2>5. Calls(c, wpc', trial')
    BY <1>t, <1>c, <2>1, <2>4 DEF Calls, Period, States
  <2>6. AttemptsLeft' /\ wpc' \in [Workers -> {"idle", "try", "sink", "backoff"}]
    BY <1>t, <2>1 DEF AttemptsLeft
  <2>7. Load(c, strain + 1, Spans)
    <3>1. /\ strain \in Nat /\ Spans \in Nat
          /\ strain <= Burst * Spans + (Current.failures + Cardinality(Current.live))
      BY <1>c DEF Load
    <3>2. Burst * Spans \in Nat /\ Current.failures \in Nat
      BY <1>c, <3>1, BurstSteps, PeriodFits
    <3>3. strain + 1 <= Burst * Spans + (Current.failures + (Cardinality(Current.live) + 1))
      BY <2>3, <3>1, <3>2
    <3> HIDE DEF c
    <3> QED BY <2>3, <2>4, <3>1, <3>3 DEF Load
  <2> HIDE DEF c
  <2> QED BY <1>t, <2>1, <2>4, <2>5, <2>6, <2>7, BecomesInv
<1>6. ASSUME NEW w \in Workers, Again(w) \/ wpc' = [wpc EXCEPT ![w] = "idle"],
             UNCHANGED attempt
      PROVE  /\ AttemptsLeft' /\ wpc' \in [Workers -> {"idle", "try", "sink", "backoff"}]
             /\ \A x \in Workers \ {w} : wpc'[x] = wpc[x]
  BY <1>t, <1>6 DEF Again, AttemptsLeft
<1>7. ASSUME NEW w \in Workers, wpc[w] # "sink" \/ w \notin Current.live,
             Again(w) \/ wpc' = [wpc EXCEPT ![w] = "idle"],
             trial' = trial \/ trial' = trial \ {w}, UNCHANGED <<up, attempt>>,
             Becomes(Current, strain, Spans)
      PROVE  BreakerInv'
  <2>1. w \notin Current.live
    BY <1>c, <1>7 DEF Calls
  <2>2. Calls(Current, wpc', trial')
    <3>1. Current.live \subseteq Workers
      BY <1>c DEF Period, States
    <3>2. \A x \in Workers \ {w} : wpc'[x] = wpc[x]
      BY <1>6, <1>7
    <3>3. trial' = trial
      BY <1>c, <1>7, <2>1 DEF Calls
    <3> QED BY <1>c, <2>1, <3>1, <3>2, <3>3 DEF Calls
  <2> QED BY <1>t, <1>c, <1>6, <1>7, <2>2, BecomesInv
<1>8. ASSUME NEW w \in Workers, NEW s \in {"closed", "open"}, w \in Current.live,
             Again(w) \/ wpc' = [wpc EXCEPT ![w] = "idle"],
             Current.state = "half" \/ s = "open",
             trial' = trial \ {w}, UNCHANGED <<up, attempt>>, Becomes(Fresh(s), 0, 0)
      PROVE  BreakerInv'
  <2>1. trial' = {}
    BY <1>c, <1>8 DEF Calls, Period, States
  <2>2. Period(Fresh(s)) /\ Load(Fresh(s), 0, 0) /\ Calls(Fresh(s), wpc', trial')
    BY <1>8, <2>1, FreshPeriod, NoLoad DEF Calls
  <2> QED BY <1>t, <1>6, <1>8, <2>2, BecomesInv
<1>9. ASSUME NEW w \in Workers, Refuse(w) PROVE BreakerInv'
  BY <1>7, <1>9 DEF Refuse
<1>10. ASSUME NEW w \in Workers, w \in Current.live, Current.state = "closed",
              NEW f \in 0..Threshold - 1, NEW n, NEW k \in Nat,
              Again(w) \/ wpc' = [wpc EXCEPT ![w] = "idle"],
              trial' = trial \ {w}, UNCHANGED <<up, attempt>>,
              n \in Nat, n <= Burst * k + (f + (Cardinality(Current.live) - 1)),
              Becomes([Current EXCEPT !.failures = f, !.live = @ \ {w}], n, k)
       PROVE  BreakerInv'
  <2> DEFINE d == [Current EXCEPT !.failures = f, !.live = @ \ {w}]
  <2>1. /\ Period(d) /\ d.failures = f /\ d.live = Current.live \ {w} /\ d.state = "closed"
        /\ Cardinality(d.live) = Cardinality(Current.live) - 1
        /\ Cardinality(d.live) \in Nat
    BY <1>c, <1>10, CallOver
  <2>2. Calls(d, wpc', trial')
    BY <1>c, <1>6, <1>10, <2>1 DEF Calls, Period, States
  <2>3. Load(d, n, k)
    <3> HIDE DEF d
    <3> QED BY <1>10, <2>1 DEF Load
  <2> HIDE DEF d
  <2>4. Becomes(d, n, k)
    BY <1>10 DEF d
  <2> QED BY <1>t, <1>6, <1>10, <2>1, <2>2, <2>3, <2>4, BecomesInv
<1>11. ASSUME NEW w \in Workers, Succeed(w) PROVE BreakerInv'
  <2> DEFINE rest == [Current EXCEPT !.failures = 0, !.live = @ \ {w}]
             wins == Current.requests - Cardinality(rest.live)
  <2>1. /\ wpc[w] = "sink" /\ trial' = trial \ {w} /\ UNCHANGED <<up, attempt>>
        /\ wpc' = [wpc EXCEPT ![w] = "idle"]
        /\ IF w \notin Current.live THEN Becomes(Current, strain, Spans)
           ELSE IF Current.state = "half" /\ wins >= MaxRequests
                  THEN Becomes(Fresh("closed"), 0, 0)
                  ELSE Becomes(rest, Cardinality(rest.live), 0)
    BY <1>11 DEF Succeed, Leave
  <2>2. CASE w \notin Current.live
    <3>1. Becomes(Current, strain, Spans)
      BY <2>1, <2>2
    <3> QED BY <1>7, <2>1, <2>2, <3>1
  <2>3. CASE w \in Current.live /\ Current.state = "half"
    <3>1. rest.live = {} /\ Current.requests = 1
      BY <1>c, <2>3 DEF Period, States
    <3>2. wins = 1
      BY <3>1, FS_EmptySet
    <3>3. Becomes(Fresh("closed"), 0, 0)
      BY <2>1, <2>3, <3>2 DEF MaxRequests
    <3> QED BY <1>8, <2>1, <2>3, <3>3
  <2>4. CASE w \in Current.live /\ Current.state = "closed"
    <3>1. Becomes(rest, Cardinality(rest.live), 0)
      BY <2>1, <2>4
    <3>2. 0 \in 0..Threshold - 1
      BY <1>t DEF BreakerAssumption
    <3>3. /\ Cardinality(rest.live) = Cardinality(Current.live) - 1
          /\ Cardinality(rest.live) \in Nat
      BY <1>c, <2>4, <3>2, CallOver
    <3>4. Cardinality(rest.live) <= Burst * 0 + (0 + (Cardinality(Current.live) - 1))
      <4>1. Cardinality(Current.live) \in Nat
        BY <1>c, CallCount DEF Period, States
      <4> HIDE DEF rest
      <4> QED BY <3>3, <4>1, BurstSteps
    <3> QED BY <1>10, <2>1, <2>4, <3>1, <3>2, <3>3, <3>4
  <2> QED BY <1>c, <2>2, <2>3, <2>4 DEF Period, States
<1>12. ASSUME NEW w \in Workers, Fail(w) PROVE BreakerInv'
  <2> DEFINE more == [Current EXCEPT !.failures = @ + 1, !.live = @ \ {w}]
  <2>1. /\ wpc[w] = "sink" /\ trial' = trial \ {w} /\ UNCHANGED <<up, attempt>>
        /\ Again(w) \/ wpc' = [wpc EXCEPT ![w] = "idle"]
        /\ IF w \notin Current.live THEN Becomes(Current, strain, Spans)
           ELSE IF Current.state = "half" \/ ReadyToTrip(more.failures)
                  THEN Becomes(Fresh("open"), 0, 0)
                  ELSE Becomes(more, strain, spans)
    BY <1>12 DEF Fail, Leave
  <2>2. CASE w \notin Current.live
    <3>1. Becomes(Current, strain, Spans)
      BY <2>1, <2>2
    <3> QED BY <1>7, <2>1, <2>2, <3>1
  <2>3. CASE /\ w \in Current.live
             /\ Current.state = "half" \/ ReadyToTrip(more.failures)
    BY <1>8, <2>1, <2>3
  <2>4. CASE w \in Current.live /\ Current.state = "closed" /\ ~ReadyToTrip(more.failures)
    <3>1. Becomes(more, strain, spans) /\ ~due
      BY <1>c, <2>1, <2>4
    <3>2. more.failures = Current.failures + 1 /\ Current.failures \in Nat
      BY <1>c, <1>t DEF Period, States, BreakerAssumption
    <3>3. Current.failures + 1 \in 0..Threshold - 1
      BY <2>4, <3>2, <1>t DEF ReadyToTrip, BreakerAssumption
    <3>4. more = [Current EXCEPT !.failures = Current.failures + 1, !.live = @ \ {w}]
      BY <1>c DEF Period, States
    <3>5. /\ strain \in Nat /\ spans \in Nat
          /\ strain <= Burst * spans + ((Current.failures + 1) + (Cardinality(Current.live) - 1))
      <4>1. Cardinality(Current.live) \in Nat
        BY <1>c, CallCount DEF Period, States
      <4>2. /\ strain \in Nat /\ spans \in Nat
            /\ strain <= Burst * spans + (Current.failures + Cardinality(Current.live))
        BY <1>c, <3>1 DEF Load, Spans
      <4> QED BY <3>2, <4>1, <4>2, BurstSteps
    <3> QED BY <1>10, <2>1, <2>4, <3>1, <3>3, <3>4, <3>5
  <2> QED BY <1>c, <2>2, <2>3, <2>4 DEF Period, States
<1> QED
  BY <1>1, <1>2, <1>3, <1>4, <1>5, <1>9, <1>11, <1>12 DEF Next, WorkerStep

(* A new breaker is closed.                                                *)
LEMMA BreakerInit == Init => BreakerInv
<1> SUFFICES ASSUME Init PROVE BreakerInv
  OBVIOUS
<1>1. Period(cb) /\ Load(cb, 0, 0) /\ cb.live = {} /\ cb.state = "closed"
  BY FreshPeriod, NoLoad DEF Init
<1>2. cb \in States /\ strain = 0 /\ spans = 0 /\ trial = {} /\ due = FALSE /\ up = TRUE
      /\ wpc \in [Workers -> {"idle"}] /\ attempt \in [Workers -> 0..MaxRetries]
  BY <1>1, BreakerAssumption DEF Init, Period
<1> QED BY <1>1, <1>2 DEF BreakerInv, TypeOK, States, Calls, AttemptsLeft

-----------------------------------------------------------------------------
(* The counters of the breaker (internal/sinks/circuit-breaker.go) and of  *)
(* writeWithRetry stay below their limits.                                 *)
THEOREM TypeCorrect == Spec => []TypeOK
<1>1. BreakerInv => TypeOK
  BY DEF BreakerInv
<1> QED BY <1>1, BreakerInit, BreakerStep, PTL DEF Spec

(* No two workers try a recovering sink at once, whatever calls of earlier *)
(* periods are still under way.                                            *)
THEOREM TrialsAreSingle == Spec => []OneTrial
<1>1. BreakerInv => OneTrial
  <2> SUFFICES ASSUME BreakerInv PROVE Cardinality(trial) <= 1
    BY DEF OneTrial
  <2>1. trial = {} \/ \E w \in Workers : trial = {w}
    BY DEF BreakerInv, Calls, Period
  <2> QED BY <2>1, FS_EmptySet, FS_Singleton, SMTT(30)
<1> QED BY <1>1, BreakerInit, BreakerStep, PTL DEF Spec

(* A dead sink gets Threshold - 1 calls and one for each worker in every   *)
(* Interval that passes without a success, and no more: the counts of      *)
(* circuit-breaker.go are cleared by nothing but its Interval, a success   *)
(* or a change of state.                                                   *)
THEOREM DeadSinkIsSpared == Spec => []SinkSpared
<1>1. BreakerInv => SinkSpared
  <2> SUFFICES ASSUME BreakerInv PROVE SinkSpared
    OBVIOUS
  <2>1. /\ strain \in Nat /\ spans \in Nat
        /\ strain <= Burst * spans + (cb.failures + Cardinality(cb.live))
    BY DEF BreakerInv, Load
  <2>2. /\ cb.failures \in Nat /\ Cardinality(cb.live) \in Nat
        /\ cb.failures + Cardinality(cb.live) <= Burst
    BY PeriodFits DEF BreakerInv
  <2>3. /\ Burst \in Nat /\ Burst * spans \in Nat
        /\ Burst * (spans + 1) = Burst * spans + Burst
    BY <2>1, BurstSteps
  <2>4. strain <= Burst * (spans + 1)
    BY <2>1, <2>2, <2>3
  <2> QED BY <2>4 DEF SinkSpared, Burst
<1> QED BY <1>1, BreakerInit, BreakerStep, PTL DEF Spec
=============================================================================
