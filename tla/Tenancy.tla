------------------------------- MODULE Tenancy ------------------------------
(***************************************************************************)
(* Tenants and their quotas (internal/tenant/): the token bucket and the   *)
(* registry of buckets.  Time passes in ticks, Scale to the second, and    *)
(* tokens are counted in units of 1/Scale, in which a refill is an integer *)
(* (the code's float64 rounds instead).                                    *)
(***************************************************************************)
EXTENDS Integers, Sequences

CONSTANT Scale

ASSUME ScaleAssumption == Scale \in Nat \ {0}

(* A nil *tokenBucket: no limit.                                           *)
NoLimit == [rate |-> 0, burst |-> 0, tokens |-> 0, last |-> 0]

newTokenBucket(rate, now) ==
    LET burst == Scale * (IF rate < 1 THEN 1 ELSE rate)
    IN  [rate |-> rate, burst |-> burst, tokens |-> burst, last |-> now]

(* Mutant: only whole seconds are credited, and the rest is forgotten.     *)
Refill_WholeSeconds(b, now) ==
    LET tokens == b.tokens + ((now - b.last) \div Scale) * Scale * b.rate
    IN  [b EXCEPT !.last = now, !.tokens = IF tokens > b.burst THEN b.burst ELSE tokens]

(* Mutant: the time of the refill is not kept.                             *)
Refill_KeepsLast(b, now) ==
    LET tokens == b.tokens + (now - b.last) * b.rate
    IN  [b EXCEPT !.tokens = IF tokens > b.burst THEN b.burst ELSE tokens]

(* Mutant: tokens pile up while a tenant is idle.                          *)
Refill_NoCap(b, now) ==
    [b EXCEPT !.last = now, !.tokens = @ + (now - b.last) * b.rate]

(* The tokens of the time that has passed, up to the burst.                *)
Refill(b, now) ==
    LET tokens == b.tokens + (now - b.last) * b.rate
    IN  IF now > b.last
        THEN [b EXCEPT !.last = now, !.tokens = IF tokens > b.burst THEN b.burst ELSE tokens]
        ELSE b

(* allow: its answer and the bucket after it.                              *)
Admits(b, now) == b = NoLimit \/ Refill(b, now).tokens >= Scale

After(b, now) == IF b = NoLimit THEN b ELSE
                 [Refill(b, now) EXCEPT !.tokens = IF @ >= Scale THEN @ - Scale ELSE @]

-----------------------------------------------------------------------------
(* NewRegistry.  The ids of a configuration that is enabled are distinct;  *)
(* a registry that is not enabled is never asked.                          *)
NewRegistry(t, now) ==
    LET limit(rate) == IF rate > 0 THEN newTokenBucket(rate, now) ELSE NoLimit
        known == {t.tenants[i].id : i \in 1..Len(t.tenants)} \ {""}
        entry(id) == CHOOSE e \in {t.tenants[i] : i \in 1..Len(t.tenants)} : e.id = id
        inherit(rate) == IF rate = 0 THEN t.defaultRate ELSE rate
    IN  [enabled |-> t.enabled, known |-> known,
         limiters |-> [id \in known |-> limit(inherit(entry(id).rate))],
         defaultLim |-> limit(t.defaultRate)]

(* The bucket of a tenant: its own, or the one all unknown tenants share.  *)
Limiter(reg, id) == IF ~reg.enabled THEN NoLimit
                    ELSE IF id \in reg.known THEN reg.limiters[id] ELSE reg.defaultLim

Allow(reg, id, now) == Admits(Limiter(reg, id), now)

(* The registry after Allow.                                               *)
Charge(reg, id, now) ==
    IF ~reg.enabled THEN reg
    ELSE IF id \in reg.known THEN [reg EXCEPT !.limiters[id] = After(@, now)]
                             ELSE [reg EXCEPT !.defaultLim = After(@, now)]

MetricLabel(reg, id) == IF ~reg.enabled THEN "_single"
                        ELSE IF id \in reg.known THEN id ELSE "_other"
=============================================================================
