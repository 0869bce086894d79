------------------------------ MODULE Calendar ------------------------------
(***************************************************************************)
(* Windows, schedule derivation and candidate selection put together, over *)
(* the lives of a pool's NodeClaims: the clock runs, in an open window the *)
(* controller may start a rotation of the claim selection picks, which     *)
(* fails or succeeds, and a claim that reaches expireAfter is deleted by   *)
(* Karpenter.  The other start gates (cooldown, pause, freeze) appear as   *)
(* starts that do not happen.                                              *)
(*                                                                         *)
(* Source: resolve, selInputs, effectiveBackoff and derivedThresholds of   *)
(* internal/controller/rotation_controller.go, over the packages window,   *)
(* schedule and selection.                                                 *)
(***************************************************************************)
EXTENDS Windows, Schedule, Selection

CONSTANTS
    Scenarios     \* the pools looked at: policy, template, claims and failures

\* A NodeClaim as the adapter reads it; names stand for their order.
ClaimRec ==
    [name: Nat, createdAt: Nat, deleting: BOOLEAN, expireAfter: Nat \cup {Unset},
     TGP: Nat \cup {Unset}, ready: BOOLEAN, failedAt: Nat \cup {Unset}, retryCount: Nat,
     state: {"fresh", "pending", "draining", "failed", "expired"}]

\* Policy and template of a pool whose claims expire.  Validate wants a window, a chance
\* at least, and durations that are positive where they are set, but for the cooldown.
PoolRec ==
    [entries: (SUBSET Entry) \ {{}}, K: Nat \ {0}, override: (Nat \ {0}) \cup {Unset},
     expireAfter: Nat, TGP: Nat \cup {Unset}, readyTimeout: Nat \ {0},
     retryBackoff: Nat \ {0}, cooldown: Nat,
     drainEstimate: (Nat \ {0}) \cup {Nil}, provisioningEstimate: (Nat \ {0}) \cup {Nil}]

\* Pools that validation lets through, and claims whose names are unique.
ASSUME ScenarioAssumption ==
    \A s \in Scenarios :
        /\ s.pool \in PoolRec /\ s.start \in Nat
        /\ s.claims \in [1..Len(s.claims) -> ClaimRec]
        /\ \A i, j \in DOMAIN s.claims : s.claims[i].name = s.claims[j].name => i = j

VARIABLES
    pool,         \* policy and template of the pool
    resolved,     \* what resolve and derivedThresholds make of it
    excluded,     \* claims whose node an operator protects
    claims,       \* its NodeClaims, a sequence as the List returns them
    now, start,
    until,        \* bound: the clock
    failures,     \* how many more attempts may fail
    announced,    \* per claim, the backoff its last failure was announced with
    had           \* history: per claim, the chances to rotate it has had

vars == <<pool, resolved, excluded, claims, now, start, until, failures, announced, had>>

-----------------------------------------------------------------------------
poolTGP(p) == IF p.TGP = Unset THEN DrainFallback ELSE p.TGP

\* Mutant: the lead time has room for one chance, whatever minRotationChances says.
leadBaseOneChance(p) == WorstCasePeriod(p.entries) + p.readyTimeout + Buffer

\* resolve: the lead time but for each claim's own grace period.
leadBase(p) == p.K * WorstCasePeriod(p.entries) + p.readyTimeout + Buffer

hasFailedClaim(views) == \E i \in DOMAIN views : views[i].state = "failed"

\* The occurrence bounds are looked up only when a failed claim needs them.
selInputs(p, res, views, t, out) ==
    [now |-> t, leadBase |-> res.leadBase, drainFallback |-> DrainFallback,
     override |-> p.override, retryBackoff |-> p.retryBackoff, excluded |-> out,
     bounds |-> IF hasFailedClaim(views) THEN OccurrenceBounds(p.entries, t) ELSE NoBounds]

effectiveBackoff(p, t, failedAt, retry) ==
    EffectiveBackoff(retry, p.retryBackoff, failedAt, OccurrenceBounds(p.entries, t))

derivedThresholds(p, nodeCount) ==
    Derive([E |-> p.expireAfter, TGP |-> poolTGP(p), TGPWasUnset |-> p.TGP = Unset,
            P |-> WorstCasePeriod(p.entries), windowLen |-> ShortestWindow(p.entries),
            idleGap |-> ShortestIdleGap(p.entries), readyTimeout |-> p.readyTimeout,
            cooldown |-> p.cooldown, drainEstimate |-> p.drainEstimate,
            provisioningEstimate |-> p.provisioningEstimate,
            retryBackoff |-> p.retryBackoff, K |-> p.K, maxUnavailable |-> 1,
            nodeCount |-> nodeCount, override |-> p.override])

-----------------------------------------------------------------------------
In(t) == InWindow(pool.entries, t)
Opens(t) == In(t) /\ (~In(t - 1) \/ (AlwaysOpen(mergedOccurrences(pool.entries))
                                       /\ t % Step = 0))
inputs == selInputs(pool, resolved, claims, now, excluded)
Anchored == \E i \in DOMAIN claims : claims[i].state = "pending"

\* The last instant a rotation of the claim can start at and be done in time.
LastStart(c) == c.createdAt + c.expireAfter
                  - (pool.readyTimeout + (IF c.TGP = Unset THEN DrainFallback ELSE c.TGP)
                     + Buffer)

\* A chance: the window opens, the claim is past its trigger and there is time.
Tick ==
    /\ now < until
    /\ now' = now + 1
    /\ had' = [i \in DOMAIN claims |->
                 IF /\ Opens(now') /\ claims[i].expireAfter # Unset
                    /\ triggered(claims[i], [inputs EXCEPT !.now = now'])
                    /\ now' <= LastStart(claims[i])
                 THEN had[i] + 1 ELSE had[i]]
    /\ UNCHANGED <<pool, resolved, excluded, claims, start, until, failures, announced>>

Start(i) ==
    /\ failures > 0 /\ ~Anchored /\ In(now)
    /\ PickEarliestDeadlineEligible(claims, inputs) = <<claims[i]>>
    /\ claims' = [claims EXCEPT ![i].state = "pending"]
    /\ UNCHANGED <<pool, resolved, excluded, now, start, until, failures, announced, had>>

\* failPending: what is announced is what effectiveBackoff says at the failure.
Fail(i) ==
    /\ claims[i].state = "pending" /\ failures > 0
    /\ failures' = failures - 1
    /\ claims' = [claims EXCEPT ![i].state = "failed", ![i].failedAt = now,
                                ![i].retryCount = @ + 1]
    /\ announced' = [announced EXCEPT
                       ![i] = effectiveBackoff(pool, now, now, claims[i].retryCount + 1)]
    /\ UNCHANGED <<pool, resolved, excluded, now, start, until, had>>

\* The old claim is deleted for good, by the rotation or by Karpenter at its deadline.
Succeed(i) ==
    /\ claims[i].state = "pending"
    /\ claims' = [claims EXCEPT ![i].state = "draining", ![i].deleting = TRUE]
    /\ UNCHANGED <<pool, resolved, excluded, now, start, until, failures, announced, had>>

Expire(i) ==
    /\ ~claims[i].deleting /\ claims[i].expireAfter # Unset
    /\ now >= claims[i].createdAt + claims[i].expireAfter
    /\ claims' = [claims EXCEPT ![i].deleting = TRUE,
                                ![i].state = IF @ = "pending" THEN "expired" ELSE @]
    /\ UNCHANGED <<pool, resolved, excluded, now, start, until, failures, announced, had>>

Init ==
    \E s \in Scenarios :
        /\ pool = s.pool
        /\ resolved = [leadBase |-> leadBase(pool),
                       derived |-> derivedThresholds(pool, Len(s.claims))]
        /\ excluded = s.excluded /\ claims = s.claims
        /\ start = s.start /\ now = s.start /\ until = s.until /\ failures = s.failures
        /\ announced = [i \in DOMAIN s.claims |-> 0] /\ had = announced

Next ==
    \/ Tick
    \/ \E i \in DOMAIN claims : Start(i) \/ Fail(i) \/ Succeed(i) \/ Expire(i)

Spec == Init /\ [][Next]_vars

-----------------------------------------------------------------------------
(***************************************************************************)
(* Properties.                                                             *)
(***************************************************************************)

\* The week the figures are taken from is the one InWindow sees: overlapping, touching
\* and wrapping entries of several zones make the maximal runs of open instants, P is
\* the least period within which a window always opens, D the shortest run, and the
\* idle gap the shortest closed run (mergedOccurrences, WorstCasePeriod,
\* ShortestWindow, ShortestIdleGap).
WeekFigures ==
    now = start =>
    LET ticks == 0..(week - 1)
        P == WorstCasePeriod(pool.entries)
        runs(open) == {t \in ticks : In(t) = open /\ In(t - 1) # open}
        length(t) == Min({n \in 1..week : In(t + n) # In(t)})
    IN  IF \A t \in ticks : In(t)
        THEN P = Step /\ ShortestWindow(pool.entries) = week
             /\ ShortestIdleGap(pool.entries) = -1
        ELSE /\ {o.start : o \in mergedOccurrences(pool.entries)} = runs(TRUE)
             /\ \A t \in ticks : \E u \in (t + 1)..(t + P) : u % week \in runs(TRUE)
             /\ \E t \in ticks : \A u \in (t + 1)..(t + P - 1) : u % week \notin runs(TRUE)
             /\ ShortestWindow(pool.entries) = Min({length(t) : t \in runs(TRUE)})
             /\ ShortestIdleGap(pool.entries) = Min({length(t) : t \in runs(FALSE)})

\* Whatever the phase of now within its minute, the occurrence found around it is the
\* maximal run of open instants; it is not found only where a zone is off the minute
\* or the window never closes (OccurrenceBounds).
BoundsExact ==
    LET b == OccurrenceBounds(pool.entries, now) IN
    IF b.ok
    THEN /\ now \in b.start..(b.end - 1) /\ \A t \in b.start..(b.end - 1) : In(t)
         /\ ~In(b.start - 1) /\ ~In(b.end)
    ELSE \/ ~In(now) \/ \E e \in pool.entries : e.offset % Step # 0
         \/ \A t \in 0..(week - 1) : In(t)

\* A claim of auto mode that is not reported short of lead time while it lives has had
\* K windows open on it, past its trigger and with t_rot to spare, when its deadline
\* comes, whenever it was created; and one that is like its pool's template has had the G chances of a
\* derivation with no fatal finding (Derive, LeadTime.For, triggered, ShortLeadClaims).
ChancesKept ==
    \A i \in DOMAIN claims : LET c == claims[i] IN
        /\ c.expireAfter # Unset /\ c.createdAt >= start
        /\ now >= c.createdAt + c.expireAfter
        =>
          /\ /\ pool.override = Unset
             /\ i \notin ShortLeadClaims([claims EXCEPT ![i].deleting = FALSE], inputs)
             => had[i] >= pool.K
          /\ c.expireAfter = pool.expireAfter /\ c.TGP = pool.TGP =>
               LET d == resolved.derived
               IN  d.findings \cap Fatal = {} => had[i] >= d.G

\* C rotations spaced by t_rot_est and the cooldown do start in every occurrence, the
\* last of them before its close, and one more does not fit the shortest; without a
\* RotationSpansNextWindow finding the last start leaves the next occurrence whole
\* (ceilDiv, layer2).
ThroughputExact ==
    now = start =>
    LET d     == resolved.derived
        denom == d.TRotEst + pool.cooldown
        occs  == mergedOccurrences(pool.entries)
    IN  denom > 0 =>
        /\ \A o \in occs : (d.C - 1) * denom < o.length
        /\ \E o \in occs : d.C * denom >= o.length
        /\ "RotationSpansNextWindow" \notin d.findings /\ ~AlwaysOpen(occs) =>
             \A o \in occs : o.start + o.length + denom <= nextStart(occs, o)

SameOccurrence(t, u) == \A v \in t..u : In(v)

\* A claim that failed in an occurrence with room for the base backoff is retried in
\* that occurrence, at the very instant the failure announced (effectiveBackoff: the
\* announcement and the predicate "cannot disagree"), when the zones are on the minute.
AnnouncedRetryHolds ==
    \A i \in DOMAIN claims : LET c == claims[i] IN
        /\ c.state = "failed" /\ announced[i] > 0 /\ SameOccurrence(c.failedAt, now)
        /\ \A e \in pool.entries : e.offset % Step = 0
        => /\ failedPastBackoff(c, inputs) <=> now >= c.failedAt + announced[i]
           /\ ~In(now + 1) /\ now >= c.failedAt + pool.retryBackoff
                => failedPastBackoff(c, inputs)

\* The clamp does not leak into a later occurrence: a failed claim that may start again
\* outside the occurrence it failed in has waited its whole ladder step, 8 times the
\* base at the most; within it, the base (EffectiveBackoff).
BackoffServed ==
    \A i \in DOMAIN claims : LET c == claims[i] IN
        /\ c.state = "failed" /\ c.failedAt # Unset /\ In(now)
        /\ eligible(c, inputs)
        => now - c.failedAt >=
             IF SameOccurrence(c.failedAt, now) THEN pool.retryBackoff
             ELSE pool.retryBackoff * (CASE c.retryCount <= 1 -> 1 [] c.retryCount = 2 -> 2
                                         [] c.retryCount = 3 -> 4 [] OTHER -> 8)

\* The pick does not depend on the order of the List, picks something exactly when the
\* census counts an eligible claim, and never passes over a claim whose deadline comes
\* first (PickEarliestDeadlineEligible, TakeCensus).
PickIsEarliest ==
    LET pick   == PickEarliestDeadlineEligible(claims, inputs)
        census == TakeCensus(claims, inputs)
        due    == {i \in DOMAIN claims : eligible(claims[i], inputs)}
    IN  /\ pick = PickEarliestDeadlineEligible(Reverse(claims), inputs)
        /\ (pick = <<>>) = (census.tally["Eligible"] = 0)
        /\ census.tally["Eligible"] = CountEligible(claims, inputs)
        /\ MapThenSumSet(LAMBDA b : census.tally[b], Buckets) = Len(claims)
        /\ pool.override = Unset => \A i \in due :
             claims[i].createdAt + claims[i].expireAfter
               >= pick[1].createdAt + pick[1].expireAfter

=============================================================================
