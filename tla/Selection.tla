----------------------------- MODULE Selection -----------------------------
(***************************************************************************)
(* Which NodeClaim is rotated next: the age trigger, the eligibility by    *)
(* readiness and rotation state, the backoff of a failed claim and the     *)
(* earliest-deadline order.  Instants and durations are integers, Unset is *)
(* one that is absent or does not parse.                                   *)
(*                                                                         *)
(* Source: internal/selection/selection.go, internal/selection/census.go   *)
(***************************************************************************)
EXTENDS Integers, Sequences, FiniteSets, FiniteSetsExt, SequencesExt

Unset == -1   \* no deadline, no override, an unreadable failed-at

\* base << shift on the ladder 1, 2, 4, 8.
maxBackoffShift == 3
Rung(base, shift) == base * <<1, 2, 4, 8>>[shift + 1]

ladderShift(retry) ==
    IF retry < 1 THEN 0
    ELSE IF retry - 1 > maxBackoffShift THEN maxBackoffShift ELSE retry - 1

EscalatedBackoff(retry, base) == Rung(base, ladderShift(retry))

\* Mutant: any failure so far is clamped to the window of now.
EffectiveBackoffLeaks(retry, base, failedAt, bounds) ==
    LET fits == {s \in 0..ladderShift(retry) : failedAt + Rung(base, s) < bounds.end}
    IN  IF ~bounds.ok \/ fits = {}
        THEN EscalatedBackoff(retry, base)
        ELSE Rung(base, CHOOSE s \in fits : \A t \in fits : t <= s)

\* Mutant: the ladder is not clamped at all.
EffectiveBackoffUnclamped(retry, base, failedAt, bounds) == EscalatedBackoff(retry, base)

\* The largest rung whose retry lands strictly before the close of the occurrence
\* the failure happened in; the whole ladder when there is none.
EffectiveBackoff(retry, base, failedAt, bounds) ==
    LET fits == {s \in 0..ladderShift(retry) : failedAt + Rung(base, s) < bounds.end}
    IN  IF ~bounds.ok \/ failedAt < bounds.start \/ failedAt >= bounds.end \/ fits = {}
        THEN EscalatedBackoff(retry, base)
        ELSE Rung(base, CHOOSE s \in fits : \A t \in fits : t <= s)

-----------------------------------------------------------------------------
\* A claim leads its deadline by its own termination grace period.
LeadTimeFor(in, c) ==
    in.leadBase + (IF c.TGP # Unset THEN c.TGP ELSE in.drainFallback)

triggered(c, in) ==
    LET age == in.now - c.createdAt
    IN  IF in.override # Unset THEN age > in.override
        ELSE c.expireAfter # Unset /\ age > c.expireAfter - LeadTimeFor(in, c)

failedPastBackoff(c, in) ==
    c.failedAt # Unset =>
        in.now - c.failedAt
          >= EffectiveBackoff(c.retryCount, in.retryBackoff, c.failedAt, in.bounds)

stateAllows(c, in) ==
    c.state = "fresh" \/ (c.state = "failed" /\ failedPastBackoff(c, in))

eligible(c, in) ==
    /\ c.name \notin in.excluded /\ ~c.deleting /\ c.ready
    /\ stateAllows(c, in) /\ triggered(c, in)

-----------------------------------------------------------------------------
deadlineOf(c, in) ==
    IF in.override # Unset \/ c.expireAfter = Unset THEN Unset
    ELSE c.createdAt + c.expireAfter

olderThan(a, b) ==
    a.createdAt < b.createdAt \/ (a.createdAt = b.createdAt /\ a.name < b.name)

\* Mutant: claims created in the same second are not told apart.
isEarlierDeadlineUnnamed(a, b, in) ==
    LET da == deadlineOf(a, in) db == deadlineOf(b, in)
    IN  IF (da # Unset) # (db # Unset) THEN da # Unset
        ELSE IF da # db THEN da < db ELSE a.createdAt <= b.createdAt

\* A resolvable deadline goes first.
isEarlierDeadline(a, b, in) ==
    LET da == deadlineOf(a, in) db == deadlineOf(b, in)
    IN  IF (da # Unset) # (db # Unset) THEN da # Unset
        ELSE IF da # db THEN da < db ELSE olderThan(a, b)

\* The loop over the list; at most one claim, as a sequence.
PickEarliestDeadlineEligible(claims, in) ==
    LET better(best, c) ==
          IF eligible(c, in) /\ (best = <<>> \/ isEarlierDeadline(c, best[1], in))
          THEN <<c>> ELSE best
    IN  FoldLeft(better, <<>>, claims)

CountEligible(claims, in) == Cardinality({i \in DOMAIN claims : eligible(claims[i], in)})

ShortLeadClaims(claims, in) ==
    {i \in DOMAIN claims : LET c == claims[i] IN
       ~c.deleting /\ c.expireAfter # Unset /\ c.expireAfter <= LeadTimeFor(in, c)}

-----------------------------------------------------------------------------
\* The bucket TakeCensus files a claim under.
bucket(c, in) ==
    CASE c.name \in in.excluded -> "OptedOut"
      [] c.name \notin in.excluded /\ c.deleting -> "Deleting"
      [] c.name \notin in.excluded /\ ~c.deleting /\ ~c.ready -> "NotReady"
      [] OTHER ->
           IF ~stateAllows(c, in)
           THEN CASE c.state = "expired" -> "Terminal"
                  [] c.state = "failed"  -> "InBackoff"
                  [] OTHER               -> "InFlight"
           ELSE IF ~triggered(c, in) THEN "NotTriggered" ELSE "Eligible"

Buckets == {"OptedOut", "Deleting", "NotReady", "Terminal", "InBackoff", "InFlight",
            "NotTriggered", "Eligible"}

\* Claims per bucket, and the tally that is not one.
TakeCensus(claims, in) ==
    [tally |-> [b \in Buckets |-> Cardinality({i \in DOMAIN claims : bucket(claims[i], in) = b})],
     inBackoffTriggered |->
        Cardinality({i \in DOMAIN claims : /\ bucket(claims[i], in) = "InBackoff"
                                           /\ triggered(claims[i], in)})]

=============================================================================
