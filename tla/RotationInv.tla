---------------------------- MODULE RotationInv ----------------------------
(***************************************************************************)
(* Why the serial gate holds: the inductive invariant behind               *)
(* InFlightIsAnchored, for a pool that stays governed and gates that       *)
(* change only at rest.  A write lands only on a current cached copy, so a *)
(* cache is at most one of the controller's own writes behind; what is     *)
(* stated here is what each such lag, and each step of a pass, leaves      *)
(* true of the server.                                                     *)
(***************************************************************************)
EXTENDS Rotation

Alive(c) == claims[c].life # "gone"

\* A claim whose rotation is over, or rolled back and not to be retried by a pass
\* that sees the pool as p.
Released(c, p) ==
    \/ ~Alive(c)
    \/ claims[c].state = "expired"
    \/ claims[c].state = "failed" /\ (claims[c].backoff \/ ~StartGate(p))

\* Every gate a retry has to pass is open, in the cached pool and the server's.
RetryOpen == gate /\ ~poolCache.frozen /\ ~pool.cooling /\ ~pool.pausing

\* What a cached claim says of the claim.
ClaimBehind(c) ==
    /\ claimCache[c].life = "gone" => claims[c].life = "gone"
    /\ claimCache[c].life = "deleting" => claims[c].life # "live"
    /\ Alive(c) =>
         /\ claims[c].state = "none" => claimCache[c].state = "none"
         /\ claims[c].state = "failed" =>
              \/ claimCache[c].state = "pending"
              \/ claimCache[c].state = "failed"
                 /\ claimCache[c].backoff = claims[c].backoff
         /\ claims[c].state = "expired" =>
              claims[c].life # "live" /\ claimCache[c].life # "live"
         /\ claimCache[c].state = "expired" => claims[c].state = "expired"

\* A stale failed view of a running attempt can only lead to a retry, which then
\* fails on the conflict; never to the repair, which would release the anchor.
StaleFailedRetries(c) ==
    InFlight(c) /\ claimCache[c].state = "failed" =>
        RetryOpen /\ ~claimCache[c].backoff

\* What the cached pool says of the pool; an anchor it still shows after the release
\* is one no pass dispatched on it can revive.
PoolBehind ==
    /\ poolCache.cooling => pool.cooling
    /\ poolCache.pausing => pool.pausing
    /\ pool.anchor # None =>
         /\ poolCache.cooling = pool.cooling /\ poolCache.pausing = pool.pausing
         /\ poolCache.anchor \in {None, pool.anchor}
    /\ \A c \in Claims : poolCache.anchor = c /\ pool.anchor # c =>
                             Released(c, poolCache)
    /\ pc = "sweep" => poolCache.anchor = pool.anchor

\* What a pass may rely on between its steps.
DuringPass ==
    ~AtRest =>
        /\ pool.anchor \in {None, cur} /\ poolCache.anchor \in {None, cur}
        /\ held.frozen = poolCache.frozen
        /\ held.cooling => pool.cooling
        /\ held.pausing => pool.pausing
        /\ pool.anchor = cur =>
             held.cooling = pool.cooling /\ held.pausing = pool.pausing
        /\ pool.anchor # cur => Released(cur, held)

Cleaning(reason) == pc \in {"clean", "unfreeze"} /\ why = reason

\* What each step has established about the claim it works on.
StepKnows ==
    /\ (\/ pc \in {"freeze", "escalate", "freezeHost", "record", "failClaim"}
        \/ Cleaning("fail")) =>
         (Alive(cur) => claims[cur].state = "pending")
    /\ pc \in {"force", "drain"} /\ Alive(cur) =>
         /\ pool.anchor = cur /\ claims[cur].state # "expired"
         /\ claims[cur].state = "failed" => RetryOpen /\ ~claims[cur].backoff
    /\ pc \in {"expire", "expireFailed"} => claimCache[cur].life # "live"
    /\ pc = "retry" =>
         /\ StartGate(held)
         /\ Alive(cur) /\ claims[cur].state = "failed" => ~claims[cur].backoff
    /\ pc = "repair" => Released(cur, held)
    /\ pc = "failPool" /\ Alive(cur) =>
         claims[cur].state = "failed" /\ claims[cur].backoff
    /\ (Cleaning("expire") \/ pc = "clear") /\ Alive(cur) =>
         claims[cur].state = "expired"
    /\ (Cleaning("complete") \/ pc = "complete") => ~Alive(cur)
    /\ pc # "reap" /\ ~Cleaning("reap") /\ ~Cleaning("none")

\* The inductive invariant: type, serial gate, caches, and the steps of a pass.
RotationInv ==
    /\ TypeOK
    /\ governed
    /\ InFlightIsAnchored
    /\ \A c \in Claims : ClaimBehind(c) /\ StaleFailedRetries(c)
    /\ PoolBehind
    /\ DuringPass
    /\ StepKnows

=============================================================================
