---------------------------- MODULE AttemptProofs ---------------------------
(***************************************************************************)
(* What an attempt of Rotation keeps to, for any set of claims and any     *)
(* bound on the faults, under SlowGates and a pool that stays governed: a  *)
(* claim's durable state only moves along the state machine, the drain     *)
(* keeps its surge host and its durable record, each step is one of        *)
(* SerialRotation, what is over has left nothing on the nodes, and none    *)
(* begins within the pause after a failure.                                *)
(***************************************************************************)
EXTENDS RotationProofs, RotationRefines

-----------------------------------------------------------------------------
(***************************************************************************)
(* The state machine of a claim.                                           *)
(***************************************************************************)

\* Only a forceful fallback drains a claim no attempt has marked pending.
ForcedDrain ==
    pc = "drain" /\ Alive(cur) =>
        claims[cur].state \in {"pending", "draining"} \/ pool.forced

\* What a claim keeps in a step that is not one of the pass's writes of it: it loses its
\* life, its pause or its backoff, or is finalized.
ClaimKept(c) ==
    \/ claims'[c] = GoneClaim
    \/ /\ claims'[c].state = claims[c].state
       /\ claims'[c].life # "gone" => claims[c].life # "gone"
       /\ claims'[c].life = "live" => claims[c].life = "live"
       /\ claims'[c].paused = claims[c].paused \/ (PauseElapses /\ ~claims'[c].paused)
       /\ PauseWithinBackoff /\ claims'[c].paused => claims'[c].backoff = claims[c].backoff

LEMMA ClaimsKept ==
  ASSUME TypeOK, Next, ~StartupSweep, ~AssertPending, ~MarkDraining, ~ExpirePending,
         ~ExpireFailed, ~RetryFailed, ~FailClaim, NEW c \in Claims
  PROVE  ClaimKept(c)
  <1>1. claims[c] \in ClaimRec /\ claims \in [Claims -> ClaimRec]
    BY DEF TypeOK
  <1>2. CASE UNCHANGED claims
    BY <1>2 DEF ClaimKept
  <1>3. CASE DeleteClaim \/ \E d \in Claims : ForceExpire(d)
    <2>1. claims'[c] \in {claims[c], [claims[c] EXCEPT !.life = "deleting"]}
      BY <1>1, <1>3 DEF DeleteClaim, ForceExpire
    <2>2. claims'[c] # claims[c] => claims[c].life # "gone"
      BY <1>1, <1>3 DEF DeleteClaim, ForceExpire
    <2> QED  BY <1>1, <2>1, <2>2 DEF ClaimRec, ClaimKept
  <1>4. CASE \E d \in Claims : TimeoutElapses(d)
    <2>1. claims'[c] \in {claims[c], [claims[c] EXCEPT !.started = "over"]}
      BY <1>1, <1>4 DEF TimeoutElapses
    <2> QED  BY <1>1, <2>1 DEF ClaimRec, ClaimKept
  <1>5. CASE \E d \in Claims : BackoffElapses(d)
    <2>1. \/ claims'[c] = claims[c]
          \/ /\ claims'[c] = [claims[c] EXCEPT !.backoff = FALSE]
             /\ PauseWithinBackoff => ~claims[c].paused
      BY <1>1, <1>5 DEF BackoffElapses
    <2> QED  BY <1>1, <2>1 DEF ClaimRec, ClaimKept
  <1>6. CASE PauseElapses
    BY <1>1, <1>6 DEF PauseElapses, ClaimRec, ClaimKept
  <1>7. CASE \E d \in Claims : Finalize(d)
    <2>1. claims'[c] \in {claims[c], GoneClaim}
      BY <1>1, <1>7 DEF Finalize
    <2> QED  BY <2>1 DEF ClaimKept
  <1> QED
    BY <1>2, <1>3, <1>4, <1>5, <1>6, <1>7
       DEF Next, Controller, Faults, Clock, Watches, Environment, serverVars,
           BeginAdvance, StartRotation, BeginReap, AdvanceGone, AdvancePending,
           AdvanceDraining, AdvanceFailed, AdvanceExpired, AssertVetoed,
           VanishedAfterAssert, FreezeOldNode, HoldWhileFrozen, CreatePlaceholder,
           SurgeNotReady, SurgeReady, FreezeHost, RecordDraining, RecordForced,
           ReassertMirror, ExpirePendingAlready, ExpirePendingRaced,
           ExpireFailedAlready, ExpireFailedRaced, RetryVetoed, RepairFailed,
           DeletePlaceholder, UnfreezeNodes, FailClaimGone, FailPool, ClearAnchor,
           CompleteOrAbort, CompleteVetoed, ReapUngoverned, ReapVetoed, AbandonPass,
           Crash, SyncPool, SyncClaim, SyncNodes, CooldownElapses, FlipGate,
           FlipFreeze, FlipGovernance, PlaceholderMoves

LEMMA StateKept ==
  ASSUME TypeOK, Next, ~StartupSweep, ~AssertPending, ~MarkDraining, ~ExpirePending,
         ~ExpireFailed, ~RetryFailed, ~FailClaim, NEW c \in Claims,
         claims'[c].life # "gone"
  PROVE  claims[c].life # "gone" /\ claims'[c].state = claims[c].state
  BY ClaimsKept DEF ClaimKept, GoneClaim, FreshClaim

\* Under its invariant the sweep finds no claim to mark failed.
LEMMA SweepClaims ==
  ASSUME TypeOK, RotationInv, StartupSweep PROVE claims' = claims /\ claimCache' = claimCache
  <1>1. poolCache.anchor = pool.anchor
    BY DEF StartupSweep, RotationInv, PoolBehind
  <1>2. PICK cs \in SUBSET Claims :
          /\ poolCache.anchor \notin cs
          /\ \A c \in cs : /\ ClaimCurrent(c)
                           /\ claims[c].state \in {"pending", "draining"}
                           /\ claims[c].life # "gone"
          /\ claims' = [c \in Claims |->
                          IF c \in cs
                          THEN [claims[c] EXCEPT !.state = "failed",
                                  !.started = "unset", !.backoff = TRUE,
                                  !.paused = TRUE]
                          ELSE claims[c]]
    BY DEF StartupSweep
  <1>3. cs = {}
    BY <1>1, <1>2 DEF RotationInv, InFlightIsAnchored, InFlight
  <1>4. claims' = claims
    BY <1>2, <1>3 DEF TypeOK
  <1> QED  BY <1>4 DEF StartupSweep

\* A cached claim is in the state it was in, or is the claim as it is.
LEMMA CacheStates ==
  ASSUME TypeOK, Next, NEW c \in Claims
  PROVE  \/ claimCache'[c] = claimCache[c]
         \/ claimCache'[c] = claims[c] /\ claims'[c] = claims[c]
         \/ /\ claimCache'[c].state = claimCache[c].state
            /\ claims'[c].state = claims[c].state
            /\ PauseElapses \/ (/\ claimCache'[c].paused = claimCache[c].paused
                                /\ claims'[c].paused = claims[c].paused)
  <1>1. /\ claims[c] \in ClaimRec /\ claims \in [Claims -> ClaimRec]
        /\ claimCache[c] \in ClaimRec /\ claimCache \in [Claims -> ClaimRec]
    BY DEF TypeOK
  <1>2. CASE UNCHANGED claimCache
    BY <1>2
  <1>3. CASE Crash \/ \E d \in Claims : SyncClaim(d)
    BY <1>1, <1>3 DEF Crash, SyncClaim, serverVars
  <1>4. CASE \E d \in Claims : TimeoutElapses(d)
    <2>1. /\ claims'[c] \in {claims[c], [claims[c] EXCEPT !.started = "over"]}
          /\ claimCache'[c] \in {claimCache[c], [claimCache[c] EXCEPT !.started = "over"]}
      BY <1>1, <1>4 DEF TimeoutElapses
    <2> QED  BY <1>1, <2>1 DEF ClaimRec
  <1>5. CASE \E d \in Claims : BackoffElapses(d)
    <2>1. /\ claims'[c] \in {claims[c], [claims[c] EXCEPT !.backoff = FALSE]}
          /\ claimCache'[c] \in {claimCache[c], [claimCache[c] EXCEPT !.backoff = FALSE]}
      BY <1>1, <1>5 DEF BackoffElapses
    <2> QED  BY <1>1, <2>1 DEF ClaimRec
  <1>6. CASE PauseElapses
    BY <1>1, <1>6 DEF PauseElapses, ClaimRec
  <1> QED
    BY <1>2, <1>3, <1>4, <1>5, <1>6
       DEF Next, Controller, Faults, Clock, Watches, Environment, cacheVars,
           StartupSweep, BeginAdvance, StartRotation, BeginReap, AdvanceGone,
           AdvancePending, AdvanceDraining, AdvanceFailed, AdvanceExpired,
           AssertPending, AssertVetoed, VanishedAfterAssert, FreezeOldNode,
           HoldWhileFrozen, CreatePlaceholder, SurgeNotReady, SurgeReady, FreezeHost,
           RecordDraining, RecordForced, MarkDraining, DeleteClaim, ReassertMirror,
           ExpirePending, ExpirePendingAlready, ExpirePendingRaced, ExpireFailed,
           ExpireFailedAlready, ExpireFailedRaced, RetryFailed, RetryVetoed,
           RepairFailed, DeletePlaceholder, UnfreezeNodes, FailClaim, FailClaimGone,
           FailPool, ClearAnchor, CompleteOrAbort, CompleteVetoed, ReapUngoverned,
           ReapVetoed, AbandonPass, CooldownElapses, SyncPool, SyncNodes, FlipGate,
           FlipFreeze, FlipGovernance, ForceExpire, Finalize, PlaceholderMoves,
           PatchClaim

LEMMA ForcedDrainStep ==
  ASSUME TypeOK, RotationInv, ForcedDrain, [Next]_vars PROVE ForcedDrain'
  <1> SUFFICES ASSUME pc' = "drain", Alive(cur)'
               PROVE  claims'[cur'].state \in {"pending", "draining"} \/ pool'.forced
    BY DEF ForcedDrain
  <1>1. CASE UNCHANGED vars
    BY <1>1 DEF vars, ForcedDrain, Alive
  <1>2. CASE RecordDraining
    BY <1>2 DEF RecordDraining, Goto, RotationInv, StepKnows, Alive
  <1>3. CASE RecordForced
    BY <1>3 DEF RecordForced, PatchPool, TypeOK, PoolRec
  <1>4. CASE Next /\ ~RecordDraining /\ ~RecordForced
    <2>1. /\ pc = "drain" /\ cur' = cur
      BY <1>4 DEF Next, Controller, Faults, Clock, Watches, Environment, passVars,
           StartupSweep, Goto, EndPass, CleanFor, AfterClean,
           BeginAdvance, StartRotation, BeginReap, AdvanceGone, AdvancePending,
           AdvanceDraining, AdvanceFailed, AdvanceExpired, AssertVetoed,
           VanishedAfterAssert, FreezeOldNode, HoldWhileFrozen, CreatePlaceholder,
           SurgeNotReady, SurgeReady, FreezeHost, AssertPending, MarkDraining,
           ReassertMirror, ExpirePendingAlready, ExpirePendingRaced,
           ExpireFailedAlready, ExpireFailedRaced, RetryVetoed, RepairFailed,
           DeletePlaceholder, UnfreezeNodes, FailClaimGone, FailPool, ClearAnchor,
           CompleteOrAbort, CompleteVetoed, ReapUngoverned, ReapVetoed, AbandonPass,
           Crash, SyncPool, SyncClaim, SyncNodes, CooldownElapses, FlipGate,
           FlipFreeze, FlipGovernance, PlaceholderMoves, ExpirePending, ExpireFailed,
           RetryFailed, FailClaim, DeleteClaim, ForceExpire, Finalize, TimeoutElapses,
           BackoffElapses, PauseElapses
    <2>2. claims[cur].life # "gone" /\ claims'[cur].state = claims[cur].state
      BY <1>4, <2>1, StateKept DEF Alive, TypeOK, AtRest, StartupSweep, AssertPending,
         MarkDraining, Goto, ExpirePending, ExpireFailed, RetryFailed, FailClaim
    <2>3. pool'.forced = pool.forced
      <3>1. CASE UNCHANGED pool
        BY <3>1
      <3>2. CASE FlipFreeze \/ PauseElapses \/ CooldownElapses
        BY <3>2 DEF FlipFreeze, PauseElapses, CooldownElapses, TypeOK, PoolRec
      <3> QED
        BY <1>4, <2>1, <3>1, <3>2 DEF Next, Controller, Faults, Clock, Watches,
           Environment, passVars, serverVars,
           StartupSweep, BeginAdvance, StartRotation, BeginReap, AdvanceGone,
           AdvancePending, AdvanceDraining, AdvanceFailed, AdvanceExpired,
           AssertVetoed, VanishedAfterAssert, FreezeOldNode, HoldWhileFrozen,
           CreatePlaceholder, SurgeNotReady, SurgeReady, FreezeHost, AssertPending,
           MarkDraining, ReassertMirror, ExpirePendingAlready, ExpirePendingRaced,
           ExpireFailedAlready, ExpireFailedRaced, RetryVetoed, RepairFailed,
           DeletePlaceholder, UnfreezeNodes, FailClaimGone, FailPool, ClearAnchor,
           CompleteOrAbort, CompleteVetoed, ReapUngoverned, ReapVetoed, AbandonPass,
           Crash, SyncPool, SyncClaim, SyncNodes, FlipGate, FlipGovernance,
           PlaceholderMoves, ExpirePending, ExpireFailed, RetryFailed, FailClaim,
           DeleteClaim, ForceExpire, Finalize, TimeoutElapses, BackoffElapses
    <2> QED  BY <2>1, <2>2, <2>3 DEF ForcedDrain, Alive
  <1> QED  BY <1>1, <1>2, <1>3, <1>4

\* The state each write of a pass leaves on the claim.
LEMMA StateWritten ==
  \A r \in ClaimRec :
    /\ [r EXCEPT !.state = "pending", !.started =
        IF @ = "unset" THEN "running" ELSE @].state = "pending"
    /\ [r EXCEPT !.state = "pending"].state = "pending"
    /\ [r EXCEPT !.state = "draining"].state = "draining"
    /\ [r EXCEPT !.state = "expired"].state = "expired"
    /\ [r EXCEPT !.state = "expired", !.started = "unset"].state = "expired"
    /\ [r EXCEPT !.state = "failed", !.started = "unset", !.backoff = TRUE,
        !.paused = TRUE].state = "failed"
  BY DEF ClaimRec

LEMMA ForwardStep ==
  ASSUME TypeOK, RotationInv, ForcedDrain, Next, NEW c \in Claims,
         claims'[c].life # "gone", claims'[c].state # claims[c].state
  PROVE  Moves(c)
  <1>1. claims[c] \in ClaimRec /\ claims[c].state \in ClaimState
    BY DEF TypeOK, ClaimRec
  <1>3. CASE StartupSweep
    <2>1. PICK cs \in SUBSET Claims :
            /\ poolCache.anchor \notin cs
            /\ \A d \in cs : /\ ClaimCurrent(d)
                             /\ claims[d].state \in {"pending", "draining"}
                             /\ claims[d].life # "gone"
            /\ claims' = [d \in Claims |->
                            IF d \in cs
                            THEN [claims[d] EXCEPT !.state = "failed",
                                    !.started = "unset", !.backoff = TRUE,
                                    !.paused = TRUE]
                            ELSE claims[d]]
      BY <1>3 DEF StartupSweep
    <2>2. poolCache.anchor = pool.anchor
      BY <1>3 DEF StartupSweep, RotationInv, PoolBehind
    <2>3. c \notin cs
      BY <2>1, <2>2 DEF RotationInv, InFlightIsAnchored, InFlight
    <2> QED  BY <2>1, <2>3
  <1>4. CASE AssertPending
    <2>1. cur \in Claims /\ claimCache[cur].state \in {"none", "pending"}
      BY <1>4 DEF TypeOK, AssertPending, AtRest
    <2>2. PatchClaim(cur, [claims[cur] EXCEPT !.state = "pending",
                             !.started = IF @ = "unset" THEN "running" ELSE @])
      BY <1>4 DEF AssertPending
    <2>3. c = cur /\ claimCache[c] = claims[c] /\ claims'[c].state = "pending"
      BY <1>1, <2>1, <2>2, StateWritten DEF PatchClaim, ClaimCurrent, TypeOK
    <2> QED  BY <2>1, <2>3 DEF Moves, BackoffOver
  <1>5. CASE MarkDraining
    <2>1. /\ cur \in Claims /\ Exists(cur)
          /\ PatchClaim(cur, [claims[cur] EXCEPT !.state = "draining"])
      BY <1>5 DEF TypeOK, MarkDraining, AtRest
    <2>2. c = cur /\ claimCache[c] = claims[c] /\ claims'[c].state = "draining"
      BY <1>1, <2>1, StateWritten DEF PatchClaim, ClaimCurrent, TypeOK
    <2>3. Alive(c)
      BY <2>1, <2>2 DEF Exists, Alive
    <2>4. claims[c].state # "expired" /\ (claims[c].state = "failed" => ~claims[c].backoff)
      BY <1>5, <2>2, <2>3 DEF MarkDraining, RotationInv, StepKnows
    <2>5. claims[c].state \in {"pending", "draining"} \/ pool.forced
      BY <1>5, <2>2, <2>3 DEF MarkDraining, ForcedDrain
    <2> QED  BY <1>1, <2>2, <2>4, <2>5 DEF Moves, BackoffOver, ClaimState
  <1>6. CASE ExpirePending
    <2>1. cur \in Claims /\ claimCache[cur].state \in {"none", "pending"}
      BY <1>6 DEF TypeOK, ExpirePending, AtRest
    <2>2. PatchClaim(cur, [claims[cur] EXCEPT !.state = "expired", !.started = "unset"])
      BY <1>6 DEF ExpirePending
    <2>3. c = cur /\ claimCache[c] = claims[c] /\ claims'[c].state = "expired"
      BY <1>1, <2>1, <2>2, StateWritten DEF PatchClaim, ClaimCurrent, TypeOK
    <2> QED  BY <2>1, <2>3 DEF Moves
  <1>7. CASE ExpireFailed
    <2>1. cur \in Claims /\ claimCache[cur].state = "failed"
      BY <1>7 DEF TypeOK, ExpireFailed, AtRest
    <2>2. PatchClaim(cur, [claims[cur] EXCEPT !.state = "expired"])
      BY <1>7 DEF ExpireFailed
    <2>3. c = cur /\ claimCache[c] = claims[c] /\ claims'[c].state = "expired"
      BY <1>1, <2>1, <2>2, StateWritten DEF PatchClaim, ClaimCurrent, TypeOK
    <2> QED  BY <2>1, <2>3 DEF Moves
  <1>8. CASE RetryFailed
    <2>1. cur \in Claims /\ claimCache[cur].state = "failed" /\ Exists(cur)
      BY <1>8 DEF TypeOK, RetryFailed, AtRest
    <2>2. PatchClaim(cur, [claims[cur] EXCEPT !.state = "pending"])
      BY <1>8 DEF RetryFailed
    <2>3. c = cur /\ claimCache[c] = claims[c] /\ claims'[c].state = "pending"
      BY <1>1, <2>1, <2>2, StateWritten DEF PatchClaim, ClaimCurrent, TypeOK
    <2>4. ~claims[c].backoff
      BY <1>8, <2>1, <2>3 DEF RetryFailed, RotationInv, StepKnows, Exists, Alive
    <2> QED  BY <2>1, <2>3, <2>4 DEF Moves, BackoffOver
  <1>9. CASE FailClaim
    <2>1. cur \in Claims /\ Exists(cur)
      BY <1>9 DEF TypeOK, FailClaim, AtRest
    <2>2. PatchClaim(cur, [claims[cur] EXCEPT !.state = "failed", !.started = "unset",
                             !.backoff = TRUE, !.paused = TRUE])
      BY <1>9 DEF FailClaim
    <2>3. c = cur /\ claimCache[c] = claims[c] /\ claims'[c].state = "failed"
      BY <1>1, <2>1, <2>2, StateWritten DEF PatchClaim, ClaimCurrent, TypeOK
    <2>4. claims[c].state = "pending"
      BY <1>9, <2>1, <2>3 DEF FailClaim, RotationInv, StepKnows, Exists, Alive
    <2> QED  BY <2>3, <2>4 DEF Moves
  <1> QED  BY <1>3, <1>4, <1>5, <1>6, <1>7, <1>8, <1>9, StateKept

\* No write of a pass, whatever stale view it was decided on, moves a claim against the
\* state machine: a failed claim is not revived within its backoff, a drain is never
\* rolled back, expired is terminal (the conditional writes of rotation_controller.go).
THEOREM ForwardOnly ==
  ASSUME SlowGates, ~GovernanceMayLapse PROVE Spec => Forward
  <1>1. Init => RotationInv /\ ForcedDrain
    BY RotationInit DEF Init, ForcedDrain
  <1>2. RotationInv /\ ForcedDrain /\ [Next]_vars => RotationInv' /\ ForcedDrain'
    BY RotationStep, ForcedDrainStep DEF RotationInv
  <1>3. RotationInv /\ ForcedDrain /\ [Next]_vars =>
          [\A c \in Claims :
             claims'[c].life # "gone" /\ claims'[c].state # claims[c].state => Moves(c)]_vars
    BY RotationStep, ForwardStep DEF RotationInv
  <1> QED  BY <1>1, <1>2, <1>3, PTL DEF Spec, Forward

-----------------------------------------------------------------------------
(***************************************************************************)
(* The drain.                                                              *)
(***************************************************************************)

\* A mirror that was seen under an anchor is there while that anchor is.
MirrorSeen ==
    /\ poolCache.anchor = pool.anchor /\ pool.anchor # None /\ poolCache.mirror =>
         pool.mirror
    /\ ~AtRest /\ pool.anchor = cur /\ held.mirror => pool.mirror

\* A drain is never seen before, or under, an attempt still pending.
DrainSeen == \A c \in Claims :
    Alive(c) /\ claims[c].state = "pending" => claimCache[c].state # "draining"

\* What the steps towards the delete have made durable.
DrainSteps ==
    /\ pc = "record" /\ Alive(cur) => "host" \in marked[cur]
    /\ pc = "drain" /\ Alive(cur) =>
         pool.mirror /\ (pool.forced \/ "host" \in marked[cur])
    /\ pc \in {"redrain", "delete"} /\ claims[cur].life = "live" =>
         claims[cur].state = "draining"
    /\ pc = "delete" /\ claims[cur].life = "live" => pool.mirror

DrainInv ==
    /\ markSeen = marked
    /\ LiveDrainProtected
    /\ MirrorSeen
    /\ DrainSeen
    /\ DrainSteps

LEMMA DrainInit == ASSUME Init PROVE DrainInv
  <1>1. \A c \in Claims : claims[c] = FreshClaim /\ claimCache[c] = FreshClaim
    BY DEF Init
  <1>2. markSeen = marked /\ MirrorSeen /\ DrainSteps
    BY DEF Init, MirrorSeen, DrainSteps, NoPool, AtRest
  <1>3. LiveDrainProtected /\ DrainSeen
    BY <1>1 DEF LiveDrainProtected, DrainSeen, FreshClaim
  <1> QED  BY <1>2, <1>3 DEF DrainInv

drained == <<pool, poolCache, claims, claimCache, marked, markSeen>>

\* Nothing the invariant mentions is written.
LEMMA DrainFrame ==
  ASSUME DrainInv, UNCHANGED drained
  PROVE  markSeen' = marked' /\ LiveDrainProtected' /\ DrainSeen'
  BY DEF DrainInv, drained, LiveDrainProtected, DrainSeen, Alive

LEMMA DrainEnds ==
  ASSUME DrainInv, UNCHANGED drained, EndPass PROVE DrainInv'
  <1>1. MirrorSeen' /\ DrainSteps'
    BY DEF DrainInv, drained, EndPass, MirrorSeen, DrainSteps, AtRest
  <1> QED  BY <1>1, DrainFrame DEF DrainInv

LEMMA DrainGoto ==
  ASSUME DrainInv, UNCHANGED drained, ~AtRest, UNCHANGED <<cur, held>>, DrainSteps'
  PROVE  DrainInv'
  <1>1. MirrorSeen'
    BY DEF DrainInv, drained, MirrorSeen, AtRest
  <1> QED  BY <1>1, DrainFrame DEF DrainInv

LEMMA DrainUntouched ==
  ASSUME DrainInv, UNCHANGED drained, UNCHANGED passVars PROVE DrainInv'
  <1>1. MirrorSeen' /\ DrainSteps'
    BY DEF DrainInv, drained, passVars, MirrorSeen, DrainSteps, AtRest, Alive
  <1> QED  BY <1>1, DrainFrame DEF DrainInv

LEMMA DrainReadOnly ==
  ASSUME TypeOK, RotationInv, DrainInv,
         \/ AssertVetoed \/ VanishedAfterAssert \/ HoldWhileFrozen
         \/ CreatePlaceholder \/ SurgeNotReady \/ ExpirePendingRaced
         \/ ExpireFailedRaced \/ RetryVetoed \/ FailClaimGone \/ CompleteVetoed
         \/ AbandonPass
  PROVE  DrainInv'
  <1>1. EndPass
    BY DEF AssertVetoed, VanishedAfterAssert, HoldWhileFrozen, CreatePlaceholder,
       SurgeNotReady, ExpirePendingRaced, ExpireFailedRaced, RetryVetoed,
       FailClaimGone, CompleteVetoed, AbandonPass
  <1>2. UNCHANGED drained
    BY DEF AssertVetoed, VanishedAfterAssert, HoldWhileFrozen, CreatePlaceholder,
       SurgeNotReady, ExpirePendingRaced, ExpireFailedRaced, RetryVetoed,
       FailClaimGone, CompleteVetoed, AbandonPass, drained, serverVars, cacheVars
  <1> QED  BY <1>1, <1>2, DrainEnds

LEMMA DrainAdvance ==
  ASSUME TypeOK, RotationInv, DrainInv,
         \/ AdvanceGone \/ AdvancePending \/ AdvanceDraining \/ AdvanceFailed
         \/ AdvanceExpired \/ ExpirePendingAlready \/ ExpireFailedAlready
         \/ SurgeReady \/ DeletePlaceholder
  PROVE  DrainInv'
  <1>1. UNCHANGED drained /\ ~AtRest
    BY DEF AdvanceGone, AdvancePending, AdvanceDraining, AdvanceFailed,
       AdvanceExpired, ExpirePendingAlready, ExpireFailedAlready, SurgeReady,
       DeletePlaceholder, drained, serverVars, cacheVars, AtRest
  <1>2. CASE EndPass
    BY <1>1, <1>2, DrainEnds
  <1>3. CASE ~EndPass
    <2>1. UNCHANGED <<cur, held>>
      BY <1>3 DEF AdvanceGone, AdvancePending, AdvanceDraining, AdvanceFailed,
         AdvanceExpired, ExpirePendingAlready, ExpireFailedAlready, SurgeReady,
         DeletePlaceholder, Goto, CleanFor
    <2>2. CASE AdvanceDraining
      <3>1. cur \in Claims
        BY <1>1 DEF TypeOK
      <3>2. /\ claimCache[cur].state = "draining"
            /\ pc' = "redrain" \/ (pc' = "delete" /\ held.mirror)
        BY <1>3, <2>2 DEF AdvanceDraining, Goto
      <3>3. claims[cur].state \in ClaimState
        BY <3>1 DEF TypeOK, ClaimRec
      <3>4. claims[cur].life = "live" => claims[cur].state = "draining"
        BY <3>1, <3>2, <3>3 DEF RotationInv, ClaimBehind, DrainInv, DrainSeen, Alive,
           ClaimState
      <3>5. claims[cur].life = "live" /\ held.mirror => pool.mirror
        BY <1>1, <3>1, <3>4 DEF RotationInv, InFlightIsAnchored, InFlight, DrainInv,
           MirrorSeen
      <3>6. DrainSteps'
        BY <1>1, <2>1, <3>2, <3>4, <3>5 DEF drained, DrainSteps
      <3> QED  BY <1>1, <2>1, <3>6, DrainGoto
    <2>3. CASE ~AdvanceDraining
      <3>1. pc' \notin {"record", "drain", "redrain", "delete"}
        BY <2>3 DEF AdvanceGone, AdvancePending, AdvanceFailed, AdvanceExpired,
           ExpirePendingAlready, ExpireFailedAlready, SurgeReady, DeletePlaceholder,
           Goto, CleanFor
      <3>2. DrainSteps'
        BY <3>1 DEF DrainSteps
      <3> QED  BY <1>1, <2>1, <3>2, DrainGoto
    <2> QED  BY <2>2, <2>3
  <1> QED  BY <1>2, <1>3

-----------------------------------------------------------------------------
(***************************************************************************)
(* Writes of a node, of a claim, of the pool.                              *)
(***************************************************************************)

LEMMA DrainFreeze ==
  ASSUME TypeOK, ~NodeLag, RotationInv, DrainInv, FreezeOldNode \/ FreezeHost
  PROVE  DrainInv'
  <1>1. /\ cur \in Claims /\ ~AtRest /\ UNCHANGED <<cur, held>>
        /\ UNCHANGED <<pool, poolCache, claims, claimCache>>
        /\ pc' \in {"escalate", "record"}
    BY DEF TypeOK, FreezeOldNode, FreezeHost, AtRest, Goto
  <1>2. /\ markSeen' = marked' /\ \A c \in Claims : marked[c] \subseteq marked'[c]
        /\ FreezeHost => "host" \in marked'[cur]
    BY <1>1 DEF TypeOK, DrainInv, FreezeOldNode, FreezeHost, Mark
  <1>3. LiveDrainProtected'
    BY <1>1, <1>2 DEF DrainInv, LiveDrainProtected
  <1>4. MirrorSeen' /\ DrainSeen'
    BY <1>1 DEF DrainInv, MirrorSeen, DrainSeen, Alive, AtRest
  <1>5. DrainSteps'
    BY <1>1, <1>2 DEF DrainSteps, FreezeOldNode, FreezeHost, Goto
  <1> QED  BY <1>2, <1>3, <1>4, <1>5 DEF DrainInv

LEMMA DrainUnfreeze ==
  ASSUME TypeOK, ~NodeLag, RotationInv, DrainInv, UnfreezeNodes PROVE DrainInv'
  <1>1. /\ cur \in Claims /\ ~AtRest
        /\ UNCHANGED <<cur, held>> \/ EndPass
        /\ UNCHANGED <<pool, poolCache, claims, claimCache>>
        /\ pc' \notin {"record", "drain", "redrain", "delete"}
    BY DEF TypeOK, UnfreezeNodes, AtRest, Goto, EndPass, AfterClean
  <1>2. /\ markSeen' = marked'
        /\ \A c \in Claims : c # cur => marked'[c] = marked[c]
    BY <1>1 DEF TypeOK, UnfreezeNodes, Mark
  <1>3. Alive(cur) => claims[cur].state # "draining"
    BY DEF TypeOK, UnfreezeNodes, RotationInv, StepKnows, Cleaning
  <1>4. LiveDrainProtected'
    BY <1>1, <1>2, <1>3 DEF DrainInv, LiveDrainProtected, Alive
  <1>5. MirrorSeen' /\ DrainSeen'
    BY <1>1 DEF DrainInv, MirrorSeen, DrainSeen, Alive, AtRest, EndPass
  <1>6. DrainSteps'
    BY <1>1 DEF DrainSteps
  <1> QED  BY <1>2, <1>4, <1>5, <1>6 DEF DrainInv

LEMMA DrainClaimFrame ==
  ASSUME DrainInv, NEW c \in Claims, OthersKept(c), UNCHANGED <<marked, markSeen>>,
         claims'[c].life # "gone" /\ claims'[c].state = "draining" =>
            pool.anchor # c \/ pool.forced \/ "host" \in marked[c],
         claims'[c].life # "gone" /\ claims'[c].state = "pending" =>
            claimCache'[c].state # "draining"
  PROVE  markSeen' = marked' /\ LiveDrainProtected' /\ DrainSeen'
  <1>1. LiveDrainProtected'
    BY DEF DrainInv, OthersKept, LiveDrainProtected
  <1>2. DrainSeen'
    BY DEF DrainInv, OthersKept, DrainSeen, Alive
  <1> QED  BY <1>1, <1>2 DEF DrainInv

\* The conditional writes of a pass, but for the draining one.
LEMMA DrainConditional ==
  ASSUME TypeOK, RotationInv, DrainInv,
         AssertPending \/ ExpirePending \/ ExpireFailed \/ RetryFailed \/ FailClaim
  PROVE  DrainInv'
  <1>1. /\ cur \in Claims /\ ~AtRest /\ UNCHANGED <<cur, held, marked, markSeen>>
        /\ pc' \notin {"record", "drain", "redrain", "delete"}
        /\ UNCHANGED <<pool, poolCache, gate, governed>>
    BY DEF TypeOK, AssertPending, ExpirePending, ExpireFailed, RetryFailed, FailClaim,
       AtRest, Goto, CleanFor, envVars
  <1>2. claims[cur] \in ClaimRec /\ claims \in [Claims -> ClaimRec]
    BY <1>1 DEF TypeOK
  <1>3. /\ OthersKept(cur) /\ UNCHANGED claimCache /\ claimCache[cur] = claims[cur]
    BY <1>1, <1>2 DEF AssertPending, ExpirePending, ExpireFailed, RetryFailed, FailClaim,
       PatchClaim, ClaimCurrent, OthersKept
  <1>4. /\ claims'[cur].state \in {"pending", "expired", "failed"}
        /\ claims'[cur].state = "pending" => AssertPending \/ RetryFailed
    <2>1. CASE AssertPending
      BY <1>1, <1>2, <2>1, StateWritten DEF AssertPending, PatchClaim
    <2>2. CASE RetryFailed
      BY <1>1, <1>2, <2>2, StateWritten DEF RetryFailed, PatchClaim
    <2>3. CASE ExpirePending
      <3>1. claims'[cur] = [claims[cur] EXCEPT !.state = "expired", !.started = "unset"]
        BY <1>1, <1>2, <2>3 DEF ExpirePending, PatchClaim
      <3> QED  BY <1>2, <3>1, StateWritten
    <2>4. CASE ExpireFailed
      BY <1>1, <1>2, <2>4, StateWritten DEF ExpireFailed, PatchClaim
    <2>5. CASE FailClaim
      BY <1>1, <1>2, <2>5, StateWritten DEF FailClaim, PatchClaim
    <2> QED  BY <2>1, <2>2, <2>3, <2>4, <2>5
  <1>5. claims'[cur].state = "pending" => claimCache[cur].state # "draining"
    BY <1>4 DEF AssertPending, RetryFailed
  <1>6. markSeen' = marked' /\ LiveDrainProtected' /\ DrainSeen'
    BY <1>1, <1>3, <1>4, <1>5, DrainClaimFrame
  <1>7. MirrorSeen' /\ DrainSteps'
    BY <1>1 DEF DrainInv, MirrorSeen, DrainSteps, AtRest
  <1> QED  BY <1>6, <1>7 DEF DrainInv

LEMMA DrainMark ==
  ASSUME TypeOK, RotationInv, DrainInv, MarkDraining PROVE DrainInv'
  <1>1. /\ cur \in Claims /\ ~AtRest /\ UNCHANGED <<cur, held, marked, markSeen>>
        /\ pc = "drain" /\ pc' = "delete"
        /\ UNCHANGED <<pool, poolCache, claimCache, gate, governed>>
    BY DEF TypeOK, MarkDraining, AtRest, Goto, envVars, PatchClaim
  <1>2. CASE ~Exists(cur)
    <2>1. ~Alive(cur)
      BY <1>1, <1>2 DEF Exists, Alive, RotationInv, ClaimBehind
    <2>2. UNCHANGED claims
      BY <1>2 DEF MarkDraining
    <2>3. DrainSteps'
      BY <1>1, <2>1, <2>2 DEF DrainSteps, Alive
    <2> QED  BY <1>1, <2>2, <2>3, DrainGoto DEF drained
  <1>3. CASE Exists(cur)
    <2>1. claims[cur] \in ClaimRec /\ claims \in [Claims -> ClaimRec]
      BY <1>1 DEF TypeOK
    <2>2. /\ OthersKept(cur) /\ claimCache[cur] = claims[cur]
          /\ claims'[cur].state = "draining"
      BY <1>1, <1>3, <2>1 DEF MarkDraining, PatchClaim, ClaimCurrent, OthersKept, ClaimRec
    <2>3. pool.mirror /\ (pool.forced \/ "host" \in marked[cur])
      BY <1>1, <1>3, <2>2 DEF DrainInv, DrainSteps, Exists, Alive
    <2>4. markSeen' = marked' /\ LiveDrainProtected' /\ DrainSeen'
      BY <1>1, <2>2, <2>3, DrainClaimFrame
    <2>5. MirrorSeen' /\ DrainSteps'
      BY <1>1, <2>2, <2>3 DEF DrainInv, MirrorSeen, DrainSteps, AtRest
    <2> QED  BY <2>4, <2>5 DEF DrainInv
  <1> QED  BY <1>2, <1>3

LEMMA DrainDelete ==
  ASSUME TypeOK, RotationInv, DrainInv, DeleteClaim PROVE DrainInv'
  <1>1. /\ cur \in Claims /\ EndPass
        /\ UNCHANGED <<pool, poolCache, claimCache, marked, markSeen, gate, governed>>
    BY DEF TypeOK, DeleteClaim, AtRest, cacheVars, envVars
  <1>2. CASE UNCHANGED claims
    BY <1>1, <1>2, DrainEnds DEF drained
  <1>3. CASE claims[cur].life = "live" /\ claims' = [claims EXCEPT ![cur].life = "deleting"]
    <2>1. /\ OthersKept(cur) /\ claims'[cur].state = claims[cur].state
      BY <1>1, <1>3, DeleteWrite
    <2>2. markSeen' = marked' /\ LiveDrainProtected' /\ DrainSeen'
      BY <1>1, <1>3, <2>1, DrainClaimFrame DEF DrainInv, LiveDrainProtected, DrainSeen,
         Alive
    <2>3. MirrorSeen' /\ DrainSteps'
      BY <1>1 DEF DrainInv, MirrorSeen, DrainSteps, EndPass, AtRest
    <2> QED  BY <2>2, <2>3 DEF DrainInv
  <1> QED  BY <1>2, <1>3 DEF DeleteClaim

\* Whoever changes a claim and leaves its state.
LEMMA DrainUnderPass ==
  ASSUME TypeOK, DrainInv, NEW c \in Claims, OthersKept(c), UNCHANGED passVars,
         UNCHANGED <<marked, markSeen>>,
         \/ claims'[c].life = "gone"
         \/ /\ claims[c].life # "gone" /\ claims'[c].state = claims[c].state
            /\ claims'[c].life = "live" => claims[c].life = "live",
         claimCache'[c].state = "draining" =>
            claimCache[c].state = "draining" \/ claims'[c].state = "draining"
  PROVE  DrainInv'
  <1>1. markSeen' = marked' /\ LiveDrainProtected' /\ DrainSeen'
    BY DrainClaimFrame DEF DrainInv, LiveDrainProtected, DrainSeen, Alive
  <1>2. MirrorSeen'
    BY DEF DrainInv, MirrorSeen, OthersKept, passVars, AtRest
  <1>3. CASE AtRest
    <2>1. DrainSteps'
      BY <1>3 DEF DrainSteps, AtRest, passVars
    <2> QED  BY <1>1, <1>2, <2>1 DEF DrainInv
  <1>4. CASE ~AtRest
    <2>1. cur \in Claims
      BY <1>4 DEF TypeOK
    <2>2. /\ Alive(cur)' => Alive(cur)
          /\ claims'[cur].life = "live" =>
               claims[cur].life = "live" /\ claims'[cur].state = claims[cur].state
      BY <2>1 DEF OthersKept, Alive, passVars
    <2>3. DrainSteps'
      BY <2>2 DEF DrainInv, DrainSteps, OthersKept, passVars
    <2> QED  BY <1>1, <1>2, <2>3 DEF DrainInv
  <1> QED  BY <1>3, <1>4

LEMMA DrainOthers ==
  ASSUME TypeOK, ~NodeLag, RotationInv, DrainInv, NEW c \in Claims,
         TimeoutElapses(c) \/ BackoffElapses(c) \/ SyncClaim(c) \/ ForceExpire(c)
  PROVE  DrainInv'
  <1>1. /\ claims \in [Claims -> ClaimRec] /\ claimCache \in [Claims -> ClaimRec]
        /\ claims[c] \in ClaimRec /\ claimCache[c] \in ClaimRec
    BY DEF TypeOK
  <1>2. /\ OthersKept(c) /\ UNCHANGED passVars /\ UNCHANGED <<marked, markSeen>>
    BY <1>1 DEF TimeoutElapses, BackoffElapses, SyncClaim, ForceExpire, OthersKept,
       serverVars, cacheVars, envVars
  <1>3. CASE TimeoutElapses(c)
    <2>1. /\ claims'[c] \in {claims[c], [claims[c] EXCEPT !.started = "over"]}
          /\ claimCache'[c] \in {claimCache[c], [claimCache[c] EXCEPT !.started = "over"]}
      BY <1>1, <1>3 DEF TimeoutElapses
    <2>2. claims'[c].life = claims[c].life /\ claims'[c].state = claims[c].state
          /\ claimCache'[c].state = claimCache[c].state
      BY <1>1, <2>1 DEF ClaimRec
    <2> QED  BY <1>2, <2>2, DrainUnderPass
  <1>4. CASE BackoffElapses(c)
    <2>1. /\ claims'[c] = [claims[c] EXCEPT !.backoff = FALSE]
          /\ claimCache'[c] = [claimCache[c] EXCEPT !.backoff = FALSE]
      BY <1>1, <1>4 DEF BackoffElapses
    <2>2. claims'[c].life = claims[c].life /\ claims'[c].state = claims[c].state
          /\ claimCache'[c].state = claimCache[c].state
      BY <1>1, <2>1 DEF ClaimRec
    <2> QED  BY <1>2, <2>2, DrainUnderPass
  <1>5. CASE SyncClaim(c)
    <2>1. claims' = claims /\ claimCache'[c] = claims[c]
      BY <1>1, <1>5 DEF SyncClaim, serverVars
    <2> QED  BY <1>2, <2>1, DrainUnderPass
  <1>6. CASE ForceExpire(c)
    <2>1. /\ claims'[c] = [claims[c] EXCEPT !.life = "deleting"]
          /\ claimCache' = claimCache /\ claims[c].life = "live"
      BY <1>1, <1>6 DEF ForceExpire, cacheVars
    <2>2. claims'[c].state = claims[c].state /\ claims'[c].life = "deleting"
      BY <1>1, <2>1 DEF ClaimRec
    <2> QED  BY <1>2, <2>1, <2>2, DrainUnderPass
  <1> QED  BY <1>3, <1>4, <1>5, <1>6

LEMMA DrainFinalize ==
  ASSUME TypeOK, ~NodeLag, RotationInv, DrainInv, NEW c \in Claims, Finalize(c)
  PROVE  DrainInv'
  <1>1. /\ OthersKept(c) /\ UNCHANGED claimCache /\ UNCHANGED passVars
        /\ markSeen' = marked' /\ \A d \in Claims : d # c => marked'[d] = marked[d]
    BY DEF TypeOK, Finalize, Mark, OthersKept, envVars
  <1>2. claims'[c].life = "gone"
    BY DEF TypeOK, Finalize, GoneClaim, FreshClaim
  <1>3. LiveDrainProtected' /\ DrainSeen' /\ MirrorSeen'
    BY <1>1, <1>2 DEF DrainInv, LiveDrainProtected, DrainSeen, MirrorSeen, OthersKept,
       passVars, AtRest, Alive
  <1>4. DrainSteps'
    <2>1. CASE AtRest
      BY <1>1, <2>1 DEF DrainSteps, AtRest, passVars
    <2>2. CASE ~AtRest
      <3>1. cur \in Claims
        BY <2>2 DEF TypeOK
      <3> QED
        BY <1>1, <1>2, <3>1 DEF DrainInv, DrainSteps, OthersKept, passVars, Alive
    <2> QED  BY <2>1, <2>2
  <1> QED  BY <1>1, <1>3, <1>4 DEF DrainInv

LEMMA DrainRecord ==
  ASSUME TypeOK, RotationInv, DrainInv, RecordDraining \/ RecordForced \/ ReassertMirror
  PROVE  DrainInv'
  <1>1. /\ cur \in Claims /\ ~AtRest
        /\ UNCHANGED <<poolCache, claims, claimCache, marked, markSeen>>
    BY DEF TypeOK, RecordDraining, RecordForced, ReassertMirror, PatchPool, AtRest
  <1>2. /\ pool'.mirror /\ pool'.anchor = pool.anchor
        /\ pool'.forced \/ (pool'.forced = pool.forced /\ ~RecordForced)
    BY DEF TypeOK, PoolRec, RecordDraining, RecordForced, ReassertMirror, PatchPool
  <1>3. LiveDrainProtected' /\ DrainSeen' /\ MirrorSeen'
    BY <1>1, <1>2 DEF DrainInv, LiveDrainProtected, DrainSeen, MirrorSeen, Alive
  <1>4. DrainSteps'
    <2>1. CASE RecordDraining
      BY <1>1, <1>2, <2>1 DEF RecordDraining, Goto, DrainInv, DrainSteps, Alive
    <2>2. CASE RecordForced
      BY <1>1, <1>2, <2>2 DEF RecordForced, Goto, DrainSteps
    <2>3. CASE ReassertMirror
      BY <1>1, <1>2, <2>3 DEF ReassertMirror, Goto, EndPass, DrainInv, DrainSteps
    <2> QED  BY <2>1, <2>2, <2>3
  <1> QED  BY <1>1, <1>3, <1>4 DEF DrainInv

LEMMA DrainRelease ==
  ASSUME TypeOK, DrainInv,
         RepairFailed \/ FailPool \/ ClearAnchor \/ CompleteOrAbort
  PROVE  DrainInv'
  <1>1. /\ EndPass /\ UNCHANGED <<poolCache, claims, claimCache, marked, markSeen>>
    BY DEF RepairFailed, FailPool, ClearAnchor, CompleteOrAbort, PatchPool
  <1>2. pool'.anchor = None
    <2>1. \A p \in PoolRec : /\ Unanchored(p).anchor = None
                             /\ Unanchored(p) \in PoolRec
      BY UnanchoredType DEF PoolRec, Unanchored
    <2>2. \A b : \A p \in PoolRec : /\ [p EXCEPT !.pausing = b].anchor = p.anchor
                                    /\ [p EXCEPT !.cooling = b].anchor = p.anchor
      BY DEF PoolRec
    <2>3. CASE RepairFailed
      BY <2>1, <2>2, <2>3 DEF TypeOK, RepairFailed, PatchPool
    <2>4. CASE FailPool
      BY <2>1, <2>2, <2>4 DEF TypeOK, FailPool, PatchPool
    <2>5. CASE ClearAnchor
      BY <2>1, <2>5 DEF TypeOK, ClearAnchor, PatchPool
    <2>6. CASE CompleteOrAbort
      BY <2>1, <2>2, <2>6 DEF TypeOK, CompleteOrAbort, PatchPool
    <2> QED  BY <2>3, <2>4, <2>5, <2>6
  <1>3. LiveDrainProtected' /\ DrainSeen' /\ MirrorSeen' /\ DrainSteps'
    BY <1>1, <1>2, ConstantsAssumption DEF DrainInv, LiveDrainProtected, DrainSeen,
       MirrorSeen, DrainSteps, Alive, EndPass, AtRest
  <1> QED  BY <1>1, <1>3 DEF DrainInv

LEMMA DrainStart ==
  ASSUME TypeOK, RotationInv, DrainInv, NEW c \in Claims, StartRotation(c)
  PROVE  DrainInv'
  <1>1. /\ UNCHANGED <<poolCache, claims, claimCache, marked, markSeen>>
        /\ poolCache.anchor = None /\ pool.anchor = None /\ held' = pool'
        /\ pc' \in {"advance", "force"}
    BY DEF StartRotation, PatchPool, PoolCurrent
  <1>2. \A d \in Claims : ~InFlight(d)
    BY <1>1, ConstantsAssumption DEF RotationInv, InFlightIsAnchored
  <1>3. pool'.anchor = c
    BY DEF TypeOK, PoolRec, StartRotation, PatchPool
  <1>4. LiveDrainProtected' /\ DrainSeen' /\ MirrorSeen' /\ DrainSteps'
    BY <1>1, <1>2, <1>3, ConstantsAssumption DEF DrainInv, LiveDrainProtected, DrainSeen,
       MirrorSeen, DrainSteps, Alive, InFlight
  <1> QED  BY <1>1, <1>4 DEF DrainInv

\* The sweep writes the pool only to repair an anchor torn from its mirror.
LEMMA SweepPool ==
  ASSUME StartupSweep
  PROVE  \/ pool' = pool
         \/ /\ poolCache.anchor = None /\ PoolCurrent
            /\ pool' = [pool EXCEPT !.mirror = FALSE, !.forced = FALSE]
  BY DEF StartupSweep, PatchPool

\* The start of a process and the sweep it begins with.
LEMMA DrainSweep ==
  ASSUME TypeOK, ~NodeLag, RotationInv, DrainInv, StartupSweep PROVE DrainInv'
  <1>1. /\ pc' = "idle" /\ UNCHANGED <<poolCache, claimCache>>
        /\ poolCache.anchor = pool.anchor
    BY DEF StartupSweep, Goto, PatchPool, RotationInv, PoolBehind
  <1>2. /\ pool'.anchor = pool.anchor
        /\ pool.anchor # None => pool' = pool
    <2>1. \/ pool' = pool
          \/ pool.anchor = None /\ pool' = [pool EXCEPT !.mirror = FALSE, !.forced = FALSE]
      BY <1>1, SweepPool
    <2>2. [pool EXCEPT !.mirror = FALSE, !.forced = FALSE].anchor = pool.anchor
      BY DEF TypeOK, PoolRec
    <2> QED  BY <2>1, <2>2
  <1>3. PICK ns, cs \in SUBSET Claims :
          /\ poolCache.anchor \notin ns /\ poolCache.anchor \notin cs
          /\ marked' = [c \in Claims |-> IF c \in ns THEN {} ELSE marked[c]]
          /\ \A c \in cs : /\ ClaimCurrent(c)
                           /\ claims[c].state \in {"pending", "draining"}
                           /\ claims[c].life # "gone"
          /\ claims' = [c \in Claims |->
                          IF c \in cs
                          THEN [claims[c] EXCEPT !.state = "failed",
                                  !.started = "unset", !.backoff = TRUE,
                                  !.paused = TRUE]
                          ELSE claims[c]]
    BY DEF StartupSweep
  <1>4. cs = {}
    BY <1>1, <1>3 DEF RotationInv, InFlightIsAnchored, InFlight
  <1>5. claims' = claims
    BY <1>3, <1>4 DEF TypeOK
  <1>6. /\ markSeen' = marked'
        /\ pool.anchor \in Claims => marked'[pool.anchor] = marked[pool.anchor]
    BY <1>1, <1>3 DEF StartupSweep
  <1>7. LiveDrainProtected' /\ DrainSeen' /\ MirrorSeen' /\ DrainSteps'
    BY <1>1, <1>2, <1>5, <1>6, ConstantsAssumption DEF DrainInv, LiveDrainProtected,
       DrainSeen, MirrorSeen, DrainSteps, Alive, AtRest
  <1> QED  BY <1>6, <1>7 DEF DrainInv

LEMMA DrainCrash ==
  ASSUME TypeOK, DrainInv, Crash PROVE DrainInv'
  <1>1. /\ pc' = "sweep" /\ UNCHANGED <<pool, claims, marked>>
        /\ poolCache' = pool /\ claimCache' = claims /\ markSeen' = marked
    BY DEF Crash, serverVars
  <1>2. LiveDrainProtected' /\ DrainSeen' /\ MirrorSeen' /\ DrainSteps'
    BY <1>1 DEF DrainInv, LiveDrainProtected, DrainSeen, MirrorSeen, DrainSteps, AtRest
  <1> QED  BY <1>1, <1>2 DEF DrainInv

LEMMA DrainBegin ==
  ASSUME TypeOK, DrainInv, BeginAdvance PROVE DrainInv'
  <1>1. /\ UNCHANGED drained /\ pc' = "advance" /\ cur' = poolCache.anchor
        /\ held' = poolCache /\ poolCache.anchor # None
    BY DEF BeginAdvance, drained, serverVars, cacheVars
  <1>2. MirrorSeen' /\ DrainSteps'
    BY <1>1 DEF DrainInv, drained, MirrorSeen, DrainSteps
  <1> QED  BY <1>1, <1>2, DrainFrame DEF DrainInv

\* The pool cache catches up; the freeze and the gates change.
LEMMA DrainPool ==
  ASSUME TypeOK, DrainInv,
         SyncPool \/ FlipFreeze \/ CooldownElapses \/ PauseElapses
  PROVE  DrainInv'
  <1>1. \A b : \A p \in PoolRec :
          /\ [p EXCEPT !.frozen = b].anchor = p.anchor
          /\ [p EXCEPT !.frozen = b].mirror = p.mirror
          /\ [p EXCEPT !.frozen = b].forced = p.forced
          /\ [p EXCEPT !.pausing = b].anchor = p.anchor
          /\ [p EXCEPT !.pausing = b].mirror = p.mirror
          /\ [p EXCEPT !.pausing = b].forced = p.forced
          /\ [p EXCEPT !.cooling = b].anchor = p.anchor
          /\ [p EXCEPT !.cooling = b].mirror = p.mirror
          /\ [p EXCEPT !.cooling = b].forced = p.forced
    BY DEF PoolRec
  <1>2. /\ pool'.anchor = pool.anchor /\ pool'.mirror = pool.mirror
        /\ pool'.forced = pool.forced
        /\ \/ poolCache' = pool
           \/ poolCache'.anchor = poolCache.anchor /\ poolCache'.mirror = poolCache.mirror
    <2>1. pool \in PoolRec /\ poolCache \in PoolRec
      BY DEF TypeOK
    <2>2. CASE SyncPool
      BY <2>2 DEF SyncPool, serverVars
    <2>3. CASE FlipFreeze
      BY <1>1, <2>1, <2>3 DEF FlipFreeze, cacheVars
    <2>4. CASE CooldownElapses
      BY <1>1, <2>1, <2>4 DEF CooldownElapses
    <2>5. CASE PauseElapses
      BY <1>1, <2>1, <2>5 DEF PauseElapses
    <2> QED  BY <2>2, <2>3, <2>4, <2>5
  <1>3. /\ UNCHANGED passVars /\ UNCHANGED <<marked, markSeen>>
        /\ \A c \in Claims : /\ claims'[c].life = claims[c].life
                             /\ claims'[c].state = claims[c].state
                             /\ claimCache'[c].state = claimCache[c].state
    <2>1. \A r \in ClaimRec : /\ [r EXCEPT !.paused = FALSE].life = r.life
                             /\ [r EXCEPT !.paused = FALSE].state = r.state
      BY DEF ClaimRec
    <2>2. \A c \in Claims : claims[c] \in ClaimRec /\ claimCache[c] \in ClaimRec
      BY DEF TypeOK
    <2>3. CASE PauseElapses
      <3>1. \A c \in Claims : /\ claims'[c] = [claims[c] EXCEPT !.paused = FALSE]
                             /\ claimCache'[c] = [claimCache[c] EXCEPT !.paused = FALSE]
        BY <2>3 DEF PauseElapses
      <3>2. UNCHANGED passVars /\ UNCHANGED <<marked, markSeen>>
        BY <2>3 DEF PauseElapses
      <3>3. \A c \in Claims : /\ claims'[c].life = claims[c].life
                             /\ claims'[c].state = claims[c].state
                             /\ claimCache'[c].state = claimCache[c].state
        BY <2>1, <2>2, <3>1
      <3> QED  BY <3>2, <3>3
    <2>4. CASE SyncPool \/ FlipFreeze \/ CooldownElapses
      BY <2>4 DEF SyncPool, FlipFreeze, CooldownElapses, serverVars, cacheVars
    <2> QED  BY <2>3, <2>4 DEF PauseElapses
  <1>4. LiveDrainProtected' /\ DrainSeen'
    BY <1>2, <1>3 DEF DrainInv, LiveDrainProtected, DrainSeen, Alive
  <1>5. MirrorSeen'
    BY <1>2, <1>3 DEF DrainInv, MirrorSeen, passVars, AtRest
  <1>6. DrainSteps'
    <2>1. CASE AtRest
      BY <1>3, <2>1 DEF DrainSteps, AtRest, passVars
    <2>2. CASE ~AtRest
      <3>1. cur \in Claims
        BY <2>2 DEF TypeOK
      <3> QED
        BY <1>2, <1>3, <3>1 DEF DrainInv, DrainSteps, passVars, Alive
    <2> QED  BY <2>1, <2>2
  <1> QED  BY <1>3, <1>4, <1>5, <1>6 DEF DrainInv

-----------------------------------------------------------------------------
LEMMA DrainStep ==
  ASSUME ~NodeLag, ~GovernanceMayLapse, RotationInv, DrainInv, [Next]_vars
  PROVE  DrainInv'
  <1>1. TypeOK
    BY DEF RotationInv
  <1> USE <1>1
  <1>2. CASE StartupSweep
    BY <1>2, DrainSweep
  <1>3. CASE BeginAdvance
    BY <1>3, DrainBegin
  <1>4. CASE BeginReap \/ ReapUngoverned \/ ReapVetoed \/ FlipGovernance
    BY <1>4 DEF BeginReap, ReapUngoverned, ReapVetoed, FlipGovernance, RotationInv,
       StepKnows
  <1>5. CASE \E c \in Claims : StartRotation(c)
    BY <1>5, DrainStart
  <1>6. CASE \/ AdvanceGone \/ AdvancePending \/ AdvanceDraining \/ AdvanceFailed
             \/ AdvanceExpired \/ ExpirePendingAlready \/ ExpireFailedAlready
             \/ SurgeReady \/ DeletePlaceholder
    BY <1>6, DrainAdvance
  <1>7. CASE \/ AssertVetoed \/ VanishedAfterAssert \/ HoldWhileFrozen
             \/ CreatePlaceholder \/ SurgeNotReady \/ ExpirePendingRaced
             \/ ExpireFailedRaced \/ RetryVetoed \/ FailClaimGone \/ CompleteVetoed
             \/ AbandonPass
    BY <1>7, DrainReadOnly
  <1>8. CASE FreezeOldNode \/ FreezeHost
    BY <1>8, DrainFreeze
  <1>9. CASE UnfreezeNodes
    BY <1>9, DrainUnfreeze
  <1>10. CASE \/ AssertPending \/ ExpirePending \/ ExpireFailed \/ RetryFailed
              \/ FailClaim
    BY <1>10, DrainConditional
  <1>11. CASE MarkDraining
    BY <1>11, DrainMark
  <1>12. CASE DeleteClaim
    BY <1>12, DrainDelete
  <1>13. CASE RecordDraining \/ RecordForced \/ ReassertMirror
    BY <1>13, DrainRecord
  <1>14. CASE RepairFailed \/ FailPool \/ ClearAnchor \/ CompleteOrAbort
    BY <1>14, DrainRelease
  <1>15. CASE Crash
    BY <1>15, DrainCrash
  <1>16. ASSUME NEW c \in Claims,
                \/ TimeoutElapses(c) \/ BackoffElapses(c) \/ SyncClaim(c)
                \/ ForceExpire(c)
         PROVE  DrainInv'
    BY <1>16, DrainOthers
  <1>17. ASSUME NEW c \in Claims, Finalize(c) PROVE DrainInv'
    BY <1>17, DrainFinalize
  <1>18. CASE SyncPool \/ FlipFreeze \/ CooldownElapses \/ PauseElapses
    BY <1>18, DrainPool
  <1>19. ASSUME NEW c \in Claims, SyncNodes(c) PROVE DrainInv'
    BY <1>19 DEF SyncNodes, MarkCurrent, DrainInv
  <1>20. CASE FlipGate \/ (\E c \in Claims : PlaceholderMoves(c)) \/ UNCHANGED vars
    <2>1. UNCHANGED drained /\ UNCHANGED passVars
      BY <1>20 DEF FlipGate, PlaceholderMoves, vars, drained, passVars, serverVars,
         cacheVars
    <2> QED  BY <2>1, DrainUntouched
  <1> QED
    BY <1>2, <1>3, <1>4, <1>5, <1>6, <1>7, <1>8, <1>9, <1>10, <1>11, <1>12, <1>13,
       <1>14, <1>15, <1>16, <1>17, <1>18, <1>19, <1>20
       DEF Next, Controller, Faults, Clock, Watches, Environment

\* The delete of an old claim finds the record a crash right after it needs.
LEMMA DeleteStep ==
  ASSUME RotationInv, DrainInv, Next, NEW c \in Claims, deleted'[c], ~deleted[c]
  PROVE  /\ pool.anchor = c /\ pool.mirror
         /\ claims[c].state = "draining"
         /\ pool.forced \/ "host" \in marked[c]
  <1>1. TypeOK
    BY DEF RotationInv
  <1>2. DeleteClaim
    BY DEF Next, Controller, Faults, Clock, Watches, Environment, ghostVars,
       StartupSweep, BeginAdvance, StartRotation, BeginReap, AdvanceGone,
       AdvancePending, AdvanceDraining, AdvanceFailed, AdvanceExpired, AssertPending,
       AssertVetoed, VanishedAfterAssert, FreezeOldNode, HoldWhileFrozen,
       CreatePlaceholder, SurgeNotReady, SurgeReady, FreezeHost, RecordDraining,
       RecordForced, MarkDraining, ReassertMirror, ExpirePending,
       ExpirePendingAlready, ExpirePendingRaced, ExpireFailed, ExpireFailedAlready,
       ExpireFailedRaced, RetryFailed, RetryVetoed, RepairFailed, DeletePlaceholder,
       UnfreezeNodes, FailClaim, FailClaimGone, FailPool, ClearAnchor,
       CompleteOrAbort, CompleteVetoed, ReapUngoverned, ReapVetoed, AbandonPass,
       Crash, TimeoutElapses, BackoffElapses, PauseElapses, CooldownElapses, SyncPool,
       SyncClaim, SyncNodes, FlipGate, FlipFreeze, FlipGovernance, ForceExpire,
       Finalize, PlaceholderMoves
  <1>3. pc = "delete" /\ c = cur /\ claims[cur].life = "live"
    BY <1>1, <1>2 DEF DeleteClaim, TypeOK, AtRest
  <1>4. claims[c].state = "draining" /\ pool.mirror
    BY <1>3 DEF DrainInv, DrainSteps
  <1>5. pool.anchor = c
    BY <1>3, <1>4 DEF RotationInv, InFlightIsAnchored, InFlight
  <1> QED  BY <1>3, <1>4, <1>5 DEF DrainInv, LiveDrainProtected

\* Both invariants together, on every reachable state.
THEOREM DrainInvHolds ==
  ASSUME SlowGates, ~GovernanceMayLapse, ~NodeLag PROVE Spec => [](RotationInv /\ DrainInv)
  <1>1. Init => RotationInv /\ DrainInv
    BY RotationInit, DrainInit
  <1>2. RotationInv /\ DrainInv /\ [Next]_vars => RotationInv' /\ DrainInv'
    BY RotationStep, DrainStep
  <1> QED  BY <1>1, <1>2, PTL DEF Spec

\* No pass, whatever stale view it was dispatched on, strips the do-not-disrupt marker
\* of the surge host under a drain that still runs (abortPendingExpiry, unfreezeNodes).
THEOREM DrainProtected ==
  ASSUME SlowGates, ~GovernanceMayLapse, ~NodeLag PROVE Spec => []LiveDrainProtected
  <1>1. DrainInv => LiveDrainProtected
    BY DEF DrainInv
  <1> QED  BY <1>1, DrainInvHolds, PTL

\* When the controller deletes an old claim, the anchor, its draining mirror, the claim's
\* state and the freeze of the surge host are already durable (advancePending,
\* startForcefulFallback).
THEOREM DeleteRecorded ==
  ASSUME SlowGates, ~GovernanceMayLapse, ~NodeLag PROVE Spec => DeleteIsRecorded
  <1>1. RotationInv /\ DrainInv /\ [Next]_vars =>
          [\A c \in Claims : deleted'[c] /\ ~deleted[c] =>
              /\ pool.anchor = c /\ pool.mirror
              /\ claims[c].state = "draining"
              /\ pool.forced \/ "host" \in marked[c]]_vars
    BY DeleteStep
  <1> QED  BY <1>1, DrainInvHolds, PTL DEF Spec, DeleteIsRecorded

-----------------------------------------------------------------------------
(***************************************************************************)
(* The delete is the drain's own, whatever the Node cache shows.           *)
(***************************************************************************)

\* The steps that delete, or lead straight to the delete, work on a claim that drains.
DeleteSteps == pc \in {"redrain", "delete"} /\ claims[cur].life = "live" =>
                   claims[cur].state = "draining"

LEMMA DrainSeenStep ==
  ASSUME TypeOK, RotationInv, DrainSeen, Next PROVE DrainSeen'
  <1> SUFFICES ASSUME NEW c \in Claims, Alive(c)', claims'[c].state = "pending"
               PROVE  claimCache'[c].state # "draining"
    BY DEF DrainSeen
  <1>1. CASE StartupSweep
    BY <1>1, SweepClaims DEF DrainSeen, Alive
  <1>2. CASE \/ AssertPending \/ MarkDraining \/ ExpirePending \/ ExpireFailed
             \/ RetryFailed \/ FailClaim
    <2>1. /\ cur \in Claims /\ claims[cur] \in ClaimRec /\ UNCHANGED claimCache
          /\ claims \in [Claims -> ClaimRec]
      BY <1>2 DEF TypeOK, AtRest, AssertPending, MarkDraining, ExpirePending,
         ExpireFailed, RetryFailed, FailClaim, PatchClaim
    <2>2. CASE claims'[c] = claims[c]
      BY <2>1, <2>2 DEF DrainSeen, Alive
    <2>3. CASE claims'[c] # claims[c]
      <3>1. c = cur
        BY <1>2, <2>1, <2>3 DEF AssertPending, MarkDraining, ExpirePending, ExpireFailed,
           RetryFailed, FailClaim, PatchClaim
      <3>2. CASE AssertPending \/ RetryFailed
        BY <2>1, <3>1, <3>2 DEF AssertPending, RetryFailed
      <3>3. CASE MarkDraining
        BY <2>1, <2>3, <3>1, <3>3, StateWritten DEF MarkDraining, PatchClaim
      <3>4. CASE ExpirePending
        <4>1. claims'[cur] = [claims[cur] EXCEPT !.state = "expired", !.started = "unset"]
          BY <2>1, <3>4 DEF ExpirePending, PatchClaim
        <4> QED  BY <2>1, <3>1, <4>1, StateWritten
      <3>5. CASE ExpireFailed
        BY <2>1, <3>1, <3>5, StateWritten DEF ExpireFailed, PatchClaim
      <3>6. CASE FailClaim
        <4>1. claims'[cur] = [claims[cur] EXCEPT !.state = "failed", !.started = "unset",
                                !.backoff = TRUE, !.paused = TRUE]
          BY <2>1, <3>6 DEF FailClaim, PatchClaim
        <4> QED  BY <2>1, <3>1, <4>1, StateWritten
      <3> QED  BY <1>2, <3>2, <3>3, <3>4, <3>5, <3>6
    <2> QED  BY <2>2, <2>3
  <1>3. CASE ~(\/ StartupSweep \/ AssertPending \/ MarkDraining \/ ExpirePending
               \/ ExpireFailed \/ RetryFailed \/ FailClaim)
    <2>1. claims[c].life # "gone" /\ claims[c].state = "pending"
      BY <1>3, StateKept DEF Alive
    <2> QED  BY <2>1, CacheStates DEF DrainSeen, Alive
  <1> QED  BY <1>1, <1>2, <1>3

LEMMA DeleteStepsStep ==
  ASSUME TypeOK, RotationInv, DrainSeen, DeleteSteps, Next PROVE DeleteSteps'
  <1> SUFFICES ASSUME pc' \in {"redrain", "delete"}, claims'[cur'].life = "live"
               PROVE  claims'[cur'].state = "draining"
    BY DEF DeleteSteps
  <1>1. CASE AdvanceDraining
    <2>1. /\ cur' = cur /\ cur \in Claims /\ claims' = claims
          /\ claimCache[cur].state = "draining"
      BY <1>1 DEF AdvanceDraining, Goto, EndPass, serverVars, TypeOK, AtRest
    <2>2. claims[cur].state \in {"none", "pending", "draining", "failed", "expired"}
      BY <2>1 DEF TypeOK, ClaimRec, ClaimState
    <2> QED  BY <2>1, <2>2 DEF RotationInv, ClaimBehind, DrainSeen, Alive
  <1>2. CASE MarkDraining
    <2>1. cur \in Claims /\ cur' = cur /\ claims[cur] \in ClaimRec
          /\ claims \in [Claims -> ClaimRec]
      BY <1>2 DEF MarkDraining, Goto, TypeOK, AtRest
    <2>2. CASE Exists(cur)
      <3>1. claims'[cur] = [claims[cur] EXCEPT !.state = "draining"]
        BY <1>2, <2>1, <2>2 DEF MarkDraining, PatchClaim
      <3> QED  BY <2>1, <3>1, StateWritten
    <2>3. CASE ~Exists(cur)
      BY <1>2, <2>1, <2>3 DEF MarkDraining, Exists, RotationInv, ClaimBehind
    <2> QED  BY <2>2, <2>3
  <1>3. CASE ReassertMirror
    BY <1>3 DEF ReassertMirror, Goto, EndPass, DeleteSteps
  <1>4. CASE ~AdvanceDraining /\ ~MarkDraining /\ ~ReassertMirror
    <2>1. pc' = pc /\ cur' = cur
      BY <1>4 DEF Next, Controller, Faults, Clock, Watches, Environment, passVars,
         StartupSweep, Goto, EndPass, CleanFor, AfterClean, BeginAdvance, StartRotation,
         BeginReap, AdvanceGone, AdvancePending, AdvanceFailed, AdvanceExpired,
         AssertPending, AssertVetoed, VanishedAfterAssert, FreezeOldNode,
         HoldWhileFrozen, CreatePlaceholder, SurgeNotReady, SurgeReady, FreezeHost,
         RecordDraining, RecordForced, DeleteClaim, ExpirePending, ExpirePendingAlready,
         ExpirePendingRaced, ExpireFailed, ExpireFailedAlready, ExpireFailedRaced,
         RetryFailed, RetryVetoed, RepairFailed, DeletePlaceholder, UnfreezeNodes,
         FailClaim, FailClaimGone, FailPool, ClearAnchor, CompleteOrAbort,
         CompleteVetoed, ReapUngoverned, ReapVetoed, AbandonPass, Crash, SyncPool,
         SyncClaim, SyncNodes, CooldownElapses, FlipGate, FlipFreeze, FlipGovernance,
         PlaceholderMoves, ForceExpire, Finalize, TimeoutElapses, BackoffElapses,
         PauseElapses
    <2>2. /\ cur \in Claims /\ ~StartupSweep /\ ~AssertPending /\ ~ExpirePending
          /\ ~ExpireFailed /\ ~RetryFailed /\ ~FailClaim
      BY <2>1 DEF TypeOK, AtRest, StartupSweep, AssertPending, ExpirePending,
         ExpireFailed, RetryFailed, FailClaim
    <2>3. ClaimKept(cur)
      BY <1>4, <2>2, ClaimsKept
    <2>4. claims[cur].life = "live" /\ claims'[cur].state = claims[cur].state
      BY <2>1, <2>3 DEF ClaimKept, GoneClaim, FreshClaim
    <2> QED  BY <2>1, <2>4 DEF DeleteSteps
  <1> QED  BY <1>1, <1>2, <1>3, <1>4

DeleteInv == DrainSeen /\ DeleteSteps

\* No pass deletes a claim that does not drain, however far behind its views are.
THEOREM DeleteInvHolds ==
  ASSUME SlowGates, ~GovernanceMayLapse PROVE Spec => []DeleteInv
  <1>1. Init => DeleteInv
    <2>1. ASSUME Init PROVE \A c \in Claims : claimCache[c] = FreshClaim
      BY <2>1 DEF Init
    <2> QED  BY <2>1 DEF Init, DeleteInv, DrainSeen, DeleteSteps, FreshClaim
  <1>2. RotationInv /\ DeleteInv /\ [Next]_vars => DeleteInv'
    <2>1. ASSUME DeleteInv, UNCHANGED vars PROVE DeleteInv'
      BY <2>1 DEF vars, DeleteInv, DrainSeen, DeleteSteps, Alive
    <2> QED  BY <2>1, DrainSeenStep, DeleteStepsStep DEF RotationInv, DeleteInv
  <1> QED  BY <1>1, <1>2, RotationInvHolds, PTL DEF Spec

-----------------------------------------------------------------------------
(***************************************************************************)
(* Rotation implements SerialRotation.  The invariants of the serial gate  *)
(* and of the drain say of every write whose it is; what is left is to     *)
(* name the abstract step each concrete one takes.                         *)
(***************************************************************************)

LEMMA PhaseCases ==
  \A r \in ClaimRec :
    /\ r.life = "gone" => PhaseOf(r) = "gone"
    /\ r.life # "gone" /\ r.state \in {"none", "failed"} => PhaseOf(r) = "out"
    /\ r.life # "gone" /\ r.state = "pending" => PhaseOf(r) = "rotating"
    /\ r.life # "gone" /\ r.state = "draining" => PhaseOf(r) = "draining"
    /\ r.life # "gone" /\ r.state = "expired" => PhaseOf(r) = "expired"
  BY DEF PhaseOf, ClaimRec

\* What a claim's phase depends on.
LEMMA SamePhase ==
  \A r, q \in ClaimRec :
    \/ r.life = "gone" /\ q.life = "gone"
    \/ r.life # "gone" /\ q.life # "gone" /\ r.state = q.state
    => PhaseOf(r) = PhaseOf(q)
  <1> TAKE r, q \in ClaimRec
  <1>1. q.state \in {"none", "pending", "draining", "failed", "expired"}
    BY DEF ClaimRec, ClaimState
  <1> QED  BY <1>1, PhaseCases

LEMMA PhasesKept ==
  ASSUME TypeOK, TypeOK',
         \A c \in Claims :
            \/ claims[c].life = "gone" /\ claims'[c].life = "gone"
            \/ claims[c].life # "gone" /\ claims'[c].life # "gone"
               /\ claims'[c].state = claims[c].state
  PROVE  Phases' = Phases
  <1>1. \A c \in Claims : claims[c] \in ClaimRec /\ claims'[c] \in ClaimRec
    BY DEF TypeOK
  <1>2. \A c \in Claims : PhaseOf(claims'[c]) = PhaseOf(claims[c])
    BY <1>1, SamePhase
  <1> QED  BY <1>2 DEF Phases

\* A write to one claim changes one phase.
LEMMA OnePhase ==
  ASSUME TypeOK, TypeOK', NEW c \in Claims, NEW r, claims' = [claims EXCEPT ![c] = r]
  PROVE  /\ Phases' = [Phases EXCEPT ![c] = PhaseOf(r)]
         /\ r \in ClaimRec /\ claims[c] \in ClaimRec /\ Phases[c] = PhaseOf(claims[c])
  BY DEF TypeOK, Phases

\* A pass's write to its claim changes the phase of a claim that still exists.
LEMMA PassPhase ==
  ASSUME TypeOK, TypeOK', cur \in Claims, NEW r, Exists(cur), PatchClaim(cur, r),
         r.life = claims[cur].life
  PROVE  /\ Phases' = [Phases EXCEPT ![cur] = PhaseOf(r)]
         /\ r \in ClaimRec /\ claims[cur] \in ClaimRec
         /\ Phases[cur] = PhaseOf(claims[cur])
         /\ r.life # "gone" /\ claims[cur].life # "gone"
         /\ claimCache[cur] = claims[cur] /\ claims'[cur] = r
  BY OnePhase DEF PatchClaim, ClaimCurrent, Exists, TypeOK

\* A write of a pass leaves the claim's life as it is.
LEMMA LifeKept ==
  \A r \in ClaimRec :
    /\ [r EXCEPT !.state = "pending", !.started =
        IF @ = "unset" THEN "running" ELSE @].life = r.life
    /\ [r EXCEPT !.state = "pending"].life = r.life
    /\ [r EXCEPT !.state = "expired"].life = r.life
    /\ [r EXCEPT !.state = "expired", !.started = "unset"].life = r.life
    /\ [r EXCEPT !.state = "failed", !.started = "unset", !.backoff = TRUE,
        !.paused = TRUE].life = r.life
  BY DEF ClaimRec

-----------------------------------------------------------------------------
\* The claim a write leaves in flight holds the gate before and after it.
LEMMA HolderAfter ==
  ASSUME RotationInv', UNCHANGED pool, NEW c \in Claims, InFlight(c)'
  PROVE  pool.anchor = c
  BY DEF RotationInv, InFlightIsAnchored

LEMMA BeginSteps ==
  ASSUME RotationInv, RotationInv', AssertPending \/ RetryFailed
  PROVE  [Serial!Next]_(Serial!vars)
  <1>1. TypeOK /\ TypeOK' /\ cur \in Claims /\ UNCHANGED <<pool, deleted>>
        /\ Exists(cur) /\ claimCache[cur].state \in {"none", "pending", "failed"}
    BY DEF RotationInv, TypeOK, AssertPending, RetryFailed, AtRest, ghostVars
  <1>2. PICK r : /\ PatchClaim(cur, r) /\ r.state = "pending"
                 /\ r.life = claims[cur].life
    <2>1. claims[cur] \in ClaimRec
      BY <1>1 DEF TypeOK
    <2>2. CASE AssertPending
      <3> DEFINE w == [claims[cur] EXCEPT !.state = "pending", !.started =
                         IF @ = "unset" THEN "running" ELSE @]
      <3>1. PatchClaim(cur, w)
        BY <2>2 DEF AssertPending
      <3>2. w.state = "pending" /\ w.life = claims[cur].life
        BY <2>1, StateWritten, LifeKept
      <3> QED  BY <3>1, <3>2
    <2>3. CASE RetryFailed
      <3> DEFINE w == [claims[cur] EXCEPT !.state = "pending"]
      <3>1. PatchClaim(cur, w)
        BY <2>3 DEF RetryFailed
      <3>2. w.state = "pending" /\ w.life = claims[cur].life
        BY <2>1, StateWritten, LifeKept
      <3> QED  BY <3>1, <3>2
    <2> QED  BY <2>2, <2>3
  <1>3. /\ Phases' = [Phases EXCEPT ![cur] = PhaseOf(r)]
        /\ r \in ClaimRec /\ claims[cur] \in ClaimRec
        /\ Phases[cur] = PhaseOf(claims[cur])
        /\ r.life # "gone" /\ claims[cur].life # "gone"
        /\ claimCache[cur] = claims[cur] /\ claims'[cur] = r
    BY <1>1, <1>2, PassPhase
  <1>4. pool.anchor = cur
    BY <1>1, <1>2, <1>3, HolderAfter DEF InFlight
  <1>5. PhaseOf(r) = "rotating"
    BY <1>2, <1>3, PhaseCases
  <1>6. CASE claims[cur].state = "pending"
    <2>1. Phases' = Phases
      BY <1>3, <1>5, <1>6, PhaseCases DEF Phases
    <2> QED  BY <1>1, <2>1 DEF Serial!vars
  <1>7. CASE claims[cur].state \in {"none", "failed"}
    <2>1. Phases[cur] = "out"
      BY <1>3, <1>7, PhaseCases
    <2>2. Serial!Begin(cur)
      BY <1>1, <1>3, <1>4, <1>5, <2>1 DEF Serial!Begin, Serial!Move
    <2> QED  BY <1>1, <2>2 DEF Serial!Next
  <1> QED  BY <1>1, <1>3, <1>6, <1>7

LEMMA DrainBegins ==
  ASSUME RotationInv, RotationInv', MarkDraining PROVE [Serial!Next]_(Serial!vars)
  <1>1. TypeOK /\ TypeOK' /\ cur \in Claims /\ UNCHANGED <<pool, deleted>>
    BY DEF RotationInv, TypeOK, MarkDraining, AtRest, ghostVars
  <1>2. CASE UNCHANGED claims
    BY <1>1, <1>2 DEF Serial!vars, Phases
  <1>3. CASE Exists(cur) /\ PatchClaim(cur, [claims[cur] EXCEPT !.state = "draining"])
    <2> DEFINE r == [claims[cur] EXCEPT !.state = "draining"]
    <2>1. r.state = "draining" /\ r.life = claims[cur].life
      BY <1>1 DEF TypeOK, ClaimRec
    <2>2. PatchClaim(cur, r) /\ Exists(cur)
      BY <1>3
    <2> HIDE DEF r
    <2>3. /\ Phases' = [Phases EXCEPT ![cur] = PhaseOf(r)]
          /\ r \in ClaimRec /\ claims[cur] \in ClaimRec
          /\ Phases[cur] = PhaseOf(claims[cur])
          /\ r.life # "gone" /\ claims[cur].life # "gone" /\ claims'[cur] = r
      BY <1>1, <2>1, <2>2, PassPhase
    <2>4. pool.anchor = cur
      BY <1>1, <2>1, <2>3, HolderAfter DEF InFlight
    <2>5. PhaseOf(r) = "draining"
      BY <2>1, <2>3, PhaseCases
    <2>6. claims[cur].state \in {"none", "failed", "pending", "draining"}
      BY <1>1, <2>3 DEF MarkDraining, RotationInv, StepKnows, Alive, ClaimRec, ClaimState
    <2>7. CASE claims[cur].state = "draining"
      <3>1. Phases' = Phases
        BY <2>3, <2>5, <2>7, PhaseCases DEF Phases
      <3> QED  BY <1>1, <3>1 DEF Serial!vars
    <2>8. CASE claims[cur].state # "draining"
      <3>1. Phases[cur] \in {"out", "rotating"}
        BY <2>3, <2>6, <2>8, PhaseCases
      <3>2. Serial!Drain(cur)
        BY <1>1, <2>3, <2>4, <2>5, <3>1 DEF Serial!Drain, Serial!Move
      <3> QED  BY <1>1, <3>2 DEF Serial!Next
    <2> QED  BY <2>7, <2>8
  <1> QED  BY <1>2, <1>3 DEF MarkDraining

LEMMA ExpireSteps ==
  ASSUME RotationInv, RotationInv', ExpirePending \/ ExpireFailed
  PROVE  [Serial!Next]_(Serial!vars)
  <1>1. TypeOK /\ TypeOK' /\ cur \in Claims /\ UNCHANGED <<pool, deleted>>
        /\ Exists(cur) /\ claimCache[cur].state \in {"none", "pending", "failed"}
    BY DEF RotationInv, TypeOK, ExpirePending, ExpireFailed, AtRest
  <1>2. PICK r : /\ PatchClaim(cur, r) /\ r.state = "expired"
                 /\ r.life = claims[cur].life
    <2>1. claims[cur] \in ClaimRec
      BY <1>1 DEF TypeOK
    <2>2. CASE ExpirePending
      <3> DEFINE w == [claims[cur] EXCEPT !.state = "expired", !.started = "unset"]
      <3>1. PatchClaim(cur, w)
        BY <2>2 DEF ExpirePending
      <3>2. w.state = "expired" /\ w.life = claims[cur].life
        BY <2>1, StateWritten, LifeKept
      <3> QED  BY <3>1, <3>2
    <2>3. CASE ExpireFailed
      <3> DEFINE w == [claims[cur] EXCEPT !.state = "expired"]
      <3>1. PatchClaim(cur, w)
        BY <2>3 DEF ExpireFailed
      <3>2. w.state = "expired" /\ w.life = claims[cur].life
        BY <2>1, StateWritten, LifeKept
      <3> QED  BY <3>1, <3>2
    <2> QED  BY <2>2, <2>3
  <1>3. /\ Phases' = [Phases EXCEPT ![cur] = PhaseOf(r)]
        /\ r \in ClaimRec /\ claims[cur] \in ClaimRec
        /\ Phases[cur] = PhaseOf(claims[cur])
        /\ r.life # "gone" /\ claims[cur].life # "gone"
        /\ claimCache[cur] = claims[cur]
    BY <1>1, <1>2, PassPhase
  <1>4. PhaseOf(r) = "expired" /\ Phases[cur] \in {"out", "rotating"}
    BY <1>1, <1>2, <1>3, PhaseCases
  <1>5. Serial!Expire(cur)
    BY <1>1, <1>3, <1>4 DEF Serial!Expire, Serial!Move
  <1> QED  BY <1>1, <1>5 DEF Serial!Next

LEMMA RollBackStep ==
  ASSUME RotationInv, RotationInv', FailClaim PROVE [Serial!Next]_(Serial!vars)
  <1>1. TypeOK /\ TypeOK' /\ cur \in Claims /\ UNCHANGED <<pool, deleted>> /\ Exists(cur)
    BY DEF RotationInv, TypeOK, FailClaim, AtRest, ghostVars
  <1>2. PICK r : /\ PatchClaim(cur, r) /\ r.state = "failed" /\ r.life = claims[cur].life
    <2> DEFINE w == [claims[cur] EXCEPT !.state = "failed", !.started = "unset",
                       !.backoff = TRUE, !.paused = TRUE]
    <2>1. PatchClaim(cur, w)
      BY DEF FailClaim
    <2>2. w.state = "failed" /\ w.life = claims[cur].life
      BY <1>1, StateWritten, LifeKept DEF TypeOK
    <2> QED  BY <2>1, <2>2
  <1>3. /\ Phases' = [Phases EXCEPT ![cur] = PhaseOf(r)]
        /\ r \in ClaimRec /\ claims[cur] \in ClaimRec
        /\ Phases[cur] = PhaseOf(claims[cur])
        /\ r.life # "gone" /\ claims[cur].life # "gone"
    BY <1>1, <1>2, PassPhase
  <1>4. claims[cur].state = "pending" /\ pool.anchor = cur
    BY <1>1, <1>3 DEF FailClaim, RotationInv, StepKnows, Alive, InFlightIsAnchored,
       InFlight
  <1>5. PhaseOf(r) = "out" /\ Phases[cur] = "rotating"
    BY <1>2, <1>3, <1>4, PhaseCases
  <1>6. Serial!RollBack(cur)
    BY <1>1, <1>3, <1>4, <1>5 DEF Serial!RollBack, Serial!Move
  <1> QED  BY <1>1, <1>6 DEF Serial!Next

\* The sweep finds no claim in flight that is not anchored, so it rewrites none.
LEMMA SweepStutters ==
  ASSUME RotationInv, RotationInv', StartupSweep PROVE UNCHANGED Serial!vars
  <1>1. PICK cs \in SUBSET Claims :
          /\ poolCache.anchor \notin cs
          /\ \A d \in cs : /\ ClaimCurrent(d)
                           /\ claims[d].state \in {"pending", "draining"}
                           /\ claims[d].life # "gone"
          /\ claims' = [d \in Claims |->
                          IF d \in cs
                          THEN [claims[d] EXCEPT !.state = "failed",
                                  !.started = "unset", !.backoff = TRUE,
                                  !.paused = TRUE]
                          ELSE claims[d]]
    BY DEF StartupSweep
  <1>2. poolCache.anchor = pool.anchor
    BY DEF StartupSweep, RotationInv, PoolBehind
  <1>3. \A c \in Claims : claims'[c] = claims[c]
    BY <1>1, <1>2 DEF RotationInv, InFlightIsAnchored, InFlight
  <1>4. Phases' = Phases
    BY <1>3 DEF Phases
  <1>5. deleted' = deleted
    BY DEF StartupSweep, ghostVars
  <1>6. pool \in PoolRec
    BY DEF RotationInv, TypeOK
  <1>7. \/ pool' = pool
        \/ pool' = [pool EXCEPT !.mirror = FALSE, !.forced = FALSE]
    BY DEF StartupSweep, PatchPool
  <1>8. pool'.anchor = pool.anchor
    BY <1>6, <1>7 DEF PoolRec
  <1> QED  BY <1>4, <1>5, <1>8 DEF Serial!vars

LEMMA RemoveStep ==
  ASSUME RotationInv, RotationInv', NEW c \in Claims, Finalize(c)
  PROVE  [Serial!Next]_(Serial!vars)
  <1>1. TypeOK /\ TypeOK' /\ UNCHANGED <<pool, deleted>>
        /\ claims' = [claims EXCEPT ![c] = GoneClaim] /\ claims[c].life = "deleting"
    BY DEF RotationInv, Finalize, ghostVars
  <1>2. /\ Phases' = [Phases EXCEPT ![c] = PhaseOf(GoneClaim)]
        /\ GoneClaim \in ClaimRec /\ claims[c] \in ClaimRec
        /\ Phases[c] = PhaseOf(claims[c])
    BY <1>1, OnePhase
  <1>3. GoneClaim.life = "gone"
    BY DEF GoneClaim, FreshClaim
  <1>4. PhaseOf(GoneClaim) = "gone"
    BY <1>2, <1>3, PhaseCases
  <1>5. Phases[c] \in {"out", "rotating", "draining", "expired"}
    <2>1. claims[c].state \in {"none", "pending", "draining", "failed", "expired"}
      BY <1>2 DEF ClaimRec, ClaimState
    <2> QED  BY <1>1, <1>2, <2>1, PhaseCases
  <1>6. Serial!Remove(c)
    BY <1>1, <1>2, <1>4, <1>5 DEF Serial!Remove, Serial!Move
  <1> QED  BY <1>6 DEF Serial!Next

LEMMA DeletePhase ==
  ASSUME RotationInv, RotationInv', DeleteInv, DeleteClaim
  PROVE  [Serial!Next]_(Serial!vars)
  <1>1. TypeOK /\ TypeOK' /\ UNCHANGED pool /\ cur \in Claims
    BY DEF RotationInv, TypeOK, DeleteClaim, AtRest
  <1>2. CASE claims[cur].life # "live"
    BY <1>1, <1>2 DEF DeleteClaim, Serial!vars, Phases
  <1>3. CASE claims[cur].life = "live"
    <2>1. /\ claims' = [claims EXCEPT ![cur].life = "deleting"]
          /\ deleted' = [deleted EXCEPT ![cur] = TRUE]
      BY <1>3 DEF DeleteClaim
    <2>2. claims[cur] \in ClaimRec /\ claims'[cur] = [claims[cur] EXCEPT !.life = "deleting"]
      BY <1>1, <2>1 DEF TypeOK
    <2>3. claims'[cur].life # "gone" /\ claims'[cur].state = claims[cur].state
      BY <2>2 DEF ClaimRec
    <2>4. \A c \in Claims : c # cur => claims'[c] = claims[c]
      BY <1>1, <2>1 DEF TypeOK
    <2>5. Phases' = Phases
      BY <1>1, <1>3, <2>3, <2>4, PhasesKept
    <2>6. pool.anchor = cur /\ claims[cur].state = "draining"
      BY <1>1, <1>3 DEF DeleteClaim, DeleteInv, DeleteSteps, RotationInv,
         InFlightIsAnchored, InFlight
    <2>7. Phases[cur] = "draining"
      BY <1>1, <1>3, <2>2, <2>6, PhaseCases DEF Phases
    <2>8. Serial!Delete(cur)
      BY <1>1, <2>1, <2>5, <2>6, <2>7 DEF Serial!Delete
    <2> QED  BY <1>1, <2>8 DEF Serial!Next
  <1> QED  BY <1>2, <1>3

LEMMA AcquireStep ==
  ASSUME RotationInv, NEW c \in Claims, StartRotation(c)
  PROVE  [Serial!Next]_(Serial!vars)
  <1>1. /\ pool.anchor = None /\ pool'.anchor = c
        /\ UNCHANGED <<claims, deleted>>
    BY DEF StartRotation, PatchPool, PoolCurrent, RotationInv, TypeOK, PoolRec, ghostVars
  <1>2. Serial!Acquire(c)
    BY <1>1 DEF Serial!Acquire, Phases
  <1> QED  BY <1>2 DEF Serial!Next

\* The gate is released with no claim in flight: the invariant holds after the release,
\* which changed no claim.
LEMMA ReleaseStep ==
  ASSUME RotationInv, RotationInv',
         RepairFailed \/ FailPool \/ ClearAnchor \/ CompleteOrAbort
  PROVE  [Serial!Next]_(Serial!vars)
  <1>1. pool \in PoolRec /\ UNCHANGED <<claims, deleted>>
    BY DEF RotationInv, TypeOK, RepairFailed, FailPool, ClearAnchor, CompleteOrAbort,
       ghostVars
  <1>2. pool'.anchor = None
    BY <1>1 DEF RepairFailed, FailPool, ClearAnchor, CompleteOrAbort, PatchPool,
       Unanchored, PoolRec
  <1>3. Phases' = Phases
    BY <1>1 DEF Phases
  <1>4. CASE pool.anchor = None
    BY <1>1, <1>2, <1>3, <1>4 DEF Serial!vars
  <1>5. CASE pool.anchor # None
    <2>1. pool.anchor \in Claims
      BY <1>1, <1>5 DEF PoolRec
    <2>2. claims[pool.anchor] \in ClaimRec
      BY <2>1 DEF RotationInv, TypeOK
    <2>3. None \notin Claims
      BY ConstantsAssumption
    <2>4. ~InFlight(pool.anchor)
      BY <1>1, <1>2, <2>1, <2>3 DEF RotationInv, InFlightIsAnchored, InFlight
    <2>5. Phases[pool.anchor] \notin {"rotating", "draining"}
      <3>1. claims[pool.anchor].state \in
              {"none", "pending", "draining", "failed", "expired"}
        BY <2>2 DEF ClaimRec, ClaimState
      <3>2. Phases[pool.anchor] = PhaseOf(claims[pool.anchor])
        BY <2>1 DEF Phases
      <3> QED  BY <2>2, <2>4, <3>1, <3>2, PhaseCases DEF InFlight
    <2>6. Serial!Release
      BY <1>1, <1>2, <1>3, <1>5, <2>5 DEF Serial!Release
    <2> QED  BY <2>6 DEF Serial!Next
  <1> QED  BY <1>4, <1>5

\* Every other step leaves the gate, the phases and the deletes as they are.
LEMMA OtherSteps ==
  ASSUME RotationInv, RotationInv', Next,
         ~StartupSweep, ~AssertPending, ~MarkDraining, ~ExpirePending, ~ExpireFailed,
         ~RetryFailed, ~FailClaim, ~DeleteClaim, ~RepairFailed, ~FailPool, ~ClearAnchor,
         ~CompleteOrAbort, \A c \in Claims : ~StartRotation(c) /\ ~Finalize(c)
  PROVE  UNCHANGED Serial!vars
  <1>1. TypeOK /\ TypeOK'
    BY DEF RotationInv
  <1>2. \A c \in Claims : claims'[c].life # "gone" =>
          claims[c].life # "gone" /\ claims'[c].state = claims[c].state
    BY <1>1, StateKept
  <1>3. \A c \in Claims : claims'[c].life = "gone" => claims[c].life = "gone"
    <2>1. CASE UNCHANGED claims
      BY <2>1
    <2>2. CASE \E d \in Claims : ForceExpire(d)
      BY <1>1, <2>2 DEF ForceExpire, TypeOK, ClaimRec
    <2>3. CASE \E d \in Claims : TimeoutElapses(d)
      BY <1>1, <2>3 DEF TimeoutElapses, TypeOK, ClaimRec
    <2>4. CASE \E d \in Claims : BackoffElapses(d)
      BY <1>1, <2>4 DEF BackoffElapses, TypeOK, ClaimRec
    <2>5. CASE PauseElapses
      BY <1>1, <2>5 DEF PauseElapses, TypeOK, ClaimRec
    <2> QED
      BY <2>1, <2>2, <2>3, <2>4, <2>5
         DEF Next, Controller, Faults, Clock, Watches, Environment, serverVars,
           BeginAdvance, BeginReap, AdvanceGone, AdvancePending,
           AdvanceDraining, AdvanceFailed, AdvanceExpired, AssertVetoed,
           VanishedAfterAssert, FreezeOldNode, HoldWhileFrozen, CreatePlaceholder,
           SurgeNotReady, SurgeReady, FreezeHost, RecordDraining, RecordForced,
           ReassertMirror, ExpirePendingAlready, ExpirePendingRaced,
           ExpireFailedAlready, ExpireFailedRaced, RetryVetoed,
           DeletePlaceholder, UnfreezeNodes, FailClaimGone,
           CompleteVetoed, ReapUngoverned, ReapVetoed, AbandonPass,
           Crash, SyncPool, SyncClaim, SyncNodes, CooldownElapses, FlipGate,
           FlipFreeze, FlipGovernance, PlaceholderMoves
  <1>4. Phases' = Phases
    BY <1>1, <1>2, <1>3, PhasesKept
  <1>5. pool'.anchor = pool.anchor
    <2>1. pool \in PoolRec /\ pc # "reap"
      BY <1>1 DEF TypeOK, RotationInv, StepKnows
    <2>2. CASE UNCHANGED pool
      BY <2>2
    <2>3. CASE \/ RecordDraining \/ RecordForced \/ ReassertMirror
               \/ FlipFreeze \/ PauseElapses \/ CooldownElapses
      BY <2>1, <2>3 DEF RecordDraining, RecordForced, ReassertMirror, FlipFreeze,
         PauseElapses, CooldownElapses, PatchPool, PoolRec
    <2> QED
      BY <2>1, <2>2, <2>3
         DEF Next, Controller, Faults, Clock, Watches, Environment, serverVars,
           BeginAdvance, BeginReap, AdvanceGone, AdvancePending,
           AdvanceDraining, AdvanceFailed, AdvanceExpired, AssertVetoed,
           VanishedAfterAssert, FreezeOldNode, HoldWhileFrozen, CreatePlaceholder,
           SurgeNotReady, SurgeReady, FreezeHost, ExpirePendingAlready,
           ExpirePendingRaced, ExpireFailedAlready, ExpireFailedRaced, RetryVetoed,
           DeletePlaceholder, UnfreezeNodes, FailClaimGone, CompleteVetoed,
           ReapUngoverned, ReapVetoed, AbandonPass, Crash, SyncPool, SyncClaim,
           SyncNodes, FlipGate, FlipGovernance, PlaceholderMoves, ForceExpire,
           TimeoutElapses, BackoffElapses
  <1>6. deleted' = deleted
    BY DEF Next, Controller, Faults, Clock, Watches, Environment, ghostVars,
       BeginAdvance, BeginReap, AdvanceGone, AdvancePending,
       AdvanceDraining, AdvanceFailed, AdvanceExpired, AssertVetoed,
       VanishedAfterAssert, FreezeOldNode, HoldWhileFrozen, CreatePlaceholder,
       SurgeNotReady, SurgeReady, FreezeHost, RecordDraining, RecordForced,
       ReassertMirror, ExpirePendingAlready, ExpirePendingRaced, ExpireFailedAlready,
       ExpireFailedRaced, RetryVetoed, DeletePlaceholder, UnfreezeNodes, FailClaimGone,
       CompleteVetoed, ReapUngoverned, ReapVetoed, AbandonPass, Crash, SyncPool,
       SyncClaim, SyncNodes, FlipGate, FlipFreeze, FlipGovernance, PlaceholderMoves,
       ForceExpire, TimeoutElapses, BackoffElapses, PauseElapses, CooldownElapses
  <1> QED  BY <1>4, <1>5, <1>6 DEF Serial!vars

LEMMA SerialInit == ASSUME Init PROVE Serial!Init
  <1>1. \A c \in Claims : PhaseOf(claims[c]) = "out"
    BY DEF Init, FreshClaim, PhaseOf
  <1> QED  BY <1>1 DEF Init, NoPool, Serial!Init, Phases

LEMMA SerialStep ==
  ASSUME RotationInv, RotationInv', DeleteInv, [Next]_vars
  PROVE  [Serial!Next]_(Serial!vars)
  <1>1. CASE UNCHANGED vars
    BY <1>1 DEF vars, Serial!vars, Phases
  <1>2. CASE Next
    BY <1>2, BeginSteps, DrainBegins, ExpireSteps, RollBackStep, SweepStutters,
       RemoveStep, DeletePhase, AcquireStep, ReleaseStep, OtherSteps
  <1> QED  BY <1>1, <1>2

\* Every behaviour of the reconcile passes, their stale caches and their faults is a
\* behaviour of SerialRotation: one rotation at a time, of the claim that holds the
\* anchor, not abandoned before it ends, and no delete but the drain's own
\* (anchorRotation, the conditional writes and clearAnchor of rotation_controller.go).
THEOREM Refinement ==
  ASSUME SlowGates, ~GovernanceMayLapse PROVE Spec => ImplementsSerial
  <1>1. Init => Serial!Init
    BY SerialInit
  <1>2. RotationInv /\ RotationInv' /\ DeleteInv /\ [Next]_vars =>
          [Serial!Next]_(Serial!vars)
    BY SerialStep
  <1> QED
    BY <1>1, <1>2, RotationInvHolds, DeleteInvHolds, PTL DEF Spec, ImplementsSerial, Serial!Spec

-----------------------------------------------------------------------------
(***************************************************************************)
(* The clean-up and the pause.                                             *)
(***************************************************************************)

\* Nothing of a rotation of c that its last finished clean-up was shown: no marker but
\* what the Node list did not have, no placeholder that holds capacity.
Swept(c) == marked[c] \subseteq missed[c] /\ placeholder[c] \notin {"waiting", "ready"}

\* A claim that is not anchored, or failed, or was last seen so.
SweptUnanchored == \A c \in Claims :
    pool.anchor # c \/ claims[c].state = "failed" \/ claimCache[c].state = "failed" =>
        Swept(c)

\* The steps that put something on a node, in the clean-up, and past it.
Placing  == {"freeze", "escalate", "freezeHost"}
PastClean == {"failClaim", "failPool", "clear", "complete", "repair", "expireFailed"}

\* A pass places only under its own anchor and on no failed claim; what it writes last
\* it writes after the clean-up.
CleanSteps ==
    /\ pc \in Placing =>
         /\ pool.anchor = cur
         /\ claims[cur].state # "failed" /\ claimCache[cur].state # "failed"
    /\ pc = "unfreeze" => placeholder[cur] \notin {"waiting", "ready"}
    /\ pc \in PastClean => Swept(cur)

CleanInv == SweptUnanchored /\ CleanSteps

\* What is known of the pause a failure opens: the claim carries it until the pool does,
\* and the anchor keeps every other start away in between.
PauseOwed == \A c \in Claims :
    /\ claims[c].paused => claims[c].state \in {"failed", "expired"} /\ claims[c].backoff
    /\ claims[c].life = "live" /\ claims[c].paused => pool.pausing \/ pool.anchor = c
    /\ claims[c].state = "failed" /\ claimCache[c].state = "failed" =>
         claimCache[c].paused = claims[c].paused

PauseInv ==
    /\ pool.anchor # None => ~pool.pausing
    /\ PauseOwed
    /\ pc = "repair" /\ claims[cur].state = "failed" => claimCache[cur].state = "failed"

-----------------------------------------------------------------------------
(***************************************************************************)
(* What a step of any kind keeps.                                          *)
(***************************************************************************)

\* The one write of the pass that fails a claim is FailClaim.
LEMMA NoNewFailure ==
  ASSUME TypeOK, RotationInv, Next, ~FailClaim, NEW c \in Claims,
         claims'[c].state = "failed"
  PROVE  claims[c].state = "failed"
  <1>1. CASE StartupSweep
    BY <1>1, SweepClaims
  <1>2. CASE AssertPending \/ MarkDraining \/ ExpirePending \/ ExpireFailed \/ RetryFailed
    <2>1. /\ cur \in Claims /\ claims[cur] \in ClaimRec
          /\ claims \in [Claims -> ClaimRec]
      BY <1>2 DEF TypeOK, AssertPending, MarkDraining, ExpirePending, ExpireFailed,
         RetryFailed, AtRest
    <2>2. c # cur => claims'[c] = claims[c]
      BY <1>2, <2>1 DEF AssertPending, MarkDraining, ExpirePending, ExpireFailed,
         RetryFailed, PatchClaim
    <2>3. claims'[cur] # claims[cur] => claims'[cur].state # "failed"
      <3>1. CASE AssertPending
        BY <2>1, <3>1, StateWritten DEF AssertPending, PatchClaim
      <3>2. CASE MarkDraining
        BY <2>1, <3>2, StateWritten DEF MarkDraining, PatchClaim
      <3>3. CASE ExpirePending
        <4>1. claims'[cur] = [claims[cur] EXCEPT !.state = "expired", !.started = "unset"]
          BY <2>1, <3>3 DEF ExpirePending, PatchClaim
        <4> QED  BY <2>1, <4>1, StateWritten
      <3>4. CASE ExpireFailed
        BY <2>1, <3>4, StateWritten DEF ExpireFailed, PatchClaim
      <3>5. CASE RetryFailed
        BY <2>1, <3>5, StateWritten DEF RetryFailed, PatchClaim
      <3> QED  BY <1>2, <3>1, <3>2, <3>3, <3>4, <3>5
    <2> QED  BY <2>2, <2>3
  <1>3. CASE ~(\/ StartupSweep \/ AssertPending \/ MarkDraining \/ ExpirePending
               \/ ExpireFailed \/ RetryFailed)
    BY <1>3, ClaimsKept DEF ClaimKept, GoneClaim, FreshClaim
  <1> QED  BY <1>1, <1>2, <1>3

\* Only three steps place a marker or a placeholder, for the claim of their pass.
LEMMA OnlyPlacingPlaces ==
  ASSUME TypeOK, Next, NEW c \in Claims,
         c # cur \/ ~(FreezeOldNode \/ FreezeHost \/ CreatePlaceholder)
  PROVE  /\ marked'[c] \subseteq marked[c]
         /\ placeholder'[c] \in {"waiting", "ready"} =>
              placeholder[c] \in {"waiting", "ready"}
  <1>1. /\ marked \in [Claims -> SUBSET {"old", "host"}]
        /\ placeholder \in [Claims -> {"none", "waiting", "ready", "terminating"}]
    BY DEF TypeOK
  <1>2. marked'[c] \subseteq marked[c]
    <2>1. CASE UNCHANGED marked
      BY <2>1
    <2>2. CASE StartupSweep
      BY <2>2 DEF StartupSweep
    <2>3. CASE UnfreezeNodes
      BY <1>1, <2>3 DEF UnfreezeNodes, Mark
    <2>4. CASE \E d \in Claims : Finalize(d)
      BY <1>1, <2>4 DEF Finalize, Mark
    <2>5. CASE FreezeOldNode \/ FreezeHost
      BY <1>1, <2>5 DEF FreezeOldNode, FreezeHost, Mark
    <2> QED
      BY <2>1, <2>2, <2>3, <2>4, <2>5
         DEF Next, Controller, Faults, Clock, Watches, Environment, serverVars,
             BeginAdvance, StartRotation, BeginReap, AdvanceGone, AdvancePending,
             AdvanceDraining, AdvanceFailed, AdvanceExpired, AssertPending,
             AssertVetoed, VanishedAfterAssert, HoldWhileFrozen, CreatePlaceholder,
             SurgeNotReady, SurgeReady, RecordDraining, RecordForced, MarkDraining,
             DeleteClaim, ReassertMirror, ExpirePending, ExpirePendingAlready,
             ExpirePendingRaced, ExpireFailed, ExpireFailedAlready, ExpireFailedRaced,
             RetryFailed, RetryVetoed, RepairFailed, DeletePlaceholder, FailClaim,
             FailClaimGone, FailPool, ClearAnchor, CompleteOrAbort, CompleteVetoed,
             ReapUngoverned, ReapVetoed, AbandonPass, Crash, TimeoutElapses,
             BackoffElapses, PauseElapses, CooldownElapses, SyncPool, SyncClaim,
             SyncNodes, FlipGate, FlipFreeze, FlipGovernance, ForceExpire,
             PlaceholderMoves
  <1>3. placeholder'[c] \in {"waiting", "ready"} => placeholder[c] \in {"waiting", "ready"}
    <2>1. CASE UNCHANGED placeholder
      BY <2>1
    <2>2. CASE StartupSweep
      BY <2>2 DEF StartupSweep
    <2>3. CASE DeletePlaceholder
      BY <1>1, <2>3 DEF DeletePlaceholder
    <2>4. CASE \E d \in Claims : PlaceholderMoves(d)
      BY <1>1, <2>4 DEF PlaceholderMoves
    <2>5. CASE CreatePlaceholder
      BY <1>1, <2>5 DEF CreatePlaceholder
    <2> QED
      BY <2>1, <2>2, <2>3, <2>4, <2>5
         DEF Next, Controller, Faults, Clock, Watches, Environment, serverVars,
             BeginAdvance, StartRotation, BeginReap, AdvanceGone, AdvancePending,
             AdvanceDraining, AdvanceFailed, AdvanceExpired, AssertPending,
             AssertVetoed, VanishedAfterAssert, HoldWhileFrozen, FreezeOldNode,
             FreezeHost, UnfreezeNodes,
             SurgeNotReady, SurgeReady, RecordDraining, RecordForced, MarkDraining,
             DeleteClaim, ReassertMirror, ExpirePending, ExpirePendingAlready,
             ExpirePendingRaced, ExpireFailed, ExpireFailedAlready, ExpireFailedRaced,
             RetryFailed, RetryVetoed, RepairFailed, FailClaim,
             FailClaimGone, FailPool, ClearAnchor, CompleteOrAbort, CompleteVetoed,
             ReapUngoverned, ReapVetoed, AbandonPass, Crash, TimeoutElapses,
             BackoffElapses, PauseElapses, CooldownElapses, SyncPool, SyncClaim,
             SyncNodes, FlipGate, FlipFreeze, FlipGovernance, ForceExpire,
             Finalize
  <1> QED  BY <1>2, <1>3

\* The clean-up of a pass alone decides what it was not shown, and when it finishes it has
\* taken off every mark it was shown.
LEMMA MissedMoves ==
  ASSUME TypeOK, Next, NEW c \in Claims, missed'[c] # missed[c]
  PROVE  /\ UnfreezeNodes /\ c = cur
         /\ missed'[c] = marked[c] \ markSeen[c] /\ marked'[c] \subseteq missed'[c]
  <1>1. UnfreezeNodes
    BY DEF Next, Controller, Faults, Clock, Watches, Environment, ghostVars,
           StartupSweep, BeginAdvance, StartRotation, BeginReap, AdvanceGone,
           AdvancePending, AdvanceDraining, AdvanceFailed, AdvanceExpired,
           AssertPending, AssertVetoed, VanishedAfterAssert, FreezeOldNode,
           HoldWhileFrozen, CreatePlaceholder, SurgeNotReady, SurgeReady, FreezeHost,
           RecordDraining, RecordForced, MarkDraining, DeleteClaim, ReassertMirror,
           ExpirePending, ExpirePendingAlready, ExpirePendingRaced, ExpireFailed,
           ExpireFailedAlready, ExpireFailedRaced, RetryFailed, RetryVetoed,
           RepairFailed, DeletePlaceholder, FailClaim, FailClaimGone, FailPool,
           ClearAnchor, CompleteOrAbort, CompleteVetoed, ReapUngoverned, ReapVetoed,
           AbandonPass, Crash, TimeoutElapses, BackoffElapses, PauseElapses,
           CooldownElapses, SyncPool, SyncClaim, SyncNodes, FlipGate, FlipFreeze,
           FlipGovernance, ForceExpire, Finalize, PlaceholderMoves
  <1>2. cur \in Claims
    BY <1>1 DEF TypeOK, UnfreezeNodes, AtRest
  <1>3. /\ missed' = [missed EXCEPT ![cur] = marked[cur] \ markSeen[cur]]
        /\ marked' = [marked EXCEPT ![cur] = marked[cur] \ markSeen[cur]]
    BY <1>1 DEF UnfreezeNodes, Mark
  <1> QED  BY <1>1, <1>2, <1>3 DEF TypeOK

\* What is swept stays so under every step but those three.
LEMMA SweptKept ==
  ASSUME TypeOK, Next, NEW c \in Claims, Swept(c),
         c # cur \/ ~(FreezeOldNode \/ FreezeHost \/ CreatePlaceholder)
  PROVE  Swept(c)'
  <1>1. /\ marked'[c] \subseteq marked[c]
        /\ placeholder'[c] \notin {"waiting", "ready"}
    BY OnlyPlacingPlaces DEF Swept
  <1>2. marked'[c] \subseteq missed'[c]
    BY <1>1, MissedMoves DEF Swept
  <1> QED  BY <1>1, <1>2 DEF Swept

Releases == RepairFailed \/ FailPool \/ ClearAnchor \/ CompleteOrAbort

\* Of the pool, the sweep and the writes of a drain touch the mirror and the mode alone,
\* and the clock and the operator a flag each.
LEMMA OtherPoolWrites ==
  ASSUME TypeOK, \/ StartupSweep \/ FlipFreeze \/ CooldownElapses
                 \/ RecordDraining \/ RecordForced \/ ReassertMirror
  PROVE  pool'.anchor = pool.anchor /\ pool'.pausing = pool.pausing
  <1> DEFINE Same(q) == q.anchor = pool.anchor /\ q.pausing = pool.pausing
  <1>1. ASSUME NEW x
        PROVE  /\ Same([pool EXCEPT !.mirror = x])
               /\ Same([pool EXCEPT !.cooling = x])
               /\ Same([pool EXCEPT !.frozen = x])
    BY DEF TypeOK, PoolRec
  <1>2. /\ Same([pool EXCEPT !.mirror = FALSE, !.forced = FALSE])
        /\ Same([pool EXCEPT !.mirror = TRUE, !.forced = TRUE])
    BY DEF TypeOK, PoolRec
  <1>3. CASE StartupSweep
    <2>1. pool' = [pool EXCEPT !.mirror = FALSE, !.forced = FALSE] \/ pool' = pool
      BY <1>3, SweepPool
    <2> QED  BY <1>2, <2>1
  <1>4. CASE FlipFreeze
    <2>1. pool' = [pool EXCEPT !.frozen = ~pool.frozen]
      BY <1>4 DEF FlipFreeze
    <2> QED  BY <1>1, <2>1
  <1>5. CASE CooldownElapses
    <2>1. pool' = [pool EXCEPT !.cooling = FALSE]
      BY <1>5 DEF CooldownElapses
    <2> QED  BY <1>1, <2>1
  <1>6. CASE RecordDraining
    <2>1. pool' = [pool EXCEPT !.mirror = TRUE]
      BY <1>6 DEF RecordDraining, PatchPool
    <2> QED  BY <1>1, <2>1
  <1>7. CASE RecordForced
    <2>1. pool' = [pool EXCEPT !.mirror = TRUE, !.forced = TRUE]
      BY <1>7 DEF RecordForced, PatchPool
    <2> QED  BY <1>2, <2>1
  <1>8. CASE ReassertMirror
    <2>1. pool' = [pool EXCEPT !.mirror = TRUE]
      BY <1>8 DEF ReassertMirror, PatchPool
    <2> QED  BY <1>1, <2>1
  <1> QED  BY <1>3, <1>4, <1>5, <1>6, <1>7, <1>8

\* The anchor is taken by a start and released by the last write of a pass; the pool's
\* pause opens with a release and ends with the time.
LEMMA AnchorMoves ==
  ASSUME TypeOK, RotationInv, Next, ~Releases, \A c \in Claims : ~StartRotation(c)
  PROVE  pool'.anchor = pool.anchor /\ (pool'.pausing = pool.pausing \/ PauseElapses)
  <1>1. CASE UNCHANGED pool
    BY <1>1
  <1>2. CASE \/ StartupSweep \/ FlipFreeze \/ CooldownElapses
             \/ RecordDraining \/ RecordForced \/ ReassertMirror
    BY <1>2, OtherPoolWrites
  <1>3. CASE PauseElapses
    <2>1. pool \in PoolRec /\ pool' = [pool EXCEPT !.pausing = FALSE]
      BY <1>3 DEF PauseElapses, TypeOK
    <2> QED  BY <1>3, <2>1 DEF PoolRec
  <1>4. ~ReapUngoverned
    BY DEF ReapUngoverned, RotationInv, StepKnows
  <1> QED
    BY <1>1, <1>2, <1>3, <1>4
       DEF Next, Controller, Faults, Clock, Watches, Environment, serverVars, Releases,
           BeginAdvance, BeginReap, AdvanceGone, AdvancePending, AdvanceDraining,
           AdvanceFailed, AdvanceExpired, AssertPending, AssertVetoed,
           VanishedAfterAssert, FreezeOldNode, HoldWhileFrozen, CreatePlaceholder,
           SurgeNotReady, SurgeReady, FreezeHost, MarkDraining, DeleteClaim,
           ExpirePending, ExpirePendingAlready, ExpirePendingRaced, ExpireFailed,
           ExpireFailedAlready, ExpireFailedRaced, RetryFailed, RetryVetoed,
           DeletePlaceholder, UnfreezeNodes, FailClaim, FailClaimGone,
           CompleteVetoed, ReapVetoed, AbandonPass, Crash, TimeoutElapses,
           BackoffElapses, SyncPool, SyncClaim, SyncNodes, FlipGate, FlipGovernance,
           ForceExpire, Finalize, PlaceholderMoves

\* A pass reaches the steps this module speaks of from these actions; any other step in
\* which it is at one of them is not the pass's.
Enters == \/ AssertPending \/ FreezeOldNode \/ SurgeReady \/ DeletePlaceholder
          \/ UnfreezeNodes \/ FailClaim \/ AdvanceFailed \/ ExpireFailed
          \/ ExpireFailedAlready

LEMMA StaysAt ==
  ASSUME TypeOK, RotationInv, Next, ~Enters,
         pc' \in Placing \cup PastClean \cup {"unfreeze"}
  PROVE  pc' = pc /\ cur' = cur
  BY DEF Next, Controller, Faults, Clock, Watches, Environment, passVars, Placing,
     PastClean, Enters, StartupSweep, Goto, EndPass, CleanFor, BeginAdvance,
     StartRotation, BeginReap, AdvanceGone, AdvancePending, AdvanceDraining,
     AdvanceExpired, AssertVetoed, VanishedAfterAssert, HoldWhileFrozen,
     CreatePlaceholder, SurgeNotReady, FreezeHost, RecordDraining, RecordForced,
     MarkDraining, ReassertMirror, ExpirePending, ExpirePendingAlready,
     ExpirePendingRaced, ExpireFailedRaced, RetryFailed, RetryVetoed, RepairFailed,
     FailClaimGone, FailPool, ClearAnchor, CompleteOrAbort, CompleteVetoed,
     ReapUngoverned, ReapVetoed, AbandonPass, Crash, SyncPool, SyncClaim, SyncNodes,
     CooldownElapses, FlipGate, FlipFreeze, FlipGovernance, PlaceholderMoves,
     DeleteClaim, ForceExpire, Finalize, TimeoutElapses, BackoffElapses, PauseElapses

-----------------------------------------------------------------------------
(***************************************************************************)
(* Nothing is left behind.                                                 *)
(***************************************************************************)

LEMMA SweptUnanchoredStep ==
  ASSUME TypeOK, RotationInv, CleanInv, Next PROVE SweptUnanchored'
  <1> SUFFICES ASSUME NEW c \in Claims,
                      \/ pool'.anchor # c \/ claims'[c].state = "failed"
                      \/ claimCache'[c].state = "failed"
               PROVE  Swept(c)'
    BY DEF SweptUnanchored
  <1>1. CASE c = cur /\ (FreezeOldNode \/ FreezeHost \/ CreatePlaceholder)
    <2>1. /\ pc \in Placing /\ UNCHANGED <<pool, claims, claimCache>>
      BY <1>1 DEF FreezeOldNode, FreezeHost, CreatePlaceholder, Placing, cacheVars
    <2> QED  BY <1>1, <2>1 DEF CleanInv, CleanSteps
  <1>2. CASE c # cur \/ ~(FreezeOldNode \/ FreezeHost \/ CreatePlaceholder)
    <2> SUFFICES Swept(c)
      BY <1>2, SweptKept
    <2>1. CASE claims'[c].state = "failed" \/ claimCache'[c].state = "failed"
      <3>1. CASE claims[c].state = "failed" \/ claimCache[c].state = "failed"
        BY <3>1 DEF CleanInv, SweptUnanchored
      <3>2. CASE claims[c].state # "failed" /\ claimCache[c].state # "failed"
        <4>1. FailClaim
          BY <2>1, <3>2, NoNewFailure, CacheStates
        <4>2. c # cur => claims'[c] = claims[c] /\ claimCache'[c] = claimCache[c]
          BY <4>1 DEF TypeOK, FailClaim, PatchClaim
        <4>3. c = cur /\ pc \in PastClean
          BY <2>1, <3>2, <4>1, <4>2 DEF FailClaim, PastClean
        <4> QED  BY <4>3 DEF CleanInv, CleanSteps
      <3> QED  BY <3>1, <3>2
    <2>2. CASE pool'.anchor # c
      <3>1. CASE pool.anchor # c
        BY <3>1 DEF CleanInv, SweptUnanchored
      <3>2. CASE pool.anchor = c /\ Releases
        <4>1. pc \in PastClean
          BY <3>2 DEF Releases, RepairFailed, FailPool, ClearAnchor, CompleteOrAbort,
             PastClean
        <4>2. c = cur
          BY <3>2, <4>1, ConstantsAssumption DEF RotationInv, DuringPass, AtRest,
             PastClean
        <4> QED  BY <4>1, <4>2 DEF CleanInv, CleanSteps
      <3>3. CASE pool.anchor = c /\ ~Releases
        <4>1. \A d \in Claims : ~StartRotation(d)
          BY <3>3, ConstantsAssumption DEF StartRotation, PatchPool, PoolCurrent
        <4> QED  BY <2>2, <3>3, <4>1, AnchorMoves
      <3> QED  BY <3>1, <3>2, <3>3
    <2> QED  BY <2>1, <2>2
  <1> QED  BY <1>1, <1>2

\* The pass enters each of the steps with what the invariant says there.
LEMMA CleanEntry ==
  ASSUME TypeOK, RotationInv, RotationInv', CleanInv, Next, Enters
  PROVE  CleanSteps'
  <1>1. /\ (cur \in Claims /\ cur' = cur) \/ pc' = "idle"
        /\ claims[cur] \in ClaimRec /\ claims \in [Claims -> ClaimRec]
    BY DEF Enters, TypeOK, AtRest, AssertPending, FreezeOldNode, SurgeReady,
       DeletePlaceholder, UnfreezeNodes, FailClaim, AdvanceFailed, ExpireFailed,
       ExpireFailedAlready, Goto, EndPass, CleanFor
  <1>2. CASE AssertPending
    <2>1. pc' \in {"freeze", "clean"} /\ UNCHANGED <<pool, claimCache>> /\ cur' = cur
          /\ cur \in Claims
      BY <1>2 DEF AssertPending, Goto, CleanFor, PatchClaim, TypeOK, AtRest
    <2>2. /\ claims'[cur].state = "pending" /\ claims[cur] = claimCache[cur]
          /\ claims[cur].life # "gone" /\ claimCache[cur].state # "failed"
          /\ claims'[cur].life = claims[cur].life
      <3>1. /\ claims[cur] = claimCache[cur] /\ claims[cur].life # "gone"
            /\ claimCache[cur].state \in {"none", "pending"}
            /\ claims'[cur] = [claims[cur] EXCEPT !.state = "pending",
                                 !.started = IF @ = "unset" THEN "running" ELSE @]
        BY <1>2, <1>1, <2>1 DEF AssertPending, PatchClaim, ClaimCurrent, Exists
      <3> QED  BY <1>1, <2>1, <3>1 DEF ClaimRec
    <2>3. pool'.anchor = cur
      BY <2>1, <2>2 DEF RotationInv, InFlightIsAnchored, InFlight
    <2> QED  BY <2>1, <2>2, <2>3 DEF CleanSteps, Placing, PastClean
  <1>3. CASE FreezeOldNode \/ SurgeReady
    <2>1. /\ pc \in Placing /\ pc' \in Placing /\ cur' = cur
          /\ UNCHANGED <<pool, claims, claimCache>>
      BY <1>3 DEF FreezeOldNode, SurgeReady, Goto, Placing, serverVars, cacheVars
    <2> QED  BY <2>1 DEF CleanInv, CleanSteps, Placing, PastClean
  <1>4. CASE DeletePlaceholder
    BY <1>1, <1>4 DEF TypeOK, DeletePlaceholder, Goto, CleanSteps, Placing, PastClean
  <1>5. CASE UnfreezeNodes
    <2>1. pc' \notin Placing \cup {"unfreeze"}
      BY <1>5 DEF UnfreezeNodes, Goto, EndPass, AfterClean, Placing
    <2>2. CASE pc' \notin PastClean
      BY <2>1, <2>2 DEF CleanSteps
    <2>3. CASE pc' \in PastClean
      <3>1. cur \in Claims /\ cur' = cur /\ placeholder' = placeholder /\ pc = "unfreeze"
        BY <1>1, <1>5, <2>3 DEF UnfreezeNodes, PastClean
      <3>2. marked'[cur] \subseteq missed'[cur]
        BY <1>5, <2>3, <3>1 DEF UnfreezeNodes, EndPass, PastClean, Mark, TypeOK
      <3> QED  BY <2>1, <3>1, <3>2 DEF CleanInv, CleanSteps, Swept
    <2> QED  BY <2>2, <2>3
  <1>6. CASE FailClaim \/ AdvanceFailed \/ ExpireFailed \/ ExpireFailedAlready
    <2>1. /\ pc' \notin Placing \cup {"unfreeze"} /\ cur' = cur /\ cur \in Claims
          /\ UNCHANGED <<marked, missed, placeholder>>
      BY <1>6 DEF FailClaim, AdvanceFailed, ExpireFailed, ExpireFailedAlready, Goto,
         Placing, serverVars, ghostVars, TypeOK, AtRest
    <2>2. Swept(cur)
      BY <1>6, <2>1 DEF FailClaim, AdvanceFailed, ExpireFailed, ExpireFailedAlready,
         CleanInv, CleanSteps, SweptUnanchored, PastClean
    <2> QED  BY <2>1, <2>2 DEF CleanSteps, Swept
  <1> QED  BY <1>2, <1>3, <1>4, <1>5, <1>6 DEF Enters

LEMMA CleanStep ==
  ASSUME TypeOK, RotationInv, RotationInv', CleanInv, Next
  PROVE  CleanInv'
  <1>1. CASE Enters
    BY <1>1, CleanEntry, SweptUnanchoredStep DEF CleanInv
  <1>2. CASE ~Enters /\ pc' \notin Placing \cup PastClean \cup {"unfreeze"}
    BY <1>2, SweptUnanchoredStep DEF CleanInv, CleanSteps
  <1>3. CASE ~Enters /\ pc' \in Placing \cup PastClean \cup {"unfreeze"}
    <2>1. /\ pc' = pc /\ cur' = cur /\ cur \in Claims
          /\ ~(FreezeOldNode \/ FreezeHost \/ CreatePlaceholder)
      BY <1>3, StaysAt DEF Enters, FreezeHost, CreatePlaceholder, Goto, EndPass, TypeOK,
         AtRest, Placing, PastClean
    <2>2. /\ Swept(cur) => Swept(cur)'
          /\ placeholder'[cur] \in {"waiting", "ready"} =>
               placeholder[cur] \in {"waiting", "ready"}
      BY <2>1, OnlyPlacingPlaces, SweptKept
    <2>3. pc \in Placing => /\ pool'.anchor = cur /\ claims'[cur].state # "failed"
                            /\ claimCache'[cur].state # "failed"
      <3> SUFFICES ASSUME pc \in Placing
                   PROVE  /\ pool'.anchor = cur /\ claims'[cur].state # "failed"
                          /\ claimCache'[cur].state # "failed"
        OBVIOUS
      <3>1. /\ ~Releases /\ \A c \in Claims : ~StartRotation(c)
            /\ ~FailClaim
        BY DEF Placing, Releases, RepairFailed, FailPool, ClearAnchor, CompleteOrAbort,
           StartRotation, FailClaim
      <3>2. pool'.anchor = cur /\ claims[cur].state # "failed"
            /\ claimCache[cur].state # "failed"
        BY <3>1, AnchorMoves DEF CleanInv, CleanSteps
      <3> QED  BY <2>1, <3>1, <3>2, NoNewFailure, CacheStates
    <2>4. CleanSteps'
      BY <2>1, <2>2, <2>3 DEF CleanInv, CleanSteps, Swept
    <2> QED  BY <2>4, SweptUnanchoredStep DEF CleanInv
  <1> QED  BY <1>1, <1>2, <1>3

LEMMA CleanInit == ASSUME Init PROVE CleanInv
  BY DEF Init, CleanInv, SweptUnanchored, CleanSteps, Swept, Placing, PastClean

LEMMA CleanFrame == ASSUME CleanInv, UNCHANGED vars PROVE CleanInv'
  BY DEF vars, CleanInv, SweptUnanchored, CleanSteps, Swept

\* What the clean-up of a pass has established where the pass is, in every reachable
\* state.
THEOREM CleanInvHolds ==
  ASSUME SlowGates, ~GovernanceMayLapse PROVE Spec => []CleanInv
  <1>1. Init => CleanInv
    BY CleanInit
  <1>2. RotationInv /\ RotationInv' /\ CleanInv /\ [Next]_vars => CleanInv'
    BY CleanStep, CleanFrame DEF RotationInv
  <1> QED  BY <1>1, <1>2, RotationInvHolds, PTL DEF Spec

\* Once a rotation is no longer anchored, no placeholder of its holds capacity and no node
\* carries its do-not-disrupt marker but one the Node list of its last finished clean-up
\* did not show: whichever way it ended, however often its passes were cut short and
\* however far the Node cache lags (failRotation, abortExpired, completeOrAbort, the
\* torn-failure repair).
THEOREM NothingLeft ==
  ASSUME SlowGates, ~GovernanceMayLapse PROVE Spec => []NothingLeftBehind
  <1>1. CleanInv => NothingLeftBehind
    BY DEF CleanInv, SweptUnanchored, Swept, NothingLeftBehind
  <1> QED  BY <1>1, CleanInvHolds, PTL

NothingMissed == \A c \in Claims : missed[c] = {}

\* A clean-up that lists the Nodes as they are leaves no marker at all: what is left
\* behind is due to the lag of the Node cache and to nothing else.
THEOREM NothingLeftAtAll ==
  ASSUME SlowGates, ~GovernanceMayLapse, ~NodeLag
  PROVE  Spec => [](\A c \in Claims : pool.anchor # c =>
                      marked[c] = {} /\ placeholder[c] \notin {"waiting", "ready"})
  <1>1. Init => NothingMissed
    BY DEF Init, NothingMissed
  <1>2. ASSUME RotationInv, DrainInv, NothingMissed, [Next]_vars PROVE NothingMissed'
    <2>1. CASE UNCHANGED vars
      BY <1>2, <2>1 DEF vars, NothingMissed
    <2>2. CASE Next
      <3> SUFFICES ASSUME NEW c \in Claims PROVE missed'[c] = {}
        BY DEF NothingMissed
      <3>1. CASE missed'[c] = missed[c]
        BY <1>2, <3>1 DEF NothingMissed
      <3>2. CASE missed'[c] # missed[c]
        BY <1>2, <2>2, <3>2, MissedMoves DEF RotationInv, DrainInv
      <3> QED  BY <3>1, <3>2
    <2> QED  BY <1>2, <2>1, <2>2
  <1>3. NothingLeftBehind /\ NothingMissed =>
          \A c \in Claims : pool.anchor # c =>
              marked[c] = {} /\ placeholder[c] \notin {"waiting", "ready"}
    BY DEF NothingLeftBehind, NothingMissed
  <1> QED
    BY <1>1, <1>2, <1>3, NothingLeft, DrainInvHolds, PTL DEF Spec

-----------------------------------------------------------------------------
(***************************************************************************)
(* The pause after a failure.                                              *)
(***************************************************************************)

\* What each write of a pass leaves of a claim.
LEMMA PausedWritten ==
  \A r \in ClaimRec :
    /\ LET w == [r EXCEPT !.state = "pending", !.started =
                   IF @ = "unset" THEN "running" ELSE @]
       IN  w.paused = r.paused /\ w.backoff = r.backoff /\ w.life = r.life
    /\ \A s \in ClaimState :
         LET w == [r EXCEPT !.state = s]
         IN  w.state = s /\ w.paused = r.paused /\ w.backoff = r.backoff /\ w.life = r.life
    /\ LET w == [r EXCEPT !.state = "expired", !.started = "unset"]
       IN  w.paused = r.paused /\ w.backoff = r.backoff /\ w.life = r.life
    /\ LET w == [r EXCEPT !.state = "failed", !.started = "unset", !.backoff = TRUE,
                          !.paused = TRUE]
       IN  w.backoff /\ w.paused /\ w.life = r.life
  BY DEF ClaimRec, ClaimState

\* A claim past its failure stays so: the pass revives a claim only when its backoff,
\* and so its pause, is over.
LEMMA PausedStates ==
  ASSUME TypeOK, RotationInv, PauseInv, PauseWithinBackoff, Next, NEW c \in Claims,
         claims'[c].paused
  PROVE  claims'[c].state \in {"failed", "expired"} /\ claims'[c].backoff
  <1>1. claims[c] \in ClaimRec /\ claims \in [Claims -> ClaimRec]
    BY DEF TypeOK
  <1>2. claims[c].paused => claims[c].state \in {"failed", "expired"} /\ claims[c].backoff
    BY DEF PauseInv, PauseOwed
  <1>3. CASE StartupSweep
    BY <1>2, <1>3, SweepClaims
  <1>4. CASE /\ claims'[c] # claims[c]
             /\ \/ AssertPending \/ MarkDraining \/ ExpirePending \/ ExpireFailed
                \/ RetryFailed \/ FailClaim
    <2>1. c = cur
      BY <1>1, <1>4 DEF AssertPending, MarkDraining, ExpirePending, ExpireFailed,
         RetryFailed, FailClaim, PatchClaim
    <2>2. CASE FailClaim
      <3>1. claims'[c] = [claims[c] EXCEPT !.state = "failed", !.started = "unset",
                            !.backoff = TRUE, !.paused = TRUE]
        BY <1>1, <2>1, <2>2 DEF FailClaim, PatchClaim
      <3> QED  BY <1>1, <3>1, PausedWritten, StateWritten
    <2>3. CASE ExpirePending
      <3>1. claims'[c] = [claims[c] EXCEPT !.state = "expired", !.started = "unset"]
        BY <1>1, <2>1, <2>3 DEF ExpirePending, PatchClaim
      <3> QED  BY <1>1, <1>2, <3>1, PausedWritten, StateWritten
    <2>4. CASE ExpireFailed
      <3>1. claims'[c] = [claims[c] EXCEPT !.state = "expired"]
        BY <1>1, <2>1, <2>4 DEF ExpireFailed, PatchClaim
      <3> QED  BY <1>1, <1>2, <3>1, PausedWritten DEF ClaimState
    <2>5. CASE AssertPending
      <3>1. /\ claims'[c] = [claims[c] EXCEPT !.state = "pending",
                               !.started = IF @ = "unset" THEN "running" ELSE @]
            /\ claims[c].state \in {"none", "pending"}
        BY <1>1, <2>1, <2>5 DEF AssertPending, PatchClaim, ClaimCurrent
      <3> QED  BY <1>1, <1>2, <3>1, PausedWritten
    <2>6. CASE RetryFailed
      <3>1. /\ claims'[c] = [claims[c] EXCEPT !.state = "pending"]
            /\ claims[c].state = "failed" /\ Alive(c) /\ pc = "retry"
        BY <1>1, <2>1, <2>6 DEF RetryFailed, PatchClaim, ClaimCurrent, Exists, Alive
      <3>2. ~claims[c].backoff
        BY <2>1, <3>1 DEF RotationInv, StepKnows
      <3> QED  BY <1>1, <1>2, <3>1, <3>2, PausedWritten DEF ClaimState
    <2>7. CASE MarkDraining
      <3>1. /\ claims'[c] = [claims[c] EXCEPT !.state = "draining"]
            /\ Alive(c) /\ pc = "drain"
        BY <1>1, <1>4, <2>1, <2>7 DEF MarkDraining, PatchClaim, ClaimCurrent, Exists,
           Alive
      <3>2. claims[c].state # "expired" /\ (claims[c].state = "failed" => ~claims[c].backoff)
        BY <2>1, <3>1 DEF RotationInv, StepKnows
      <3> QED  BY <1>1, <1>2, <3>1, <3>2, PausedWritten DEF ClaimState
    <2> QED  BY <1>4, <2>2, <2>3, <2>4, <2>5, <2>6, <2>7
  <1>5. CASE claims'[c] = claims[c]
    BY <1>2, <1>5
  <1>6. CASE ~(\/ StartupSweep \/ AssertPending \/ MarkDraining \/ ExpirePending
               \/ ExpireFailed \/ RetryFailed \/ FailClaim)
    <2>1. ClaimKept(c)
      BY <1>6, ClaimsKept
    <2> QED  BY <1>2, <2>1 DEF ClaimKept, GoneClaim, FreshClaim
  <1> QED  BY <1>3, <1>4, <1>5, <1>6

\* The gate a start needs, and every release of the anchor, keep the pool's pause and
\* the anchor apart.
LEMMA PauseApart ==
  ASSUME TypeOK, RotationInv, PauseInv, Next, pool'.anchor # None PROVE ~pool'.pausing
  <1>1. CASE UNCHANGED pool
    BY <1>1 DEF PauseInv
  <1>2. CASE \E c \in Claims : StartRotation(c)
    BY <1>2 DEF StartRotation, StartGate, PatchPool, PoolCurrent, TypeOK, PoolRec
  <1>3. CASE Releases
    <2>1. \A p \in PoolRec : \A b : /\ Unanchored(p) \in PoolRec /\ Unanchored(p).anchor = None
                                   /\ [p EXCEPT !.pausing = b].anchor = p.anchor
                                   /\ [p EXCEPT !.cooling = b].anchor = p.anchor
      BY UnanchoredType DEF PoolRec, Unanchored
    <2>2. CASE RepairFailed
      BY <2>1, <2>2 DEF TypeOK, RepairFailed, PatchPool
    <2>3. CASE FailPool
      BY <2>1, <2>3 DEF TypeOK, FailPool, PatchPool
    <2>4. CASE ClearAnchor
      BY <2>1, <2>4 DEF TypeOK, ClearAnchor, PatchPool
    <2>5. CASE CompleteOrAbort
      BY <2>1, <2>5 DEF TypeOK, CompleteOrAbort, PatchPool
    <2> QED  BY <1>3, <2>2, <2>3, <2>4, <2>5 DEF Releases
  <1>4. CASE \/ StartupSweep \/ FlipFreeze \/ CooldownElapses
             \/ RecordDraining \/ RecordForced \/ ReassertMirror
    <2>1. pool'.anchor = pool.anchor /\ pool'.pausing = pool.pausing
      BY <1>4, OtherPoolWrites
    <2> QED  BY <2>1 DEF PauseInv
  <1>5. CASE PauseElapses
    BY <1>5 DEF PauseElapses, TypeOK, PoolRec
  <1>6. ~ReapUngoverned
    BY DEF ReapUngoverned, RotationInv, StepKnows
  <1> QED
    BY <1>1, <1>2, <1>3, <1>4, <1>5, <1>6
       DEF Next, Controller, Faults, Clock, Watches, Environment, serverVars, Releases,
           BeginAdvance, BeginReap, AdvanceGone, AdvancePending, AdvanceDraining,
           AdvanceFailed, AdvanceExpired, AssertPending, AssertVetoed,
           VanishedAfterAssert, FreezeOldNode, HoldWhileFrozen, CreatePlaceholder,
           SurgeNotReady, SurgeReady, FreezeHost, MarkDraining, DeleteClaim,
           ExpirePending, ExpirePendingAlready, ExpirePendingRaced, ExpireFailed,
           ExpireFailedAlready, ExpireFailedRaced, RetryFailed, RetryVetoed,
           DeletePlaceholder, UnfreezeNodes, FailClaim, FailClaimGone,
           CompleteVetoed, ReapVetoed, AbandonPass, Crash, TimeoutElapses,
           BackoffElapses, SyncPool, SyncClaim, SyncNodes, FlipGate, FlipGovernance,
           ForceExpire, Finalize, PlaceholderMoves

\* Only the rollback's write pauses a claim, and only the time ends it.
LEMMA PauseKept ==
  ASSUME TypeOK, RotationInv, Next, NEW c \in Claims, c # cur \/ ~FailClaim
  PROVE  /\ claims'[c].life = "live" => claims[c].life = "live"
         /\ claims'[c].paused => claims[c].paused
         /\ claims'[c].state = "failed" =>
              claims'[c].paused = claims[c].paused \/ PauseElapses
  <1>1. claims[c] \in ClaimRec /\ claims \in [Claims -> ClaimRec]
    BY DEF TypeOK
  <1>2. CASE StartupSweep \/ claims'[c] = claims[c]
    BY <1>2, SweepClaims
  <1>3. CASE /\ claims'[c] # claims[c]
             /\ \/ AssertPending \/ MarkDraining \/ ExpirePending \/ ExpireFailed
                \/ RetryFailed \/ FailClaim
    <2>1. c = cur /\ ~FailClaim
      BY <1>1, <1>3 DEF AssertPending, MarkDraining, ExpirePending, ExpireFailed,
         RetryFailed, FailClaim, PatchClaim
    <2> DEFINE Kept == claims'[c].paused = claims[c].paused /\ claims'[c].life = claims[c].life
    <2>2. ASSUME ExpirePending PROVE Kept
      <3>1. claims'[c] = [claims[c] EXCEPT !.state = "expired", !.started = "unset"]
        BY <1>1, <2>1, <2>2 DEF ExpirePending, PatchClaim
      <3> QED  BY <1>1, <3>1, PausedWritten
    <2>3. ASSUME AssertPending PROVE Kept
      <3>1. claims'[c] = [claims[c] EXCEPT !.state = "pending",
                            !.started = IF @ = "unset" THEN "running" ELSE @]
        BY <1>1, <2>1, <2>3 DEF AssertPending, PatchClaim
      <3> QED  BY <1>1, <3>1, PausedWritten
    <2>4. ASSUME ExpireFailed \/ RetryFailed \/ MarkDraining PROVE Kept
      <3>1. \E s \in ClaimState : claims'[c] = [claims[c] EXCEPT !.state = s]
        BY <1>1, <1>3, <2>1, <2>4
           DEF ExpireFailed, RetryFailed, MarkDraining, PatchClaim, ClaimState
      <3> QED  BY <1>1, <3>1, PausedWritten
    <2> QED  BY <1>3, <2>1, <2>2, <2>3, <2>4
  <1>4. CASE ~(\/ StartupSweep \/ AssertPending \/ MarkDraining \/ ExpirePending
               \/ ExpireFailed \/ RetryFailed \/ FailClaim)
    BY <1>4, ClaimsKept DEF ClaimKept, GoneClaim, FreshClaim
  <1> QED  BY <1>2, <1>3, <1>4

\* A rollback writes a claim that is anchored and was last seen pending.
LEMMA RollbackAnchored ==
  ASSUME TypeOK, RotationInv, FailClaim
  PROVE  /\ pool.anchor = cur /\ pool' = pool /\ cur \in Claims
         /\ claimCache[cur].state = "pending" /\ claimCache' = claimCache
  <1>1. /\ cur \in Claims /\ pc = "failClaim" /\ claimCache[cur] = claims[cur]
        /\ Alive(cur) /\ UNCHANGED <<pool, claimCache>>
    BY DEF TypeOK, FailClaim, PatchClaim, ClaimCurrent, AtRest, Exists, Alive
  <1>2. claims[cur].state = "pending"
    BY <1>1 DEF RotationInv, StepKnows
  <1> QED  BY <1>1, <1>2 DEF RotationInv, InFlightIsAnchored, InFlight, Alive

\* The claim's pause is the pool's by the time the anchor is gone.
LEMMA PauseHandedOver ==
  ASSUME TypeOK, RotationInv, PauseInv, PauseWithinBackoff, Next, NEW c \in Claims,
         claims'[c].life = "live", claims'[c].paused
  PROVE  pool'.pausing \/ pool'.anchor = c
  <1>1. CASE c = cur /\ FailClaim
    BY <1>1, RollbackAnchored
  <1>2. CASE c # cur \/ ~FailClaim
    <2>1. claims[c].life = "live" /\ claims[c].paused
      BY <1>2, PauseKept
    <2>2. /\ pool.pausing \/ pool.anchor = c
          /\ claims[c].state \in {"failed", "expired"}
      BY <2>1 DEF PauseInv, PauseOwed
    <2>3. claims[c].state = "failed"
      BY <2>1, <2>2 DEF RotationInv, ClaimBehind, Alive
    <2>4. \A p \in PoolRec : /\ Unanchored(p) \in PoolRec
                             /\ Unanchored(p).pausing = p.pausing
      BY UnanchoredType DEF PoolRec, Unanchored
    <2>5. CASE Releases
      <3>1. /\ ~AtRest /\ cur \in Claims /\ pool \in PoolRec
            /\ pc \in {"repair", "failPool", "clear", "complete"}
        BY <2>5 DEF Releases, RepairFailed, FailPool, ClearAnchor, CompleteOrAbort,
           TypeOK, AtRest
      <3>2. pool.anchor = c => c = cur
        BY <3>1, ConstantsAssumption DEF RotationInv, DuringPass
      <3>3. CASE FailPool
        BY <2>4, <3>1, <3>3, PausingType DEF FailPool, PatchPool, PoolRec
      <3>4. CASE RepairFailed
        <4>1. pool' = [Unanchored(pool) EXCEPT !.pausing = @ \/ claimCache[cur].paused]
          BY <3>4 DEF RepairFailed, PatchPool
        <4>2. pool'.pausing = (pool.pausing \/ claimCache[cur].paused)
          BY <2>4, <3>1, <4>1 DEF PoolRec
        <4>3. c = cur => claimCache[cur].paused
          BY <2>1, <2>3, <3>4 DEF RepairFailed, PauseInv, PauseOwed
        <4> QED  BY <2>2, <3>2, <4>2, <4>3
      <3>5. CASE ClearAnchor \/ CompleteOrAbort
        <4>1. c # cur
          BY <2>1, <2>3, <3>5 DEF ClearAnchor, CompleteOrAbort, RotationInv, StepKnows,
             Alive
        <4>2. pool.pausing
          BY <2>2, <3>2, <4>1
        <4>3. pool'.pausing = pool.pausing
          BY <2>4, <3>1, <3>5 DEF ClearAnchor, CompleteOrAbort, PatchPool, PoolRec
        <4> QED  BY <4>2, <4>3
      <3> QED  BY <2>5, <3>3, <3>4, <3>5 DEF Releases
    <2>6. ASSUME NEW d \in Claims, StartRotation(d) PROVE FALSE
      BY <2>2, <2>6, ConstantsAssumption DEF StartRotation, StartGate, PatchPool,
         PoolCurrent
    <2>7. ~PauseElapses
      BY DEF PauseElapses, TypeOK, ClaimRec
    <2> QED  BY <2>2, <2>5, <2>6, <2>7, AnchorMoves
  <1> QED  BY <1>1, <1>2

\* A failed claim that is still seen failed is seen with its pause.
LEMMA PauseSeen ==
  ASSUME TypeOK, RotationInv, PauseInv, Next, NEW c \in Claims,
         claims'[c].state = "failed", claimCache'[c].state = "failed"
  PROVE  claimCache'[c].paused = claims'[c].paused
  <1>1. claims \in [Claims -> ClaimRec] /\ claimCache \in [Claims -> ClaimRec]
    BY DEF TypeOK
  <1>2. CASE PauseElapses
    <2>1. /\ claims'[c] = [claims[c] EXCEPT !.paused = FALSE]
          /\ claimCache'[c] = [claimCache[c] EXCEPT !.paused = FALSE]
      BY <1>2 DEF PauseElapses
    <2>2. \A r \in ClaimRec : [r EXCEPT !.paused = FALSE].paused = FALSE
      BY DEF ClaimRec
    <2> QED  BY <1>1, <2>1, <2>2
  <1>3. CASE ~PauseElapses /\ c = cur /\ FailClaim
    BY <1>3, RollbackAnchored
  <1>4. CASE ~PauseElapses /\ (c # cur \/ ~FailClaim)
    <2>1. claims[c].state = "failed"
      <3>1. CASE FailClaim
        BY <1>1, <1>4, <3>1 DEF FailClaim, PatchClaim
      <3> QED  BY <3>1, NoNewFailure
    <2>2. claims'[c].paused = claims[c].paused
      BY <1>4, PauseKept
    <2>3. claimCache[c].state = "failed" => claimCache[c].paused = claims[c].paused
      BY <2>1 DEF PauseInv, PauseOwed
    <2> QED  BY <1>4, <2>1, <2>2, <2>3, CacheStates
  <1> QED  BY <1>2, <1>3, <1>4

LEMMA RepairSees ==
  ASSUME TypeOK, RotationInv, PauseInv, Next,
         pc' = "repair", claims'[cur'].state = "failed"
  PROVE  claimCache'[cur'].state = "failed"
  <1>1. CASE AdvanceFailed
    BY <1>1 DEF AdvanceFailed, Goto, cacheVars
  <1>2. CASE ~AdvanceFailed
    <2>1. ~Enters
      BY <1>2 DEF Enters, AssertPending, FreezeOldNode, SurgeReady, DeletePlaceholder,
         UnfreezeNodes, FailClaim, ExpireFailed, ExpireFailedAlready, Goto, EndPass,
         CleanFor, AfterClean
    <2>2. pc = "repair" /\ cur' = cur
      BY <2>1, StaysAt DEF PastClean
    <2>3. cur \in Claims /\ ~FailClaim
      BY <2>2 DEF TypeOK, AtRest, FailClaim
    <2>4. claims[cur].state = "failed" /\ claimCache[cur].state = "failed"
      BY <2>2, <2>3, NoNewFailure DEF PauseInv
    <2> QED  BY <2>2, <2>3, <2>4, CacheStates
  <1> QED  BY <1>1, <1>2

LEMMA PauseStep ==
  ASSUME TypeOK, RotationInv, PauseInv, PauseWithinBackoff, Next PROVE PauseInv'
  <1>1. PauseOwed'
    BY PausedStates, PauseHandedOver, PauseSeen DEF PauseOwed
  <1> QED  BY <1>1, PauseApart, RepairSees DEF PauseInv

LEMMA PauseInit == ASSUME Init PROVE PauseInv
  <1>1. \A c \in Claims : claims[c] = FreshClaim /\ claimCache[c] = FreshClaim
    BY DEF Init
  <1>2. pool.anchor = None /\ pc = "sweep"
    BY DEF Init, NoPool
  <1> QED  BY <1>1, <1>2 DEF PauseInv, PauseOwed, FreshClaim

LEMMA PauseFrame == ASSUME PauseInv, UNCHANGED vars PROVE PauseInv'
  BY DEF vars, PauseInv, PauseOwed

\* A claim becomes pending from the entry assertion and the retry, under its own anchor.
LEMMA StartIsAnchored ==
  ASSUME TypeOK, RotationInv, RotationInv', Next, NEW c \in Claims, Starts(c)
  PROVE  /\ c = cur /\ pool.anchor = c
         /\ \/ claims[c].state = "none"
            \/ claims[c].state = "failed" /\ ~claims[c].backoff
  <1>1. claims \in [Claims -> ClaimRec] /\ claims[c] \in ClaimRec
    BY DEF TypeOK
  <1>2. ~StartupSweep
    BY SweepClaims DEF Starts
  <1>3. AssertPending \/ RetryFailed
    <2>1. CASE MarkDraining \/ ExpireFailed
      BY <1>1, <2>1 DEF MarkDraining, ExpireFailed, PatchClaim, Starts, ClaimRec
    <2>2. CASE ExpirePending
      BY <1>1, <2>2 DEF ExpirePending, PatchClaim, Starts, ClaimRec
    <2>3. CASE FailClaim
      BY <1>1, <2>3 DEF FailClaim, PatchClaim, Starts, ClaimRec
    <2>4. CASE ~(\/ AssertPending \/ MarkDraining \/ ExpirePending \/ ExpireFailed
                 \/ RetryFailed \/ FailClaim)
      BY <1>2, <2>4, ClaimsKept DEF ClaimKept, Starts, GoneClaim, FreshClaim
    <2> QED  BY <2>1, <2>2, <2>3, <2>4
  <1>4. /\ c = cur /\ pool' = pool /\ claims[c] = claimCache[c] /\ Alive(c)
        /\ claims'[c].life = claims[c].life
    <2>1. c = cur
      BY <1>1, <1>3 DEF AssertPending, RetryFailed, PatchClaim, Starts
    <2>2. \/ claims'[c] = [claims[c] EXCEPT !.state = "pending",
                             !.started = IF @ = "unset" THEN "running" ELSE @]
          \/ claims'[c] = [claims[c] EXCEPT !.state = "pending"]
      BY <1>1, <1>3, <2>1 DEF AssertPending, RetryFailed, PatchClaim
    <2>3. claims'[c].life = claims[c].life
      BY <1>1, <2>2 DEF ClaimRec
    <2> QED
      BY <1>3, <2>1, <2>3 DEF AssertPending, RetryFailed, PatchClaim, ClaimCurrent,
         Exists, Alive
  <1>5. pool.anchor = c
    BY <1>4 DEF RotationInv, InFlightIsAnchored, InFlight, Alive, Starts
  <1>6. CASE AssertPending
    BY <1>4, <1>5, <1>6 DEF AssertPending, Starts
  <1>7. CASE RetryFailed
    BY <1>4, <1>5, <1>7 DEF RetryFailed, RotationInv, StepKnows
  <1> QED  BY <1>3, <1>6, <1>7

LEMMA PauseRespected ==
  ASSUME TypeOK, RotationInv, RotationInv', PauseInv, Next, NEW c \in Claims,
         NEW d \in Claims, Starts(c)
  PROVE  ~(claims[d].life = "live" /\ claims[d].paused)
  <1>1. /\ pool.anchor = c
        /\ \/ claims[c].state = "none"
           \/ claims[c].state = "failed" /\ ~claims[c].backoff
    BY StartIsAnchored
  <1>2. ~pool.pausing
    BY <1>1, ConstantsAssumption DEF PauseInv
  <1> QED  BY <1>1, <1>2 DEF PauseInv, PauseOwed

\* Where the pause after a failure is kept, in every reachable state.
THEOREM PauseInvHolds ==
  ASSUME SlowGates, ~GovernanceMayLapse, PauseWithinBackoff PROVE Spec => []PauseInv
  <1>1. Init => PauseInv
    BY PauseInit
  <1>2. RotationInv /\ PauseInv /\ [Next]_vars => PauseInv'
    BY PauseStep, PauseFrame DEF RotationInv
  <1> QED  BY <1>1, <1>2, RotationInvHolds, PTL DEF Spec

\* No attempt begins within failurePause of a failure recorded on a claim that lives,
\* even when the pass stopped between the two writes of the rollback and the repair of
\* the second raced the next start (failRotation, advanceFailed, decide.StartGate).
THEOREM FailurePause ==
  ASSUME SlowGates, ~GovernanceMayLapse, PauseWithinBackoff PROVE Spec => FailurePauseKept
  <1>1. RotationInv /\ RotationInv' /\ PauseInv /\ [Next]_vars =>
          [\A c, d \in Claims :
             Starts(c) => ~(claims[d].life = "live" /\ claims[d].paused)]_vars
    BY PauseRespected DEF RotationInv
  <1> QED  BY <1>1, PauseInvHolds, RotationInvHolds, PTL DEF Spec, FailurePauseKept

=============================================================================
