--------------------------- MODULE RotationProofs ---------------------------
(***************************************************************************)
(* Theorems of Rotation, for any set of claims, any bound on the faults    *)
(* and either value of every switch: first its types, then the serial      *)
(* gate under SlowGates and a pool that stays governed.                    *)
(***************************************************************************)
EXTENDS RotationInv, TLAPS

-----------------------------------------------------------------------------
(***************************************************************************)
(* The record updates of the model keep the shape of a pool and a claim.   *)
(***************************************************************************)

LEMMA NoPoolType == NoPool \in PoolRec
  BY DEF NoPool, PoolRec
LEMMA AnchorType == \A p \in PoolRec, c \in Claims : [p EXCEPT !.anchor = c] \in PoolRec
  BY DEF PoolRec
LEMMA AnchorField == \A p \in PoolRec : p.anchor \in Claims \cup {None}
  BY DEF PoolRec
LEMMA MirrorType == \A p \in PoolRec : [p EXCEPT !.mirror = TRUE] \in PoolRec
  BY DEF PoolRec
LEMMA ForcedType == \A p \in PoolRec : [p EXCEPT !.mirror = TRUE, !.forced = TRUE] \in PoolRec
  BY DEF PoolRec
LEMMA TornType == \A p \in PoolRec : [p EXCEPT !.mirror = FALSE, !.forced = FALSE] \in PoolRec
  BY DEF PoolRec
LEMMA UnanchoredType == \A p \in PoolRec : Unanchored(p) \in PoolRec
  BY DEF PoolRec, Unanchored
LEMMA PausingType == \A p \in PoolRec, b \in BOOLEAN : [p EXCEPT !.pausing = b] \in PoolRec
  BY DEF PoolRec
LEMMA CoolingType == \A p \in PoolRec, b \in BOOLEAN : [p EXCEPT !.cooling = b] \in PoolRec
  BY DEF PoolRec
LEMMA FrozenType == \A p \in PoolRec : [p EXCEPT !.frozen = ~@] \in PoolRec
  BY DEF PoolRec
LEMMA FailedType == \A r \in ClaimRec : [r EXCEPT !.state = "failed",
          !.started = "unset", !.backoff = TRUE, !.paused = TRUE] \in ClaimRec
  BY DEF ClaimRec, ClaimState
LEMMA StateType == \A r \in ClaimRec, s \in ClaimState : [r EXCEPT !.state = s] \in ClaimRec
  BY DEF ClaimRec
LEMMA GoneType == GoneClaim \in ClaimRec
  BY DEF ClaimRec, ClaimState, GoneClaim, FreshClaim
LEMMA DeletingType == \A r \in ClaimRec : [r EXCEPT !.life = "deleting"] \in ClaimRec
  BY DEF ClaimRec
LEMMA PatchClaimType ==
  ASSUME TypeOK, NEW c \in Claims, NEW r \in ClaimRec, PatchClaim(c, r)
  PROVE  claims' \in [Claims -> ClaimRec] /\ claimCache' \in [Claims -> ClaimRec]
  BY DEF TypeOK, PatchClaim

LEMMA AnnounceType ==
  ASSUME TypeOK, NEW c \in Claims,
         NEW o \in {"success", "expired", "vanished"}, Announce(c, o)
  PROVE  told' \in [Claims -> [success : Nat, expired : Nat, vanished : Nat]]
  <1>1. told[c] \in [success : Nat, expired : Nat, vanished : Nat]
    BY DEF TypeOK
  <1>2. [told[c] EXCEPT ![o] = @ + 1] \in [success : Nat, expired : Nat, vanished : Nat]
    BY <1>1
  <1> QED  BY <1>2 DEF TypeOK, Announce

-----------------------------------------------------------------------------
(***************************************************************************)
(* The steps that write a claim, a pool or an outcome, one by one.         *)
(***************************************************************************)

LEMMA StartupSweepTyped == TypeOK /\ StartupSweep => TypeOK'
  <1> SUFFICES ASSUME TypeOK, StartupSweep PROVE TypeOK'
    OBVIOUS
  <1>1. pool' \in PoolRec /\ poolCache' \in PoolRec
    <2>1. /\ poolCache' = poolCache
          /\ pool' = pool \/ pool' = [pool EXCEPT !.mirror = FALSE, !.forced = FALSE]
      BY DEF StartupSweep, PatchPool
    <2>2. pool \in PoolRec /\ poolCache \in PoolRec
      BY DEF TypeOK
    <2> QED  BY <2>1, <2>2, TornType
  <1>2. PICK ns, cs \in SUBSET Claims :
          /\ marked' = [c \in Claims |-> IF c \in ns THEN {} ELSE marked[c]]
          /\ claims' = [c \in Claims |->
                          IF c \in cs
                          THEN [claims[c] EXCEPT !.state = "failed",
                                  !.started = "unset", !.backoff = TRUE,
                                  !.paused = TRUE]
                          ELSE claims[c]]
    BY DEF StartupSweep
  <1>3. \A c \in Claims : claims[c] \in ClaimRec
    BY DEF TypeOK
  <1>4. claims' \in [Claims -> ClaimRec]
    BY <1>2, <1>3, FailedType
  <1>5. marked' \in [Claims -> SUBSET {"old", "host"}]
    BY <1>2 DEF TypeOK
  <1>9. markSeen' \in [Claims -> SUBSET {"old", "host"}]
    BY <1>5 DEF TypeOK, StartupSweep
  <1>6. placeholder' \in [Claims -> {"none", "waiting", "ready", "terminating"}]
    BY DEF TypeOK, StartupSweep
  <1>7. pc' = "idle" /\ UNCHANGED <<cur, why, held, claimCache, gate, governed, told, deleted, missed, faults>>
    BY DEF StartupSweep, Goto, envVars, ghostVars
  <1>8. cur = None
    BY DEF StartupSweep, TypeOK, AtRest
  <1> QED
    BY <1>1, <1>4, <1>5, <1>6, <1>7, <1>8, <1>9 DEF TypeOK, PassSteps, AtRest

LEMMA AssertPendingTyped == TypeOK /\ AssertPending => TypeOK'
  <1> SUFFICES ASSUME TypeOK, AssertPending PROVE TypeOK'
    OBVIOUS
  <1>1. cur \in Claims
    BY DEF TypeOK, AssertPending, AtRest
  <1>0. \A r \in ClaimRec : [r EXCEPT !.state = "pending",
                          !.started = IF @ = "unset" THEN "running" ELSE @] \in ClaimRec
    BY DEF ClaimRec, ClaimState
  <1>2. [claims[cur] EXCEPT !.state = "pending",
                          !.started = IF @ = "unset" THEN "running" ELSE @] \in ClaimRec
    BY <1>0, <1>1 DEF TypeOK
  <1>3. claims' \in [Claims -> ClaimRec] /\ claimCache' \in [Claims -> ClaimRec]
    BY <1>1, <1>2, PatchClaimType DEF AssertPending
  <1> QED
    BY <1>1, <1>3 DEF TypeOK, AssertPending, PassSteps, AtRest, Goto, CleanFor, envVars, ghostVars

LEMMA ExpirePendingTyped == TypeOK /\ ExpirePending => TypeOK'
  <1> SUFFICES ASSUME TypeOK, ExpirePending PROVE TypeOK'
    OBVIOUS
  <1>1. cur \in Claims
    BY DEF TypeOK, ExpirePending, AtRest
  <1>0. \A r \in ClaimRec : [r EXCEPT !.state = "expired", !.started = "unset"] \in ClaimRec
    BY DEF ClaimRec, ClaimState
  <1>2. [claims[cur] EXCEPT !.state = "expired", !.started = "unset"] \in ClaimRec
    BY <1>0, <1>1 DEF TypeOK
  <1>3. claims' \in [Claims -> ClaimRec] /\ claimCache' \in [Claims -> ClaimRec]
    BY <1>1, <1>2, PatchClaimType DEF ExpirePending
  <1>4. told' \in [Claims -> [success : Nat, expired : Nat, vanished : Nat]]
    BY <1>1, AnnounceType DEF ExpirePending
  <1> QED
    BY <1>1, <1>3, <1>4 DEF TypeOK, ExpirePending, PassSteps, AtRest, CleanFor, envVars

LEMMA ExpireFailedTyped == TypeOK /\ ExpireFailed => TypeOK'
  <1> SUFFICES ASSUME TypeOK, ExpireFailed PROVE TypeOK'
    OBVIOUS
  <1>1. cur \in Claims
    BY DEF TypeOK, ExpireFailed, AtRest
  <1>2. [claims[cur] EXCEPT !.state = "expired"] \in ClaimRec
    BY <1>1, StateType DEF TypeOK, ClaimState
  <1>3. claims' \in [Claims -> ClaimRec] /\ claimCache' \in [Claims -> ClaimRec]
    BY <1>1, <1>2, PatchClaimType DEF ExpireFailed
  <1>4. told' \in [Claims -> [success : Nat, expired : Nat, vanished : Nat]]
    BY <1>1, AnnounceType DEF ExpireFailed
  <1> QED
    BY <1>1, <1>3, <1>4 DEF TypeOK, ExpireFailed, PassSteps, AtRest, Goto, envVars

LEMMA CompleteOrAbortTyped == TypeOK /\ CompleteOrAbort => TypeOK'
  <1> SUFFICES ASSUME TypeOK, CompleteOrAbort PROVE TypeOK'
    OBVIOUS
  <1>1. cur \in Claims
    BY DEF TypeOK, CompleteOrAbort, AtRest
  <1>2. pool' \in PoolRec /\ poolCache' = poolCache
    BY UnanchoredType DEF TypeOK, CompleteOrAbort, PatchPool, PoolRec
  <1>4. told' \in [Claims -> [success : Nat, expired : Nat, vanished : Nat]]
    BY <1>1, AnnounceType DEF CompleteOrAbort
  <1> QED
    BY <1>1, <1>2, <1>4, NoPoolType DEF TypeOK, CompleteOrAbort, PassSteps, AtRest, EndPass, envVars

LEMMA RepairFailedTyped == TypeOK /\ RepairFailed => TypeOK'
  <1> SUFFICES ASSUME TypeOK, RepairFailed PROVE TypeOK'
    OBVIOUS
  <1>1. cur \in Claims
    BY DEF TypeOK, RepairFailed, AtRest
  <1>2. pool' \in PoolRec /\ poolCache' = poolCache
    <2>1. \A p \in PoolRec : \A b \in BOOLEAN : [p EXCEPT !.pausing = @ \/ b] \in PoolRec
      BY DEF PoolRec
    <2>2. Unanchored(pool) \in PoolRec
      BY UnanchoredType DEF TypeOK
    <2>3. claimCache[cur].paused \in BOOLEAN
      BY <1>1 DEF TypeOK, ClaimRec
    <2>4. /\ pool' = [Unanchored(pool) EXCEPT !.pausing = @ \/ claimCache[cur].paused]
          /\ poolCache' = poolCache
      BY DEF RepairFailed, PatchPool
    <2> QED  BY <2>1, <2>2, <2>3, <2>4
  <1> QED
    BY <1>1, <1>2, NoPoolType DEF TypeOK, RepairFailed, PassSteps, AtRest, EndPass, envVars, ghostVars

LEMMA TimeoutElapsesTyped == \A c \in Claims : TypeOK /\ TimeoutElapses(c) => TypeOK'
  <1> SUFFICES ASSUME TypeOK, NEW c \in Claims, TimeoutElapses(c) PROVE TypeOK'
    OBVIOUS
  <1>1. \A r \in ClaimRec : [r EXCEPT !.started = "over"] \in ClaimRec
    BY DEF ClaimRec
  <1>2. claims' \in [Claims -> ClaimRec] /\ claimCache' \in [Claims -> ClaimRec]
    BY <1>1 DEF TypeOK, TimeoutElapses
  <1> QED
    BY <1>2 DEF TypeOK, TimeoutElapses, AtRest, passVars, envVars, ghostVars

LEMMA BackoffElapsesTyped == \A c \in Claims : TypeOK /\ BackoffElapses(c) => TypeOK'
  <1> SUFFICES ASSUME TypeOK, NEW c \in Claims, BackoffElapses(c) PROVE TypeOK'
    OBVIOUS
  <1>1. \A r \in ClaimRec : [r EXCEPT !.backoff = FALSE] \in ClaimRec
    BY DEF ClaimRec
  <1>2. claims' \in [Claims -> ClaimRec] /\ claimCache' \in [Claims -> ClaimRec]
    BY <1>1 DEF TypeOK, BackoffElapses
  <1> QED
    BY <1>2 DEF TypeOK, BackoffElapses, AtRest, passVars, envVars, ghostVars

LEMMA PauseElapsesTyped == TypeOK /\ PauseElapses => TypeOK'
  <1> SUFFICES ASSUME TypeOK, PauseElapses PROVE TypeOK'
    OBVIOUS
  <1>1. \A r \in ClaimRec : [r EXCEPT !.paused = FALSE] \in ClaimRec
    BY DEF ClaimRec
  <1>2. claims' \in [Claims -> ClaimRec] /\ claimCache' \in [Claims -> ClaimRec]
    BY <1>1 DEF TypeOK, PauseElapses
  <1>3. pool' \in PoolRec /\ poolCache' \in PoolRec
    BY PausingType DEF TypeOK, PauseElapses
  <1> QED
    BY <1>2, <1>3 DEF TypeOK, PauseElapses, AtRest, passVars, envVars, ghostVars

LEMMA CooldownElapsesTyped == TypeOK /\ CooldownElapses => TypeOK'
  <1> SUFFICES ASSUME TypeOK, CooldownElapses PROVE TypeOK'
    OBVIOUS
  <1>3. pool' \in PoolRec /\ poolCache' \in PoolRec
    BY CoolingType DEF TypeOK, CooldownElapses
  <1> QED
    BY <1>3 DEF TypeOK, CooldownElapses, AtRest, passVars, envVars, ghostVars

LEMMA DeleteClaimTyped == TypeOK /\ DeleteClaim => TypeOK'
  <1> SUFFICES ASSUME TypeOK, DeleteClaim PROVE TypeOK'
    OBVIOUS
  <1>1. cur \in Claims
    BY DEF TypeOK, DeleteClaim, AtRest
  <1>2. claims' \in [Claims -> ClaimRec]
    BY <1>1, DeletingType DEF TypeOK, DeleteClaim
  <1> QED
    BY <1>1, <1>2, NoPoolType DEF TypeOK, DeleteClaim, PassSteps, AtRest, EndPass, cacheVars, envVars

LEMMA FailClaimTyped == TypeOK /\ FailClaim => TypeOK'
  <1> SUFFICES ASSUME TypeOK, FailClaim PROVE TypeOK'
    OBVIOUS
  <1>1. cur \in Claims
    BY DEF TypeOK, FailClaim, AtRest
  <1>2. claims' \in [Claims -> ClaimRec] /\ claimCache' \in [Claims -> ClaimRec]
    BY <1>1, FailedType, PatchClaimType DEF TypeOK, FailClaim
  <1> QED
    BY <1>1, <1>2 DEF TypeOK, FailClaim, PassSteps, AtRest, Goto, envVars, ghostVars

LEMMA RetryFailedTyped == TypeOK /\ RetryFailed => TypeOK'
  <1> SUFFICES ASSUME TypeOK, RetryFailed PROVE TypeOK'
    OBVIOUS
  <1>1. cur \in Claims
    BY DEF TypeOK, RetryFailed, AtRest
  <1>2. [claims[cur] EXCEPT !.state = "pending"] \in ClaimRec
    BY <1>1, StateType DEF TypeOK, ClaimState
  <1>3. claims' \in [Claims -> ClaimRec] /\ claimCache' \in [Claims -> ClaimRec]
    BY <1>1, <1>2, PatchClaimType DEF RetryFailed
  <1> QED
    BY <1>1, <1>3 DEF TypeOK, RetryFailed, PassSteps, AtRest, Goto, envVars, ghostVars

LEMMA MarkDrainingTyped == TypeOK /\ MarkDraining => TypeOK'
  <1> SUFFICES ASSUME TypeOK, MarkDraining PROVE TypeOK'
    OBVIOUS
  <1>1. cur \in Claims
    BY DEF TypeOK, MarkDraining, AtRest
  <1>2. [claims[cur] EXCEPT !.state = "draining"] \in ClaimRec
    BY <1>1, StateType DEF TypeOK, ClaimState
  <1>3. claims' \in [Claims -> ClaimRec] /\ claimCache' \in [Claims -> ClaimRec]
    BY <1>1, <1>2, PatchClaimType DEF MarkDraining, TypeOK
  <1> QED
    BY <1>1, <1>3 DEF TypeOK, MarkDraining, PassSteps, AtRest, Goto, envVars, ghostVars

LEMMA FailPoolTyped == TypeOK /\ FailPool => TypeOK'
  <1> SUFFICES ASSUME TypeOK, FailPool PROVE TypeOK'
    OBVIOUS
  <1>1. pool' \in PoolRec /\ poolCache' = poolCache
    BY UnanchoredType, PausingType DEF TypeOK, FailPool, PatchPool
  <1> QED
    BY <1>1, NoPoolType DEF TypeOK, FailPool, PassSteps, AtRest, EndPass, envVars, ghostVars

LEMMA RecordForcedTyped == TypeOK /\ RecordForced => TypeOK'
  <1> SUFFICES ASSUME TypeOK, RecordForced PROVE TypeOK'
    OBVIOUS
  <1>1. pool' \in PoolRec /\ poolCache' = poolCache
    BY ForcedType DEF TypeOK, RecordForced, PatchPool
  <1> QED
    BY <1>1 DEF TypeOK, RecordForced, PassSteps, AtRest, Goto, envVars, ghostVars

LEMMA FreezeHostTyped == TypeOK /\ FreezeHost => TypeOK'
  <1> SUFFICES ASSUME TypeOK, FreezeHost PROVE TypeOK'
    OBVIOUS
  <1>1. cur \in Claims
    BY DEF TypeOK, FreezeHost, AtRest
  <1>2. marked[cur] \cup {"host"} \in SUBSET {"old", "host"}
    BY <1>1 DEF TypeOK
  <1>3. marked' \in [Claims -> SUBSET {"old", "host"}]
    BY <1>1, <1>2 DEF TypeOK, FreezeHost, Mark
  <1>4. markSeen' \in [Claims -> SUBSET {"old", "host"}]
    BY <1>3 DEF TypeOK, FreezeHost, Mark
  <1> QED
    BY <1>1, <1>3, <1>4 DEF TypeOK, FreezeHost, PassSteps, AtRest, Goto, envVars, ghostVars

LEMMA FreezeOldNodeTyped == TypeOK /\ FreezeOldNode => TypeOK'
  <1> SUFFICES ASSUME TypeOK, FreezeOldNode PROVE TypeOK'
    OBVIOUS
  <1>1. cur \in Claims
    BY DEF TypeOK, FreezeOldNode, AtRest
  <1>2. marked[cur] \cup {"old"} \in SUBSET {"old", "host"}
    BY <1>1 DEF TypeOK
  <1>3. marked' \in [Claims -> SUBSET {"old", "host"}]
    BY <1>1, <1>2 DEF TypeOK, FreezeOldNode, Mark
  <1>4. markSeen' \in [Claims -> SUBSET {"old", "host"}]
    BY <1>3 DEF TypeOK, FreezeOldNode, Mark
  <1> QED
    BY <1>1, <1>3, <1>4 DEF TypeOK, FreezeOldNode, PassSteps, AtRest, Goto, envVars, ghostVars
-----------------------------------------------------------------------------
LEMMA TypeInit == Init => TypeOK
  BY ConstantsAssumption, NoPoolType
     DEF Init, TypeOK, ClaimRec, FreshClaim, PassSteps, ClaimState, AtRest

LEMMA TypeStep == TypeOK /\ [Next]_vars => TypeOK'
  <1> SUFFICES ASSUME TypeOK, [Next]_vars PROVE TypeOK'
    OBVIOUS
  <1>1. CASE StartupSweep
    BY <1>1, StartupSweepTyped
  <1>2. CASE BeginAdvance
    BY <1>2, AnchorField DEF TypeOK, BeginAdvance, serverVars, cacheVars, envVars,
       ghostVars, AtRest, PassSteps
  <1>3. CASE BeginReap
    BY <1>3, AnchorField DEF TypeOK, BeginReap, serverVars, cacheVars, envVars,
       ghostVars, AtRest, PassSteps
  <1>4. ASSUME NEW c \in Claims, StartRotation(c) PROVE TypeOK'
    BY <1>4, AnchorType DEF TypeOK, StartRotation, PatchPool, envVars,
       ghostVars, AtRest, PassSteps
  <1>5. CASE AdvanceGone
    BY <1>5 DEF TypeOK, AdvanceGone, CleanFor, serverVars, cacheVars,
       envVars, ghostVars, AtRest, PassSteps
  <1>6. CASE AdvancePending
    BY <1>6 DEF TypeOK, AdvancePending, Goto, serverVars, cacheVars,
       envVars, ghostVars, AtRest, PassSteps
  <1>7. CASE AdvanceDraining
    BY <1>7, NoPoolType DEF TypeOK, AdvanceDraining, Goto, EndPass,
       serverVars, cacheVars, envVars, ghostVars, AtRest, PassSteps
  <1>8. CASE AdvanceFailed
    BY <1>8 DEF TypeOK, AdvanceFailed, Goto, serverVars, cacheVars, envVars,
       ghostVars, AtRest, PassSteps
  <1>9. CASE AdvanceExpired
    BY <1>9 DEF TypeOK, AdvanceExpired, CleanFor, serverVars, cacheVars,
       envVars, ghostVars, AtRest, PassSteps
  <1>10. CASE AssertPending
    BY <1>10, AssertPendingTyped
  <1>11. CASE AssertVetoed
    BY <1>11, NoPoolType DEF TypeOK, AssertVetoed, EndPass, serverVars,
       cacheVars, envVars, ghostVars, AtRest, PassSteps
  <1>12. CASE VanishedAfterAssert
    BY <1>12, NoPoolType DEF TypeOK, VanishedAfterAssert, EndPass,
       serverVars, cacheVars, envVars, ghostVars, AtRest, PassSteps
  <1>13. CASE FreezeOldNode
    BY <1>13, FreezeOldNodeTyped
  <1>14. CASE HoldWhileFrozen
    BY <1>14, NoPoolType DEF TypeOK, HoldWhileFrozen, EndPass, serverVars,
       cacheVars, envVars, ghostVars, AtRest, PassSteps
  <1>15. CASE CreatePlaceholder
    BY <1>15, NoPoolType DEF TypeOK, CreatePlaceholder, EndPass, cacheVars,
       envVars, ghostVars, AtRest, PassSteps
  <1>16. CASE SurgeNotReady
    BY <1>16, NoPoolType DEF TypeOK, SurgeNotReady, EndPass, serverVars,
       cacheVars, envVars, ghostVars, AtRest, PassSteps
  <1>17. CASE SurgeReady
    BY <1>17 DEF TypeOK, SurgeReady, Goto, serverVars, cacheVars, envVars,
       ghostVars, AtRest, PassSteps
  <1>18. CASE FreezeHost
    BY <1>18, FreezeHostTyped
  <1>19. CASE RecordDraining
    BY <1>19, MirrorType DEF TypeOK, RecordDraining, PatchPool, Goto,
       envVars, ghostVars, AtRest, PassSteps
  <1>20. CASE RecordForced
    BY <1>20, RecordForcedTyped
  <1>21. CASE MarkDraining
    BY <1>21, MarkDrainingTyped
  <1>22. CASE DeleteClaim
    BY <1>22, DeleteClaimTyped
  <1>23. CASE ReassertMirror
    BY <1>23, MirrorType, NoPoolType DEF TypeOK, ReassertMirror, PatchPool,
       Goto, EndPass, envVars, ghostVars, AtRest, PassSteps
  <1>24. CASE ExpirePending
    BY <1>24, ExpirePendingTyped
  <1>25. CASE ExpirePendingAlready
    BY <1>25 DEF TypeOK, ExpirePendingAlready, CleanFor, serverVars,
       cacheVars, envVars, ghostVars, AtRest, PassSteps
  <1>26. CASE ExpirePendingRaced
    BY <1>26, NoPoolType DEF TypeOK, ExpirePendingRaced, EndPass,
       serverVars, cacheVars, envVars, ghostVars, AtRest, PassSteps
  <1>27. CASE ExpireFailed
    BY <1>27, ExpireFailedTyped
  <1>28. CASE ExpireFailedAlready
    BY <1>28 DEF TypeOK, ExpireFailedAlready, Goto, serverVars, cacheVars,
       envVars, ghostVars, AtRest, PassSteps
  <1>29. CASE ExpireFailedRaced
    BY <1>29, NoPoolType DEF TypeOK, ExpireFailedRaced, EndPass, serverVars,
       cacheVars, envVars, ghostVars, AtRest, PassSteps
  <1>30. CASE RetryFailed
    BY <1>30, RetryFailedTyped
  <1>31. CASE RetryVetoed
    BY <1>31, NoPoolType DEF TypeOK, RetryVetoed, EndPass, serverVars,
       cacheVars, envVars, ghostVars, AtRest, PassSteps
  <1>32. CASE RepairFailed
    BY <1>32, RepairFailedTyped
  <1>33. CASE DeletePlaceholder
    BY <1>33 DEF TypeOK, DeletePlaceholder, Goto, cacheVars, envVars,
       ghostVars, AtRest, PassSteps
  <1>34. CASE UnfreezeNodes
    BY <1>34, NoPoolType DEF TypeOK, UnfreezeNodes, Mark, Goto, EndPass,
       AfterClean, envVars, ghostVars, AtRest, PassSteps
  <1>35. CASE FailClaim
    BY <1>35, FailClaimTyped
  <1>36. CASE FailClaimGone
    BY <1>36, NoPoolType DEF TypeOK, FailClaimGone, EndPass, serverVars,
       cacheVars, envVars, ghostVars, AtRest, PassSteps
  <1>37. CASE FailPool
    BY <1>37, FailPoolTyped
  <1>38. CASE ClearAnchor
    BY <1>38, UnanchoredType, NoPoolType DEF TypeOK, ClearAnchor, PatchPool,
       EndPass, envVars, ghostVars, AtRest, PassSteps
  <1>39. CASE CompleteOrAbort
    BY <1>39, CompleteOrAbortTyped
  <1>40. CASE CompleteVetoed
    BY <1>40, NoPoolType DEF TypeOK, CompleteVetoed, EndPass, serverVars,
       cacheVars, envVars, ghostVars, AtRest, PassSteps
  <1>41. CASE ReapUngoverned
    BY <1>41, UnanchoredType, NoPoolType DEF TypeOK, ReapUngoverned,
       PatchPool, EndPass, envVars, ghostVars, AtRest, PassSteps
  <1>42. CASE ReapVetoed
    BY <1>42, NoPoolType DEF TypeOK, ReapVetoed, EndPass, serverVars,
       cacheVars, envVars, ghostVars, AtRest, PassSteps
  <1>43. CASE AbandonPass
    BY <1>43, NoPoolType DEF TypeOK, AbandonPass, EndPass, serverVars,
       cacheVars, envVars, ghostVars, AtRest, PassSteps
  <1>44. CASE Crash
    BY <1>44, NoPoolType DEF TypeOK, Crash, serverVars, envVars, ghostVars,
       AtRest, PassSteps
  <1>45. ASSUME NEW c \in Claims, TimeoutElapses(c) PROVE TypeOK'
    BY <1>45, TimeoutElapsesTyped
  <1>46. ASSUME NEW c \in Claims, BackoffElapses(c) PROVE TypeOK'
    BY <1>46, BackoffElapsesTyped
  <1>47. CASE PauseElapses
    BY <1>47, PauseElapsesTyped
  <1>48. CASE CooldownElapses
    BY <1>48, CooldownElapsesTyped
  <1>49. CASE SyncPool
    BY <1>49 DEF TypeOK, SyncPool, serverVars, envVars, ghostVars, passVars,
       AtRest
  <1>50. ASSUME NEW c \in Claims, SyncClaim(c) PROVE TypeOK'
    BY <1>50 DEF TypeOK, SyncClaim, serverVars, envVars, ghostVars,
       passVars, AtRest
  <1>51. ASSUME NEW c \in Claims, SyncNodes(c) PROVE TypeOK'
    BY <1>51 DEF TypeOK, SyncNodes, serverVars, envVars, ghostVars,
       passVars, AtRest
  <1>52. CASE FlipGate
    BY <1>52 DEF TypeOK, FlipGate, serverVars, cacheVars, ghostVars,
       passVars, AtRest
  <1>53. CASE FlipFreeze
    BY <1>53, FrozenType DEF TypeOK, FlipFreeze, cacheVars, envVars,
       ghostVars, passVars, AtRest
  <1>54. CASE FlipGovernance
    BY <1>54 DEF TypeOK, FlipGovernance, serverVars, cacheVars, ghostVars,
       passVars, AtRest
  <1>55. ASSUME NEW c \in Claims, ForceExpire(c) PROVE TypeOK'
    BY <1>55, DeletingType DEF TypeOK, ForceExpire, cacheVars, envVars,
       ghostVars, passVars, AtRest
  <1>56. ASSUME NEW c \in Claims, Finalize(c) PROVE TypeOK'
    BY <1>56, GoneType DEF TypeOK, Finalize, Mark, envVars, ghostVars,
       passVars, AtRest
  <1>57. ASSUME NEW c \in Claims, PlaceholderMoves(c) PROVE TypeOK'
    BY <1>57 DEF TypeOK, PlaceholderMoves, cacheVars, envVars, ghostVars,
       passVars, AtRest
  <1>58. CASE UNCHANGED vars
    BY <1>58 DEF TypeOK, vars, AtRest
  <1> QED
    BY <1>1, <1>2, <1>3, <1>4, <1>5, <1>6, <1>7, <1>8, <1>9, <1>10, <1>11,
       <1>12, <1>13, <1>14, <1>15, <1>16, <1>17, <1>18, <1>19, <1>20, <1>21,
       <1>22, <1>23, <1>24, <1>25, <1>26, <1>27, <1>28, <1>29, <1>30, <1>31,
       <1>32, <1>33, <1>34, <1>35, <1>36, <1>37, <1>38, <1>39, <1>40, <1>41,
       <1>42, <1>43, <1>44, <1>45, <1>46, <1>47, <1>48, <1>49, <1>50, <1>51,
       <1>52, <1>53, <1>54, <1>55, <1>56, <1>57, <1>58 DEF Next, Controller,
       Faults, Clock, Watches, Environment

\* Whatever the interleaving, every object keeps the shape the code gives it, and a
\* pass works on a claim exactly while it runs.
THEOREM TypeCorrect == Spec => []TypeOK
  <1>1. Init => TypeOK
    BY TypeInit
  <1>2. TypeOK /\ [Next]_vars => TypeOK'
    BY TypeStep
  <1> QED  BY <1>1, <1>2, PTL DEF Spec

-----------------------------------------------------------------------------
(***************************************************************************)
(* The serial gate.                                                        *)
(***************************************************************************)

\* What the invariant says of the server and the caches, whatever the pass does.
Settled ==
    /\ governed
    /\ InFlightIsAnchored
    /\ \A c \in Claims : ClaimBehind(c) /\ StaleFailedRetries(c)

objects == <<pool, poolCache, claims, claimCache, gate, governed>>

LEMMA SettledFrame == ASSUME Settled, UNCHANGED objects PROVE Settled'
  BY DEF Settled, objects, InFlightIsAnchored, InFlight, ClaimBehind,
     StaleFailedRetries, Alive, RetryOpen

LEMMA PoolFrame ==
  ASSUME PoolBehind, UNCHANGED objects, pc' # "sweep" PROVE PoolBehind'
  BY DEF PoolBehind, objects, Released, Alive, StartGate

\* The end of a pass leaves nothing to know.
LEMMA AtEnd == ASSUME pc' = "idle" PROVE DuringPass' /\ StepKnows'
  BY DEF DuringPass, StepKnows, AtRest, Cleaning

LEMMA EndKeeps ==
  ASSUME TypeOK', RotationInv, UNCHANGED objects, EndPass PROVE RotationInv'
  BY SettledFrame, PoolFrame, AtEnd DEF EndPass, RotationInv, Settled

\* A step of a pass that writes neither the pool nor a claim.
LEMMA PassFrame ==
  ASSUME DuringPass, ~AtRest, UNCHANGED objects, UNCHANGED <<cur, held>>
  PROVE  DuringPass'
  BY DEF DuringPass, AtRest, objects, Released, Alive, StartGate

LEMMA GotoKeeps ==
  ASSUME TypeOK', RotationInv, ~AtRest, UNCHANGED objects, UNCHANGED <<cur, held>>,
         pc' # "sweep", StepKnows'
  PROVE  RotationInv'
  BY SettledFrame, PoolFrame, PassFrame DEF RotationInv, Settled

LEMMA RotationInit == ASSUME Init PROVE RotationInv
  <1> USE DEF Init
  <1>1. TypeOK
    BY TypeInit
  <1>2. \A c \in Claims : claims[c] = FreshClaim /\ claimCache[c] = FreshClaim
    OBVIOUS
  <1>3. Settled
    BY <1>2 DEF Settled, InFlightIsAnchored, InFlight, ClaimBehind,
       StaleFailedRetries, Alive, FreshClaim
  <1>4. PoolBehind
    BY ConstantsAssumption DEF PoolBehind, NoPool
  <1>5. DuringPass /\ StepKnows
    BY DEF DuringPass, StepKnows, AtRest, Cleaning
  <1> QED  BY <1>1, <1>3, <1>4, <1>5 DEF RotationInv, Settled

-----------------------------------------------------------------------------
(***************************************************************************)
(* Steps of a pass that write neither the pool nor a claim.                *)
(***************************************************************************)

LEMMA ReadOnlyEnds ==
  ASSUME TypeOK', RotationInv,
         \/ AssertVetoed \/ VanishedAfterAssert \/ HoldWhileFrozen
         \/ CreatePlaceholder \/ SurgeNotReady \/ ExpirePendingRaced
         \/ ExpireFailedRaced \/ RetryVetoed \/ FailClaimGone \/ CompleteVetoed
         \/ AbandonPass
  PROVE  RotationInv'
  <1>1. EndPass
    BY DEF AssertVetoed, VanishedAfterAssert, HoldWhileFrozen, CreatePlaceholder,
       SurgeNotReady, ExpirePendingRaced, ExpireFailedRaced, RetryVetoed,
       FailClaimGone, CompleteVetoed, AbandonPass
  <1>2. UNCHANGED objects
    BY DEF AssertVetoed, VanishedAfterAssert, HoldWhileFrozen, CreatePlaceholder,
       SurgeNotReady, ExpirePendingRaced, ExpireFailedRaced, RetryVetoed,
       FailClaimGone, CompleteVetoed, AbandonPass, objects, serverVars, cacheVars,
       envVars
  <1> QED  BY <1>1, <1>2, EndKeeps

LEMMA BeginAdvanceKeeps ==
  ASSUME TypeOK, TypeOK', RotationInv, BeginAdvance PROVE RotationInv'
  <1>1. UNCHANGED objects
    BY DEF BeginAdvance, objects, serverVars, cacheVars, envVars
  <1>2. cur' \in Claims /\ pc' = "advance"
    BY DEF BeginAdvance, TypeOK, AtRest
  <1>3. DuringPass'
    BY <1>1, <1>2, ConstantsAssumption
       DEF RotationInv, PoolBehind, BeginAdvance, DuringPass, objects, Released,
           Alive, StartGate, AtRest
  <1>4. StepKnows'
    BY <1>2 DEF StepKnows, Cleaning
  <1> QED
    BY <1>1, <1>2, <1>3, <1>4, SettledFrame, PoolFrame DEF RotationInv, Settled

LEMMA AdvanceKeeps ==
  ASSUME TypeOK, TypeOK', RotationInv,
         \/ AdvanceGone \/ AdvancePending \/ AdvanceDraining \/ AdvanceFailed
         \/ AdvanceExpired
  PROVE  RotationInv'
  <1>1. /\ UNCHANGED objects /\ pc = "advance" /\ ~AtRest /\ pc' # "sweep"
    BY DEF AdvanceGone, AdvancePending, AdvanceDraining, AdvanceFailed,
       AdvanceExpired, CleanFor, Goto, EndPass, objects, serverVars, cacheVars,
       envVars, AtRest
  <1>2. cur \in Claims
    BY <1>1 DEF TypeOK
  <1>3. ClaimBehind(cur)
    BY <1>2 DEF RotationInv
  <1>4. CASE AdvanceGone
    <2>1. ~Alive(cur)
      BY <1>3, <1>4 DEF AdvanceGone, ClaimBehind, Alive, Exists
    <2>2. StepKnows'
      BY <1>1, <1>4, <2>1 DEF AdvanceGone, StepKnows, Cleaning, CleanFor, Alive,
         objects
    <2> QED  BY <1>1, <1>4, <2>2, GotoKeeps DEF AdvanceGone, CleanFor
  <1>5. CASE AdvancePending
    <2>1. StepKnows'
      BY <1>1, <1>5 DEF AdvancePending, StepKnows, Cleaning, Goto, Exists, objects
    <2> QED  BY <1>1, <1>5, <2>1, GotoKeeps DEF AdvancePending, Goto
  <1>6. CASE AdvanceDraining
    <2>1. CASE EndPass
      BY <1>1, <2>1, EndKeeps
    <2>2. CASE ~EndPass
      <3>1. pc' \in {"redrain", "delete"} /\ UNCHANGED <<cur, why, held>>
        BY <1>6, <2>2 DEF AdvanceDraining, Goto
      <3>2. StepKnows'
        BY <3>1 DEF StepKnows, Cleaning
      <3> QED  BY <1>1, <3>1, <3>2, GotoKeeps
    <2> QED  BY <2>1, <2>2
  <1>7. CASE AdvanceFailed
    <2>1. StepKnows'
      <3>1. CASE pc' = "expireFailed"
        BY <1>1, <1>7, <3>1 DEF AdvanceFailed, StepKnows, Cleaning, Goto, objects,
           Exists
      <3>2. CASE pc' = "retry"
        BY <1>1, <1>3, <1>7, <3>2 DEF AdvanceFailed, StepKnows, Cleaning, Goto,
           objects, ClaimBehind, Alive, StartGate
      <3>3. CASE pc' = "repair"
        <4>1. /\ claimCache[cur].state = "failed"
              /\ ~(StartGate(held) /\ ~claimCache[cur].backoff)
          BY <1>7, <3>3 DEF AdvanceFailed, Goto
        <4>2. ~InFlight(cur)
          BY <1>1, <1>2, <4>1 DEF RotationInv, DuringPass, InFlightIsAnchored,
             StaleFailedRetries, RetryOpen, StartGate
        <4>3. claims[cur].state \in ClaimState
          BY <1>2 DEF TypeOK, ClaimRec
        <4>4. Released(cur, held)
          BY <1>3, <4>1, <4>2, <4>3 DEF ClaimBehind, Released, Alive, InFlight,
             ClaimState
        <4> QED
          BY <1>1, <1>7, <3>3, <4>4 DEF AdvanceFailed, Goto, StepKnows, Cleaning,
             objects, Released, Alive, StartGate
      <3> QED  BY <1>7, <3>1, <3>2, <3>3 DEF AdvanceFailed, Goto
    <2> QED  BY <1>1, <1>7, <2>1, GotoKeeps DEF AdvanceFailed, Goto
  <1>8. CASE AdvanceExpired
    <2>1. Alive(cur) => claims[cur].state = "expired"
      BY <1>3, <1>8 DEF AdvanceExpired, ClaimBehind
    <2>2. StepKnows'
      BY <1>1, <1>8, <2>1 DEF AdvanceExpired, StepKnows, Cleaning, CleanFor, Alive,
         objects
    <2> QED  BY <1>1, <1>8, <2>2, GotoKeeps DEF AdvanceExpired, CleanFor
  <1> QED  BY <1>4, <1>5, <1>6, <1>7, <1>8

LEMMA NodeStepsKeep ==
  ASSUME TypeOK, TypeOK', RotationInv,
         FreezeOldNode \/ SurgeReady \/ FreezeHost \/ DeletePlaceholder \/ UnfreezeNodes
  PROVE  RotationInv'
  <1>1. UNCHANGED objects /\ ~AtRest /\ pc' # "sweep"
    BY DEF FreezeOldNode, SurgeReady, FreezeHost, DeletePlaceholder, UnfreezeNodes,
       Goto, EndPass, objects, serverVars, cacheVars, envVars, AtRest, AfterClean
  <1>2. CASE EndPass
    BY <1>1, <1>2, EndKeeps
  <1>3. CASE ~EndPass
    <2>1. UNCHANGED <<cur, why, held>>
      BY <1>3 DEF FreezeOldNode, SurgeReady, FreezeHost, DeletePlaceholder,
         UnfreezeNodes, Goto
    <2>2. StepKnows'
      <3>1. CASE FreezeOldNode \/ SurgeReady \/ FreezeHost
        BY <1>1, <2>1, <3>1 DEF FreezeOldNode, SurgeReady, FreezeHost, Goto,
           RotationInv, StepKnows, Cleaning, objects, Alive
      <3>2. CASE DeletePlaceholder
        BY <1>1, <2>1, <3>2 DEF DeletePlaceholder, Goto, RotationInv, StepKnows,
           Cleaning, objects, Alive
      <3>3. CASE UnfreezeNodes
        BY <1>1, <1>3, <2>1, <3>3 DEF UnfreezeNodes, Goto, RotationInv, StepKnows,
           Cleaning, objects, Alive, AfterClean, TypeOK
      <3> QED  BY <3>1, <3>2, <3>3
    <2> QED  BY <1>1, <2>1, <2>2, GotoKeeps
  <1> QED  BY <1>2, <1>3

LEMMA ExpireAlreadyKeeps ==
  ASSUME TypeOK, TypeOK', RotationInv, ExpirePendingAlready \/ ExpireFailedAlready
  PROVE  RotationInv'
  <1>1. /\ UNCHANGED objects /\ ~AtRest /\ pc' # "sweep" /\ UNCHANGED <<cur, held>>
        /\ claimCache[cur].state = "expired"
    BY DEF ExpirePendingAlready, ExpireFailedAlready, Goto, CleanFor, objects,
       serverVars, cacheVars, envVars, AtRest
  <1>2. cur \in Claims
    BY <1>1 DEF TypeOK
  <1>3. Alive(cur) => claims[cur].state = "expired"
    BY <1>1, <1>2 DEF RotationInv, ClaimBehind
  <1>4. StepKnows'
    BY <1>1, <1>3 DEF ExpirePendingAlready, ExpireFailedAlready, Goto, CleanFor,
       StepKnows, Cleaning, Alive, objects
  <1> QED  BY <1>1, <1>4, GotoKeeps

-----------------------------------------------------------------------------
(***************************************************************************)
(* Steps that write one claim, at the server or in the cache.              *)
(***************************************************************************)
OthersKept(c) ==
    /\ UNCHANGED <<pool, poolCache, gate, governed>>
    /\ \A d \in Claims : d # c => claims'[d] = claims[d] /\ claimCache'[d] = claimCache[d]

LEMMA OneClaimFrame ==
  ASSUME RotationInv, NEW c \in Claims, OthersKept(c), pc' = "sweep" => pc = "sweep",
         InFlight(c)' => pool.anchor = c,
         ClaimBehind(c)', StaleFailedRetries(c)',
         poolCache.anchor = c /\ pool.anchor # c => Released(c, poolCache)'
  PROVE  Settled' /\ PoolBehind'
  <1>1. governed'
    BY DEF RotationInv, OthersKept
  <1>2. InFlightIsAnchored'
    BY DEF RotationInv, OthersKept, InFlightIsAnchored, InFlight
  <1>3. \A d \in Claims : ClaimBehind(d)'
    BY DEF RotationInv, OthersKept, ClaimBehind, Alive
  <1>4. \A d \in Claims : StaleFailedRetries(d)'
    BY DEF RotationInv, OthersKept, StaleFailedRetries, InFlight, RetryOpen
  <1>5. PoolBehind'
    BY DEF RotationInv, OthersKept, PoolBehind, Released, Alive, StartGate
  <1> QED  BY <1>1, <1>2, <1>3, <1>4, <1>5 DEF Settled

\* A conditional write by the pass, on the claim it was dispatched on.
LEMMA PassWrite ==
  ASSUME TypeOK, NEW r, cur \in Claims, PatchClaim(cur, r),
         UNCHANGED <<pool, poolCache, gate, governed>>
  PROVE  /\ OthersKept(cur) /\ claims'[cur] = r /\ claimCache'[cur] = claimCache[cur]
         /\ claims[cur] = claimCache[cur]
  BY DEF TypeOK, PatchClaim, OthersKept, ClaimCurrent

LEMMA OneClaimPass ==
  ASSUME RotationInv, ~AtRest, OthersKept(cur), UNCHANGED <<cur, held>>,
         pool.anchor # cur => Released(cur, held)'
  PROVE  DuringPass'
  BY DEF RotationInv, DuringPass, OthersKept, AtRest

LEMMA AssertPendingKeeps ==
  ASSUME TypeOK, TypeOK', RotationInv, AssertPending PROVE RotationInv'
  <1>1. /\ cur \in Claims /\ ~AtRest /\ UNCHANGED <<cur, held>> /\ pc' # "sweep"
    BY DEF TypeOK, AssertPending, AtRest, Goto, CleanFor
  <1> DEFINE r == [claims[cur] EXCEPT !.state = "pending",
                     !.started = IF @ = "unset" THEN "running" ELSE @]
  <1>2. r.state = "pending" /\ r.life = claims[cur].life
    BY <1>1 DEF TypeOK, ClaimRec
  <1>3. PatchClaim(cur, r) /\ UNCHANGED <<pool, poolCache, gate, governed>>
    BY DEF AssertPending, envVars
  <1> HIDE DEF r
  <1>4. /\ OthersKept(cur) /\ claims'[cur] = r /\ claimCache'[cur] = claimCache[cur]
        /\ claims[cur] = claimCache[cur]
    BY <1>1, <1>3, PassWrite
  <1>5. claims[cur].state \in {"none", "pending"} /\ Alive(cur)
    BY <1>4 DEF AssertPending, Exists, Alive
  <1>6. pool.anchor = cur
    BY <1>1, <1>5 DEF RotationInv, DuringPass, Released, Alive
  <1>7. Settled' /\ PoolBehind'
    BY <1>1, <1>2, <1>4, <1>5, <1>6, OneClaimFrame DEF InFlight, ClaimBehind,
       StaleFailedRetries, Alive
  <1>8. DuringPass'
    BY <1>1, <1>4, <1>6, OneClaimPass
  <1>9. StepKnows'
    BY <1>1, <1>2, <1>4 DEF AssertPending, StepKnows, Cleaning, Goto, CleanFor, Alive
  <1> QED  BY <1>7, <1>8, <1>9 DEF RotationInv, Settled

LEMMA MarkDrainingKeeps ==
  ASSUME TypeOK, TypeOK', RotationInv, MarkDraining PROVE RotationInv'
  <1>1. /\ cur \in Claims /\ ~AtRest /\ UNCHANGED <<cur, held>> /\ pc' = "delete"
    BY DEF TypeOK, MarkDraining, AtRest, Goto
  <1>9. StepKnows'
    BY <1>1 DEF StepKnows, Cleaning
  <1>a. CASE UNCHANGED <<claims, claimCache>>
    BY <1>1, <1>9, <1>a, GotoKeeps DEF MarkDraining, objects, envVars
  <1>b. CASE ~UNCHANGED <<claims, claimCache>>
    <2> DEFINE r == [claims[cur] EXCEPT !.state = "draining"]
    <2>2. r.state = "draining" /\ r.life = claims[cur].life
      BY <1>1 DEF TypeOK, ClaimRec
    <2>3. /\ PatchClaim(cur, r) /\ UNCHANGED <<pool, poolCache, gate, governed>>
          /\ Exists(cur)
      BY <1>b DEF MarkDraining, envVars
    <2> HIDE DEF r
    <2>4. /\ OthersKept(cur) /\ claims'[cur] = r /\ claimCache'[cur] = claimCache[cur]
          /\ claims[cur] = claimCache[cur]
      BY <1>1, <2>3, PassWrite
    <2>5. Alive(cur)
      BY <2>3, <2>4 DEF Exists, Alive
    <2>6. /\ pool.anchor = cur /\ claims[cur].state # "expired"
          /\ claims[cur].state = "failed" => RetryOpen /\ ~claims[cur].backoff
      BY <2>5 DEF RotationInv, StepKnows, MarkDraining
    <2>7. InFlight(cur)' => pool.anchor = cur
      BY <2>6
    <2>8. ClaimBehind(cur)'
      BY <1>1, <2>2, <2>4, <2>5, <2>6 DEF ClaimBehind, Alive
    <2>9. StaleFailedRetries(cur)'
      BY <1>1, <2>4, <2>6 DEF OthersKept, StaleFailedRetries, RetryOpen
    <2>10. Settled' /\ PoolBehind'
      BY <1>1, <2>4, <2>6, <2>7, <2>8, <2>9, OneClaimFrame
    <2>11. DuringPass'
      BY <1>1, <2>4, <2>6, OneClaimPass
    <2> QED  BY <1>9, <2>10, <2>11 DEF RotationInv, Settled
  <1> QED  BY <1>a, <1>b

LEMMA RetryFailedKeeps ==
  ASSUME TypeOK, TypeOK', RotationInv, RetryFailed PROVE RotationInv'
  <1>1. /\ cur \in Claims /\ ~AtRest /\ UNCHANGED <<cur, held>> /\ pc' = "advance"
    BY DEF TypeOK, RetryFailed, AtRest, Goto
  <1> DEFINE r == [claims[cur] EXCEPT !.state = "pending"]
  <1>2. r.state = "pending" /\ r.life = claims[cur].life
    BY <1>1 DEF TypeOK, ClaimRec
  <1>3. PatchClaim(cur, r) /\ UNCHANGED <<pool, poolCache, gate, governed>>
    BY DEF RetryFailed, envVars
  <1> HIDE DEF r
  <1>4. /\ OthersKept(cur) /\ claims'[cur] = r /\ claimCache'[cur] = claimCache[cur]
        /\ claims[cur] = claimCache[cur]
    BY <1>1, <1>3, PassWrite
  <1>5. claims[cur].state = "failed" /\ Alive(cur)
    BY <1>4 DEF RetryFailed, Exists, Alive
  <1>6. StartGate(held) /\ ~claims[cur].backoff
    BY <1>5 DEF RotationInv, StepKnows, RetryFailed
  <1>7. pool.anchor = cur
    BY <1>1, <1>5, <1>6 DEF RotationInv, DuringPass, Released
  <1>8. RetryOpen
    BY <1>1, <1>6, <1>7 DEF RotationInv, DuringPass, StartGate, RetryOpen
  <1>9. ClaimBehind(cur)'
    BY <1>1, <1>2, <1>4, <1>5 DEF ClaimBehind, Alive
  <1>10. StaleFailedRetries(cur)'
    BY <1>1, <1>4, <1>6, <1>8 DEF OthersKept, StaleFailedRetries, RetryOpen
  <1>11. Settled' /\ PoolBehind'
    BY <1>1, <1>4, <1>7, <1>9, <1>10, OneClaimFrame
  <1>12. DuringPass'
    BY <1>1, <1>4, <1>7, OneClaimPass
  <1>13. StepKnows'
    BY <1>1 DEF StepKnows, Cleaning
  <1> QED  BY <1>11, <1>12, <1>13 DEF RotationInv, Settled

LEMMA ExpireKeeps ==
  ASSUME TypeOK, TypeOK', RotationInv, ExpirePending \/ ExpireFailed
  PROVE  RotationInv'
  <1>1. /\ cur \in Claims /\ ~AtRest /\ UNCHANGED <<cur, held>>
        /\ pc' = "clear" \/ Cleaning("expire")'
    BY DEF TypeOK, ExpirePending, ExpireFailed, AtRest, Goto, CleanFor, Cleaning
  <1>2. PICK r : /\ r.state = "expired" /\ r.life = claims[cur].life
                 /\ PatchClaim(cur, r)
                 /\ UNCHANGED <<pool, poolCache, gate, governed>>
    <2>1. \A q \in ClaimRec :
            /\ [q EXCEPT !.state = "expired"].state = "expired"
            /\ [q EXCEPT !.state = "expired"].life = q.life
            /\ [q EXCEPT !.state = "expired", !.started = "unset"].state = "expired"
            /\ [q EXCEPT !.state = "expired", !.started = "unset"].life = q.life
      BY DEF ClaimRec
    <2>2. claims[cur] \in ClaimRec
      BY <1>1 DEF TypeOK
    <2>3. UNCHANGED <<pool, poolCache, gate, governed>>
      BY DEF ExpirePending, ExpireFailed, envVars
    <2>4. CASE ExpirePending
      <3> DEFINE q == [claims[cur] EXCEPT !.state = "expired", !.started = "unset"]
      <3>1. q.state = "expired" /\ q.life = claims[cur].life
        BY <2>1, <2>2
      <3>2. PatchClaim(cur, q)
        BY <2>4 DEF ExpirePending
      <3> HIDE DEF q
      <3> QED  BY <2>3, <3>1, <3>2
    <2>5. CASE ExpireFailed
      <3> DEFINE q == [claims[cur] EXCEPT !.state = "expired"]
      <3>1. q.state = "expired" /\ q.life = claims[cur].life
        BY <2>1, <2>2
      <3>2. PatchClaim(cur, q)
        BY <2>5 DEF ExpireFailed
      <3> HIDE DEF q
      <3> QED  BY <2>3, <3>1, <3>2
    <2> QED  BY <2>4, <2>5
  <1>4. /\ OthersKept(cur) /\ claims'[cur] = r /\ claimCache'[cur] = claimCache[cur]
        /\ claims[cur] = claimCache[cur]
    BY <1>1, <1>2, PassWrite
  <1>5. claims[cur].state # "expired" /\ claims[cur].life # "live"
    BY <1>4 DEF ExpirePending, ExpireFailed, RotationInv, StepKnows
  <1>6. ClaimBehind(cur)'
    BY <1>1, <1>2, <1>4, <1>5 DEF ClaimBehind, Alive
  <1>7. Settled' /\ PoolBehind'
    BY <1>1, <1>2, <1>4, <1>6, OneClaimFrame DEF InFlight, StaleFailedRetries,
       Released, Cleaning
  <1>8. DuringPass'
    BY <1>1, <1>2, <1>4, OneClaimPass DEF Released
  <1>9. StepKnows'
    BY <1>1, <1>2, <1>4 DEF StepKnows, Cleaning
  <1> QED  BY <1>7, <1>8, <1>9 DEF RotationInv, Settled

LEMMA FailClaimKeeps ==
  ASSUME TypeOK, TypeOK', RotationInv, FailClaim PROVE RotationInv'
  <1>1. /\ cur \in Claims /\ ~AtRest /\ UNCHANGED <<cur, held>> /\ pc' = "failPool"
    BY DEF TypeOK, FailClaim, AtRest, Goto
  <1> DEFINE r == [claims[cur] EXCEPT !.state = "failed", !.started = "unset",
                     !.backoff = TRUE, !.paused = TRUE]
  <1>2. r.state = "failed" /\ r.backoff /\ r.life = claims[cur].life
    BY <1>1 DEF TypeOK, ClaimRec
  <1>3. PatchClaim(cur, r) /\ UNCHANGED <<pool, poolCache, gate, governed>>
    BY DEF FailClaim, envVars
  <1> HIDE DEF r
  <1>4. /\ OthersKept(cur) /\ claims'[cur] = r /\ claimCache'[cur] = claimCache[cur]
        /\ claims[cur] = claimCache[cur]
    BY <1>1, <1>3, PassWrite
  <1>5. claims[cur].state = "pending" /\ Alive(cur)
    BY <1>4 DEF FailClaim, Exists, Alive, RotationInv, StepKnows
  <1>7. pool.anchor = cur
    BY <1>1, <1>5 DEF RotationInv, InFlightIsAnchored, InFlight, Alive
  <1>9. ClaimBehind(cur)' /\ StaleFailedRetries(cur)'
    BY <1>1, <1>2, <1>4, <1>5 DEF ClaimBehind, Alive, StaleFailedRetries, InFlight
  <1>11. Settled' /\ PoolBehind'
    BY <1>1, <1>4, <1>7, <1>9, OneClaimFrame
  <1>12. DuringPass'
    BY <1>1, <1>4, <1>7, OneClaimPass
  <1>13. StepKnows'
    BY <1>1, <1>2, <1>4 DEF StepKnows, Cleaning
  <1> QED  BY <1>11, <1>12, <1>13 DEF RotationInv, Settled

\* Whoever writes a claim and leaves the pass where it is.
LEMMA UnderPass ==
  ASSUME TypeOK, RotationInv, NEW c \in Claims, OthersKept(c), UNCHANGED passVars,
         \/ claims'[c].life = "gone"
         \/ /\ claims[c].life # "gone" /\ claims'[c].state = claims[c].state
            /\ claims'[c].backoff = claims[c].backoff,
         claimCache'[c].life = "live" => claimCache[c].life = "live",
         ClaimBehind(c)', StaleFailedRetries(c)'
  PROVE  Settled' /\ PoolBehind' /\ DuringPass' /\ StepKnows'
  <1>1. InFlight(c)' => pool.anchor = c
    BY DEF RotationInv, InFlightIsAnchored, InFlight
  <1>2. \A d \in Claims : Alive(d)' =>
          /\ Alive(d) /\ claims'[d].state = claims[d].state
          /\ claims'[d].backoff = claims[d].backoff
    BY DEF OthersKept, Alive
  <1>3. \A d \in Claims : /\ Released(d, poolCache) => Released(d, poolCache)'
                          /\ Released(d, held) => Released(d, held)'
    BY <1>2 DEF OthersKept, Released, StartGate, passVars
  <1>4. Settled' /\ PoolBehind'
    BY <1>1, <1>3, OneClaimFrame DEF RotationInv, PoolBehind, passVars
  <1>5. CASE AtRest
    <2>1. DuringPass' /\ StepKnows'
      BY <1>5 DEF DuringPass, StepKnows, Cleaning, AtRest, passVars
    <2> QED  BY <1>4, <2>1
  <1>6. CASE ~AtRest
    <2>1. cur \in Claims
      BY <1>6 DEF TypeOK
    <2>2. DuringPass'
      BY <1>3, <1>6, <2>1 DEF RotationInv, DuringPass, OthersKept, AtRest, passVars
    <2>3. claimCache'[cur].life = "live" => claimCache[cur].life = "live"
      BY <2>1 DEF OthersKept
    <2>4. StepKnows'
      BY <1>2, <1>3, <2>1, <2>3 DEF RotationInv, StepKnows, Cleaning, OthersKept,
         RetryOpen, StartGate, passVars
    <2> QED  BY <1>4, <2>2, <2>4
  <1> QED  BY <1>4, <1>5, <1>6

\* A delete, whoever issues it, only takes the claim from live to deleting.
LEMMA DeleteWrite ==
  ASSUME TypeOK, RotationInv, NEW c \in Claims, claims[c].life = "live",
         claims' = [claims EXCEPT ![c].life = "deleting"],
         UNCHANGED <<pool, poolCache, claimCache, gate, governed>>
  PROVE  /\ OthersKept(c) /\ claimCache'[c] = claimCache[c]
         /\ claims'[c].life = "deleting" /\ claims'[c].state = claims[c].state
         /\ claims'[c].backoff = claims[c].backoff
         /\ ClaimBehind(c)' /\ StaleFailedRetries(c)'
  <1>1. \A r \in ClaimRec :
          /\ [r EXCEPT !.life = "deleting"].life = "deleting"
          /\ [r EXCEPT !.life = "deleting"].state = r.state
          /\ [r EXCEPT !.life = "deleting"].backoff = r.backoff
    BY DEF ClaimRec
  <1>2. claims[c] \in ClaimRec
    BY DEF TypeOK
  <1>3. claims'[c] = [claims[c] EXCEPT !.life = "deleting"]
    BY DEF TypeOK
  <1>4. /\ claims'[c].life = "deleting" /\ claims'[c].state = claims[c].state
        /\ claims'[c].backoff = claims[c].backoff
    BY <1>1, <1>2, <1>3
  <1>5. OthersKept(c)
    BY DEF TypeOK, OthersKept
  <1>6. ClaimBehind(c)
    BY DEF RotationInv
  <1>7. ClaimBehind(c)'
    BY <1>4, <1>6 DEF ClaimBehind, Alive
  <1>8. StaleFailedRetries(c)'
    BY <1>4 DEF RotationInv, StaleFailedRetries, InFlight, RetryOpen
  <1> QED  BY <1>4, <1>5, <1>7, <1>8

LEMMA DeleteClaimKeeps ==
  ASSUME TypeOK, TypeOK', RotationInv, DeleteClaim PROVE RotationInv'
  <1>1. /\ cur \in Claims /\ EndPass
        /\ UNCHANGED <<pool, poolCache, claimCache, gate, governed>>
    BY DEF TypeOK, DeleteClaim, AtRest, cacheVars, envVars
  <1>2. CASE UNCHANGED claims
    BY <1>1, <1>2, EndKeeps DEF objects
  <1>3. CASE claims[cur].life = "live" /\ claims' = [claims EXCEPT ![cur].life = "deleting"]
    <2>1. /\ OthersKept(cur) /\ claims'[cur].state = claims[cur].state
          /\ claims'[cur].backoff = claims[cur].backoff
          /\ claims'[cur].life = "deleting"
      BY <1>1, <1>3, DeleteWrite
    <2>2. \A c \in Claims : c = cur => ClaimBehind(c)' /\ StaleFailedRetries(c)'
      BY <1>1, <1>3, DeleteWrite
    <2>3. Settled' /\ PoolBehind'
      <3>1. PICK c \in Claims : c = cur
        BY <1>1
      <3>2. InFlight(c)' => pool.anchor = c
        BY <1>3, <2>1, <3>1 DEF RotationInv, InFlightIsAnchored, InFlight
      <3>3. poolCache.anchor = c /\ pool.anchor # c => Released(c, poolCache)'
        BY <1>1, <1>3, <2>1, <3>1 DEF RotationInv, PoolBehind, Released, Alive, StartGate
      <3> QED  BY <1>1, <2>1, <2>2, <3>1, <3>2, <3>3, OneClaimFrame DEF EndPass
    <2> QED  BY <1>1, <2>3, AtEnd DEF EndPass, RotationInv, Settled
  <1> QED  BY <1>2, <1>3 DEF DeleteClaim

LEMMA ForceExpireKeeps ==
  ASSUME TypeOK, TypeOK', RotationInv, NEW c \in Claims, ForceExpire(c)
  PROVE  RotationInv'
  <1>1. /\ OthersKept(c) /\ claimCache'[c] = claimCache[c]
        /\ claims'[c].life = "deleting" /\ claims'[c].state = claims[c].state
        /\ claims'[c].backoff = claims[c].backoff /\ claims[c].life = "live"
        /\ ClaimBehind(c)' /\ StaleFailedRetries(c)'
    BY DeleteWrite DEF ForceExpire, cacheVars, envVars
  <1>2. Settled' /\ PoolBehind' /\ DuringPass' /\ StepKnows'
    BY <1>1, UnderPass DEF ForceExpire
  <1> QED  BY <1>2 DEF RotationInv, Settled

LEMMA FinalizeKeeps ==
  ASSUME TypeOK, TypeOK', RotationInv, NEW c \in Claims, Finalize(c)
  PROVE  RotationInv'
  <1>1. OthersKept(c) /\ claimCache' = claimCache
    BY DEF TypeOK, Finalize, OthersKept, envVars
  <1>2. claims'[c].life = "gone"
    BY DEF TypeOK, Finalize, GoneClaim, FreshClaim
  <1>3. ClaimBehind(c)' /\ StaleFailedRetries(c)'
    BY <1>2 DEF ClaimBehind, StaleFailedRetries, InFlight, Alive
  <1>4. Settled' /\ PoolBehind' /\ DuringPass' /\ StepKnows'
    BY <1>1, <1>2, <1>3, UnderPass DEF Finalize
  <1> QED  BY <1>4 DEF RotationInv, Settled

LEMMA SyncClaimKeeps ==
  ASSUME TypeOK, TypeOK', RotationInv, NEW c \in Claims, SyncClaim(c)
  PROVE  RotationInv'
  <1>1. OthersKept(c) /\ claims' = claims /\ claimCache'[c] = claims[c]
    BY DEF TypeOK, SyncClaim, OthersKept, serverVars, envVars
  <1>2. ClaimBehind(c)
    BY DEF RotationInv
  <1>3. ClaimBehind(c)' /\ StaleFailedRetries(c)'
    BY <1>1, <1>2 DEF ClaimBehind, StaleFailedRetries, InFlight, Alive
  <1>4. claims[c].life \in {"live", "deleting", "gone"}
        /\ claimCache[c].life \in {"live", "deleting", "gone"}
    BY DEF TypeOK, ClaimRec
  <1>5. claimCache'[c].life = "live" => claimCache[c].life = "live"
    BY <1>1, <1>2, <1>4 DEF ClaimBehind
  <1>6. Settled' /\ PoolBehind' /\ DuringPass' /\ StepKnows'
    BY <1>1, <1>3, <1>5, UnderPass DEF SyncClaim
  <1> QED  BY <1>6 DEF RotationInv, Settled

LEMMA TimeoutElapsesKeeps ==
  ASSUME TypeOK, TypeOK', RotationInv, NEW c \in Claims, TimeoutElapses(c)
  PROVE  RotationInv'
  <1> DEFINE over(r) == IF r.started = "running" THEN [r EXCEPT !.started = "over"] ELSE r
  <1>1. \A r \in ClaimRec : /\ over(r).life = r.life /\ over(r).state = r.state
                            /\ over(r).backoff = r.backoff
    BY DEF ClaimRec
  <1>2. claims'[c] = over(claims[c]) /\ claimCache'[c] = over(claimCache[c])
    BY DEF TypeOK, TimeoutElapses
  <1>3. OthersKept(c)
    BY DEF TypeOK, TimeoutElapses, OthersKept, envVars
  <1> HIDE DEF over
  <1>4. claims[c] \in ClaimRec /\ claimCache[c] \in ClaimRec
    BY DEF TypeOK
  <1>5. /\ claims'[c].life = claims[c].life /\ claims'[c].state = claims[c].state
        /\ claims'[c].backoff = claims[c].backoff
        /\ claimCache'[c].life = claimCache[c].life
        /\ claimCache'[c].state = claimCache[c].state
        /\ claimCache'[c].backoff = claimCache[c].backoff
    BY <1>1, <1>2, <1>4
  <1>6. ClaimBehind(c) /\ StaleFailedRetries(c)
    BY DEF RotationInv
  <1>7. ClaimBehind(c)' /\ StaleFailedRetries(c)'
    BY <1>3, <1>5, <1>6 DEF ClaimBehind, StaleFailedRetries, InFlight, Alive,
       OthersKept, RetryOpen
  <1>8. Settled' /\ PoolBehind' /\ DuringPass' /\ StepKnows'
    BY <1>3, <1>5, <1>7, UnderPass DEF TimeoutElapses
  <1> QED  BY <1>8 DEF RotationInv, Settled

-----------------------------------------------------------------------------
(***************************************************************************)
(* The gates change, and a new process starts, with every cache current.   *)
(***************************************************************************)

LEMMA CurrentAtRest ==
  ASSUME TypeOK', AtRest', governed', InFlightIsAnchored',
         CachesCurrent',
         \A c \in Claims : claims'[c].life # "gone" /\ claims'[c].state = "expired" =>
                              claims'[c].life # "live"
  PROVE  RotationInv'
  <1>1. poolCache' = pool' /\ \A c \in Claims : claimCache'[c] = claims'[c]
    BY DEF CachesCurrent, PoolCurrent, ClaimCurrent
  <1>2. Settled'
    BY <1>1 DEF Settled, ClaimBehind, StaleFailedRetries, InFlight, Alive
  <1>3. PoolBehind'
    BY <1>1 DEF TypeOK, PoolRec, PoolBehind
  <1>4. DuringPass' /\ StepKnows'
    BY DEF DuringPass, StepKnows, Cleaning, AtRest
  <1> QED  BY <1>2, <1>3, <1>4 DEF RotationInv, Settled

LEMMA CrashKeeps ==
  ASSUME TypeOK, TypeOK', RotationInv, Crash PROVE RotationInv'
  <1>1. AtRest' /\ CachesCurrent' /\ governed' /\ UNCHANGED <<pool, claims>>
    BY DEF Crash, AtRest, CachesCurrent, PoolCurrent, ClaimCurrent, serverVars,
       envVars, RotationInv
  <1> QED
    BY <1>1, CurrentAtRest DEF RotationInv, InFlightIsAnchored, InFlight, ClaimBehind,
       Alive

LEMMA ClockKeeps ==
  ASSUME TypeOK, TypeOK', RotationInv, SlowGates,
         \/ \E c \in Claims : BackoffElapses(c)
         \/ PauseElapses \/ CooldownElapses \/ FlipGate
  PROVE  RotationInv'
  <1>1. /\ AtRest /\ CachesCurrent /\ pc' = pc /\ governed' = governed
    BY DEF BackoffElapses, PauseElapses, CooldownElapses, FlipGate, Quiet, passVars,
       envVars
  <1> DEFINE Same(d) == /\ claims'[d].life = claims[d].life
                        /\ claims'[d].state = claims[d].state
                        /\ claimCache'[d] = claims'[d]
  <1>2. \A d \in Claims : Same(d)
    <2>1. \A r \in ClaimRec, b \in BOOLEAN :
            /\ [r EXCEPT !.backoff = b].life = r.life
            /\ [r EXCEPT !.backoff = b].state = r.state
            /\ [r EXCEPT !.paused = b].life = r.life
            /\ [r EXCEPT !.paused = b].state = r.state
      BY DEF ClaimRec
    <2>2. claims \in [Claims -> ClaimRec] /\ claimCache \in [Claims -> ClaimRec]
      BY DEF TypeOK
    <2>3. \A c \in Claims : claims[c] \in ClaimRec /\ claimCache[c] = claims[c]
      BY <1>1, <2>2 DEF CachesCurrent, ClaimCurrent
    <2>4. CASE PauseElapses
      BY <2>1, <2>3, <2>4 DEF PauseElapses
    <2>5. ASSUME NEW c \in Claims, BackoffElapses(c), NEW d \in Claims PROVE Same(d)
      <3>1. CASE d # c
        <4>1. claims'[d] = claims[d] /\ claimCache'[d] = claimCache[d]
          BY <2>2, <2>5, <3>1 DEF BackoffElapses
        <4> QED  BY <2>3, <4>1
      <3>2. CASE d = c
        <4>1. /\ claims'[d] = [claims[d] EXCEPT !.backoff = FALSE]
              /\ claimCache'[d] = [claimCache[d] EXCEPT !.backoff = FALSE]
          BY <2>2, <2>5, <3>2 DEF BackoffElapses
        <4> QED  BY <2>1, <2>3, <4>1
      <3> QED  BY <3>1, <3>2
    <2>6. CASE CooldownElapses \/ FlipGate
      BY <2>3, <2>6 DEF CooldownElapses, FlipGate, serverVars, cacheVars
    <2> QED  BY <2>4, <2>5, <2>6
  <1>4. poolCache' = pool' /\ pool'.anchor = pool.anchor
    <2>1. pool \in PoolRec /\ poolCache = pool
      BY <1>1 DEF TypeOK, CachesCurrent, PoolCurrent
    <2>2. \A p \in PoolRec : /\ [p EXCEPT !.pausing = FALSE].anchor = p.anchor
                             /\ [p EXCEPT !.cooling = FALSE].anchor = p.anchor
      BY DEF PoolRec
    <2>3. \/ pool' = pool /\ poolCache' = poolCache
          \/ /\ pool' = [pool EXCEPT !.pausing = FALSE]
             /\ poolCache' = [poolCache EXCEPT !.pausing = FALSE]
          \/ /\ pool' = [pool EXCEPT !.cooling = FALSE]
             /\ poolCache' = [poolCache EXCEPT !.cooling = FALSE]
      BY DEF BackoffElapses, PauseElapses, CooldownElapses, FlipGate, serverVars, cacheVars
    <2> QED  BY <2>1, <2>2, <2>3
  <1>5. AtRest' /\ CachesCurrent' /\ governed' /\ InFlightIsAnchored'
    BY <1>1, <1>2, <1>4 DEF AtRest, CachesCurrent, PoolCurrent, ClaimCurrent,
       RotationInv, InFlightIsAnchored, InFlight
  <1> QED
    BY <1>2, <1>5, CurrentAtRest DEF RotationInv, ClaimBehind, Alive

-----------------------------------------------------------------------------
(***************************************************************************)
(* Steps that write the pool, at the server or in the cache.               *)
(***************************************************************************)

\* The phase, the mode and the freeze are not what the serial gate rests on.
PhaseOnly ==
    /\ pool'.anchor = pool.anchor /\ pool'.cooling = pool.cooling
    /\ pool'.pausing = pool.pausing
    /\ UNCHANGED <<poolCache, claims, claimCache, gate, governed>>

LEMMA PhaseFrame ==
  ASSUME RotationInv, PhaseOnly, pc' = "sweep" => pc = "sweep"
  PROVE  Settled' /\ PoolBehind'
  <1>1. Settled'
    BY DEF RotationInv, PhaseOnly, Settled, InFlightIsAnchored, InFlight, ClaimBehind,
       StaleFailedRetries, Alive, RetryOpen
  <1>2. PoolBehind'
    BY DEF RotationInv, PhaseOnly, PoolBehind, Released, Alive, StartGate
  <1> QED  BY <1>1, <1>2

LEMMA PhasePass ==
  ASSUME RotationInv, PhaseOnly, ~AtRest, UNCHANGED <<cur, held>>
  PROVE  DuringPass'
  BY DEF RotationInv, PhaseOnly, DuringPass, AtRest, Released, Alive, StartGate

LEMMA RecordKeeps ==
  ASSUME TypeOK, TypeOK', RotationInv, RecordDraining \/ RecordForced \/ ReassertMirror
  PROVE  RotationInv'
  <1>1. PhaseOnly
    <2>1. pool \in PoolRec
      BY DEF TypeOK
    <2>2. \A p \in PoolRec : \A q \in {[p EXCEPT !.mirror = TRUE],
                                      [p EXCEPT !.mirror = TRUE, !.forced = TRUE]} :
            q.anchor = p.anchor /\ q.cooling = p.cooling /\ q.pausing = p.pausing
      BY DEF PoolRec
    <2>3. /\ pool' \in {[pool EXCEPT !.mirror = TRUE], [pool EXCEPT !.mirror = TRUE, !.forced = TRUE]}
          /\ UNCHANGED <<poolCache, claims, claimCache, gate, governed>>
      BY DEF RecordDraining, RecordForced, ReassertMirror, PatchPool, envVars
    <2> QED  BY <2>1, <2>2, <2>3 DEF PhaseOnly
  <1>2. cur \in Claims /\ ~AtRest /\ pc' # "sweep"
    BY DEF TypeOK, RecordDraining, RecordForced, ReassertMirror, AtRest, Goto, EndPass
  <1>3. Settled' /\ PoolBehind'
    BY <1>1, <1>2, PhaseFrame
  <1>4. CASE EndPass
    BY <1>3, <1>4, AtEnd DEF EndPass, RotationInv, Settled
  <1>5. CASE ~EndPass
    <2>1. UNCHANGED <<cur, why, held>>
      BY <1>5 DEF RecordDraining, RecordForced, ReassertMirror, Goto
    <2>2. DuringPass'
      BY <1>1, <1>2, <2>1, PhasePass
    <2>3. CASE ReassertMirror
      <3>1. pc' = "delete"
        BY <1>5, <2>3 DEF ReassertMirror, Goto
      <3> QED  BY <1>3, <2>2, <3>1 DEF RotationInv, Settled, StepKnows, Cleaning
    <2>4. CASE RecordDraining \/ RecordForced
      <3>1. pc' = "drain" /\ pc \in {"record", "force"}
        BY <2>4 DEF RecordDraining, RecordForced, Goto
      <3>2. Alive(cur) => /\ pool.anchor = cur /\ claims[cur].state # "expired"
                          /\ claims[cur].state = "failed" =>
                               RetryOpen /\ ~claims[cur].backoff
        BY <1>2, <3>1 DEF RotationInv, StepKnows, InFlightIsAnchored, InFlight, Alive
      <3>3. StepKnows'
        BY <1>1, <2>1, <3>1, <3>2 DEF PhaseOnly, StepKnows, Cleaning, Alive, RetryOpen
      <3> QED  BY <1>3, <2>2, <3>3 DEF RotationInv, Settled
    <2> QED  BY <2>3, <2>4
  <1> QED  BY <1>4, <1>5

LEMMA FlipFreezeKeeps ==
  ASSUME TypeOK, TypeOK', RotationInv, FlipFreeze PROVE RotationInv'
  <1>1. PhaseOnly /\ UNCHANGED <<pc, cur, why, held>>
    BY DEF TypeOK, PoolRec, FlipFreeze, PhaseOnly, cacheVars, envVars, passVars
  <1>2. Settled' /\ PoolBehind'
    BY <1>1, PhaseFrame
  <1>3. DuringPass'
    BY <1>1, PhasePass DEF DuringPass, AtRest
  <1>4. StepKnows'
    BY <1>1 DEF RotationInv, PhaseOnly, StepKnows, Cleaning, Alive, RetryOpen,
       Released, StartGate
  <1> QED  BY <1>2, <1>3, <1>4 DEF RotationInv, Settled

LEMMA StartupSweepKeeps ==
  ASSUME TypeOK, TypeOK', RotationInv, StartupSweep PROVE RotationInv'
  <1>1. /\ pc' = "idle" /\ UNCHANGED <<claimCache, gate, governed>>
        /\ poolCache.anchor = pool.anchor
    BY DEF StartupSweep, Goto, envVars, RotationInv, PoolBehind
  <1>2. /\ pool'.anchor = pool.anchor /\ pool'.cooling = pool.cooling
        /\ pool'.pausing = pool.pausing /\ poolCache' = poolCache
    <2>1. \A p \in PoolRec :
            /\ [p EXCEPT !.mirror = FALSE, !.forced = FALSE].anchor = p.anchor
            /\ [p EXCEPT !.mirror = FALSE, !.forced = FALSE].cooling = p.cooling
            /\ [p EXCEPT !.mirror = FALSE, !.forced = FALSE].pausing = p.pausing
      BY DEF PoolRec
    <2>2. /\ poolCache' = poolCache
          /\ pool' \in {pool, [pool EXCEPT !.mirror = FALSE, !.forced = FALSE]}
      BY DEF StartupSweep, PatchPool
    <2> QED  BY <2>1, <2>2 DEF TypeOK
  <1>3. PICK cs \in SUBSET Claims :
          /\ poolCache.anchor \notin cs
          /\ \A c \in cs : /\ ClaimCurrent(c)
                           /\ claims[c].state \in {"pending", "draining"}
                           /\ claims[c].life # "gone"
          /\ claims' = [c \in Claims |->
                          IF c \in cs
                          THEN [claims[c] EXCEPT !.state = "failed",
                                  !.started = "unset", !.backoff = TRUE,
                                  !.paused = TRUE]
                          ELSE claims[c]]
    BY DEF StartupSweep
  <1>4. cs = {}
    BY <1>1, <1>3 DEF RotationInv, InFlightIsAnchored, InFlight
  <1>5. claims' = claims
    BY <1>3, <1>4 DEF TypeOK
  <1>6. PhaseOnly
    BY <1>1, <1>2, <1>5 DEF PhaseOnly
  <1>7. Settled' /\ PoolBehind'
    BY <1>1, <1>6, PhaseFrame
  <1> QED  BY <1>1, <1>7, AtEnd DEF RotationInv, Settled

LEMMA StartRotationKeeps ==
  ASSUME TypeOK, TypeOK', RotationInv, NEW c \in Claims, StartRotation(c)
  PROVE  RotationInv'
  <1>1. /\ UNCHANGED <<poolCache, claims, claimCache, gate, governed>>
        /\ poolCache = pool /\ pool.anchor = None /\ StartGate(pool)
        /\ Eligible(claimCache[c])
        /\ cur' = c /\ held' = pool' /\ pc' \in {"advance", "force"}
    BY DEF StartRotation, PatchPool, PoolCurrent, envVars
  <1>2. /\ pool'.anchor = c /\ pool'.cooling = pool.cooling
        /\ pool'.pausing = pool.pausing /\ pool'.frozen = pool.frozen
    BY DEF TypeOK, PoolRec, StartRotation, PatchPool
  <1>3. \A d \in Claims : ~InFlight(d)
    BY <1>1, ConstantsAssumption DEF RotationInv, InFlightIsAnchored
  <1>4. Settled'
    BY <1>1, <1>3 DEF RotationInv, Settled, InFlightIsAnchored, InFlight, ClaimBehind,
       StaleFailedRetries, Alive
  <1>5. PoolBehind'
    BY <1>1, <1>2, ConstantsAssumption DEF PoolBehind
  <1>6. DuringPass'
    BY <1>1, <1>2 DEF DuringPass
  <1>7. ClaimBehind(c)
    BY DEF RotationInv
  <1>8. Alive(c) => /\ claims[c].state # "expired"
                    /\ claims[c].state = "failed" => ~claims[c].backoff
    BY <1>1, <1>7 DEF ClaimBehind, Eligible
  <1>9. RetryOpen'
    BY <1>1, <1>2 DEF RetryOpen, StartGate
  <1>10. StepKnows'
    BY <1>1, <1>2, <1>8, <1>9 DEF StepKnows, Cleaning, Alive
  <1> QED  BY <1>4, <1>5, <1>6, <1>10 DEF RotationInv, Settled

\* The writes that release the anchor, each at the end of a pass.
LEMMA Release ==
  ASSUME TypeOK, TypeOK', RotationInv, cur \in Claims, ~AtRest, PoolCurrent, EndPass,
         UNCHANGED <<poolCache, claims, claimCache, gate, governed>>,
         pool'.anchor = None,
         pool.cooling => pool'.cooling, pool.pausing => pool'.pausing,
         Released(cur, poolCache)
  PROVE  RotationInv'
  <1>1. ~InFlight(cur)
    BY DEF Released, InFlight, Alive
  <1>2. \A d \in Claims : ~InFlight(d)
    BY <1>1, ConstantsAssumption DEF RotationInv, InFlightIsAnchored, DuringPass
  <1>3. Settled'
    BY <1>2 DEF RotationInv, Settled, InFlightIsAnchored, InFlight, ClaimBehind,
       StaleFailedRetries, Alive
  <1>4. PoolBehind'
    BY ConstantsAssumption DEF RotationInv, PoolBehind, DuringPass, PoolCurrent,
       EndPass, Released, Alive, StartGate
  <1> QED  BY <1>3, <1>4, AtEnd DEF EndPass, RotationInv, Settled

LEMMA ReleaseSteps ==
  ASSUME TypeOK, TypeOK', RotationInv,
         RepairFailed \/ FailPool \/ ClearAnchor \/ CompleteOrAbort
  PROVE  RotationInv'
  <1>1. /\ cur \in Claims /\ ~AtRest /\ PoolCurrent /\ EndPass
        /\ UNCHANGED <<poolCache, claims, claimCache, gate, governed>>
    BY DEF TypeOK, RepairFailed, FailPool, ClearAnchor, CompleteOrAbort, AtRest,
       PatchPool, envVars
  <1>2. \A p \in PoolRec, b \in BOOLEAN :
          /\ Unanchored(p).anchor = None /\ Unanchored(p).cooling = p.cooling
          /\ Unanchored(p).pausing = p.pausing
          /\ [Unanchored(p) EXCEPT !.pausing = b].anchor = None
          /\ [Unanchored(p) EXCEPT !.pausing = b].pausing = b
          /\ [Unanchored(p) EXCEPT !.pausing = b].cooling = p.cooling
          /\ [Unanchored(p) EXCEPT !.cooling = b].anchor = None
          /\ [Unanchored(p) EXCEPT !.cooling = b].cooling = b
          /\ [Unanchored(p) EXCEPT !.cooling = b].pausing = p.pausing
    BY DEF PoolRec, Unanchored
  <1>3. pool \in PoolRec /\ pool.cooling \in BOOLEAN /\ pool.pausing \in BOOLEAN
        /\ pool.mirror \in BOOLEAN /\ claimCache[cur].paused \in BOOLEAN
    BY <1>1 DEF TypeOK, PoolRec, ClaimRec
  <1>4. CASE RepairFailed
    <2>1. pool' = [Unanchored(pool) EXCEPT
                     !.pausing = pool.pausing \/ claimCache[cur].paused]
      BY <1>2, <1>3, <1>4 DEF RepairFailed, PatchPool
    <2>2. Released(cur, held)
      BY <1>4 DEF RepairFailed, RotationInv, StepKnows
    <2>3. Released(cur, poolCache)
      BY <1>1, <2>2 DEF RotationInv, DuringPass, Released, StartGate, PoolCurrent
    <2>4. pool.pausing \/ claimCache[cur].paused \in BOOLEAN
      BY <1>3
    <2> QED  BY <1>1, <1>2, <1>3, <2>1, <2>3, <2>4, Release
  <1>5. CASE FailPool
    <2>1. pool' = [Unanchored(pool) EXCEPT !.pausing = TRUE]
      BY <1>5 DEF FailPool, PatchPool
    <2>2. Released(cur, poolCache)
      BY <1>5 DEF FailPool, RotationInv, StepKnows, Released
    <2> QED  BY <1>1, <1>2, <1>3, <2>1, <2>2, Release
  <1>6. CASE ClearAnchor
    <2>1. pool' = Unanchored(pool)
      BY <1>6 DEF ClearAnchor, PatchPool
    <2>2. Released(cur, poolCache)
      BY <1>6 DEF ClearAnchor, RotationInv, StepKnows, Released
    <2> QED  BY <1>1, <1>2, <1>3, <2>1, <2>2, Release
  <1>7. CASE CompleteOrAbort
    <2>1. pool' = [Unanchored(pool) EXCEPT !.cooling = pool.cooling \/ pool.mirror]
      BY <1>2, <1>3, <1>7 DEF CompleteOrAbort, PatchPool
    <2>2. Released(cur, poolCache)
      BY <1>7 DEF CompleteOrAbort, RotationInv, StepKnows, Released
    <2>3. (pool.cooling \/ pool.mirror) \in BOOLEAN
      BY <1>3
    <2> QED  BY <1>1, <1>2, <1>3, <2>1, <2>2, <2>3, Release
  <1> QED  BY <1>4, <1>5, <1>6, <1>7

LEMMA SyncPoolKeeps ==
  ASSUME TypeOK, TypeOK', RotationInv, SlowGates, SyncPool PROVE RotationInv'
  <1>1. /\ poolCache' = pool
        /\ UNCHANGED <<pool, claims, claimCache, gate, governed, pc, cur, why, held>>
        /\ poolCache.frozen # pool.frozen =>
             AtRest /\ \A c \in Claims : claimCache[c] = claims[c]
    BY DEF SyncPool, serverVars, envVars, passVars, ClaimCurrent
  <1>2. \A c \in Claims : StaleFailedRetries(c)'
    BY <1>1 DEF RotationInv, StaleFailedRetries, InFlight, RetryOpen
  <1>3. Settled'
    BY <1>1, <1>2 DEF RotationInv, Settled, InFlightIsAnchored, InFlight, ClaimBehind,
       Alive
  <1>4. PoolBehind'
    BY <1>1 DEF TypeOK, PoolRec, PoolBehind
  <1>5. DuringPass'
    BY <1>1 DEF RotationInv, DuringPass, AtRest, Released, Alive, StartGate
  <1>6. StepKnows'
    BY <1>1 DEF RotationInv, StepKnows, Cleaning, AtRest, Alive, RetryOpen, Released,
       StartGate
  <1> QED  BY <1>3, <1>4, <1>5, <1>6 DEF RotationInv, Settled

\* Steps of others on objects the invariant does not mention, and stuttering.
LEMMA Untouched ==
  ASSUME TypeOK', RotationInv, UNCHANGED objects, UNCHANGED passVars PROVE RotationInv'
  <1>1. Settled' /\ (pc # "sweep" => PoolBehind')
    BY SettledFrame, PoolFrame DEF RotationInv, Settled, passVars
  <1>2. PoolBehind'
    BY DEF RotationInv, objects, passVars, PoolBehind, Released, Alive, StartGate
  <1>3. DuringPass'
    BY DEF RotationInv, objects, passVars, DuringPass, AtRest, Released, Alive, StartGate
  <1>4. StepKnows'
    BY DEF RotationInv, objects, passVars, StepKnows, Cleaning, Alive, RetryOpen,
       Released, StartGate
  <1> QED  BY <1>1, <1>2, <1>3, <1>4 DEF RotationInv, Settled

-----------------------------------------------------------------------------
LEMMA RotationStep ==
  ASSUME SlowGates, ~GovernanceMayLapse, RotationInv, [Next]_vars PROVE RotationInv'
  <1>1. TypeOK
    BY DEF RotationInv
  <1>2. TypeOK'
    BY <1>1, TypeStep
  <1> USE <1>1, <1>2
  <1>3. CASE StartupSweep
    BY <1>3, StartupSweepKeeps
  <1>4. CASE BeginAdvance
    BY <1>4, BeginAdvanceKeeps
  <1>5. CASE BeginReap \/ ReapUngoverned \/ ReapVetoed \/ FlipGovernance
    BY <1>5 DEF BeginReap, ReapUngoverned, ReapVetoed, FlipGovernance, RotationInv,
       StepKnows
  <1>6. CASE \E c \in Claims : StartRotation(c)
    BY <1>6, StartRotationKeeps
  <1>7. CASE \/ AdvanceGone \/ AdvancePending \/ AdvanceDraining \/ AdvanceFailed
             \/ AdvanceExpired
    BY <1>7, AdvanceKeeps
  <1>8. CASE \/ AssertVetoed \/ VanishedAfterAssert \/ HoldWhileFrozen
             \/ CreatePlaceholder \/ SurgeNotReady \/ ExpirePendingRaced
             \/ ExpireFailedRaced \/ RetryVetoed \/ FailClaimGone \/ CompleteVetoed
             \/ AbandonPass
    BY <1>8, ReadOnlyEnds
  <1>9. CASE \/ FreezeOldNode \/ SurgeReady \/ FreezeHost \/ DeletePlaceholder
             \/ UnfreezeNodes
    BY <1>9, NodeStepsKeep
  <1>10. CASE ExpirePendingAlready \/ ExpireFailedAlready
    BY <1>10, ExpireAlreadyKeeps
  <1>11. CASE AssertPending
    BY <1>11, AssertPendingKeeps
  <1>12. CASE MarkDraining
    BY <1>12, MarkDrainingKeeps
  <1>13. CASE RetryFailed
    BY <1>13, RetryFailedKeeps
  <1>14. CASE ExpirePending \/ ExpireFailed
    BY <1>14, ExpireKeeps
  <1>15. CASE FailClaim
    BY <1>15, FailClaimKeeps
  <1>16. CASE DeleteClaim
    BY <1>16, DeleteClaimKeeps
  <1>17. CASE RecordDraining \/ RecordForced \/ ReassertMirror
    BY <1>17, RecordKeeps
  <1>18. CASE RepairFailed \/ FailPool \/ ClearAnchor \/ CompleteOrAbort
    BY <1>18, ReleaseSteps
  <1>19. CASE Crash
    BY <1>19, CrashKeeps
  <1>20. ASSUME NEW c \in Claims,
                TimeoutElapses(c) \/ SyncClaim(c) \/ ForceExpire(c) \/ Finalize(c)
         PROVE  RotationInv'
    BY <1>20, TimeoutElapsesKeeps, SyncClaimKeeps, ForceExpireKeeps, FinalizeKeeps
  <1>21. CASE \/ \E c \in Claims : BackoffElapses(c)
              \/ PauseElapses \/ CooldownElapses \/ FlipGate
    BY <1>21, ClockKeeps
  <1>22. CASE SyncPool
    BY <1>22, SyncPoolKeeps
  <1>23. CASE FlipFreeze
    BY <1>23, FlipFreezeKeeps
  <1>24. ASSUME NEW c \in Claims, SyncNodes(c) \/ PlaceholderMoves(c)
         PROVE  RotationInv'
    <2>1. UNCHANGED objects /\ UNCHANGED passVars
      BY <1>24 DEF SyncNodes, PlaceholderMoves, objects, serverVars, cacheVars, envVars
    <2> QED  BY <2>1, Untouched
  <1>25. CASE UNCHANGED vars
    <2>1. UNCHANGED objects /\ UNCHANGED passVars
      BY <1>25 DEF vars, objects, passVars
    <2> QED  BY <2>1, Untouched
  <1> QED
    BY <1>3, <1>4, <1>5, <1>6, <1>7, <1>8, <1>9, <1>10, <1>11, <1>12, <1>13, <1>14,
       <1>15, <1>16, <1>17, <1>18, <1>19, <1>20, <1>21, <1>22, <1>23, <1>24, <1>25
       DEF Next, Controller, Faults, Clock, Watches, Environment

\* The invariant the serial gate rests on holds in every reachable state: what a stale
\* pool or claim still says, and what each API call of a pass may take for granted.
THEOREM RotationInvHolds ==
  ASSUME SlowGates, ~GovernanceMayLapse PROVE Spec => []RotationInv
  <1>1. Init => RotationInv
    BY RotationInit
  <1>2. RotationInv /\ [Next]_vars => RotationInv'
    BY RotationStep
  <1> QED  BY <1>1, <1>2, PTL DEF Spec

\* While one policy governs the pool and the gates move only at rest, whatever stale
\* view a pass was dispatched on and wherever the one before it stopped, a claim marked
\* pending or draining is the anchored one: never two rotations on a pool.
THEOREM SerialGate ==
  ASSUME SlowGates, ~GovernanceMayLapse PROVE Spec => []InFlightIsAnchored
  <1>1. RotationInv => InFlightIsAnchored
    BY DEF RotationInv
  <1> QED  BY <1>1, RotationInvHolds, PTL

=============================================================================
