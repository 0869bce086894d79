------------------------------ MODULE Rotation ------------------------------
(***************************************************************************)
(* The rotation state machine of one NodePool: the anchor on the NodePool, *)
(* the progress annotations on its old NodeClaims, the reconcile pass that *)
(* drives them one API call at a time, and everything that may happen      *)
(* between two of those calls: the informer caches lag, an API call fails, *)
(* the controller stops, Karpenter force-expires or finalizes a claim, the *)
(* scheduler binds or preempts the placeholder, an operator freezes the    *)
(* pool, a policy stops governing it.                                      *)
(*                                                                         *)
(* Source: internal/controller/rotation_controller.go and sweep.go.        *)
(***************************************************************************)
EXTENDS Naturals

CONSTANTS
    Claims,              \* the pool's old NodeClaims, all past their threshold
    None,                \* no anchor, no claim at hand
    MaxFaults,           \* bound: API errors and controller stops together
    FallbackEnabled,     \* surge.forcefulFallback may apply to a candidate
    GovernanceMayLapse,  \* policies may stop matching, or conflict
    NodeLag,             \* the Node cache may lag the API server
    SlowGates,           \* the start gates change only at rest (see Quiet)
    PauseWithinBackoff   \* surge.failurePause <= surge.retryBackoff

ASSUME ConstantsAssumption ==
    /\ None \notin Claims
    /\ {FallbackEnabled, GovernanceMayLapse, NodeLag, SlowGates,
        PauseWithinBackoff} \subseteq BOOLEAN

VARIABLES
    pool,       \* the NodePool's rotation annotations at the API server
    poolCache,  \* ... as the informer cache last saw them
    claims,     \* the NodeClaims at the API server
    claimCache, \* ... as the informer cache last saw them
    marked,     \* per claim c, the nodes carrying surge-for=c: its old node and
                \* the surge host its placeholder bound to
    markSeen,   \* ... as the Node cache last saw them
    placeholder,\* per claim, its placeholder Pod
    gate,       \* in window, headroom, not static, no fatal finding: all hold
    governed,   \* exactly one valid policy governs the pool
    pc,         \* the API call the reconcile pass is about to make
    cur,        \* the claim the pass was dispatched on
    why,        \* what the shared clean-up of a pass is for
    held,       \* the NodePool object the pass was handed
    told,       \* per claim, the outcomes announced for it
    deleted,    \* per claim, the controller has issued its delete
    missed,     \* per claim, the marks its last finished clean-up was not shown
    faults      \* API errors and stops so far

serverVars == <<pool, claims, marked, placeholder>>
cacheVars  == <<poolCache, claimCache, markSeen>>
passVars   == <<pc, cur, why, held>>
envVars    == <<gate, governed>>
ghostVars  == <<told, deleted, missed>>
vars == <<pool, poolCache, claims, claimCache, marked, markSeen, placeholder,
          gate, governed, pc, cur, why, held, told, deleted, missed, faults>>

(***************************************************************************)
(* What the objects hold.  Time is kept as what a timestamp says when it   *)
(* is compared: cooling and pausing are the start gates A and B still      *)
(* closed, started is the readyTimeout running or over, backoff and paused *)
(* are failed-at still within the effective backoff, the failure pause.    *)
(***************************************************************************)
ClaimState == {"none", "pending", "draining", "failed", "expired"}

PoolRec == [anchor: Claims \cup {None},   \* active-rotation
            mirror: BOOLEAN,              \* active-rotation-state = draining
            forced: BOOLEAN,              \* rotation-mode = forceful-fallback
            cooling: BOOLEAN,             \* last-rotation-at within cooldownAfter
            pausing: BOOLEAN,             \* last-failure-at within failurePause
            frozen: BOOLEAN]              \* freeze lies in the future

ClaimRec == [life: {"live", "deleting", "gone"},
             state: ClaimState,
             started: {"unset", "running", "over"},
             backoff: BOOLEAN,
             paused: BOOLEAN]

FreshClaim == [life |-> "live", state |-> "none", started |-> "unset",
               backoff |-> FALSE, paused |-> FALSE]
GoneClaim  == [FreshClaim EXCEPT !.life = "gone"]

NoPool == [anchor |-> None, mirror |-> FALSE, forced |-> FALSE,
           cooling |-> FALSE, pausing |-> FALSE, frozen |-> FALSE]

Unanchored(p) == [p EXCEPT !.anchor = None, !.mirror = FALSE, !.forced = FALSE]

PassSteps == {"sweep", "idle", "advance", "assert", "freeze", "escalate",
              "freezeHost", "record", "force", "drain", "delete", "redrain",
              "expire", "expireFailed", "retry", "repair", "clean", "unfreeze",
              "failClaim", "failPool", "clear", "complete", "reap"}

(***************************************************************************)
(* The patch loops read through the cache and write under the read's       *)
(* resourceVersion: a write lands only when the cached copy is current,    *)
(* while a veto is decided from the cached copy alone.                     *)
(***************************************************************************)
PoolCurrent     == poolCache = pool
ClaimCurrent(c) == claimCache[c] = claims[c]
MarkCurrent(c)  == markSeen[c] = marked[c]
CachesCurrent   == PoolCurrent /\ \A c \in Claims : ClaimCurrent(c)

PatchPool(p)     == PoolCurrent /\ pool' = p /\ UNCHANGED poolCache
PatchClaim(c, r) == /\ ClaimCurrent(c)
                    /\ claims' = [claims EXCEPT ![c] = r]
                    /\ UNCHANGED claimCache
Mark(c, ns)      == /\ marked' = [marked EXCEPT ![c] = ns]
                    /\ markSeen' = IF NodeLag THEN markSeen ELSE marked'

AtRest    == pc \in {"idle", "sweep"}
Exists(c) == claimCache[c].life # "gone"

Goto(step) == pc' = step /\ UNCHANGED <<cur, why, held>>
EndPass    == pc' = "idle" /\ cur' = None /\ why' = "none" /\ held' = NoPool
CleanFor(reason) == pc' = "clean" /\ why' = reason /\ UNCHANGED <<cur, held>>

(***************************************************************************)
(* decide.StartGate, with the gates the controller applies next to it      *)
(* (static capacity, fatal feasibility, headroom) folded into gate.        *)
(***************************************************************************)
StartGate(p) == gate /\ ~p.frozen /\ ~p.cooling /\ ~p.pausing

\* selection: which claims may be picked, by state and by the cached view.
Eligible(r) == /\ r.life = "live"
               /\ r.state = "none" \/ (r.state = "failed" /\ ~r.backoff)

Init ==
    /\ pool = NoPool
    /\ poolCache = pool
    /\ claims = [c \in Claims |-> FreshClaim]
    /\ claimCache = claims
    /\ marked = [c \in Claims |-> {}]
    /\ markSeen = marked
    /\ placeholder = [c \in Claims |-> "none"]
    /\ gate = TRUE
    /\ governed = TRUE
    /\ pc = "sweep" /\ cur = None /\ why = "none" /\ held = NoPool
    /\ told = [c \in Claims |-> [success |-> 0, expired |-> 0, vanished |-> 0]]
    /\ deleted = [c \in Claims |-> FALSE]
    /\ missed = [c \in Claims |-> {}]
    /\ faults = 0

-----------------------------------------------------------------------------
(***************************************************************************)
(* The start of a pass: the sweep of a new process, then the dispatch.     *)
(***************************************************************************)

\* Best effort: each leg may fail, item by item, and is not retried.  Nothing is
\* done when the first leg, the torn-anchor repair, fails.
StartupSweep ==
    /\ pc = "sweep"
    /\ \E ps, ns, cs \in SUBSET Claims :
        /\ poolCache.anchor \notin ps \cup ns \cup cs
        /\ LET torn == poolCache.anchor = None /\ poolCache.mirror IN
           IF torn THEN PatchPool([pool EXCEPT !.mirror = FALSE, !.forced = FALSE])
                   ELSE UNCHANGED <<pool, poolCache>>
        /\ placeholder' = [c \in Claims |->
                             IF c \in ps THEN "none" ELSE placeholder[c]]
        /\ marked' = [c \in Claims |-> IF c \in ns THEN {} ELSE marked[c]]
        /\ markSeen' = IF NodeLag THEN markSeen ELSE marked'
        /\ \A c \in cs : /\ ClaimCurrent(c)
                         /\ claims[c].state \in {"pending", "draining"}
                         /\ claims[c].life # "gone"
        /\ claims' = [c \in Claims |->
                        IF c \in cs
                        THEN [claims[c] EXCEPT !.state = "failed",
                                !.started = "unset", !.backoff = TRUE,
                                !.paused = TRUE]
                        ELSE claims[c]]
    /\ Goto("idle")
    /\ UNCHANGED <<claimCache, envVars, ghostVars, faults>>

BeginAdvance ==
    /\ pc = "idle" /\ governed /\ poolCache.anchor # None
    /\ pc' = "advance" /\ cur' = poolCache.anchor /\ held' = poolCache /\ UNCHANGED why
    /\ UNCHANGED <<serverVars, cacheVars, envVars, ghostVars, faults>>

\* Mutant: the anchor written without the resourceVersion the pass holds.
StartRotationUnlocked(c) ==
    /\ pc = "idle" /\ governed /\ poolCache.anchor = None
    /\ StartGate(poolCache) /\ Eligible(claimCache[c])
    /\ pool' = [pool EXCEPT !.anchor = c] /\ UNCHANGED poolCache
    /\ cur' = c /\ held' = pool' /\ UNCHANGED why
    /\ \/ pc' = "advance"
       \/ FallbackEnabled /\ pc' = "force"
    /\ UNCHANGED <<claims, claimCache, marked, markSeen, placeholder, envVars,
                   ghostVars, faults>>

\* The anchor is written with the pool object the pass holds, before any other
\* side effect: a conflict means another write came first, and the pass ends.
StartRotation(c) ==
    /\ pc = "idle" /\ governed /\ poolCache.anchor = None
    /\ StartGate(poolCache) /\ Eligible(claimCache[c])
    /\ PatchPool([pool EXCEPT !.anchor = c])
    /\ cur' = c /\ held' = pool' /\ UNCHANGED why
    /\ \/ pc' = "advance"
       \/ FallbackEnabled /\ pc' = "force"
    /\ UNCHANGED <<claims, claimCache, marked, markSeen, placeholder, envVars,
                   ghostVars, faults>>

\* Mutants: reapUngovernedRotation without its early return; the anchor cleared
\* before the clean-up it is the only way back to.
BeginReapUnanchored ==
    /\ pc = "idle" /\ ~governed
    /\ pc' = "clean" /\ cur' = poolCache.anchor /\ why' = "reap"
    /\ held' = poolCache
    /\ UNCHANGED <<serverVars, cacheVars, envVars, ghostVars, faults>>

BeginReapAtTheClear ==
    /\ pc = "idle" /\ ~governed /\ poolCache.anchor # None
    /\ pc' = "reap" /\ cur' = poolCache.anchor /\ why' = "reap"
    /\ held' = poolCache
    /\ UNCHANGED <<serverVars, cacheVars, envVars, ghostVars, faults>>

BeginReap ==
    /\ pc = "idle" /\ ~governed /\ poolCache.anchor # None
    /\ pc' = "clean" /\ cur' = poolCache.anchor /\ why' = "reap"
    /\ held' = poolCache
    /\ UNCHANGED <<serverVars, cacheVars, envVars, ghostVars, faults>>

AdvanceGone ==
    /\ pc = "advance" /\ ~Exists(cur)
    /\ CleanFor("complete")
    /\ UNCHANGED <<serverVars, cacheVars, envVars, ghostVars, faults>>

AdvancePending ==
    /\ pc = "advance" /\ Exists(cur)
    /\ claimCache[cur].state \in {"none", "pending"}
    /\ Goto(IF claimCache[cur].life = "deleting" THEN "expire" ELSE "assert")
    /\ UNCHANGED <<serverVars, cacheVars, envVars, ghostVars, faults>>

AdvanceDraining ==
    /\ pc = "advance" /\ Exists(cur) /\ claimCache[cur].state = "draining"
    /\ \/ ~held.mirror /\ Goto("redrain")
       \/ held.mirror /\ claimCache[cur].life = "live" /\ Goto("delete")
       \/ held.mirror /\ claimCache[cur].life = "deleting" /\ EndPass
    /\ UNCHANGED <<serverVars, cacheVars, envVars, ghostVars, faults>>

\* A retry is a new attempt: it must pass every gate a fresh start passes.
AdvanceFailed ==
    /\ pc = "advance" /\ Exists(cur) /\ claimCache[cur].state = "failed"
    /\ LET due == StartGate(held) /\ ~claimCache[cur].backoff IN
       Goto(IF claimCache[cur].life = "deleting" THEN "expireFailed"
            ELSE IF due THEN "retry" ELSE "repair")
    /\ UNCHANGED <<serverVars, cacheVars, envVars, ghostVars, faults>>

AdvanceExpired ==
    /\ pc = "advance" /\ Exists(cur) /\ claimCache[cur].state = "expired"
    /\ CleanFor("expire")
    /\ UNCHANGED <<serverVars, cacheVars, envVars, ghostVars, faults>>

-----------------------------------------------------------------------------
(***************************************************************************)
(* pending: the entry assertion, the markers, the placeholder, and the     *)
(* transition to draining once the surge host is ready.                    *)
(***************************************************************************)

\* Mutants: the assertion without its veto; started-at stamped anew by every pass.
AssertPendingUnconditional ==
    /\ pc = "assert" /\ Exists(cur)
    /\ PatchClaim(cur, [claims[cur] EXCEPT !.state = "pending",
                          !.started = IF @ = "unset" THEN "running" ELSE @])
    /\ IF claims'[cur].started = "over" THEN CleanFor("fail") ELSE Goto("freeze")
    /\ UNCHANGED <<pool, poolCache, marked, markSeen, placeholder, envVars,
                   ghostVars, faults>>

AssertPendingRestamped ==
    /\ pc = "assert"
    /\ Exists(cur) /\ claimCache[cur].state \in {"none", "pending"}
    /\ PatchClaim(cur, [claims[cur] EXCEPT !.state = "pending",
                                           !.started = "running"])
    /\ Goto("freeze")
    /\ UNCHANGED <<pool, poolCache, marked, markSeen, placeholder, envVars,
                   ghostVars, faults>>

\* State and write-once started-at in one conditional write; the deadline is
\* checked on the started-at this write carried.
AssertPending ==
    /\ pc = "assert"
    /\ Exists(cur) /\ claimCache[cur].state \in {"none", "pending"}
    /\ PatchClaim(cur, [claims[cur] EXCEPT !.state = "pending",
                          !.started = IF @ = "unset" THEN "running" ELSE @])
    /\ IF claims'[cur].started = "over" THEN CleanFor("fail") ELSE Goto("freeze")
    /\ UNCHANGED <<pool, poolCache, marked, markSeen, placeholder, envVars,
                   ghostVars, faults>>

\* Nothing was written, so the pass owns nothing.
AssertVetoed ==
    /\ pc = "assert"
    /\ ~Exists(cur) \/ claimCache[cur].state \notin {"none", "pending"}
    /\ EndPass
    /\ UNCHANGED <<serverVars, cacheVars, envVars, ghostVars, faults>>

\* The re-read after the assertion may find the claim finalized away.
VanishedAfterAssert ==
    /\ pc = "freeze" /\ ~Exists(cur)
    /\ EndPass
    /\ UNCHANGED <<serverVars, cacheVars, envVars, ghostVars, faults>>

\* freezeNode and cordonNode on the candidate's node; a node gone is a no-op.
FreezeOldNode ==
    /\ pc = "freeze"
    /\ \/ "old" \in markSeen[cur] /\ UNCHANGED <<marked, markSeen>>
       \/ claims[cur].life = "gone" /\ UNCHANGED <<marked, markSeen>>
       \/ /\ "old" \notin markSeen[cur] \cup marked[cur]
          /\ claims[cur].life # "gone"
          /\ Mark(cur, marked[cur] \cup {"old"})
    /\ Goto("escalate")
    /\ UNCHANGED <<pool, poolCache, claims, claimCache, placeholder, envVars,
                   ghostVars, faults>>

\* A freeze holds the escalation, and only it.
HoldWhileFrozen ==
    /\ pc = "escalate" /\ held.frozen
    /\ EndPass
    /\ UNCHANGED <<serverVars, cacheVars, envVars, ghostVars, faults>>

CreatePlaceholder ==
    /\ pc = "escalate" /\ ~held.frozen /\ placeholder[cur] = "none"
    /\ placeholder' = [placeholder EXCEPT ![cur] = "waiting"]
    /\ EndPass
    /\ UNCHANGED <<pool, claims, marked, cacheVars, envVars, ghostVars, faults>>

SurgeNotReady ==
    /\ pc = "escalate" /\ ~held.frozen
    /\ placeholder[cur] \in {"waiting", "terminating"}
    /\ EndPass
    /\ UNCHANGED <<serverVars, cacheVars, envVars, ghostVars, faults>>

SurgeReady ==
    /\ pc = "escalate" /\ ~held.frozen /\ placeholder[cur] = "ready"
    /\ Goto("freezeHost")
    /\ UNCHANGED <<serverVars, cacheVars, envVars, ghostVars, faults>>

\* Mutant: the claim's draining write, and the delete, without the pool's record.
FreezeHostThenDrain ==
    /\ pc = "freezeHost"
    /\ \/ "host" \in markSeen[cur] /\ UNCHANGED <<marked, markSeen>>
       \/ /\ "host" \notin markSeen[cur] \cup marked[cur]
          /\ Mark(cur, marked[cur] \cup {"host"})
    /\ Goto("drain")
    /\ UNCHANGED <<pool, poolCache, claims, claimCache, placeholder, envVars,
                   ghostVars, faults>>

FreezeHost ==
    /\ pc = "freezeHost"
    /\ \/ "host" \in markSeen[cur] /\ UNCHANGED <<marked, markSeen>>
       \/ /\ "host" \notin markSeen[cur] \cup marked[cur]
          /\ Mark(cur, marked[cur] \cup {"host"})
    /\ Goto("record")
    /\ UNCHANGED <<pool, poolCache, claims, claimCache, placeholder, envVars,
                   ghostVars, faults>>

\* The durable phase record on the pool, before the delete.
RecordDraining ==
    /\ pc = "record"
    /\ PatchPool([pool EXCEPT !.mirror = TRUE])
    /\ Goto("drain")
    /\ UNCHANGED <<claims, claimCache, marked, markSeen, placeholder, envVars,
                   ghostVars, faults>>

\* The surge-less start records phase and mode in one write.
RecordForced ==
    /\ pc = "force"
    /\ PatchPool([pool EXCEPT !.mirror = TRUE, !.forced = TRUE])
    /\ Goto("drain")
    /\ UNCHANGED <<claims, claimCache, marked, markSeen, placeholder, envVars,
                   ghostVars, faults>>

\* Unconditional, as in the code: a vanished claim is a no-op and the pass goes on.
MarkDraining ==
    /\ pc = "drain"
    /\ \/ Exists(cur) /\ PatchClaim(cur, [claims[cur] EXCEPT !.state = "draining"])
       \/ ~Exists(cur) /\ UNCHANGED <<claims, claimCache>>
    /\ Goto("delete")
    /\ UNCHANGED <<pool, poolCache, marked, markSeen, placeholder, envVars,
                   ghostVars, faults>>

\* Deletes by name at the API server; a claim already gone or deleting is fine.
DeleteClaim ==
    /\ pc = "delete"
    /\ IF claims[cur].life = "live"
       THEN /\ claims' = [claims EXCEPT ![cur].life = "deleting"]
            /\ deleted' = [deleted EXCEPT ![cur] = TRUE]
       ELSE UNCHANGED <<claims, deleted>>
    /\ EndPass
    /\ UNCHANGED <<pool, marked, placeholder, cacheVars, envVars, told, missed, faults>>

\* draining: the mirror is re-asserted, the delete re-issued.
ReassertMirror ==
    /\ pc = "redrain"
    /\ PatchPool([pool EXCEPT !.mirror = TRUE])
    /\ IF claimCache[cur].life = "live" THEN Goto("delete") ELSE EndPass
    /\ UNCHANGED <<claims, claimCache, marked, markSeen, placeholder, envVars,
                   ghostVars, faults>>

-----------------------------------------------------------------------------
(***************************************************************************)
(* expired and failed: the conditional entries, the retry, the repair.     *)
(***************************************************************************)

Announce(c, outcome) == told' = [told EXCEPT ![c][outcome] = @ + 1]

\* markExpired as abortPendingExpiry calls it: before any clean-up, and only from
\* the states its handler is dispatched on.
ExpirePending ==
    /\ pc = "expire"
    /\ Exists(cur) /\ claimCache[cur].state \in {"none", "pending"}
    /\ PatchClaim(cur, [claims[cur] EXCEPT !.state = "expired",
                                           !.started = "unset"])
    /\ Announce(cur, "expired")
    /\ CleanFor("expire")
    /\ UNCHANGED <<pool, poolCache, marked, markSeen, placeholder, envVars,
                   deleted, missed, faults>>

ExpirePendingAlready ==
    /\ pc = "expire" /\ Exists(cur) /\ claimCache[cur].state = "expired"
    /\ CleanFor("expire")
    /\ UNCHANGED <<serverVars, cacheVars, envVars, ghostVars, faults>>

\* Mutant: a pass that lost the race cleans up all the same.
ExpirePendingRacedCleansUp ==
    /\ pc = "expire"
    /\ ~Exists(cur) \/ claimCache[cur].state \in {"draining", "failed"}
    /\ CleanFor("expire")
    /\ UNCHANGED <<serverVars, cacheVars, envVars, ghostVars, faults>>

ExpirePendingRaced ==
    /\ pc = "expire"
    /\ ~Exists(cur) \/ claimCache[cur].state \in {"draining", "failed"}
    /\ EndPass
    /\ UNCHANGED <<serverVars, cacheVars, envVars, ghostVars, faults>>

ExpireFailed ==
    /\ pc = "expireFailed" /\ Exists(cur) /\ claimCache[cur].state = "failed"
    /\ PatchClaim(cur, [claims[cur] EXCEPT !.state = "expired"])
    /\ Announce(cur, "expired")
    /\ Goto("clear")
    /\ UNCHANGED <<pool, poolCache, marked, markSeen, placeholder, envVars,
                   deleted, missed, faults>>

ExpireFailedAlready ==
    /\ pc = "expireFailed" /\ Exists(cur) /\ claimCache[cur].state = "expired"
    /\ Goto("clear")
    /\ UNCHANGED <<serverVars, cacheVars, envVars, ghostVars, faults>>

ExpireFailedRaced ==
    /\ pc = "expireFailed"
    /\ ~Exists(cur) \/ claimCache[cur].state \notin {"failed", "expired"}
    /\ EndPass
    /\ UNCHANGED <<serverVars, cacheVars, envVars, ghostVars, faults>>

RetryFailed ==
    /\ pc = "retry" /\ Exists(cur) /\ claimCache[cur].state = "failed"
    /\ PatchClaim(cur, [claims[cur] EXCEPT !.state = "pending"])
    /\ Goto("advance")
    /\ UNCHANGED <<pool, poolCache, marked, markSeen, placeholder, envVars,
                   ghostVars, faults>>

RetryVetoed ==
    /\ pc = "retry"
    /\ ~Exists(cur) \/ claimCache[cur].state # "failed"
    /\ EndPass
    /\ UNCHANGED <<serverVars, cacheVars, envVars, ghostVars, faults>>

\* Mutant: the repair releases the gate and leaves last-failure-at as it is.
RepairFailedUnstamped ==
    /\ pc = "repair"
    /\ PatchPool(Unanchored(pool))
    /\ EndPass
    /\ UNCHANGED <<claims, claimCache, marked, markSeen, placeholder, envVars,
                   ghostVars, faults>>

\* The torn failure write: last-failure-at becomes the later of the pool's and the
\* claim's own stamp, and the gate is released in the same write.
RepairFailed ==
    /\ pc = "repair"
    /\ PatchPool([Unanchored(pool) EXCEPT
                    !.pausing = @ \/ claimCache[cur].paused])
    /\ EndPass
    /\ UNCHANGED <<claims, claimCache, marked, markSeen, placeholder, envVars,
                   ghostVars, faults>>

-----------------------------------------------------------------------------
(***************************************************************************)
(* The clean-up four handlers share, and the write each ends with.         *)
(***************************************************************************)

DeletePlaceholder ==
    /\ pc = "clean"
    /\ placeholder' = [placeholder EXCEPT ![cur] =
                         IF @ = "ready" THEN "terminating"
                         ELSE IF @ = "waiting" THEN "none" ELSE @]
    /\ Goto("unfreeze")
    /\ UNCHANGED <<pool, claims, marked, cacheVars, envVars, ghostVars, faults>>

AfterClean == CASE why = "fail"     -> "failClaim"
                [] why = "expire"   -> "clear"
                [] why = "complete" -> "complete"
                [] OTHER            -> "reap"

\* Mutant: the surge host is forgotten, only the old node is unfrozen.
UnfreezeOldNodeOnly ==
    /\ pc = "unfreeze"
    /\ Mark(cur, marked[cur] \ {"old"}) /\ Goto(AfterClean)
    /\ missed' = [missed EXCEPT ![cur] = marked[cur] \ markSeen[cur]]
    /\ UNCHANGED <<pool, poolCache, claims, claimCache, placeholder, envVars,
                   told, deleted, faults>>

\* The nodes are the ones the cached list shows marked.  A failed node write ends
\* the pass with the nodes before it already unfrozen.
UnfreezeNodes ==
    /\ pc = "unfreeze"
    /\ \E ns \in SUBSET (markSeen[cur] \cap marked[cur]) :
        /\ Mark(cur, marked[cur] \ ns)
        /\ \/ /\ ns = markSeen[cur] /\ Goto(AfterClean)
              /\ missed' = [missed EXCEPT ![cur] = marked[cur] \ markSeen[cur]]
              /\ UNCHANGED faults
           \/ /\ ns # markSeen[cur] /\ faults < MaxFaults
              /\ EndPass /\ faults' = faults + 1 /\ UNCHANGED missed
    /\ UNCHANGED <<pool, poolCache, claims, claimCache, placeholder, envVars,
                   told, deleted>>

\* The rollback's claim write: failed and failed-at, in one update.
FailClaim ==
    /\ pc = "failClaim" /\ Exists(cur)
    /\ PatchClaim(cur, [claims[cur] EXCEPT !.state = "failed",
                          !.started = "unset", !.backoff = TRUE, !.paused = TRUE])
    /\ Goto("failPool")
    /\ UNCHANGED <<pool, poolCache, marked, markSeen, placeholder, envVars,
                   ghostVars, faults>>

\* The claim finalized away mid-rollback: no attempt is recorded, the anchor stays.
FailClaimGone ==
    /\ pc = "failClaim" /\ ~Exists(cur)
    /\ EndPass
    /\ UNCHANGED <<serverVars, cacheVars, envVars, ghostVars, faults>>

FailPool ==
    /\ pc = "failPool"
    /\ PatchPool([Unanchored(pool) EXCEPT !.pausing = TRUE])
    /\ EndPass
    /\ UNCHANGED <<claims, claimCache, marked, markSeen, placeholder, envVars,
                   ghostVars, faults>>

ClearAnchor ==
    /\ pc = "clear"
    /\ PatchPool(Unanchored(pool))
    /\ EndPass
    /\ UNCHANGED <<claims, claimCache, marked, markSeen, placeholder, envVars,
                   ghostVars, faults>>

\* One write decides the outcome, releases the anchor and elects its announcer.
CompleteOrAbort ==
    /\ pc = "complete" /\ poolCache.anchor = cur
    /\ PatchPool([Unanchored(pool) EXCEPT !.cooling = @ \/ pool.mirror])
    /\ Announce(cur, IF pool.mirror THEN "success" ELSE "vanished")
    /\ EndPass
    /\ UNCHANGED <<claims, claimCache, marked, markSeen, placeholder, envVars,
                   deleted, missed, faults>>

CompleteVetoed ==
    /\ pc = "complete" /\ poolCache.anchor # cur
    /\ EndPass
    /\ UNCHANGED <<serverVars, cacheVars, envVars, ghostVars, faults>>

\* The reap leaves the claim's own annotations as they are.
ReapUngoverned ==
    /\ pc = "reap" /\ poolCache.anchor = cur
    /\ PatchPool(Unanchored(pool))
    /\ EndPass
    /\ UNCHANGED <<claims, claimCache, marked, markSeen, placeholder, envVars,
                   ghostVars, faults>>

ReapVetoed ==
    /\ pc = "reap" /\ poolCache.anchor # cur
    /\ EndPass
    /\ UNCHANGED <<serverVars, cacheVars, envVars, ghostVars, faults>>

-----------------------------------------------------------------------------
(***************************************************************************)
(* A pass that ends early.  An API error costs one of the faults; a patch  *)
(* loop whose cached copy stays behind runs out of conflict retries.       *)
(***************************************************************************)
PoolSteps  == {"record", "force", "redrain", "repair", "failPool", "clear",
               "complete", "reap"}
ClaimSteps == {"assert", "drain", "expire", "expireFailed", "retry", "failClaim"}
NodeSteps  == {"freeze", "freezeHost", "unfreeze"}

Conflicted == \/ pc \in PoolSteps /\ ~PoolCurrent
              \/ pc \in ClaimSteps /\ ~ClaimCurrent(cur)
              \/ pc \in NodeSteps /\ ~MarkCurrent(cur)

AbandonPass ==
    /\ ~AtRest
    /\ \/ Conflicted /\ UNCHANGED faults
       \/ faults < MaxFaults /\ faults' = faults + 1
    /\ EndPass
    /\ UNCHANGED <<serverVars, cacheVars, envVars, ghostVars>>

\* The process stops between two API calls; the next one lists everything afresh
\* and sweeps before its first pass.
Crash ==
    /\ faults < MaxFaults /\ faults' = faults + 1
    /\ pc' = "sweep" /\ cur' = None /\ why' = "none" /\ held' = NoPool
    /\ poolCache' = pool /\ claimCache' = claims /\ markSeen' = marked
    /\ UNCHANGED <<serverVars, envVars, ghostVars>>

-----------------------------------------------------------------------------
(***************************************************************************)
(* Everyone else: the watches, the clock, Karpenter, the scheduler, the    *)
(* operator.  Under SlowGates the start gates' answer changes only at rest: *)
(* between passes, with no write still on its way to a cache.              *)
(***************************************************************************)
Quiet == SlowGates => CachesCurrent /\ AtRest

SyncPool ==
    /\ ~PoolCurrent
    /\ SlowGates /\ poolCache.frozen # pool.frozen =>
         AtRest /\ \A c \in Claims : ClaimCurrent(c)
    /\ poolCache' = pool
    /\ UNCHANGED <<serverVars, claimCache, markSeen, passVars, envVars, ghostVars,
                   faults>>

SyncClaim(c) ==
    /\ ~ClaimCurrent(c)
    /\ claimCache' = [claimCache EXCEPT ![c] = claims[c]]
    /\ UNCHANGED <<serverVars, poolCache, markSeen, passVars, envVars, ghostVars,
                   faults>>

SyncNodes(c) ==
    /\ ~MarkCurrent(c)
    /\ markSeen' = [markSeen EXCEPT ![c] = marked[c]]
    /\ UNCHANGED <<serverVars, poolCache, claimCache, passVars, envVars, ghostVars,
                   faults>>

\* What the passing of time does to a timestamp it does to every copy of it.
TimeoutElapses(c) ==
    LET over(r) == IF r.started = "running" THEN [r EXCEPT !.started = "over"] ELSE r
    IN  /\ claims[c].started = "running"
        /\ claims' = [claims EXCEPT ![c] = over(@)]
        /\ claimCache' = [claimCache EXCEPT ![c] = over(@)]
        /\ UNCHANGED <<pool, marked, placeholder, poolCache, markSeen, passVars,
                       envVars, ghostVars, faults>>

BackoffElapses(c) ==
    /\ Quiet
    /\ claims[c].backoff /\ (PauseWithinBackoff => ~claims[c].paused)
    /\ claims' = [claims EXCEPT ![c].backoff = FALSE]
    /\ claimCache' = [claimCache EXCEPT ![c].backoff = FALSE]
    /\ UNCHANGED <<pool, marked, placeholder, poolCache, markSeen, passVars,
                   envVars, ghostVars, faults>>

\* failurePause is minutes: no pass that began before the failure was recorded, and
\* no lag of the pool cache, lasts until the pause runs out.
PauseElapses ==
    /\ Quiet /\ pc # "failPool"
    /\ pool.pausing => poolCache.pausing /\ (AtRest \/ held.pausing)
    /\ pool.pausing \/ \E c \in Claims : claims[c].paused
    /\ pool' = [pool EXCEPT !.pausing = FALSE]
    /\ poolCache' = [poolCache EXCEPT !.pausing = FALSE]
    /\ claims' = [c \in Claims |-> [claims[c] EXCEPT !.paused = FALSE]]
    /\ claimCache' = [c \in Claims |-> [claimCache[c] EXCEPT !.paused = FALSE]]
    /\ UNCHANGED <<marked, placeholder, markSeen, passVars, envVars, ghostVars,
                   faults>>

CooldownElapses ==
    /\ Quiet /\ pool.cooling
    /\ pool' = [pool EXCEPT !.cooling = FALSE]
    /\ poolCache' = [poolCache EXCEPT !.cooling = FALSE]
    /\ UNCHANGED <<claims, marked, placeholder, claimCache, markSeen, passVars,
                   envVars, ghostVars, faults>>

FlipGate ==
    /\ Quiet /\ gate' = ~gate
    /\ UNCHANGED <<serverVars, cacheVars, passVars, governed, ghostVars, faults>>

FlipFreeze ==
    /\ pool' = [pool EXCEPT !.frozen = ~@]
    /\ UNCHANGED <<claims, marked, placeholder, cacheVars, passVars, envVars,
                   ghostVars, faults>>

FlipGovernance ==
    /\ GovernanceMayLapse /\ Quiet /\ governed' = ~governed
    /\ UNCHANGED <<serverVars, cacheVars, passVars, gate, ghostVars, faults>>

\* Karpenter's Forceful Expiration, or anyone else, deletes the old claim.
ForceExpire(c) ==
    /\ claims[c].life = "live"
    /\ claims' = [claims EXCEPT ![c].life = "deleting"]
    /\ UNCHANGED <<pool, marked, placeholder, cacheVars, passVars, envVars,
                   ghostVars, faults>>

\* The drain is over: the claim and its Node are gone.
Finalize(c) ==
    /\ claims[c].life = "deleting"
    /\ claims' = [claims EXCEPT ![c] = GoneClaim]
    /\ Mark(c, marked[c] \ {"old"})
    /\ UNCHANGED <<pool, placeholder, poolCache, claimCache, passVars, envVars,
                   ghostVars, faults>>

\* Bound to a ready host; the host not ready; preempted; finally gone.
PlaceholderMoves(c) ==
    /\ \E move \in {<<"waiting", "ready">>, <<"ready", "waiting">>,
                    <<"ready", "terminating">>, <<"terminating", "none">>} :
         /\ placeholder[c] = move[1]
         /\ placeholder' = [placeholder EXCEPT ![c] = move[2]]
    /\ UNCHANGED <<pool, claims, marked, cacheVars, passVars, envVars, ghostVars,
                   faults>>

-----------------------------------------------------------------------------
Controller ==
    \/ StartupSweep \/ BeginAdvance \/ BeginReap
    \/ \E c \in Claims : StartRotation(c)
    \/ AdvanceGone \/ AdvancePending \/ AdvanceDraining \/ AdvanceFailed
    \/ AdvanceExpired
    \/ AssertPending \/ AssertVetoed \/ VanishedAfterAssert \/ FreezeOldNode
    \/ HoldWhileFrozen \/ CreatePlaceholder \/ SurgeNotReady \/ SurgeReady
    \/ FreezeHost \/ RecordDraining \/ RecordForced \/ MarkDraining
    \/ DeleteClaim \/ ReassertMirror
    \/ ExpirePending \/ ExpirePendingAlready \/ ExpirePendingRaced
    \/ ExpireFailed \/ ExpireFailedAlready \/ ExpireFailedRaced
    \/ RetryFailed \/ RetryVetoed \/ RepairFailed
    \/ DeletePlaceholder \/ UnfreezeNodes \/ FailClaim \/ FailClaimGone
    \/ FailPool \/ ClearAnchor \/ CompleteOrAbort \/ CompleteVetoed
    \/ ReapUngoverned \/ ReapVetoed

Faults == AbandonPass \/ Crash

Clock == \/ \E c \in Claims : TimeoutElapses(c) \/ BackoffElapses(c)
         \/ PauseElapses \/ CooldownElapses

Watches == SyncPool \/ \E c \in Claims : SyncClaim(c) \/ SyncNodes(c)

Environment ==
    \/ FlipGate \/ FlipFreeze \/ FlipGovernance
    \/ \E c \in Claims : ForceExpire(c) \/ Finalize(c) \/ PlaceholderMoves(c)

Next == Controller \/ Faults \/ Clock \/ Watches \/ Environment

Spec == Init /\ [][Next]_vars

(***************************************************************************)
(* The work queue runs the pass again while the pool is anchored (every    *)
(* handler returns a RequeueAfter or an error), the informers deliver, the *)
(* clock moves on, and Karpenter finishes a drain it has begun.            *)
(***************************************************************************)
Fairness ==
    /\ WF_vars(Controller) /\ WF_vars(SyncPool)
    /\ \A c \in Claims : /\ WF_vars(SyncClaim(c)) /\ WF_vars(SyncNodes(c))
                         /\ WF_vars(TimeoutElapses(c)) /\ WF_vars(Finalize(c))

FairSpec == Spec /\ Fairness

-----------------------------------------------------------------------------
(***************************************************************************)
(* Properties.                                                             *)
(***************************************************************************)

\* Every variable has its shape.
TypeOK ==
    /\ pool \in PoolRec /\ poolCache \in PoolRec /\ held \in PoolRec
    /\ claims \in [Claims -> ClaimRec] /\ claimCache \in [Claims -> ClaimRec]
    /\ marked \in [Claims -> SUBSET {"old", "host"}]
    /\ markSeen \in [Claims -> SUBSET {"old", "host"}]
    /\ placeholder \in [Claims -> {"none", "waiting", "ready", "terminating"}]
    /\ gate \in BOOLEAN /\ governed \in BOOLEAN
    /\ pc \in PassSteps
    /\ cur \in IF AtRest THEN {None} ELSE Claims
    /\ why \in {"none", "fail", "expire", "complete", "reap"}
    /\ told \in [Claims -> [success : Nat, expired : Nat, vanished : Nat]]
    /\ deleted \in [Claims -> BOOLEAN]
    /\ missed \in [Claims -> SUBSET {"old", "host"}]
    /\ faults \in Nat

InFlight(c) == claims[c].life # "gone" /\ claims[c].state \in {"pending", "draining"}

\* A claim marked pending or draining is always the anchored one: the serial gate is
\* never released, and never handed to another claim, under a rotation that is still
\* running, whichever stale view of pool and claim a pass was dispatched on and
\* wherever the pass before it stopped.  (reconcileNodePool starts on the anchor's
\* absence alone, so a stray in-flight claim is a second rotation or one nobody owns.)
InFlightIsAnchored == \A c \in Claims : InFlight(c) => pool.anchor = c

\* When the controller issues the delete of an old NodeClaim, what a crash right after
\* it will need is already durable: the anchor and its draining mirror on the NodePool,
\* the draining state on the claim, and, unless surge-less, the freeze marker on the
\* surge host.  (The order of the writes in advancePending and startForcefulFallback.)
DeleteIsRecorded ==
    [][\A c \in Claims : deleted'[c] /\ ~deleted[c] =>
          /\ pool.anchor = c /\ pool.mirror
          /\ claims[c].state = "draining"
          /\ pool.forced \/ "host" \in marked[c]]_vars

\* While the old node drains, its surge host stays frozen: no pass dispatched on an
\* older view of the claim strips the do-not-disrupt marker under a drain that is
\* still running.  (The conditional write before the clean-up, abortPendingExpiry.)
LiveDrainProtected ==
    \A c \in Claims :
        /\ claims[c].life # "gone" /\ claims[c].state = "draining"
        /\ pool.anchor = c /\ ~pool.forced
        => "host" \in marked[c]

BackoffOver(c) == claims[c].state = "failed" => ~claims[c].backoff

Moves(c) ==
    \/ /\ claims[c].state \in {"none", "failed"} /\ BackoffOver(c)
       /\ claims'[c].state = "pending"
    \/ /\ claims[c].state \in {"none", "failed"} /\ BackoffOver(c)
       /\ claims'[c].state = "draining" /\ pool.forced
    \/ /\ claims[c].state = "pending"
       /\ claims'[c].state \in {"draining", "failed", "expired"}
    \/ claims[c].state \in {"none", "failed"} /\ claims'[c].state = "expired"

\* The durable state of a claim only moves along the state machine: a rolled-back
\* claim is not revived before its backoff is over, a drain is never rolled back or
\* overwritten, expired is terminal; whatever stale view the write was decided on.
Forward ==
    [][\A c \in Claims :
         claims'[c].life # "gone" /\ claims'[c].state # claims[c].state => Moves(c)]_vars

\* Once a rotation is no longer anchored nothing of it remains but what its clean-up
\* could not know of: no placeholder holds capacity, and no node carries its
\* do-not-disrupt marker unless the Node list of the clean-up that let the anchor go,
\* read from a cache, did not show it yet.  Only the anchor would bring a later pass
\* back; a clean-up cut short after some of its nodes must keep it.
NothingLeftBehind ==
    \A c \in Claims : pool.anchor # c =>
        marked[c] \subseteq missed[c] /\ placeholder[c] \notin {"waiting", "ready"}

Starts(c) == claims[c].state # "pending" /\ claims'[c].state = "pending"

\* No attempt begins within failurePause of a failure recorded on a claim that still
\* lives, even when the write of last-failure-at was lost with the pass and its repair
\* raced the next start.  (advanceFailed's repair branch.)
FailurePauseKept ==
    [][\A c, d \in Claims :
         Starts(c) => ~(claims[d].life = "live" /\ claims[d].paused)]_vars

\* The serial gate is not held for ever: unless the operator keeps changing the freeze
\* (each change a write that conflicts with the pass's own), every anchored rotation
\* ends: completed, expired, or rolled back after readyTimeout.
AnchorReleased ==
    <>[]~pool.frozen => \A c \in Claims : pool.anchor = c ~> pool.anchor # c

\* A rotation has one outcome, announced at most once.
OneOutcome == \A c \in Claims :
    told[c].success + told[c].expired + told[c].vanished <= 1

=============================================================================
