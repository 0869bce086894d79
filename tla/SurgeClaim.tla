----------------------------- MODULE SurgeClaim -----------------------------
(***************************************************************************)
(* Whose node is it?  A pending rotation remembers the NodeClaim its       *)
(* placeholder induced, reports whether the surge host is this attempt's   *)
(* or was there before, and on readyTimeout deletes that claim, unless the *)
(* claim is older than the attempt or its node took real Pods.  The pass   *)
(* reads claims and its candidate through lagging caches, other Pods make  *)
(* Karpenter create claims too, and the rollback is several calls long.    *)
(*                                                                         *)
(* A claim and its node are one host here.  Time is in seconds, the grain  *)
(* of a creation timestamp and of started-at; 0 stands for "unset".        *)
(*                                                                         *)
(* Source: advancePending, failPending, advanceFailed, inducedClaim,       *)
(* surgePathFor, reapSurgeClaim and hostsRealPods of                       *)
(* internal/controller/rotation_controller.go, internal/surge/path.go.     *)
(***************************************************************************)
EXTENDS Naturals, FiniteSets

CONSTANTS
    Hosts,         \* the pool's other NodeClaims; some come before the attempt
    None,
    ReadyTimeout,  \* surge.readyTimeout
    MaxTime,       \* bound: the clock
    MaxFaults      \* bound: API errors and controller stops

ASSUME SurgeClaimAssumption ==
    /\ None \notin Hosts /\ {"none", "waiting"} \cap Hosts = {}
    /\ {ReadyTimeout, MaxTime, MaxFaults} \subseteq Nat /\ MaxTime # 0

VARIABLES
    now,
    host,      \* per claim, its stage and creation timestamp
    seen,      \* ... the stage the claim cache shows
    pods,      \* per host, what runs there besides the placeholder
    ph,        \* the placeholder: "none", "waiting", or the host it is bound to
    cand,      \* the candidate: state, started-at, surge-claim
    candSeen,  \* ... as the cache shows it
    path,      \* surge-path on the NodePool, with draining-at
    pc, held, name,      \* the pass: next call, its copy of cand, the claim to reap
    faults,
    began,     \* history: the second this attempt really began
    told,      \* history: the host and path this attempt resolved
    reaped,    \* history: the claims rollbacks deleted
    late,      \* history: hosts that took workload since the guard's Pod list
    spared,    \* history: hosts the guard found workload on, this attempt
    due        \* history: the claim this attempt's rollback has to deal with

vars == <<now, host, seen, pods, ph, cand, candSeen, path, pc, held, name, faults,
          began, told, reaped, late, spared, due>>
world  == <<now, host, pods>>
ghosts == <<began, told, reaped, late, spared, due>>

Stages  == {"none", "new", "registered", "gone"}
Fresh   == [state |-> "none", startedAt |-> 0, surgeClaim |-> None]
NoPath  == [draining |-> FALSE, path |-> ""]
Untold  == [host |-> None, path |-> ""]

\* patchClaim reads the cache and writes under its resourceVersion.
PatchClaim(r) == candSeen = cand /\ cand' = r

EndPass == pc' = "idle" /\ held' = Fresh /\ name' = None
Goto(step) == pc' = step /\ UNCHANGED <<held, name>>

Init ==
    /\ now = 1 /\ faults = 0
    /\ host = [h \in Hosts |-> [stage |-> "none", created |-> 0]]
    /\ seen = [h \in Hosts |-> host[h].stage]
    /\ pods = [h \in Hosts |-> {}]
    /\ ph = "none" /\ cand = Fresh /\ candSeen = cand /\ path = NoPath
    /\ pc = "idle" /\ held = Fresh /\ name = None
    /\ began = 0 /\ told = Untold /\ reaped = {} /\ late = {} /\ spared = {} /\ due = None

-----------------------------------------------------------------------------
(***************************************************************************)
(* surge/path.go and the lookups                                           *)
(***************************************************************************)

CreatedByAttempt(h, startedAt) == host[h].created > startedAt

HostPath(h, startedAt) ==
    IF CreatedByAttempt(h, startedAt) THEN "provisioned" ELSE "absorbed"

Cached(h) == seen[h] \in {"new", "registered"}

\* Claims of the pool whose node is the bind target: a host is its own claim's node.
claimForNode(h) == IF seen[h] = "registered" THEN h ELSE None

\* The earliest unregistered claim created after the start; the cache lists claims
\* in no order, so any of those created in the same second.
Unregistered(startedAt) ==
    {h \in Hosts : seen[h] = "new" /\ CreatedByAttempt(h, startedAt)}

inducedClaim(c) ==
    LET after == Unregistered(c.startedAt)
        best  == {h \in after : \A g \in after : host[h].created <= host[g].created}
    IN  IF ph \in Hosts /\ claimForNode(ph) # None THEN {claimForNode(ph)}
        ELSE IF c.startedAt = 0 \/ best = {} THEN {None}
        ELSE best

hostsRealPods(h) == "workload" \in pods[h]

-----------------------------------------------------------------------------
(***************************************************************************)
(* The pending handler                                                     *)
(***************************************************************************)

\* Assert pending and the write-once started-at, re-read through the cache, and test
\* readyTimeout on the value the write carried.
AssertPending ==
    LET stamped == IF cand.startedAt = 0 THEN now ELSE cand.startedAt
        over    == now - stamped > ReadyTimeout
    IN
    /\ pc = "idle" /\ candSeen.state \in {"none", "pending"}
    /\ PatchClaim([cand EXCEPT !.state = "pending", !.startedAt = stamped])
    /\ candSeen' \in {candSeen, cand'} /\ held' = candSeen'
    /\ pc' = IF over THEN "resolve" ELSE "persist"
    /\ began' = IF began = 0 THEN now ELSE began
    /\ due' = IF ~over \/ due # None THEN due
              ELSE IF cand.surgeClaim # None THEN cand.surgeClaim
              ELSE IF ph \in Hosts THEN ph ELSE None
    /\ UNCHANGED <<world, seen, ph, path, name, faults, told, reaped, late, spared>>

PersistSurgeClaim ==
    /\ pc = "persist" /\ Goto("place")
    /\ IF held.surgeClaim # None THEN UNCHANGED cand
       ELSE \E n \in inducedClaim(held) :
              IF n = None THEN UNCHANGED cand
              ELSE PatchClaim([cand EXCEPT !.surgeClaim = n])
    /\ UNCHANGED <<world, seen, ph, candSeen, path, faults, ghosts>>

\* The pool is frozen, or the placeholder is absent, unbound or not Running on a
\* Ready node yet.
Wait ==
    /\ pc = "place" /\ EndPass
    /\ UNCHANGED <<world, seen, ph, cand, candSeen, path, faults, ghosts>>

createPlaceholder ==
    /\ pc = "place" /\ ph = "none" /\ ph' = "waiting" /\ EndPass
    /\ UNCHANGED <<world, seen, cand, candSeen, path, faults, ghosts>>

\* surgePathFor, and the durable record; both of its fields are written once.
surgeReady ==
    LET startedAt == cand.startedAt   \* the stamped value: only this pass writes cand
        resolved  == IF claimForNode(ph) = None THEN "" ELSE HostPath(ph, startedAt)
    IN
    /\ pc = "place" /\ ph \in Hosts /\ Goto("drain")
    /\ path' = IF path.draining THEN path ELSE [draining |-> TRUE, path |-> resolved]
    /\ told' = [host |-> ph, path |-> resolved]
    /\ UNCHANGED <<world, seen, ph, cand, candSeen, faults,
                   began, reaped, late, spared, due>>

\* The claim's own draining write; the rest of the rotation never reaps.
StartDraining ==
    /\ pc = "drain" /\ EndPass
    /\ PatchClaim([cand EXCEPT !.state = "draining"])
    /\ UNCHANGED <<world, seen, ph, candSeen, path, faults, ghosts>>

-----------------------------------------------------------------------------
(***************************************************************************)
(* failPending, call by call                                               *)
(***************************************************************************)

\* Mutant: the placeholder goes before its claim has been dealt with.
ResolveAfterCleaning ==
    /\ pc = "resolve" /\ pc' = "reap" /\ ph' = "none"
    /\ name' \in (IF held.surgeClaim # None THEN {held.surgeClaim} ELSE inducedClaim(held))
    /\ UNCHANGED <<world, seen, cand, candSeen, path, held, faults, ghosts>>

ResolveSurgeClaim ==
    /\ pc = "resolve" /\ pc' = "reap"
    /\ name' \in (IF held.surgeClaim # None THEN {held.surgeClaim} ELSE inducedClaim(held))
    /\ UNCHANGED <<world, seen, ph, cand, candSeen, path, held, faults, ghosts>>

\* Mutant: a claim of the attempt's first second counts as its own, here only.
MayReapSameSecond(h, startedAt) ==
    /\ Cached(h) /\ startedAt # 0 /\ host[h].created >= startedAt
    /\ seen[h] = "registered" => ~hostsRealPods(h)

\* Mutant: occupancy is not looked at.
MayReapOccupied(h, startedAt) ==
    Cached(h) /\ startedAt # 0 /\ CreatedByAttempt(h, startedAt)

\* The guards of reapSurgeClaim.
MayReap(h, startedAt) ==
    /\ Cached(h) /\ startedAt # 0 /\ CreatedByAttempt(h, startedAt)
    /\ seen[h] = "registered" => ~hostsRealPods(h)

reapSurgeClaim ==
    /\ pc = "reap"
    /\ IF name # None /\ MayReap(name, held.startedAt)
       THEN Goto("delete") /\ UNCHANGED spared
       ELSE /\ Goto("clean")
            /\ spared' = spared \cup {h \in {name} \ {None} : hostsRealPods(h)}
    /\ UNCHANGED <<world, seen, ph, cand, candSeen, path, faults,
                   began, told, reaped, late, due>>

DeleteSurgeClaim ==
    /\ pc = "delete" /\ Goto("clean")
    /\ host' = [host EXCEPT ![name].stage = "gone"]
    /\ pods' = [pods EXCEPT ![name] = {}]
    /\ ph' = IF ph = name THEN "none" ELSE ph
    /\ late' = {}
    /\ reaped' = IF host[name].stage = "gone" THEN reaped ELSE reaped \cup {name}
    /\ UNCHANGED <<now, seen, cand, candSeen, path, faults,
                   began, told, spared, due>>

deletePlaceholder ==
    /\ pc = "clean" /\ Goto("fail") /\ ph' = "none"
    /\ UNCHANGED <<world, seen, cand, candSeen, path, faults, ghosts>>

\* Mutant: started-at survives the failure.
FailedKeepsStart == [cand EXCEPT !.state = "failed", !.surgeClaim = None]

\* Mutant: surge-claim survives the failure.
FailedKeepsClaim == [cand EXCEPT !.state = "failed", !.startedAt = 0]

Failed == [cand EXCEPT !.state = "failed", !.startedAt = 0, !.surgeClaim = None]

FailClaim ==
    /\ pc = "fail" /\ Goto("failPool") /\ PatchClaim(Failed)
    /\ UNCHANGED <<world, seen, ph, candSeen, path, faults, ghosts>>

\* The gate release clears the anchor's companions; advanceFailed repeats it.
FailPool ==
    /\ \/ pc = "failPool"
       \/ pc = "idle" /\ candSeen.state = "failed" /\ path.draining
    /\ EndPass /\ path' = NoPath
    /\ UNCHANGED <<world, seen, ph, cand, candSeen, faults, ghosts>>

\* A new attempt, whatever its gates: advanceFailed's own write.
RetryFailed ==
    /\ pc = "idle" /\ candSeen.state = "failed"
    /\ PatchClaim([cand EXCEPT !.state = "pending"])
    /\ began' = 0 /\ told' = Untold /\ spared' = {} /\ due' = None
    /\ UNCHANGED <<world, seen, ph, candSeen, path, pc, held, name, faults, reaped, late>>

\* An API call fails, or the controller stops: the pass is over, nothing is undone.
PassEnds ==
    /\ pc # "idle" /\ faults < MaxFaults /\ faults' = faults + 1 /\ EndPass
    /\ late' = {}
    /\ UNCHANGED <<world, seen, ph, cand, candSeen, path, began, told, reaped, spared, due>>

-----------------------------------------------------------------------------
(***************************************************************************)
(* Karpenter, kube-scheduler, the caches, the clock                        *)
(***************************************************************************)

controllerVars == <<cand, path, pc, held, name, faults>>

\* For the placeholder or for any other pending Pod.
Provision(h) ==
    /\ host[h].stage = "none" /\ host' = [host EXCEPT ![h] = [stage |-> "new", created |-> now]]
    /\ UNCHANGED <<now, pods, seen, ph, candSeen, controllerVars, ghosts>>

Register(h) ==
    /\ host[h].stage = "new" /\ host' = [host EXCEPT ![h].stage = "registered"]
    /\ pods' = [pods EXCEPT ![h] = {"infra"}]
    /\ UNCHANGED <<now, seen, ph, candSeen, controllerVars, ghosts>>

\* Pods reach a node no sooner than the claim cache shows it registered.
Bindable(h) == host[h].stage = "registered" /\ seen[h] = "registered"

BindWorkload(h) ==
    /\ Bindable(h) /\ ~hostsRealPods(h)
    /\ pods' = [pods EXCEPT ![h] = @ \cup {"workload"}] /\ late' = IF pc = "delete" THEN late \cup {h} ELSE late
    /\ UNCHANGED <<now, host, seen, ph, candSeen, controllerVars,
                   began, told, reaped, spared, due>>

BindPlaceholder(h) ==
    /\ ph = "waiting" /\ Bindable(h) /\ ph' = h
    /\ UNCHANGED <<world, seen, candSeen, controllerVars, ghosts>>

\* Preemption loses the only trace of an unrecorded host.
Preempt ==
    /\ ph \in Hosts /\ ph' = "none"
    /\ due' = IF cand.surgeClaim = None THEN None ELSE due
    /\ UNCHANGED <<world, seen, candSeen, controllerVars, began, told, reaped, late, spared>>

\* Karpenter removes an empty node the placeholder does not hold.
Consolidate(h) ==
    /\ host[h].stage = "registered" /\ ~hostsRealPods(h) /\ ph # h
    /\ host' = [host EXCEPT ![h].stage = "gone"] /\ pods' = [pods EXCEPT ![h] = {}]
    /\ UNCHANGED <<now, seen, ph, candSeen, controllerVars, ghosts>>

SyncClaims(h) ==
    /\ seen[h] # host[h].stage /\ seen' = [seen EXCEPT ![h] = host[h].stage]
    /\ UNCHANGED <<world, ph, candSeen, controllerVars, ghosts>>

SyncCandidate ==
    /\ candSeen # cand /\ candSeen' = cand
    /\ UNCHANGED <<world, seen, ph, controllerVars, ghosts>>

Tick ==
    /\ now < MaxTime /\ now' = now + 1
    /\ UNCHANGED <<host, pods, seen, ph, candSeen, controllerVars, ghosts>>

Next ==
    \/ AssertPending \/ PersistSurgeClaim \/ Wait \/ createPlaceholder \/ surgeReady
    \/ StartDraining \/ ResolveSurgeClaim \/ reapSurgeClaim \/ DeleteSurgeClaim
    \/ deletePlaceholder \/ FailClaim \/ FailPool \/ RetryFailed \/ PassEnds
    \/ \E h \in Hosts : \/ Provision(h) \/ Register(h) \/ BindWorkload(h)
                        \/ BindPlaceholder(h) \/ Consolidate(h) \/ SyncClaims(h)
    \/ Preempt \/ SyncCandidate \/ Tick

Spec == Init /\ [][Next]_vars

-----------------------------------------------------------------------------
(***************************************************************************)
(* Properties.                                                             *)
(***************************************************************************)

CandRec == [state: {"none", "pending", "draining", "failed"}, startedAt: 0..MaxTime,
            surgeClaim: Hosts \cup {None}]

\* The state is well-typed, and a claim between attempts carries nothing of the last
\* one: failPending's write takes started-at and surge-claim along.
TypeOK ==
    /\ now \in 1..MaxTime /\ host \in [Hosts -> [stage: Stages, created: 0..MaxTime]]
    /\ seen \in [Hosts -> Stages] /\ pods \in [Hosts -> SUBSET {"infra", "workload"}]
    /\ ph \in Hosts \cup {"none", "waiting"} /\ cand \in CandRec /\ candSeen \in CandRec
    /\ held \in CandRec /\ name \in Hosts \cup {None} /\ faults \in 0..MaxFaults
    /\ cand.state = "failed" => cand.startedAt = 0 /\ cand.surgeClaim = None

Reaps(h) == h \notin reaped /\ h \in reaped'

\* A rollback deletes only a node created strictly after the second its own attempt
\* began: no claim of an earlier attempt, none that stood before, whatever the caches
\* showed and however often the rollback was cut short ("must never delete a host it
\* did not induce", CreatedByAttempt).
ReapsOwn == [][\A h \in Hosts : Reaps(h) => host[h].created > began]_vars

\* ... and no node whose workload was there when the guard listed the Pods
\* (reapSurgeClaim: "absorb host - never reap").
SparesWorkload == [][\A h \in Hosts : Reaps(h) /\ hostsRealPods(h) => h \in late]_vars

\* A host this attempt resolved as absorbed is not reaped by this attempt: the report
\* and the rollback share one predicate, on one started-at, across passes ("the rollback
\* can never reap a host the log called pre-existing capacity").
PathAgrees ==
    [][\A h \in Hosts : Reaps(h) => told # [host |-> h, path |-> "absorbed"]]_vars

\* A rollback that records its failure has dealt with its surge claim: the recorded one,
\* or the one its placeholder sat on, is gone, is not this attempt's, or took workload.
\* The reap comes before the placeholder is deleted, so a pass cut short can still
\* find the claim.
NoIdleSurgeLeft ==
    [][pc = "fail" /\ pc' = "failPool" /\ due # None =>
         \/ host[due].stage = "gone" \/ due \in spared
         \/ host[due].created <= began]_vars

=============================================================================
