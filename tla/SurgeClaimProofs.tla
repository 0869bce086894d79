-------------------------- MODULE SurgeClaimProofs --------------------------
(***************************************************************************)
(* Theorems of SurgeClaim, for any set of claims, any readyTimeout, any    *)
(* clock and any number of API errors and controller stops.                *)
(***************************************************************************)
EXTENDS SurgeClaim, TLAPS

PendingSteps  == {"persist", "place", "drain"}
RollbackSteps == {"resolve", "reap", "delete", "clean", "fail"}

HistoryOK ==
    /\ pc \in {"idle", "failPool"} \cup PendingSteps \cup RollbackSteps
    /\ began \in 0..now /\ told \in [host: Hosts \cup {None}, path: {"", "provisioned", "absorbed"}]
    /\ spared \subseteq Hosts /\ due \in Hosts \cup {None}

\* The cache is behind the server, and Pods are only where it shows a node.
CacheBehind ==
    \A h \in Hosts :
        /\ seen[h] # "none" => host[h].stage # "none"
        /\ seen[h] = "registered" => host[h].stage \in {"registered", "gone"}
        /\ seen[h] = "gone" => host[h].stage = "gone"
        /\ hostsRealPods(h) => seen[h] = "registered" /\ host[h].stage = "registered"
PlaceholderRuns == ph \in Hosts => Bindable(ph)

\* Every started-at in reach is this attempt's, or unset.
OneStart ==
    /\ cand.state # "failed" => cand.startedAt = began
    /\ candSeen.startedAt \in {0, began}
    /\ began = 0 => told = Untold /\ due = None
    /\ pc = "idle" => held = Fresh /\ name = None
    /\ pc \in PendingSteps \cup RollbackSteps => cand.state = "pending" /\ began # 0
    /\ pc \in RollbackSteps => held.startedAt = began /\ held.surgeClaim = cand.surgeClaim

\* What a rollback may delete.
DeleteOwn ==
    pc = "delete" => /\ name \in Hosts /\ host[name].stage # "none"
                     /\ CreatedByAttempt(name, began)
                     /\ hostsRealPods(name) => name \in late

AbsorbedIsOld ==
    told.path = "absorbed" => /\ told.host \in Hosts /\ host[told.host].stage # "none"
                              /\ ~CreatedByAttempt(told.host, began)

\* The claim the rollback owes an answer for is dealt with, or a later pass will find it.
Dealt == due # None => \/ host[due].stage = "gone" \/ due \in spared
                       \/ ~CreatedByAttempt(due, began)
Findable ==
    /\ \A h \in {cand.surgeClaim, due} \ {None} : seen[h] # "none"
    /\ due # None =>
         /\ cand.state = "pending" => now - began > ReadyTimeout
         /\ cand.state \in {"failed", "pending"}
         /\ pc \notin PendingSteps
         /\ Dealt \/ cand.surgeClaim = due \/ (cand.surgeClaim = None /\ ph = due)
    /\ cand.state = "failed" => Dealt
    /\ pc \in {"reap", "delete"} => Dealt \/ name = due
    /\ pc \in {"clean", "fail"} => Dealt

\* The inductive invariant.
SurgeInv == /\ TypeOK /\ HistoryOK /\ CacheBehind /\ PlaceholderRuns /\ OneStart
            /\ DeleteOwn /\ AbsorbedIsOld /\ Findable

-----------------------------------------------------------------------------
(***************************************************************************)
(* Typing of the records the steps write.                                  *)
(***************************************************************************)

LEMMA Bounds ==
  /\ ReadyTimeout \in Nat /\ MaxTime \in Nat /\ MaxTime # 0 /\ MaxFaults \in Nat
  /\ None \notin Hosts /\ "none" \notin Hosts /\ "waiting" \notin Hosts
  BY SurgeClaimAssumption

LEMMA FreshOK == /\ Fresh \in CandRec /\ Fresh.state = "none" /\ Fresh.startedAt = 0
                 /\ Fresh.surgeClaim = None
  BY Bounds DEF Fresh, CandRec

LEMMA CandFields ==
  ASSUME NEW r \in CandRec
  PROVE  /\ r.state \in {"none", "pending", "draining", "failed"}
         /\ r.startedAt \in 0..MaxTime /\ r.startedAt \in Nat
         /\ r.surgeClaim \in Hosts \cup {None}
  BY Bounds DEF CandRec

LEMMA HostFields ==
  ASSUME SurgeInv, NEW h \in Hosts
  PROVE  /\ host[h].stage \in Stages /\ host[h].created \in 0..MaxTime /\ host[h].created \in Nat
         /\ seen[h] \in Stages
  BY Bounds DEF SurgeInv, TypeOK

LEMMA Types ==
  ASSUME SurgeInv
  PROVE  /\ now \in 1..MaxTime /\ now \in Nat /\ began \in Nat /\ began <= now
         /\ cand \in CandRec /\ candSeen \in CandRec /\ held \in CandRec
         /\ cand.startedAt \in Nat /\ held.startedAt \in Nat
         /\ name \in Hosts \cup {None} /\ due \in Hosts \cup {None}
  <1>1. /\ now \in 1..MaxTime /\ began \in 0..now
        /\ cand \in CandRec /\ candSeen \in CandRec /\ held \in CandRec
        /\ name \in Hosts \cup {None} /\ due \in Hosts \cup {None}
    BY DEF SurgeInv, TypeOK, HistoryOK
  <1> QED  BY <1>1, CandFields, Bounds

-----------------------------------------------------------------------------
(***************************************************************************)
(* Karpenter, the scheduler, the caches and the clock.                     *)
(***************************************************************************)

\* Stages advance, in the server and in the cache, and a creation timestamp stays.
HostsAdvance ==
    \A h \in Hosts :
        /\ host[h].stage # "none" => /\ host'[h].stage # "none"
                                     /\ host'[h].created = host[h].created
        /\ host[h].stage = "gone" => host'[h].stage = "gone"
        /\ seen[h] # "none" => seen'[h] # "none"

LEMMA DealtStays ==
  ASSUME SurgeInv, HostsAdvance, began' = began, spared \subseteq spared',
         due' \in {due, None}, Dealt
  PROVE  Dealt'
  <1> SUFFICES ASSUME due' # None PROVE Dealt'
    BY DEF Dealt
  <1>1. due' = due /\ due \in Hosts
    BY Types
  <1>2. seen[due] # "none" /\ host[due].stage # "none"
    BY <1>1, Bounds DEF SurgeInv, Findable, CacheBehind
  <1> QED  BY <1>1, <1>2 DEF Dealt, HostsAdvance, CreatedByAttempt

\* Steps of the world around the controller.
LEMMA WorldStep ==
  ASSUME SurgeInv, TypeOK', CacheBehind', PlaceholderRuns', HostsAdvance,
         UNCHANGED <<cand, pc, held, name, began, told, spared>>,
         candSeen' \in {candSeen, cand}, now' \in Nat, now <= now', due' \in {due, None},
         due' # None /\ cand.surgeClaim = None /\ ph = due => ph' = ph,
         pc = "delete" /\ hostsRealPods(name)' => hostsRealPods(name) \/ name \in late',
         late \subseteq late'
  PROVE  SurgeInv'
  <1>1. HistoryOK'
    <2>1. began' \in 0..now' /\ due' \in Hosts \cup {None}
      BY Types
    <2> QED  BY <2>1 DEF SurgeInv, HistoryOK
  <1>2. OneStart'
    BY Types DEF SurgeInv, OneStart, TypeOK
  <1>3. DeleteOwn'
    BY DEF SurgeInv, DeleteOwn, HostsAdvance, CreatedByAttempt
  <1>4. AbsorbedIsOld'
    BY DEF SurgeInv, AbsorbedIsOld, HostsAdvance, CreatedByAttempt
  <1>5. Dealt => Dealt'
    BY DealtStays
  <1>6. Findable'
    <2>1. \A h \in {cand'.surgeClaim, due'} \ {None} : seen'[h] # "none"
      <3> SUFFICES ASSUME NEW h \in {cand.surgeClaim, due} \ {None} PROVE seen'[h] # "none"
        OBVIOUS
      <3>1. h \in Hosts /\ seen[h] # "none"
        BY Types, CandFields DEF SurgeInv, Findable
      <3> QED  BY <3>1 DEF HostsAdvance
    <2>2. due' # None /\ cand.state = "pending" => now' - began > ReadyTimeout
      BY Types, Bounds DEF SurgeInv, Findable
    <2>3. due' # None => Dealt' \/ cand.surgeClaim = due' \/ (cand.surgeClaim = None /\ ph' = due')
      BY <1>5 DEF SurgeInv, Findable
    <2>4. due' # None => cand.state \in {"failed", "pending"} /\ pc \notin PendingSteps
      BY DEF SurgeInv, Findable
    <2>5. /\ cand.state = "failed" => Dealt'
          /\ pc \in {"clean", "fail"} => Dealt'
      BY <1>5 DEF SurgeInv, Findable
    <2>6. pc \in {"reap", "delete"} => Dealt' \/ name = due'
      <3>1. CASE due' = None
        BY <3>1 DEF Dealt
      <3>2. CASE due' = due
        BY <1>5, <3>2 DEF SurgeInv, Findable
      <3> QED  BY <3>1, <3>2
    <2> QED  BY <2>1, <2>2, <2>3, <2>4, <2>5, <2>6 DEF Findable
  <1> QED  BY <1>1, <1>2, <1>3, <1>4, <1>6 DEF SurgeInv

LEMMA ProvisionKeeps == ASSUME SurgeInv, NEW h \in Hosts, Provision(h) PROVE SurgeInv'
  <1>1. /\ host[h].stage = "none" /\ host' = [host EXCEPT ![h] = [stage |-> "new", created |-> now]]
        /\ UNCHANGED <<now, pods, seen, ph, candSeen, cand, path, pc, held, name, faults>>
        /\ UNCHANGED <<began, told, reaped, late, spared, due>>
    BY DEF Provision, controllerVars, ghosts
  <1>2. TypeOK'
    <2>1. [stage |-> "new", created |-> now] \in [stage: Stages, created: 0..MaxTime]
      BY Types, Bounds DEF Stages
    <2> QED  BY <1>1, <2>1 DEF SurgeInv, TypeOK
  <1>3. \A g \in Hosts : g # h => host'[g] = host[g]
    BY <1>1 DEF SurgeInv, TypeOK
  <1>4. HostsAdvance
    BY <1>1, <1>3 DEF HostsAdvance
  <1>5. CacheBehind' /\ PlaceholderRuns'
    BY <1>1, <1>3
    DEF SurgeInv, CacheBehind, PlaceholderRuns, Bindable, hostsRealPods
  <1> QED  BY <1>1, <1>2, <1>4, <1>5, Types, WorldStep DEF hostsRealPods

LEMMA RegisterKeeps == ASSUME SurgeInv, NEW h \in Hosts, Register(h) PROVE SurgeInv'
  <1>1. /\ host[h].stage = "new" /\ host' = [host EXCEPT ![h].stage = "registered"]
        /\ pods' = [pods EXCEPT ![h] = {"infra"}]
        /\ UNCHANGED <<now, seen, ph, candSeen, cand, path, pc, held, name, faults>>
        /\ UNCHANGED <<began, told, reaped, late, spared, due>>
    BY DEF Register, controllerVars, ghosts
  <1>2. TypeOK'
    BY <1>1 DEF SurgeInv, TypeOK, Stages
  <1>3. /\ \A g \in Hosts : g # h => host'[g] = host[g] /\ pods'[g] = pods[g]
        /\ host'[h].stage = "registered" /\ host'[h].created = host[h].created
        /\ pods'[h] = {"infra"}
    BY <1>1 DEF SurgeInv, TypeOK
  <1>4. HostsAdvance
    BY <1>1, <1>3 DEF HostsAdvance
  <1>5. ~hostsRealPods(h)'
    BY <1>3 DEF hostsRealPods
  <1>6. \A g \in Hosts : hostsRealPods(g)' => hostsRealPods(g)
    BY <1>3, <1>5 DEF hostsRealPods
  <1>7. CacheBehind' /\ PlaceholderRuns'
    BY <1>1, <1>3, <1>5, <1>6
    DEF SurgeInv, CacheBehind, PlaceholderRuns, Bindable, hostsRealPods
  <1>8. pc = "delete" => name \in Hosts
    BY DEF SurgeInv, DeleteOwn
  <1> QED  BY <1>1, <1>2, <1>4, <1>6, <1>7, <1>8, Types, WorldStep

LEMMA BindWorkloadKeeps == ASSUME SurgeInv, NEW h \in Hosts, BindWorkload(h) PROVE SurgeInv'
  <1>1. /\ Bindable(h) /\ pods' = [pods EXCEPT ![h] = @ \cup {"workload"}]
        /\ late' = IF pc = "delete" THEN late \cup {h} ELSE late
        /\ UNCHANGED <<now, host, seen, ph, candSeen, cand, path, pc, held, name, faults>>
        /\ UNCHANGED <<began, told, reaped, spared, due>>
    BY DEF BindWorkload, controllerVars
  <1>2. TypeOK'
    BY <1>1 DEF SurgeInv, TypeOK
  <1>3. \A g \in Hosts : g # h => pods'[g] = pods[g]
    BY <1>1 DEF SurgeInv, TypeOK
  <1>4. HostsAdvance
    BY <1>1 DEF HostsAdvance
  <1>5. CacheBehind' /\ PlaceholderRuns'
    BY <1>1, <1>3 DEF SurgeInv, CacheBehind, PlaceholderRuns, Bindable, hostsRealPods
  <1>6. pc = "delete" /\ hostsRealPods(name)' => hostsRealPods(name) \/ name \in late'
    BY <1>1, <1>3 DEF SurgeInv, DeleteOwn, hostsRealPods
  <1> QED  BY <1>1, <1>2, <1>4, <1>5, <1>6, Types, WorldStep

LEMMA PlaceholderMoves ==
  ASSUME SurgeInv, Preempt \/ \E h \in Hosts : BindPlaceholder(h) PROVE SurgeInv'
  <1>1. /\ UNCHANGED <<now, host, pods, seen, candSeen, cand, path, pc, held, name, faults>>
        /\ UNCHANGED <<began, told, reaped, late, spared>>
    BY DEF Preempt, BindPlaceholder, controllerVars, world, ghosts
  <1>2. HostsAdvance /\ CacheBehind'
    BY <1>1 DEF HostsAdvance, SurgeInv, CacheBehind, hostsRealPods
  <1>3. CASE Preempt
    <2>1. ph' = "none" /\ due' = IF cand.surgeClaim = None THEN None ELSE due
      BY <1>3 DEF Preempt
    <2>2. TypeOK' /\ PlaceholderRuns'
      BY <1>1, <2>1, Bounds DEF SurgeInv, TypeOK, PlaceholderRuns
    <2> QED  BY <1>1, <1>2, <2>1, <2>2, Types, WorldStep DEF hostsRealPods
  <1>4. ASSUME NEW h \in Hosts, BindPlaceholder(h) PROVE SurgeInv'
    <2>1. ph = "waiting" /\ Bindable(h) /\ ph' = h /\ due' = due
      BY <1>4 DEF BindPlaceholder, ghosts
    <2>2. TypeOK' /\ PlaceholderRuns'
      BY <1>1, <2>1 DEF SurgeInv, TypeOK, PlaceholderRuns, Bindable
    <2>3. ~(due' # None /\ ph = due)
      BY <2>1, Bounds, Types
    <2> QED  BY <1>1, <1>2, <2>1, <2>2, <2>3, Types, WorldStep DEF hostsRealPods
  <1> QED  BY <1>3, <1>4

LEMMA ConsolidateKeeps == ASSUME SurgeInv, NEW h \in Hosts, Consolidate(h) PROVE SurgeInv'
  <1>1. /\ host[h].stage = "registered" /\ ph # h
        /\ host' = [host EXCEPT ![h].stage = "gone"] /\ pods' = [pods EXCEPT ![h] = {}]
        /\ UNCHANGED <<now, seen, ph, candSeen, cand, path, pc, held, name, faults>>
        /\ UNCHANGED <<began, told, reaped, late, spared, due>>
    BY DEF Consolidate, controllerVars, ghosts
  <1>2. TypeOK'
    BY <1>1 DEF SurgeInv, TypeOK, Stages
  <1>3. /\ \A g \in Hosts : g # h => host'[g] = host[g] /\ pods'[g] = pods[g]
        /\ host'[h].stage = "gone" /\ host'[h].created = host[h].created /\ pods'[h] = {}
    BY <1>1 DEF SurgeInv, TypeOK
  <1>4. HostsAdvance
    BY <1>1, <1>3 DEF HostsAdvance
  <1>5. ~hostsRealPods(h)' /\ \A g \in Hosts : hostsRealPods(g)' => hostsRealPods(g)
    BY <1>3 DEF hostsRealPods
  <1>6. CacheBehind' /\ PlaceholderRuns'
    BY <1>1, <1>3, <1>5
    DEF SurgeInv, CacheBehind, PlaceholderRuns, Bindable, hostsRealPods
  <1>7. pc = "delete" => name \in Hosts
    BY DEF SurgeInv, DeleteOwn
  <1> QED  BY <1>1, <1>2, <1>4, <1>5, <1>6, <1>7, Types, WorldStep

LEMMA CachesKeep ==
  ASSUME SurgeInv, SyncCandidate \/ Tick \/ \E h \in Hosts : SyncClaims(h) PROVE SurgeInv'
  <1>1. /\ UNCHANGED <<host, pods, ph, cand, path, pc, held, name, faults>>
        /\ UNCHANGED <<began, told, reaped, late, spared, due>>
    BY DEF SyncCandidate, Tick, SyncClaims, controllerVars, world, ghosts
  <1>2. CASE SyncCandidate
    <2>1. candSeen' = cand /\ UNCHANGED <<now, seen>>
      BY <1>2 DEF SyncCandidate, world
    <2>2. TypeOK' /\ HostsAdvance /\ CacheBehind' /\ PlaceholderRuns'
      BY <1>1, <2>1 DEF SurgeInv, TypeOK, HostsAdvance, CacheBehind, PlaceholderRuns, Bindable,
                        hostsRealPods
    <2> QED  BY <1>1, <2>1, <2>2, Types, WorldStep DEF hostsRealPods
  <1>3. CASE Tick
    <2>1. now < MaxTime /\ now' = now + 1 /\ UNCHANGED <<candSeen, seen>>
      BY <1>3 DEF Tick
    <2>2. now' \in 1..MaxTime /\ now' \in Nat /\ now <= now'
      BY <2>1, Types, Bounds
    <2>3. TypeOK' /\ HostsAdvance /\ CacheBehind' /\ PlaceholderRuns'
      BY <1>1, <2>1, <2>2 DEF SurgeInv, TypeOK, HostsAdvance, CacheBehind, PlaceholderRuns,
                              Bindable, hostsRealPods
    <2> QED  BY <1>1, <2>1, <2>2, <2>3, WorldStep DEF hostsRealPods
  <1>4. ASSUME NEW h \in Hosts, SyncClaims(h) PROVE SurgeInv'
    <2>1. /\ seen[h] # host[h].stage /\ seen' = [seen EXCEPT ![h] = host[h].stage]
          /\ UNCHANGED <<now, candSeen>>
      BY <1>4 DEF SyncClaims, world
    <2>2. seen'[h] = host[h].stage /\ \A g \in Hosts : g # h => seen'[g] = seen[g]
      BY <2>1 DEF SurgeInv, TypeOK
    <2>3. TypeOK'
      BY <1>1, <2>1, HostFields DEF SurgeInv, TypeOK
    <2>4. HostsAdvance
      BY <1>1, <2>2 DEF SurgeInv, CacheBehind, HostsAdvance
    <2>5. CacheBehind' /\ PlaceholderRuns'
      BY <1>1, <2>2 DEF SurgeInv, CacheBehind, PlaceholderRuns, Bindable, hostsRealPods
    <2> QED  BY <1>1, <2>1, <2>3, <2>4, <2>5, Types, WorldStep DEF hostsRealPods
  <1> QED  BY <1>2, <1>3, <1>4

-----------------------------------------------------------------------------
(***************************************************************************)
(* The pass.                                                               *)
(***************************************************************************)

\* Steps of the pass leave the hosts, the caches of them and the clock alone.
LEMMA PassFrame ==
  ASSUME SurgeInv, UNCHANGED <<now, host, pods, seen>>
  PROVE  CacheBehind' /\ HostsAdvance /\ (ph' \in {ph, "none", "waiting"} => PlaceholderRuns')
  <1>1. CacheBehind' /\ HostsAdvance
    BY DEF SurgeInv, CacheBehind, HostsAdvance, hostsRealPods
  <1>2. ph' \in {ph, "none", "waiting"} => PlaceholderRuns'
    BY Bounds DEF SurgeInv, PlaceholderRuns, Bindable
  <1> QED  BY <1>1, <1>2

\* A pass that ends, whatever it left undone.
LEMMA EndKeeps ==
  ASSUME SurgeInv, EndPass, UNCHANGED <<now, host, pods, seen, cand, candSeen>>,
         UNCHANGED <<began, told, spared, due>>,
         faults' \in 0..MaxFaults,
         ph' = ph \/ (pc \in PendingSteps /\ ph' \in {"none", "waiting"})
  PROVE  SurgeInv'
  <1>1. pc' = "idle" /\ held' = Fresh /\ name' = None
    BY DEF EndPass
  <1>2. TypeOK'
    BY <1>1, FreshOK DEF SurgeInv, TypeOK
  <1>3. HistoryOK'
    BY <1>1 DEF SurgeInv, HistoryOK
  <1>4. CacheBehind' /\ PlaceholderRuns' /\ HostsAdvance
    BY PassFrame
  <1>5. OneStart' /\ DeleteOwn'
    BY <1>1 DEF SurgeInv, OneStart, DeleteOwn, PendingSteps, RollbackSteps
  <1>6. AbsorbedIsOld'
    BY DEF SurgeInv, AbsorbedIsOld, CreatedByAttempt
  <1>7. Dealt => Dealt'
    BY <1>4, DealtStays
  <1>8. Findable'
    BY <1>1, <1>7 DEF SurgeInv, Findable, PendingSteps
  <1> QED  BY <1>2, <1>3, <1>4, <1>5, <1>6, <1>8 DEF SurgeInv

LEMMA StopsKeep == ASSUME SurgeInv, Wait \/ createPlaceholder \/ FailPool \/ PassEnds PROVE SurgeInv'
  <1>1. /\ EndPass /\ UNCHANGED <<now, host, pods, seen, cand, candSeen>>
        /\ UNCHANGED <<began, told, spared, due>>
    BY DEF Wait, createPlaceholder, FailPool, PassEnds, world, ghosts
  <1>2. faults' \in 0..MaxFaults
    BY Bounds DEF Wait, createPlaceholder, FailPool, PassEnds, SurgeInv, TypeOK
  <1>3. ph' = ph \/ (pc \in PendingSteps /\ ph' \in {"none", "waiting"})
    BY DEF Wait, createPlaceholder, FailPool, PassEnds, PendingSteps
  <1> QED  BY <1>1, <1>2, <1>3, EndKeeps

\* The start of a pass: a first stamp begins the attempt, a late one its rollback.
LEMMA AssertKeeps == ASSUME SurgeInv, AssertPending PROVE SurgeInv'
  <1> DEFINE stamped == IF cand.startedAt = 0 THEN now ELSE cand.startedAt
             over    == now - stamped > ReadyTimeout
  <1>1. /\ pc = "idle" /\ cand = candSeen /\ cand.state \in {"none", "pending"}
        /\ cand' = [cand EXCEPT !.state = "pending", !.startedAt = stamped]
        /\ candSeen' \in {candSeen, cand'} /\ held' = candSeen'
        /\ pc' = IF over THEN "resolve" ELSE "persist"
        /\ began' = IF began = 0 THEN now ELSE began
        /\ due' = IF ~over \/ due # None THEN due
                  ELSE IF cand.surgeClaim # None THEN cand.surgeClaim
                  ELSE IF ph \in Hosts THEN ph ELSE None
        /\ UNCHANGED <<now, host, pods, seen, ph, name, faults, told, late, spared>>
    BY DEF AssertPending, PatchClaim, world
  <1>2. cand.startedAt = began
    BY <1>1 DEF SurgeInv, OneStart
  <1>3. stamped = began' /\ began' \in 1..now /\ began' \in 0..MaxTime /\ began' \in Nat
    BY <1>1, <1>2, Types, Bounds
  <1>4. over => began # 0 /\ began' = began
    BY <1>1, <1>2, Types, Bounds
  <1> HIDE DEF stamped
  <1>5. /\ cand' \in CandRec /\ cand'.state = "pending" /\ cand'.startedAt = began'
        /\ cand'.surgeClaim = cand.surgeClaim
    BY <1>1, <1>3, Types DEF CandRec
  <1>6. held' \in CandRec /\ candSeen' \in CandRec /\ held'.surgeClaim = cand.surgeClaim
    BY <1>1, <1>5, Types
  <1>7. held'.startedAt \in {0, began'} /\ (over => held'.startedAt = began')
    BY <1>1, <1>2, <1>4, <1>5
  <1>8. due' \in Hosts \cup {None} /\ (due # None => due' = due)
    BY <1>1, <1>5, Types, CandFields
  <1>9. TypeOK'
    BY <1>1, <1>5, <1>6 DEF SurgeInv, TypeOK
  <1>10. HistoryOK'
    <2>1. began' \in 0..now'
      BY <1>1, <1>3, Types
    <2>2. pc' \in {"idle", "failPool"} \cup PendingSteps \cup RollbackSteps
      BY <1>1 DEF PendingSteps, RollbackSteps
    <2> QED  BY <1>1, <1>8, <2>1, <2>2 DEF SurgeInv, HistoryOK
  <1>11. CacheBehind' /\ PlaceholderRuns' /\ HostsAdvance
    BY <1>1, PassFrame
  <1>12. OneStart'
    <2>1. began' # 0
      BY <1>3
    <2>2. pc' \in {"resolve", "persist"} /\ (pc' \in RollbackSteps => over)
      BY <1>1 DEF RollbackSteps
    <2> QED  BY <1>1, <1>5, <1>6, <1>7, <2>1, <2>2 DEF OneStart
  <1>13. DeleteOwn'
    BY <1>1 DEF DeleteOwn
  <1>14. AbsorbedIsOld'
    <2>1. CASE began = 0
      <3>1. told' = Untold /\ Untold.path = ""
        BY <1>1, <2>1 DEF SurgeInv, OneStart, Untold
      <3> QED  BY <3>1 DEF AbsorbedIsOld
    <2>2. CASE began # 0
      BY <1>1, <2>2 DEF SurgeInv, AbsorbedIsOld, CreatedByAttempt
    <2> QED  BY <2>1, <2>2
  <1>15. due = None \/ (due' = due /\ began' = began /\ over)
    <2> SUFFICES ASSUME due # None PROVE due' = due /\ began' = began /\ over
      OBVIOUS
    <2>1. began # 0 /\ cand.state = "pending"
      BY <1>1 DEF SurgeInv, OneStart, Findable
    <2>2. now - began > ReadyTimeout
      BY <2>1 DEF SurgeInv, Findable
    <2>3. stamped = began
      BY <1>1, <1>3, <2>1
    <2> QED  BY <1>1, <1>8, <2>1, <2>2, <2>3
  <1>16. Findable'
    <2>1. \A h \in {cand'.surgeClaim, due'} \ {None} : seen'[h] # "none"
      <3>1. \A h \in {cand.surgeClaim, due} \ {None} : seen[h] # "none"
        BY DEF SurgeInv, Findable
      <3>2. ph \in Hosts => seen[ph] # "none"
        BY DEF SurgeInv, PlaceholderRuns, Bindable
      <3> QED  BY <1>1, <1>5, <3>1, <3>2
    <2>2. due' # None => over /\ pc' = "resolve"
      BY <1>1, <1>15
    <2>3. due' # None => now' - began' > ReadyTimeout
      BY <1>1, <1>3, <2>2
    <2>4. due' # None => Dealt' \/ cand'.surgeClaim = due' \/ (cand'.surgeClaim = None /\ ph' = due')
      <3>1. CASE due # None
        <4>1. due' = due /\ began' = began
          BY <1>15, <3>1
        <4>2. Dealt => Dealt'
          BY <1>1, <1>11, <4>1, DealtStays
        <4>3. Dealt \/ cand.surgeClaim = due \/ (cand.surgeClaim = None /\ ph = due)
          BY <3>1 DEF SurgeInv, Findable
        <4> QED  BY <1>1, <1>5, <4>1, <4>2, <4>3
      <3>2. CASE due = None
        BY <1>1, <1>5, <3>2
      <3> QED  BY <3>1, <3>2
    <2>5. cand'.state = "pending" /\ pc' \notin {"reap", "delete", "clean", "fail"}
      BY <1>1, <1>5
    <2> QED  BY <2>1, <2>2, <2>3, <2>4, <2>5 DEF Findable, PendingSteps
  <1> QED  BY <1>9, <1>10, <1>11, <1>12, <1>13, <1>14, <1>16 DEF SurgeInv

\* Whatever claim a lookup names has been in the cache.
LEMMA InducedSeen ==
  ASSUME SurgeInv, NEW c \in CandRec, NEW n \in inducedClaim(c)
  PROVE  n \in Hosts \cup {None} /\ (n # None => seen[n] # "none")
         /\ (ph \in Hosts => n = ph)
  <1>1. ph \in Hosts => seen[ph] = "registered" /\ claimForNode(ph) = ph /\ ph # None
    BY Bounds DEF SurgeInv, PlaceholderRuns, Bindable, claimForNode
  <1>2. CASE ph \in Hosts
    BY <1>1, <1>2 DEF inducedClaim
  <1>3. CASE ph \notin Hosts
    BY <1>3 DEF inducedClaim, Unregistered
  <1> QED  BY <1>2, <1>3

LEMMA PersistKeeps == ASSUME SurgeInv, PersistSurgeClaim PROVE SurgeInv'
  <1>1. /\ pc = "persist" /\ pc' = "place"
        /\ UNCHANGED <<now, host, pods, seen, ph, candSeen, held, name, faults>>
        /\ UNCHANGED <<began, told, late, spared, due>>
    BY DEF PersistSurgeClaim, Goto, world, ghosts
  <1>2. cand' = cand \/ \E n \in inducedClaim(held) : n # None /\ cand' = [cand EXCEPT !.surgeClaim = n]
    BY DEF PersistSurgeClaim, PatchClaim
  <1>3. /\ cand' \in CandRec /\ cand'.state = cand.state /\ cand'.startedAt = cand.startedAt
        /\ cand'.surgeClaim # None => seen[cand'.surgeClaim] # "none"
    <2>1. CASE cand' = cand
      BY <2>1, Types DEF SurgeInv, Findable
    <2>2. ASSUME NEW n \in inducedClaim(held), n # None, cand' = [cand EXCEPT !.surgeClaim = n]
          PROVE  /\ cand' \in CandRec /\ cand'.state = cand.state
                 /\ cand'.startedAt = cand.startedAt /\ cand'.surgeClaim = n
                 /\ seen[n] # "none"
      <3>1. n \in Hosts \cup {None} /\ seen[n] # "none"
        BY <2>2, Types, InducedSeen
      <3> QED  BY <2>2, <3>1, Types DEF CandRec
    <2> QED  BY <1>2, <2>1, <2>2
  <1>4. cand.state = "pending" /\ due = None
    BY <1>1 DEF SurgeInv, OneStart, Findable, PendingSteps
  <1>5. TypeOK'
    BY <1>1, <1>3, <1>4 DEF SurgeInv, TypeOK
  <1>6. HistoryOK'
    BY <1>1 DEF SurgeInv, HistoryOK, PendingSteps
  <1>7. CacheBehind' /\ PlaceholderRuns' /\ HostsAdvance
    BY <1>1, PassFrame
  <1>8. OneStart' /\ DeleteOwn'
    BY <1>1, <1>3, <1>4 DEF SurgeInv, OneStart, DeleteOwn, PendingSteps, RollbackSteps
  <1>9. AbsorbedIsOld'
    BY <1>1 DEF SurgeInv, AbsorbedIsOld, CreatedByAttempt
  <1>10. Findable'
    BY <1>1, <1>3, <1>4 DEF Findable, Dealt
  <1> QED  BY <1>5, <1>6, <1>7, <1>8, <1>9, <1>10 DEF SurgeInv

LEMMA ReadyKeeps == ASSUME SurgeInv, surgeReady PROVE SurgeInv'
  <1>1. /\ pc = "place" /\ pc' = "drain" /\ ph \in Hosts
        /\ told' = [host |-> ph, path |-> IF claimForNode(ph) = None THEN ""
                                          ELSE HostPath(ph, cand.startedAt)]
        /\ UNCHANGED <<now, host, pods, seen, ph, cand, candSeen, held, name, faults>>
        /\ UNCHANGED <<began, late, spared, due>>
    BY DEF surgeReady, Goto, world
  <1>2. cand.state = "pending" /\ cand.startedAt = began /\ began # 0
    BY <1>1 DEF SurgeInv, OneStart, PendingSteps
  <1>3. host[ph].stage # "none"
    BY <1>1 DEF SurgeInv, PlaceholderRuns, Bindable
  <1>4. TypeOK'
    BY <1>1 DEF SurgeInv, TypeOK
  <1>5. HistoryOK'
    BY <1>1 DEF SurgeInv, HistoryOK, PendingSteps, HostPath
  <1>6. CacheBehind' /\ PlaceholderRuns' /\ HostsAdvance
    BY <1>1, PassFrame
  <1>7. OneStart' /\ DeleteOwn'
    BY <1>1, <1>2 DEF SurgeInv, OneStart, DeleteOwn, PendingSteps, RollbackSteps
  <1>8. AbsorbedIsOld'
    BY <1>1, <1>2, <1>3 DEF AbsorbedIsOld, HostPath, CreatedByAttempt
  <1>9. Findable'
    BY <1>1 DEF SurgeInv, Findable, PendingSteps, Dealt, CreatedByAttempt
  <1> QED  BY <1>4, <1>5, <1>6, <1>7, <1>8, <1>9 DEF SurgeInv

LEMMA DrainKeeps == ASSUME SurgeInv, StartDraining PROVE SurgeInv'
  <1>1. /\ pc = "drain" /\ EndPass /\ cand' = [cand EXCEPT !.state = "draining"]
        /\ UNCHANGED <<now, host, pods, seen, ph, candSeen, faults>>
        /\ UNCHANGED <<began, told, late, spared, due>>
    BY DEF StartDraining, PatchClaim, world, ghosts
  <1>2. pc' = "idle" /\ held' = Fresh /\ name' = None
    BY <1>1 DEF EndPass
  <1>3. cand.state = "pending" /\ cand.startedAt = began /\ due = None
    BY <1>1 DEF SurgeInv, OneStart, Findable, PendingSteps
  <1>4. /\ cand' \in CandRec /\ cand'.state = "draining" /\ cand'.startedAt = cand.startedAt
        /\ cand'.surgeClaim = cand.surgeClaim
    BY <1>1, Types DEF CandRec
  <1>5. TypeOK' /\ HistoryOK'
    BY <1>1, <1>2, <1>4, FreshOK DEF SurgeInv, TypeOK, HistoryOK
  <1>6. CacheBehind' /\ PlaceholderRuns' /\ HostsAdvance
    BY <1>1, PassFrame
  <1>7. OneStart' /\ DeleteOwn'
    BY <1>1, <1>2, <1>3, <1>4 DEF SurgeInv, OneStart, DeleteOwn, PendingSteps, RollbackSteps
  <1>8. AbsorbedIsOld'
    BY <1>1 DEF SurgeInv, AbsorbedIsOld, CreatedByAttempt
  <1>9. Findable'
    BY <1>1, <1>2, <1>3, <1>4 DEF SurgeInv, Findable
  <1> QED  BY <1>5, <1>6, <1>7, <1>8, <1>9 DEF SurgeInv

-----------------------------------------------------------------------------
(***************************************************************************)
(* The rollback.                                                           *)
(***************************************************************************)

LEMMA ResolveKeeps == ASSUME SurgeInv, ResolveSurgeClaim PROVE SurgeInv'
  <1>1. /\ pc = "resolve" /\ pc' = "reap"
        /\ name' \in (IF held.surgeClaim # None THEN {held.surgeClaim} ELSE inducedClaim(held))
        /\ UNCHANGED <<now, host, pods, seen, ph, cand, candSeen, held, faults>>
        /\ UNCHANGED <<began, told, late, spared, due>>
    BY DEF ResolveSurgeClaim, world, ghosts
  <1>2. held.surgeClaim = cand.surgeClaim
    BY <1>1 DEF SurgeInv, OneStart, RollbackSteps
  <1>3. name' \in Hosts \cup {None}
    BY <1>1, Types, CandFields, InducedSeen
  <1>4. TypeOK' /\ HistoryOK'
    BY <1>1, <1>3 DEF SurgeInv, TypeOK, HistoryOK, RollbackSteps
  <1>5. CacheBehind' /\ PlaceholderRuns' /\ HostsAdvance
    BY <1>1, PassFrame
  <1>6. OneStart' /\ DeleteOwn'
    BY <1>1 DEF SurgeInv, OneStart, DeleteOwn, PendingSteps, RollbackSteps
  <1>7. AbsorbedIsOld'
    BY <1>1 DEF SurgeInv, AbsorbedIsOld, CreatedByAttempt
  <1>8. Dealt => Dealt'
    BY <1>1, <1>5, DealtStays
  <1>9. Dealt' \/ name' = due'
    <2>1. CASE due = None
      BY <1>1, <2>1 DEF Dealt
    <2>2. CASE Dealt
      BY <1>8, <2>2
    <2>3. CASE due # None /\ cand.surgeClaim = due
      BY <1>1, <1>2, <2>3
    <2>4. CASE due # None /\ cand.surgeClaim = None /\ ph = due
      <3>1. ph \in Hosts /\ name' \in inducedClaim(held)
        BY <1>1, <1>2, <2>4, Types
      <3> QED  BY <1>1, <2>4, <3>1, Types, InducedSeen
    <2> QED  BY <2>1, <2>2, <2>3, <2>4 DEF SurgeInv, Findable
  <1>10. Findable'
    BY <1>1, <1>8, <1>9 DEF SurgeInv, Findable, PendingSteps
  <1> QED  BY <1>4, <1>5, <1>6, <1>7, <1>10 DEF SurgeInv

\* The guards: what they let through is the attempt's own and empty, and what they
\* spare is gone, older, or occupied.
LEMMA ReapKeeps == ASSUME SurgeInv, reapSurgeClaim PROVE SurgeInv'
  <1>1. /\ pc = "reap" /\ pc' \in {"delete", "clean"}
        /\ UNCHANGED <<now, host, pods, seen, ph, cand, candSeen, held, name, faults>>
        /\ UNCHANGED <<began, told, late, due>>
        /\ pc' = "delete" => name # None /\ MayReap(name, held.startedAt)
        /\ pc' = "clean" => /\ ~(name # None /\ MayReap(name, held.startedAt))
                            /\ spared' = spared \cup {h \in {name} \ {None} : hostsRealPods(h)}
        /\ spared' \in {spared, spared \cup {h \in {name} \ {None} : hostsRealPods(h)}}
    BY DEF reapSurgeClaim, Goto, world
  <1>2. held.startedAt = began /\ began # 0
    BY <1>1 DEF SurgeInv, OneStart, RollbackSteps
  <1>3. spared' \subseteq Hosts /\ spared \subseteq spared'
    BY <1>1, Types DEF SurgeInv, HistoryOK
  <1>4. TypeOK' /\ HistoryOK'
    BY <1>1, <1>3 DEF SurgeInv, TypeOK, HistoryOK, RollbackSteps
  <1>5. CacheBehind' /\ PlaceholderRuns' /\ HostsAdvance
    BY <1>1, PassFrame
  <1>6. OneStart'
    BY <1>1 DEF SurgeInv, OneStart, PendingSteps, RollbackSteps
  <1>7. DeleteOwn'
    <2> SUFFICES ASSUME pc' = "delete" PROVE DeleteOwn'
      BY DEF DeleteOwn
    <2>1. name \in Hosts /\ MayReap(name, began)
      BY <1>1, <1>2, Types
    <2>2. CreatedByAttempt(name, began) /\ seen[name] \in {"new", "registered"}
          /\ (seen[name] = "registered" => ~hostsRealPods(name))
      BY <2>1 DEF MayReap, Cached
    <2>3. host[name].stage # "none" /\ ~hostsRealPods(name)
      BY <2>1, <2>2 DEF SurgeInv, CacheBehind
    <2> QED  BY <1>1, <2>1, <2>2, <2>3 DEF DeleteOwn, CreatedByAttempt, hostsRealPods
  <1>8. AbsorbedIsOld'
    BY <1>1 DEF SurgeInv, AbsorbedIsOld, CreatedByAttempt
  <1>9. Dealt => Dealt'
    BY <1>1, <1>3, <1>5, DealtStays
  <1>10. Dealt \/ name = due
    BY <1>1 DEF SurgeInv, Findable
  <1>11. pc' = "clean" => Dealt'
    <2> SUFFICES ASSUME pc' = "clean", name = due, due # None PROVE Dealt'
      BY <1>1, <1>9, <1>10 DEF Dealt
    <2>1. due \in Hosts /\ seen[due] # "none" /\ ~MayReap(due, began)
      BY <1>1, <1>2, Types DEF SurgeInv, Findable
    <2>2. \/ seen[due] = "gone" \/ ~CreatedByAttempt(due, began) \/ hostsRealPods(due)
      BY <1>2, <2>1, HostFields DEF MayReap, Cached, Stages
    <2>3. hostsRealPods(due) => due \in spared'
      BY <1>1
    <2>4. seen[due] = "gone" => host[due].stage = "gone"
      BY <2>1 DEF SurgeInv, CacheBehind
    <2> QED  BY <1>1, <2>2, <2>3, <2>4 DEF Dealt, CreatedByAttempt
  <1>12. Findable'
    BY <1>1, <1>9, <1>10, <1>11 DEF SurgeInv, Findable, PendingSteps
  <1> QED  BY <1>4, <1>5, <1>6, <1>7, <1>8, <1>12 DEF SurgeInv

LEMMA DeleteKeeps == ASSUME SurgeInv, DeleteSurgeClaim PROVE SurgeInv'
  <1>1. /\ pc = "delete" /\ pc' = "clean" /\ name \in Hosts /\ host[name].stage # "none"
        /\ host' = [host EXCEPT ![name].stage = "gone"] /\ pods' = [pods EXCEPT ![name] = {}]
        /\ ph' = IF ph = name THEN "none" ELSE ph
        /\ UNCHANGED <<now, seen, cand, candSeen, held, name, faults>>
        /\ UNCHANGED <<began, told, spared, due>>
    BY DEF DeleteSurgeClaim, Goto, SurgeInv, DeleteOwn
  <1>2. /\ \A g \in Hosts : g # name => host'[g] = host[g] /\ pods'[g] = pods[g]
        /\ host'[name].stage = "gone" /\ host'[name].created = host[name].created
        /\ pods'[name] = {}
    BY <1>1 DEF SurgeInv, TypeOK
  <1>3. host' \in [Hosts -> [stage: Stages, created: 0..MaxTime]]
        /\ pods' \in [Hosts -> SUBSET {"infra", "workload"}]
    BY <1>1 DEF SurgeInv, TypeOK, Stages
  <1>4. TypeOK' /\ HistoryOK'
    BY <1>1, <1>3 DEF SurgeInv, TypeOK, HistoryOK, RollbackSteps
  <1>5. HostsAdvance
    BY <1>1, <1>2 DEF HostsAdvance
  <1>6. CacheBehind'
    BY <1>1, <1>2 DEF SurgeInv, CacheBehind, hostsRealPods
  <1>7. PlaceholderRuns'
    BY <1>1, <1>2, Bounds DEF SurgeInv, PlaceholderRuns, Bindable
  <1>8. OneStart' /\ DeleteOwn'
    BY <1>1 DEF SurgeInv, OneStart, DeleteOwn, PendingSteps, RollbackSteps
  <1>9. AbsorbedIsOld'
    BY <1>1, <1>5 DEF SurgeInv, AbsorbedIsOld, CreatedByAttempt, HostsAdvance
  <1>10. Dealt'
    <2>1. CASE Dealt
      BY <1>1, <1>5, <2>1, DealtStays
    <2>2. CASE name = due
      BY <1>1, <1>2, <2>2 DEF Dealt
    <2> QED  BY <1>1, <2>1, <2>2 DEF SurgeInv, Findable
  <1>11. Findable'
    BY <1>1, <1>10 DEF SurgeInv, Findable, PendingSteps
  <1> QED  BY <1>4, <1>6, <1>7, <1>8, <1>9, <1>11 DEF SurgeInv

LEMMA CleanKeeps == ASSUME SurgeInv, deletePlaceholder PROVE SurgeInv'
  <1>1. /\ pc = "clean" /\ pc' = "fail" /\ ph' = "none"
        /\ UNCHANGED <<now, host, pods, seen, cand, candSeen, held, name, faults>>
        /\ UNCHANGED <<began, told, late, spared, due>>
    BY DEF deletePlaceholder, Goto, world, ghosts
  <1>2. TypeOK' /\ HistoryOK'
    BY <1>1 DEF SurgeInv, TypeOK, HistoryOK, RollbackSteps
  <1>3. CacheBehind' /\ PlaceholderRuns' /\ HostsAdvance
    BY <1>1, PassFrame
  <1>4. OneStart' /\ DeleteOwn'
    BY <1>1 DEF SurgeInv, OneStart, DeleteOwn, PendingSteps, RollbackSteps
  <1>5. AbsorbedIsOld'
    BY <1>1 DEF SurgeInv, AbsorbedIsOld, CreatedByAttempt
  <1>6. Dealt'
    BY <1>1, <1>3, DealtStays DEF SurgeInv, Findable
  <1>7. Findable'
    BY <1>1, <1>6 DEF SurgeInv, Findable, PendingSteps
  <1> QED  BY <1>2, <1>3, <1>4, <1>5, <1>7 DEF SurgeInv

LEMMA FailKeeps == ASSUME SurgeInv, FailClaim PROVE SurgeInv'
  <1>1. /\ pc = "fail" /\ pc' = "failPool" /\ cand' = Failed
        /\ UNCHANGED <<now, host, pods, seen, ph, candSeen, held, name, faults>>
        /\ UNCHANGED <<began, told, late, spared, due>>
    BY DEF FailClaim, PatchClaim, Goto, world, ghosts
  <1>2. cand' \in CandRec /\ cand'.state = "failed" /\ cand'.startedAt = 0 /\ cand'.surgeClaim = None
    <2>1. 0 \in 0..MaxTime
      BY Bounds
    <2> QED  BY <1>1, <2>1, Types DEF CandRec, Failed
  <1>3. TypeOK' /\ HistoryOK'
    BY <1>1, <1>2 DEF SurgeInv, TypeOK, HistoryOK
  <1>4. CacheBehind' /\ PlaceholderRuns' /\ HostsAdvance
    BY <1>1, PassFrame
  <1>5. OneStart' /\ DeleteOwn'
    BY <1>1, <1>2 DEF SurgeInv, OneStart, DeleteOwn, PendingSteps, RollbackSteps
  <1>6. AbsorbedIsOld'
    BY <1>1 DEF SurgeInv, AbsorbedIsOld, CreatedByAttempt
  <1>7. Dealt'
    BY <1>1, <1>4, DealtStays DEF SurgeInv, Findable
  <1>8. Findable'
    BY <1>1, <1>2, <1>7 DEF SurgeInv, Findable, PendingSteps
  <1> QED  BY <1>3, <1>4, <1>5, <1>6, <1>8 DEF SurgeInv

LEMMA RetryKeeps == ASSUME SurgeInv, RetryFailed PROVE SurgeInv'
  <1>1. /\ pc = "idle" /\ candSeen = cand /\ cand.state = "failed"
        /\ cand' = [cand EXCEPT !.state = "pending"]
        /\ began' = 0 /\ told' = Untold /\ spared' = {} /\ due' = None
        /\ UNCHANGED <<now, host, pods, seen, ph, candSeen, pc, held, name, faults, late>>
    BY DEF RetryFailed, PatchClaim, world
  <1>2. cand.startedAt = 0 /\ cand.surgeClaim = None
    BY <1>1 DEF SurgeInv, TypeOK
  <1>3. cand' \in CandRec /\ cand'.state = "pending" /\ cand'.startedAt = 0 /\ cand'.surgeClaim = None
    BY <1>1, <1>2, Types DEF CandRec
  <1>4. Untold \in [host: Hosts \cup {None}, path: {"", "provisioned", "absorbed"}] /\ Untold.path = ""
    BY DEF Untold
  <1>5. TypeOK'
    BY <1>1, <1>3 DEF SurgeInv, TypeOK
  <1>6. HistoryOK'
    <2>1. began' \in 0..now'
      BY <1>1, Types
    <2> QED  BY <1>1, <1>4, <2>1 DEF SurgeInv, HistoryOK
  <1>7. CacheBehind' /\ PlaceholderRuns'
    BY <1>1, PassFrame
  <1>8. OneStart' /\ DeleteOwn'
    BY <1>1, <1>2, <1>3 DEF SurgeInv, OneStart, DeleteOwn, PendingSteps, RollbackSteps
  <1>9. AbsorbedIsOld'
    BY <1>1, <1>4 DEF AbsorbedIsOld
  <1>10. Findable'
    BY <1>1, <1>3 DEF Findable, Dealt
  <1> QED  BY <1>5, <1>6, <1>7, <1>8, <1>9, <1>10 DEF SurgeInv

-----------------------------------------------------------------------------
(***************************************************************************)
(* The theorems.                                                           *)
(***************************************************************************)

LEMMA SurgeInit == Init => SurgeInv
  <1> SUFFICES ASSUME Init PROVE SurgeInv
    OBVIOUS
  <1> USE DEF Init
  <1>1. \A h \in Hosts : host[h].stage = "none" /\ seen[h] = "none" /\ pods[h] = {}
    OBVIOUS
  <1>2. cand = Fresh /\ candSeen = Fresh /\ held = Fresh /\ name = None /\ now = 1
    OBVIOUS
  <1>3. TypeOK
    <2>1. host \in [Hosts -> [stage: Stages, created: 0..MaxTime]]
      BY Bounds DEF Stages
    <2>2. seen \in [Hosts -> Stages] /\ pods \in [Hosts -> SUBSET {"infra", "workload"}]
      BY <1>1 DEF Stages
    <2>3. now \in 1..MaxTime /\ faults \in 0..MaxFaults
      BY Bounds
    <2> QED  BY <1>2, <2>1, <2>2, <2>3, FreshOK DEF TypeOK
  <1>4. Untold \in [host: Hosts \cup {None}, path: {"", "provisioned", "absorbed"}] /\ Untold.path = ""
    BY DEF Untold
  <1>5. HistoryOK
    <2>1. began \in 0..now
      OBVIOUS
    <2> QED  BY <1>4, <2>1 DEF HistoryOK
  <1>6. CacheBehind /\ PlaceholderRuns
    BY <1>1, Bounds DEF CacheBehind, PlaceholderRuns, hostsRealPods
  <1>7. OneStart /\ DeleteOwn /\ AbsorbedIsOld /\ Findable
    BY <1>4, FreshOK DEF OneStart, DeleteOwn, AbsorbedIsOld, Findable, Dealt, PendingSteps,
                         RollbackSteps
  <1> QED  BY <1>3, <1>5, <1>6, <1>7 DEF SurgeInv

LEMMA SurgeStep == ASSUME SurgeInv, [Next]_vars PROVE SurgeInv'
  <1>1. CASE UNCHANGED vars
    <2>1. TypeOK'
      BY <1>1 DEF vars, SurgeInv, TypeOK
    <2>2. CacheBehind' /\ HostsAdvance /\ PlaceholderRuns'
      BY <1>1, PassFrame DEF vars
    <2> QED  BY <1>1, <2>1, <2>2, Types, WorldStep DEF vars, hostsRealPods
  <1>2. CASE \E h \in Hosts : \/ Provision(h) \/ Register(h) \/ BindWorkload(h)
                              \/ BindPlaceholder(h) \/ Consolidate(h) \/ SyncClaims(h)
    BY <1>2, ProvisionKeeps, RegisterKeeps, BindWorkloadKeeps, PlaceholderMoves,
       ConsolidateKeeps, CachesKeep
  <1> QED
    BY <1>1, <1>2, AssertKeeps, PersistKeeps, StopsKeep, ReadyKeeps, DrainKeeps, ResolveKeeps,
       ReapKeeps, DeleteKeeps, CleanKeeps, FailKeeps, RetryKeeps, PlaceholderMoves, CachesKeep
    DEF Next

\* What the records, the lagging caches and a rollback's steps say of the surge claims an
\* attempt induced, in every reachable state (persistSurgeClaim, reapSurgeClaim).
THEOREM SurgeInvHolds == Spec => []SurgeInv
  BY SurgeInit, SurgeStep, PTL DEF Spec

\* The state is well-typed, and a failed candidate carries nothing of its last attempt.
THEOREM SurgeTyped == Spec => []TypeOK
  <1>1. SurgeInv => TypeOK
    BY DEF SurgeInv
  <1> QED  BY <1>1, SurgeInvHolds, PTL

\* Only the delete reaps, and only the claim its guards let through.
LEMMA OnlyDeleteReaps ==
  ASSUME SurgeInv, [Next]_vars, NEW h \in Hosts, Reaps(h)
  PROVE  pc = "delete" /\ name = h
  <1>1. DeleteSurgeClaim
    BY DEF Next, vars, Reaps, world, ghosts, controllerVars, AssertPending, PersistSurgeClaim,
           Wait, createPlaceholder, surgeReady, StartDraining, ResolveSurgeClaim,
           reapSurgeClaim, deletePlaceholder, FailClaim, FailPool, RetryFailed, PassEnds,
           Provision, Register, BindWorkload, BindPlaceholder, Consolidate, SyncClaims,
           Preempt, SyncCandidate, Tick
  <1> QED  BY <1>1 DEF DeleteSurgeClaim, Reaps

\* A rollback deletes only what its own attempt induced.
THEOREM ReapsOwnOnly == Spec => ReapsOwn
  <1>1. ASSUME SurgeInv, [Next]_vars
        PROVE  \A h \in Hosts : Reaps(h) => host[h].created > began
    BY <1>1, OnlyDeleteReaps DEF SurgeInv, DeleteOwn, CreatedByAttempt
  <1> QED  BY <1>1, SurgeInvHolds, PTL DEF Spec, ReapsOwn

\* ... and no node that had workload when the guard looked.
THEOREM WorkloadSpared == Spec => SparesWorkload
  <1>1. ASSUME SurgeInv, [Next]_vars
        PROVE  \A h \in Hosts : Reaps(h) /\ hostsRealPods(h) => h \in late
    BY <1>1, OnlyDeleteReaps DEF SurgeInv, DeleteOwn
  <1> QED  BY <1>1, SurgeInvHolds, PTL DEF Spec, SparesWorkload

\* A host reported as absorbed is not reaped by the attempt that reported it.
THEOREM ReportAndReapAgree == Spec => PathAgrees
  <1>1. ASSUME SurgeInv, [Next]_vars
        PROVE  \A h \in Hosts : Reaps(h) => told # [host |-> h, path |-> "absorbed"]
    <2> SUFFICES ASSUME NEW h \in Hosts, Reaps(h), told = [host |-> h, path |-> "absorbed"]
                 PROVE  FALSE
      OBVIOUS
    <2>1. CreatedByAttempt(h, began)
      BY <1>1, OnlyDeleteReaps DEF SurgeInv, DeleteOwn
    <2>2. ~CreatedByAttempt(h, began)
      BY <1>1 DEF SurgeInv, AbsorbedIsOld
    <2> QED  BY <2>1, <2>2
  <1> QED  BY <1>1, SurgeInvHolds, PTL DEF Spec, PathAgrees

\* A rollback that records its failure has dealt with its surge claim.
THEOREM SurgeDealtWith == Spec => NoIdleSurgeLeft
  <1>1. ASSUME SurgeInv, pc = "fail", pc' = "failPool", due # None
        PROVE  \/ host[due].stage = "gone" \/ due \in spared \/ host[due].created <= began
    <2>1. Dealt /\ due \in Hosts
      BY <1>1, Types DEF SurgeInv, Findable
    <2>2. host[due].created \in Nat /\ began \in Nat
      BY <1>1, <2>1, HostFields, Types
    <2> QED  BY <1>1, <2>1, <2>2 DEF Dealt, CreatedByAttempt
  <1> QED  BY <1>1, SurgeInvHolds, PTL DEF NoIdleSurgeLeft

=============================================================================
