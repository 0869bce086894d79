------------------------- MODULE PolicyStatusProofs -------------------------
(***************************************************************************)
(* Theorems of PolicyStatus, for any finite set of policies, pools and     *)
(* label keys and any number of edits, failed calls and restarts.          *)
(***************************************************************************)
EXTENDS PolicyStatus, FiniteSetTheorems, TLAPS

StatusRec ==
    [observedGeneration: Generations, matched: Nat, rotating: Nat,
     ready: {"None", "Invalid", "Conflict", "Accepted"},
     tied: SUBSET Policies, conflicted: SUBSET Pools]
PolicyRec ==
    [name: Policies, generation: Generations, valid: BOOLEAN, status: StatusRec,
     selector: Selectors]

Shape ==
    /\ policy \in [Policies -> PolicyRec] /\ policyCache \in [Policies -> PolicyRec]
    /\ pc \in {"idle", "list", "update"} /\ (pc # "idle" => target \in PolicyRec)
    /\ desired \in StatusRec
    /\ validAt \in [Policies -> [Generations -> BOOLEAN]]
    /\ events \in 0..MaxEvents

\* A status never names a generation the policy has not had, and its verdict is that
\* generation's: generations up to gen, of which valid says which resolve.
Honest(s, gen, valid) ==
    /\ s.observedGeneration <= gen
    /\ s.observedGeneration > 0 => (s.ready = "Invalid" <=> ~valid[s.observedGeneration])

\* A copy of a policy, however old, is one the server has held.
Snapshot(r, gen, valid) ==
    /\ r.generation > 0 /\ r.generation <= gen
    /\ r.valid <=> valid[r.generation]
    /\ Honest(r.status, gen, valid)

Of(r, p) == r.name = p /\ Snapshot(r, policy[p].generation, validAt[p])

\* The inductive invariant.
PolicyInv ==
    /\ Shape
    /\ \A p \in Policies : /\ Of(policy[p], p) /\ Of(policyCache[p], p)
                           /\ policy[p].generation <= events + 1
    /\ pc # "idle" => Of(target, target.name)
    /\ pc = "update" =>
         Honest(desired, policy[target.name].generation, validAt[target.name])

-----------------------------------------------------------------------------
(***************************************************************************)
(* resolve.Governing                                                       *)
(***************************************************************************)

LEMMA TopFinite == ASSUME NEW labels, NEW policies PROVE IsFiniteSet(topMatches(labels, policies))
  <1>1. topMatches(labels, policies) \subseteq Policies
    BY DEF topMatches
  <1> QED  BY <1>1, PolicyAssumption, FS_Subset

\* Governing never guesses: the policy it names matches and is strictly more specific
\* than every other one that matches, a match like that is always named, and when the
\* most specific matches are several none wins and all are reported (resolve.go: "a
\* node-deleting controller must never silently guess which policy applies").
THEOREM GoverningNeverGuesses ==
  ASSUME NEW labels, NEW policies,
         \A p \in Policies : IsFiniteSet(policies[p].selector.keys)
  PROVE  LET g == Governing(labels, policies)
             spec(p) == specificity(policies[p].selector)
             match == {p \in Policies : Matches(policies[p].selector, labels)}
         IN  /\ g.winner # NoPolicy =>
                  /\ g.winner \in match /\ g.tied = {}
                  /\ \A q \in match \ {g.winner} : spec(q) < spec(g.winner)
             /\ \A p \in g.tied : /\ g.winner = NoPolicy /\ p \in match
                                  /\ \A q \in match : spec(q) <= spec(p)
             /\ \A p, o \in match :
                  p # o /\ (\A q \in match : spec(q) <= spec(p)) /\ spec(o) = spec(p) =>
                    p \in g.tied /\ o \in g.tied
             /\ \A p \in match : (\A q \in match \ {p} : spec(q) < spec(p)) => g.winner = p
  <1> DEFINE top == topMatches(labels, policies)
             spec(p) == specificity(policies[p].selector)
             match == {p \in Policies : Matches(policies[p].selector, labels)}
             g == Governing(labels, policies)
  <1>1. top = {p \in match : \A q \in match : spec(q) <= spec(p)}
    BY DEF topMatches
  <1>2. \A p \in Policies : spec(p) \in Nat
    BY FS_CardinalityType DEF specificity
  <1>3. IsFiniteSet(top) /\ Cardinality(top) \in Nat
    BY TopFinite, FS_CardinalityType
  <1>4. /\ g.winner = (IF Cardinality(top) = 1 THEN CHOOSE p \in top : TRUE ELSE NoPolicy)
        /\ g.tied = (IF Cardinality(top) > 1 THEN top ELSE {})
    BY DEF Governing
  <1>5. Cardinality(top) = 1 => \E x : top = {x}
    BY <1>3, FS_Singleton
  <1> HIDE DEF top, g, spec
  <1>6. ASSUME g.winner # NoPolicy
        PROVE  /\ g.winner \in match /\ g.tied = {}
               /\ \A q \in match \ {g.winner} : spec(q) < spec(g.winner)
    <2>1. Cardinality(top) = 1
      BY <1>4, <1>6
    <2>2. top = {g.winner} /\ g.tied = {}
      BY <1>4, <1>5, <2>1
    <2>3. \A q \in match \ {g.winner} : spec(q) <= spec(g.winner) /\ spec(q) # spec(g.winner)
      BY <1>1, <2>2
    <2> QED  BY <1>1, <1>2, <2>2, <2>3
  <1>7. ASSUME NEW p \in g.tied
        PROVE  g.winner = NoPolicy /\ p \in match /\ \A q \in match : spec(q) <= spec(p)
    BY <1>1, <1>3, <1>4
  <1>8. ASSUME NEW p \in match, NEW o \in match, p # o,
               \A q \in match : spec(q) <= spec(p), spec(o) = spec(p)
        PROVE  p \in g.tied /\ o \in g.tied
    <2>1. p \in top /\ o \in top /\ p # o
      BY <1>1, <1>8
    <2>2. Cardinality(top) # 0 /\ Cardinality(top) # 1
      BY <1>3, <1>5, <2>1, FS_EmptySet
    <2> QED  BY <1>3, <1>4, <2>1, <2>2
  <1>9. ASSUME NEW p \in match, \A q \in match \ {p} : spec(q) < spec(p)
        PROVE  g.winner = p
    <2>1. \A q \in match : spec(q) \in Nat
      BY <1>2
    <2>2. \A q \in match \ {p} : ~(spec(p) <= spec(q)) /\ spec(q) <= spec(p)
      BY <1>9, <2>1
    <2>3. spec(p) <= spec(p)
      BY <2>1
    <2>4. top = {p}
      BY <1>1, <2>2, <2>3
    <2>5. Cardinality(top) = 1
      BY <2>4, FS_Singleton
    <2> QED  BY <1>4, <2>4, <2>5
  <1> QED  BY <1>6, <1>7, <1>8, <1>9 DEF g, spec

\* What computeStatus says of the policy it is given.
LEMMA ComputeStatus ==
  ASSUME NEW t \in PolicyRec, NEW policies, NEW pools, t.generation > 0
  PROVE  LET s == computeStatus(t, policies, pools)
         IN  /\ s \in StatusRec /\ s.observedGeneration = t.generation
             /\ s.ready = "Invalid" <=> ~t.valid
  <1> DEFINE governing(q) == Governing(pools[q].labels, policies)
             won   == {q \in Pools : governing(q).winner = t.name}
             rot   == {q \in won : pools[q].anchored}
             clash == {q \in Pools : t.name \in governing(q).tied}
             ties  == UNION {governing(q).tied : q \in clash} \ {t.name}
             s     == computeStatus(t, policies, pools)
  <1>1. Cardinality(won) \in Nat /\ Cardinality(rot) \in Nat
    BY PolicyAssumption, FS_Subset, FS_CardinalityType
  <1>2. \A q \in Pools : governing(q).tied \subseteq Policies
    BY DEF Governing, topMatches
  <1>3. ties \subseteq Policies /\ clash \subseteq Pools
    BY <1>2
  <1>4. s = [observedGeneration |-> t.generation, matched |-> Cardinality(won),
             rotating |-> Cardinality(rot),
             ready |-> IF ~t.valid THEN "Invalid" ELSE IF clash # {} THEN "Conflict" ELSE "Accepted",
             tied |-> IF t.valid /\ clash # {} THEN ties ELSE {},
             conflicted |-> IF t.valid /\ clash # {} THEN clash ELSE {}]
    BY DEF computeStatus
  <1>5. t.generation \in Generations
    BY DEF PolicyRec
  <1> HIDE DEF won, rot, clash, ties, s
  <1>6. s \in StatusRec
    BY <1>1, <1>3, <1>4, <1>5 DEF StatusRec
  <1>7. s.observedGeneration = t.generation /\ (s.ready = "Invalid" <=> ~t.valid)
    BY <1>4
  <1> QED  BY <1>6, <1>7 DEF s

-----------------------------------------------------------------------------
(***************************************************************************)
(* The steps.                                                              *)
(***************************************************************************)

LEMMA NumberFacts == Generations \subseteq Nat /\ 0 \in Generations /\ 1 \in Generations
                     /\ MaxEvents \in Nat
  BY PolicyAssumption DEF Generations

\* A later generation, whatever its verdict, changes nothing of the earlier ones.
LEMMA Later ==
  ASSUME NEW gen \in Nat, NEW gen2 \in Nat, gen <= gen2, NEW valid, NEW valid2,
         \A n \in Generations : n <= gen => valid2[n] = valid[n]
  PROVE  /\ \A s \in StatusRec : Honest(s, gen, valid) => Honest(s, gen2, valid2)
         /\ \A r \in PolicyRec : Snapshot(r, gen, valid) => Snapshot(r, gen2, valid2)
  <1>1. ASSUME NEW s \in StatusRec, Honest(s, gen, valid) PROVE Honest(s, gen2, valid2)
    <2>1. s.observedGeneration \in Generations /\ s.observedGeneration \in Nat
      BY NumberFacts DEF StatusRec
    <2> QED  BY <1>1, <2>1 DEF Honest
  <1>2. ASSUME NEW r \in PolicyRec, Snapshot(r, gen, valid) PROVE Snapshot(r, gen2, valid2)
    <2>1. r.generation \in Generations /\ r.generation \in Nat /\ r.status \in StatusRec
      BY NumberFacts DEF PolicyRec
    <2>2. valid2[r.generation] = valid[r.generation] /\ r.generation <= gen2
      BY <1>2, <2>1 DEF Snapshot
    <2>3. Honest(r.status, gen2, valid2)
      BY <1>1, <1>2, <2>1 DEF Snapshot
    <2> QED  BY <1>2, <2>2, <2>3 DEF Snapshot
  <1> QED  BY <1>1, <1>2

LEMMA PolicyInit == Init => PolicyInv
  <1> SUFFICES ASSUME Init PROVE PolicyInv
    OBVIOUS
  <1> DEFINE sel == [compiles |-> TRUE, keys |-> {}]
             r(p) == [name |-> p, generation |-> 1, valid |-> TRUE, status |-> NoStatus,
                      selector |-> sel]
             all == [g \in Generations |-> TRUE]
  <1>1. NoStatus \in StatusRec /\ NoStatus.observedGeneration = 0
    BY NumberFacts DEF NoStatus, StatusRec
  <1>2. sel \in Selectors
    BY DEF Selectors
  <1> HIDE DEF sel
  <1>3. \A p \in Policies : r(p) \in PolicyRec /\ r(p).name = p /\ r(p).generation = 1
                            /\ r(p).valid = TRUE /\ r(p).status = NoStatus
    BY <1>1, <1>2, NumberFacts DEF PolicyRec
  <1>4. policy = [p \in Policies |-> r(p)] /\ policyCache = policy
    BY DEF Init, sel
  <1> HIDE DEF r
  <1>5. \A p \in Policies : policy[p] = r(p) /\ policyCache[p] = r(p)
    BY <1>4
  <1>6. /\ pc = "idle" /\ desired = NoStatus /\ events = 0
        /\ validAt = [p \in Policies |-> all]
    BY DEF Init
  <1>7. all[1] = TRUE /\ all \in [Generations -> BOOLEAN]
    BY NumberFacts
  <1> HIDE DEF all
  <1>8. Shape
    <2>1. policy \in [Policies -> PolicyRec] /\ policyCache \in [Policies -> PolicyRec]
      BY <1>3, <1>4
    <2>2. validAt \in [Policies -> [Generations -> BOOLEAN]] /\ events \in 0..MaxEvents
      BY <1>6, <1>7, NumberFacts
    <2> QED  BY <1>1, <1>6, <2>1, <2>2 DEF Shape
  <1>9. ASSUME NEW p \in Policies
        PROVE  Of(policy[p], p) /\ Of(policyCache[p], p) /\ policy[p].generation <= events + 1
    <2>1. Honest(NoStatus, 1, all)
      BY <1>1 DEF Honest
    <2>2. Snapshot(r(p), 1, all)
      BY <1>3, <1>7, <2>1 DEF Snapshot
    <2>3. policy[p].generation = 1 /\ validAt[p] = all
      BY <1>3, <1>5, <1>6
    <2> QED  BY <1>3, <1>5, <1>6, <2>2, <2>3 DEF Of
  <1> QED  BY <1>6, <1>8, <1>9 DEF PolicyInv

LEMMA Fields ==
  ASSUME PolicyInv
  PROVE  /\ policy \in [Policies -> PolicyRec] /\ policyCache \in [Policies -> PolicyRec]
         /\ \A p \in Policies :
              /\ policy[p] \in PolicyRec /\ policyCache[p] \in PolicyRec
              /\ policy[p].generation \in Generations /\ policy[p].generation \in Nat
              /\ Of(policy[p], p) /\ Of(policyCache[p], p)
              /\ policy[p].generation <= events + 1
         /\ pc # "idle" => /\ target \in PolicyRec /\ target.name \in Policies
                           /\ Of(target, target.name)
         /\ desired \in StatusRec /\ NoStatus \in StatusRec /\ events \in Nat
  <1>1. NoStatus \in StatusRec
    BY NumberFacts DEF NoStatus, StatusRec
  <1>2. \A t \in PolicyRec : t.generation \in Generations /\ t.name \in Policies
    BY DEF PolicyRec
  <1>3. policy \in [Policies -> PolicyRec] /\ policyCache \in [Policies -> PolicyRec]
    BY DEF PolicyInv, Shape
  <1>4. \A p \in Policies :
          /\ policy[p] \in PolicyRec /\ policyCache[p] \in PolicyRec
          /\ policy[p].generation \in Generations
    BY <1>2, <1>3
  <1>5. \A p \in Policies : policy[p].generation \in Nat
    BY <1>4, NumberFacts
  <1>6. \A p \in Policies : Of(policy[p], p) /\ Of(policyCache[p], p)
                              /\ policy[p].generation <= events + 1
    BY DEF PolicyInv
  <1>7. pc # "idle" => target \in PolicyRec /\ Of(target, target.name)
    BY DEF PolicyInv, Shape
  <1>8. desired \in StatusRec /\ events \in Nat
    BY NumberFacts DEF PolicyInv, Shape
  <1> QED  BY <1>1, <1>2, <1>3, <1>4, <1>5, <1>6, <1>7, <1>8

\* Steps that leave every policy of the server at its generation, and publish only
\* what is honest.
LEMMA SameGenerations ==
  ASSUME PolicyInv, Shape', UNCHANGED validAt, events <= events',
         \A p \in Policies : /\ policy'[p].generation = policy[p].generation
                             /\ Of(policy'[p], p),
         \A p \in Policies : policyCache'[p] \in {policyCache[p], policy[p]},
         pc' # "idle" => \/ target' = target /\ pc # "idle"
                         \/ \E p \in Policies : target' = policyCache[p],
         pc' = "update" =>
           Honest(desired', policy[target'.name].generation, validAt[target'.name])
  PROVE  PolicyInv'
  <1>1. \A p \in Policies : \A r : Of(r, p) =>
          r.name = p /\ Snapshot(r, policy'[p].generation, validAt'[p])
    BY DEF Of
  <1>2. \A p \in Policies : Of(policy[p], p)' /\ Of(policyCache[p], p)'
    BY <1>1, Fields DEF Of
  <1>3. \A p \in Policies : policy'[p].generation <= events' + 1
    <2>1. events' \in Nat
      BY NumberFacts DEF Shape
    <2> QED  BY <2>1, Fields
  <1>4. pc' # "idle" => Of(target, target.name)'
    <2> SUFFICES ASSUME pc' # "idle" PROVE Of(target, target.name)'
      OBVIOUS
    <2>1. PICK p \in Policies : Of(target', p)
      BY Fields
    <2>2. target'.name = p
      BY <2>1 DEF Of
    <2> QED  BY <1>1, <2>1, <2>2 DEF Of
  <1>5. pc' = "update" =>
          Honest(desired', policy'[target'.name].generation, validAt'[target'.name])
    BY DEF Shape, PolicyRec
  <1> QED  BY <1>2, <1>3, <1>4, <1>5 DEF PolicyInv

\* The pass up to its write, the watches, the timers and the faults.
LEMMA QuietStep ==
  ASSUME PolicyInv, UNCHANGED <<policy, validAt>>, events' \in {events, events + 1},
         events' \in 0..MaxEvents,
         policyCache' \in [Policies -> PolicyRec],
         \A p \in Policies : policyCache'[p] \in {policyCache[p], policy[p]},
         \/ pc' = "idle" /\ desired' \in StatusRec
         \/ pc' \in {"list", "update"} /\ UNCHANGED <<pc, target, desired>>
         \/ pc' = "list" /\ desired' = desired /\ \E p \in Policies : target' = policyCache[p]
  PROVE  PolicyInv'
  <1>1. Shape'
    BY Fields DEF PolicyInv, Shape
  <1>2. events <= events'
    BY Fields
  <1>3. pc' = "update" =>
          Honest(desired', policy[target'.name].generation, validAt[target'.name])
    BY DEF PolicyInv
  <1> QED  BY <1>1, <1>2, <1>3, Fields, SameGenerations

LEMMA QuietSteps ==
  ASSUME PolicyInv,
         \/ UpdateConflicts \/ PassFails \/ Restart \/ UNCHANGED vars
         \/ \E p \in Policies : Get(p) \/ RecheckFires(p) \/ SyncPolicy(p)
         \/ \E q \in Pools : SyncPool(q) \/ \E new \in PoolRec : EditPool(q, new)
  PROVE  PolicyInv'
  <1>1. UNCHANGED <<policy, validAt>>
    BY DEF UpdateConflicts, PassFails, Restart, vars, Get, RecheckFires, SyncPolicy, SyncPool,
           EditPool, server
  <1>2. events' \in {events, events + 1} /\ events' \in 0..MaxEvents
    BY NumberFacts
    DEF UpdateConflicts, PassFails, Restart, vars, Get, RecheckFires, SyncPolicy, SyncPool,
        EditPool, OneEvent, PolicyInv, Shape
  <1>3. /\ policyCache' \in [Policies -> PolicyRec]
        /\ \A p \in Policies : policyCache'[p] \in {policyCache[p], policy[p]}
    BY DEF UpdateConflicts, PassFails, Restart, vars, Get, RecheckFires, SyncPolicy, SyncPool,
           EditPool, PolicyInv, Shape
  <1>4. \/ pc' = "idle" /\ desired' \in StatusRec
        \/ pc' \in {"list", "update"} /\ UNCHANGED <<pc, target, desired>>
        \/ pc' = "list" /\ desired' = desired /\ \E p \in Policies : target' = policyCache[p]
    BY Fields
    DEF UpdateConflicts, PassFails, Restart, vars, Get, RecheckFires, SyncPolicy, SyncPool,
        EditPool, EndPass, PolicyInv, Shape
  <1> QED  BY <1>1, <1>2, <1>3, <1>4, QuietStep

\* The status computed is of the generation and the spec of one copy.
LEMMA ComputeKeeps == ASSUME PolicyInv, ListAndCompute PROVE PolicyInv'
  <1> DEFINE status == computeStatus(target, policyCache, poolCache)
  <1>1. /\ pc = "list" /\ UNCHANGED <<policy, policyCache, validAt, events>>
        /\ \/ pc' = "idle" /\ desired' = NoStatus
           \/ pc' = "update" /\ desired' = status /\ target' = target
    BY DEF ListAndCompute, EndPass, server
  <1>2. target \in PolicyRec /\ Of(target, target.name)
    BY <1>1, Fields
  <1>3. /\ status \in StatusRec /\ status.observedGeneration = target.generation
        /\ status.ready = "Invalid" <=> ~target.valid
    BY <1>2, ComputeStatus DEF Of, Snapshot
  <1> HIDE DEF status
  <1>4. Honest(status, policy[target.name].generation, validAt[target.name])
    BY <1>2, <1>3 DEF Honest, Of, Snapshot
  <1>5. Shape'
    BY <1>1, <1>2, <1>3, Fields DEF PolicyInv, Shape
  <1>6. events <= events'
    BY <1>1, Fields
  <1> QED  BY <1>1, <1>4, <1>5, <1>6, Fields, SameGenerations

LEMMA UpdateKeeps == ASSUME PolicyInv, UpdateStatus PROVE PolicyInv'
  <1> DEFINE t == target.name
  <1>1. /\ pc = "update" /\ policy[t] = target /\ pc' = "idle" /\ desired' = NoStatus
        /\ policy' = [policy EXCEPT ![t].status = desired]
        /\ UNCHANGED <<policyCache, validAt, events>>
    BY DEF UpdateStatus, EndPass
  <1>2. t \in Policies /\ Honest(desired, policy[t].generation, validAt[t])
    BY <1>1, Fields DEF PolicyInv
  <1> HIDE DEF t
  <1>3. /\ policy' \in [Policies -> PolicyRec]
        /\ policy'[t].generation = policy[t].generation /\ policy'[t].name = policy[t].name
        /\ policy'[t].valid = policy[t].valid /\ policy'[t].status = desired
        /\ \A p \in Policies : p # t => policy'[p] = policy[p]
    BY <1>1, <1>2, Fields DEF PolicyRec
  <1>4. Of(policy'[t], t)
    BY <1>2, <1>3, Fields DEF Of, Snapshot
  <1>5. \A p \in Policies : policy'[p].generation = policy[p].generation /\ Of(policy'[p], p)
    BY <1>3, <1>4, Fields
  <1>6. Shape'
    BY <1>1, <1>3, Fields DEF PolicyInv, Shape
  <1>7. events <= events'
    BY <1>1, Fields
  <1> QED  BY <1>1, <1>5, <1>6, <1>7, SameGenerations

\* An edit makes a generation no copy and no status has named yet.
LEMMA EditKeeps ==
  ASSUME PolicyInv, NEW p \in Policies, NEW sel \in Selectors, NEW v \in BOOLEAN,
         EditPolicy(p, sel, v)
  PROVE  PolicyInv'
  <1> DEFINE g == policy[p].generation
             new == [policy[p] EXCEPT !.selector = sel, !.valid = v, !.generation = g + 1]
  <1>1. /\ events < MaxEvents /\ events' = events + 1
        /\ policy' = [policy EXCEPT ![p] = new]
        /\ validAt' = [validAt EXCEPT ![p] = [validAt[p] EXCEPT ![g + 1] = v]]
        /\ UNCHANGED <<policyCache, pc, target, desired>>
    BY DEF EditPolicy, OneEvent
  <1>2. validAt \in [Policies -> [Generations -> BOOLEAN]]
    BY DEF PolicyInv, Shape
  <1>3. g \in Nat /\ g <= events + 1 /\ g + 1 \in Generations /\ events' \in 0..MaxEvents
    BY <1>1, Fields, NumberFacts DEF Generations
  <1>4. /\ new \in PolicyRec /\ new.generation = g + 1 /\ new.valid = v
        /\ new.name = policy[p].name /\ new.status = policy[p].status
    <2>1. policy[p] \in PolicyRec
      BY Fields
    <2> HIDE DEF g
    <2> QED  BY <1>3, <2>1 DEF PolicyRec
  <1> HIDE DEF g, new
  <1>5. /\ policy' \in [Policies -> PolicyRec] /\ policy'[p] = new
        /\ \A q \in Policies : q # p => policy'[q] = policy[q]
    BY <1>1, <1>4, Fields
  <1>6. /\ validAt' \in [Policies -> [Generations -> BOOLEAN]] /\ validAt'[p][g + 1] = v
        /\ \A n \in Generations : n # g + 1 => validAt'[p][n] = validAt[p][n]
        /\ \A q \in Policies : q # p => validAt'[q] = validAt[q]
    BY <1>1, <1>2, <1>3
  <1>7. \A q \in Policies :
          /\ \A s \in StatusRec : Honest(s, policy[q].generation, validAt[q])
                                    => Honest(s, policy'[q].generation, validAt'[q])
          /\ \A r \in PolicyRec : Snapshot(r, policy[q].generation, validAt[q])
                                    => Snapshot(r, policy'[q].generation, validAt'[q])
    <2> SUFFICES ASSUME NEW q \in Policies
                 PROVE  /\ policy[q].generation \in Nat /\ policy'[q].generation \in Nat
                        /\ policy[q].generation <= policy'[q].generation
                        /\ \A n \in Generations : n <= policy[q].generation =>
                             validAt'[q][n] = validAt[q][n]
      BY Later
    <2>1. CASE q # p
      BY <1>5, <1>6, <2>1, Fields
    <2>2. CASE q = p
      <3>1. \A n \in Generations : n <= g => n # g + 1
        BY <1>3, NumberFacts
      <3> QED  BY <1>3, <1>4, <1>5, <1>6, <2>2, <3>1 DEF g
    <2> QED  BY <2>1, <2>2
  <1>8. \A q \in Policies : \A r \in PolicyRec : Of(r, q) =>
          r.name = q /\ Snapshot(r, policy'[q].generation, validAt'[q])
    BY <1>7 DEF Of
  <1>9. Shape'
    BY <1>1, <1>3, <1>5, <1>6 DEF PolicyInv, Shape
  <1>10. \A q \in Policies : Of(policyCache[q], q)'
    BY <1>1, <1>8, Fields DEF Of
  <1>11. \A q \in Policies : Of(policy[q], q)'
    <2>1. Honest(new.status, g + 1, validAt'[p])
      <3>1. Honest(policy[p].status, g, validAt[p])
        BY Fields DEF Of, Snapshot, g
      <3>2. policy[p].status \in StatusRec
        BY Fields DEF PolicyRec
      <3> QED  BY <1>4, <1>5, <1>7, <3>1, <3>2 DEF g
    <2>2. Snapshot(new, g + 1, validAt'[p])
      BY <1>3, <1>4, <1>6, <2>1 DEF Snapshot
    <2>3. Of(policy[p], p)'
      BY <1>4, <1>5, <2>2, Fields DEF Of
    <2>4. ASSUME NEW q \in Policies, q # p PROVE Of(policy[q], q)'
      BY <1>5, <1>8, <2>4, Fields DEF Of
    <2> QED  BY <2>3, <2>4
  <1>12. \A q \in Policies : policy'[q].generation <= events' + 1
    BY <1>1, <1>3, <1>4, <1>5, Fields
  <1>13. pc' # "idle" => Of(target, target.name)'
    BY <1>1, <1>8, Fields DEF Of
  <1>14. pc' = "update" =>
           Honest(desired', policy'[target'.name].generation, validAt'[target'.name])
    BY <1>1, <1>7, Fields DEF PolicyInv
  <1> QED  BY <1>9, <1>10, <1>11, <1>12, <1>13, <1>14 DEF PolicyInv

LEMMA PolicyStep == ASSUME PolicyInv, [Next]_vars PROVE PolicyInv'
  BY QuietSteps, ComputeKeeps, UpdateKeeps, EditKeeps DEF Next

-----------------------------------------------------------------------------
(***************************************************************************)
(* The theorems.                                                           *)
(***************************************************************************)

\* What the caches, the pass and its computed status still say of the server's policies,
\* in every reachable state (Reconcile, computeStatus).
THEOREM PolicyInvHolds == Spec => []PolicyInv
  BY PolicyInit, PolicyStep, PTL DEF Spec

\* No published status mixes a generation with another generation's spec.
THEOREM VerdictMatches == Spec => []VerdictMatchesGeneration
  <1>1. PolicyInv => VerdictMatchesGeneration
    BY DEF PolicyInv, Of, Snapshot, Honest, VerdictMatchesGeneration
  <1> QED  BY <1>1, PolicyInvHolds, PTL

\* Where every status is what the server's policies and pools say, every tie is named
\* by all its policies: that ties are reported at all rests on convergence alone.
THEOREM ConvergedTiesReported == Spec => (Converges => TieIsReported)
  <1> DEFINE Converged ==
               \A p \in Policies : policy[p].status = computeStatus(policy[p], policy, pool)
             Reported ==
               \A q \in Pools, p, o \in Policies :
                 LET spec(x) == specificity(policy[x].selector)
                     match   == {x \in Policies : Matches(policy[x].selector, pool[q].labels)}
                 IN  /\ p # o /\ {p, o} \subseteq match /\ spec(p) = spec(o)
                     /\ \A x \in match : spec(x) <= spec(p)
                     => policy[p].status.ready \in {"Conflict", "Invalid"}
  <1>1. PolicyInv /\ Converged => Reported
    <2> SUFFICES ASSUME PolicyInv, Converged, NEW q \in Pools, NEW p \in Policies,
                        NEW o \in Policies, p # o,
                        Matches(policy[p].selector, pool[q].labels),
                        Matches(policy[o].selector, pool[q].labels),
                        specificity(policy[p].selector) = specificity(policy[o].selector),
                        \A x \in {y \in Policies : Matches(policy[y].selector, pool[q].labels)} :
                          specificity(policy[x].selector) <= specificity(policy[p].selector)
                 PROVE  policy[p].status.ready \in {"Conflict", "Invalid"}
      OBVIOUS
    <2>1. \A x \in Policies : IsFiniteSet(policy[x].selector.keys)
      <3> SUFFICES ASSUME NEW x \in Policies PROVE IsFiniteSet(policy[x].selector.keys)
        OBVIOUS
      <3>1. policy[x].selector \in Selectors
        BY Fields DEF PolicyRec
      <3>2. policy[x].selector.keys \subseteq Keys
        BY <3>1 DEF Selectors
      <3> QED  BY <3>2, PolicyAssumption, FS_Subset
    <2>2. p \in Governing(pool[q].labels, policy).tied
      BY <2>1, GoverningNeverGuesses
    <2>3. policy[p].name = p
      BY DEF PolicyInv, Of
    <2>4. q \in {r \in Pools : policy[p].name \in Governing(pool[r].labels, policy).tied}
      BY <2>2, <2>3
    <2>5. computeStatus(policy[p], policy, pool).ready \in {"Conflict", "Invalid"}
      BY <2>4 DEF computeStatus
    <2> QED  BY <2>5
  <1> QED  BY <1>1, PolicyInvHolds, PTL DEF Converges, TieIsReported

=============================================================================
