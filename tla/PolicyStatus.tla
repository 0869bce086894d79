---------------------------- MODULE PolicyStatus ----------------------------
(***************************************************************************)
(* Which RotationPolicy governs a NodePool, and the reconciler that writes *)
(* a policy's observational status.  The status of one policy depends on   *)
(* every policy and every pool; it is computed from informer caches that   *)
(* lag independently, written under the resourceVersion of the policy that *)
(* was read, and re-checked once after every write, because the watch on   *)
(* policies lets no status-only change through.                            *)
(*                                                                         *)
(* Source: internal/resolve/resolve.go, internal/controller/policystatus.go*)
(***************************************************************************)
EXTENDS Naturals, FiniteSets

CONSTANTS
    Policies, Pools,
    Keys,        \* label keys a selector may require and a pool may carry
    NoPolicy,
    MaxEvents    \* bound: changes to the cluster, failed calls and restarts

ASSUME PolicyAssumption ==
    /\ IsFiniteSet(Policies) /\ IsFiniteSet(Pools) /\ IsFiniteSet(Keys)
    /\ NoPolicy \notin Policies /\ MaxEvents \in Nat

VARIABLES
    policy,      \* RotationPolicies at the API server
    policyCache, \* ... in the informer cache, status included
    pool,        \* NodePools at the API server
    poolCache,
    queue,       \* policies with a reconcile request
    recheck,     \* policies with a RequeueAfter of statusRecheckDelay pending
    pc, target,  \* the pass, and the policy object it got
    desired,     \* the status it computed
    validAt,     \* history: per policy, which generations of its spec resolve
    events       \* how many of those have happened

vars == <<policy, policyCache, pool, poolCache, queue, recheck, pc, target,
          desired, validAt, events>>
server == <<policy, pool, validAt>>

OneEvent == events < MaxEvents /\ events' = events + 1

\* A selector requires a set of keys, or does not compile.
Selectors == [compiles: {TRUE}, keys: SUBSET Keys] \cup [compiles: {FALSE}, keys: {{}}]
Generations == 0..(MaxEvents + 1)
PoolRec == [labels: SUBSET Keys, anchored: BOOLEAN]

\* A status is observedGeneration, the counts matched and rotating, the reason of its
\* Ready condition, and what the condition's message names: the policies tied with and
\* the pools in conflict.  A policy is its name, generation, selector, whether its spec
\* resolves, and its status.
NoStatus == [observedGeneration |-> 0, matched |-> 0, rotating |-> 0,
             ready |-> "None", tied |-> {}, conflicted |-> {}]

-----------------------------------------------------------------------------
(***************************************************************************)
(* resolve.Governing                                                       *)
(***************************************************************************)

specificity(sel) == Cardinality(sel.keys)

Matches(sel, labels) == sel.compiles /\ sel.keys \subseteq labels

\* The matching policies no other matching policy is more specific than: what the
\* one-pass loop keeps in topMatches, in whatever order the List came.
topMatches(labels, policies) ==
    LET match == {p \in Policies : Matches(policies[p].selector, labels)}
    IN  {p \in match : \A q \in match :
           specificity(policies[q].selector) <= specificity(policies[p].selector)}

\* Mutant: a tie goes to one of the tied policies.
GoverningGuesses(labels, policies) ==
    LET top == topMatches(labels, policies)
    IN  [winner |-> IF top = {} THEN NoPolicy ELSE CHOOSE p \in top : TRUE, tied |-> {}]

Governing(labels, policies) ==
    LET top == topMatches(labels, policies)
    IN  [winner |-> IF Cardinality(top) = 1 THEN CHOOSE p \in top : TRUE ELSE NoPolicy,
         tied   |-> IF Cardinality(top) > 1 THEN top ELSE {}]

-----------------------------------------------------------------------------
(***************************************************************************)
(* computeStatus and the reconciler.                                       *)
(***************************************************************************)

\* Mutant: a conflict hides that the spec is invalid.
computeStatusConflictFirst(t, policies, pools) ==
    LET clash == {q \in Pools : t.name \in Governing(pools[q].labels, policies).tied}
    IN  [NoStatus EXCEPT !.observedGeneration = t.generation,
                         !.ready = IF clash # {} THEN "Conflict"
                                   ELSE IF ~t.valid THEN "Invalid" ELSE "Accepted"]

computeStatus(t, policies, pools) ==
    LET governing(q) == Governing(pools[q].labels, policies)
        won   == {q \in Pools : governing(q).winner = t.name}
        clash == {q \in Pools : t.name \in governing(q).tied}
        conflict == t.valid /\ clash # {}
    IN  [observedGeneration |-> t.generation,
         matched    |-> Cardinality(won),
         rotating   |-> Cardinality({q \in won : pools[q].anchored}),
         ready      |-> IF ~t.valid THEN "Invalid"
                        ELSE IF clash # {} THEN "Conflict" ELSE "Accepted",
         tied       |-> IF conflict
                        THEN UNION {governing(q).tied : q \in clash} \ {t.name} ELSE {},
         conflicted |-> IF conflict THEN clash ELSE {}]

EndPass == pc' = "idle" /\ target' = NoPolicy /\ desired' = NoStatus

Get(p) ==
    /\ pc = "idle" /\ p \in queue
    /\ queue' = queue \ {p}
    /\ target' = policyCache[p] /\ pc' = "list"
    /\ UNCHANGED <<server, events, policyCache, poolCache, recheck, desired>>

\* Both Lists, the computation, and the guard that suppresses an equal write.
ListAndCompute ==
    /\ pc = "list"
    /\ LET status == computeStatus(target, policyCache, poolCache) IN
       IF status = target.status
       THEN EndPass
       ELSE pc' = "update" /\ desired' = status /\ UNCHANGED target
    /\ UNCHANGED <<server, events, policyCache, poolCache, queue, recheck>>

UpdateConflicts ==
    /\ pc = "update" /\ policy[target.name] # target
    /\ recheck' = recheck \cup {target.name} /\ EndPass
    /\ UNCHANGED <<server, events, policyCache, poolCache, queue>>

\* Mutant: no second look after a write.
UpdateAndForget ==
    /\ pc = "update" /\ policy[target.name] = target
    /\ policy' = [policy EXCEPT ![target.name].status = desired]
    /\ EndPass
    /\ UNCHANGED <<policyCache, pool, poolCache, queue, recheck, validAt, events>>

UpdateStatus ==
    /\ pc = "update" /\ policy[target.name] = target
    /\ policy' = [policy EXCEPT ![target.name].status = desired]
    /\ recheck' = recheck \cup {target.name} /\ EndPass
    /\ UNCHANGED <<policyCache, pool, poolCache, queue, validAt, events>>

\* Any other API error goes back to the queue with backoff.
PassFails ==
    /\ OneEvent /\ pc \in {"list", "update"}
    /\ queue' = queue \cup {target.name} /\ EndPass
    /\ UNCHANGED <<server, policyCache, poolCache, recheck>>

\* statusRecheckDelay later; the policy cache has caught up with the write by then.
RecheckFires(p) ==
    /\ p \in recheck /\ policyCache[p] = policy[p]
    /\ recheck' = recheck \ {p} /\ queue' = queue \cup {p}
    /\ UNCHANGED <<server, events, policyCache, poolCache, pc, target, desired>>

\* A new process lists both caches and gets an event for every object.
Restart ==
    /\ OneEvent
    /\ policyCache' = policy /\ poolCache' = pool
    /\ queue' = Policies /\ recheck' = {} /\ EndPass
    /\ UNCHANGED server

-----------------------------------------------------------------------------
(***************************************************************************)
(* The watches of SetupWithManager, and what changes the cluster.          *)
(***************************************************************************)

\* GenerationChangedPredicate: only a spec change enqueues, and then every policy.
SyncPolicy(p) ==
    /\ policyCache[p] # policy[p]
    /\ policyCache' = [policyCache EXCEPT ![p] = policy[p]]
    /\ queue' = IF policy[p].generation # policyCache[p].generation
                THEN Policies ELSE queue
    /\ UNCHANGED <<server, events, poolCache, recheck, pc, target, desired>>

\* The NodePool watch is unfiltered.
SyncPool(q) ==
    /\ poolCache[q] # pool[q]
    /\ poolCache' = [poolCache EXCEPT ![q] = pool[q]]
    /\ queue' = Policies
    /\ UNCHANGED <<server, events, policyCache, recheck, pc, target, desired>>

EditPolicy(p, sel, valid) ==
    /\ OneEvent
    /\ policy' = [policy EXCEPT ![p].selector = sel, ![p].valid = valid,
                                ![p].generation = @ + 1]
    /\ validAt' = [validAt EXCEPT ![p][policy[p].generation + 1] = valid]
    /\ UNCHANGED <<policyCache, pool, poolCache, queue, recheck, pc, target, desired>>

\* A relabel, or a rotation that starts or ends.
EditPool(q, new) ==
    /\ OneEvent
    /\ new # pool[q] /\ pool' = [pool EXCEPT ![q] = new]
    /\ UNCHANGED <<policy, policyCache, poolCache, queue, recheck, pc, target,
                   desired, validAt>>

-----------------------------------------------------------------------------
Init ==
    /\ policy = [p \in Policies |->
                   [name |-> p, generation |-> 1, valid |-> TRUE, status |-> NoStatus,
                    selector |-> [compiles |-> TRUE, keys |-> {}]]]
    /\ policyCache = policy
    /\ pool = [q \in Pools |-> [labels |-> {}, anchored |-> FALSE]] /\ poolCache = pool
    /\ queue = Policies /\ recheck = {}
    /\ pc = "idle" /\ target = NoPolicy /\ desired = NoStatus
    /\ validAt = [p \in Policies |-> [g \in Generations |-> TRUE]]
    /\ events = 0

Next ==
    \/ ListAndCompute \/ UpdateConflicts \/ UpdateStatus \/ PassFails \/ Restart
    \/ \E p \in Policies : \/ Get(p) \/ RecheckFires(p) \/ SyncPolicy(p)
                           \/ \E sel \in Selectors, v \in BOOLEAN : EditPolicy(p, sel, v)
    \/ \E q \in Pools : SyncPool(q) \/ \E new \in PoolRec : EditPool(q, new)

\* The watches deliver, the work queue and the timers run, calls do not fail forever.
Fairness ==
    /\ \A p \in Policies : SF_vars(Get(p)) /\ WF_vars(RecheckFires(p))
                           /\ WF_vars(SyncPolicy(p))
    /\ \A q \in Pools : WF_vars(SyncPool(q))
    /\ WF_vars(ListAndCompute) /\ WF_vars(UpdateConflicts \/ UpdateStatus)

Spec == Init /\ [][Next]_vars /\ Fairness

-----------------------------------------------------------------------------
(***************************************************************************)
(* Properties.                                                             *)
(***************************************************************************)

\* A status says Invalid exactly when the spec of the generation it names does not
\* resolve: no mix of a newer generation with an older spec is ever published, over
\* any lag of the caches and any lost update (computeStatus, Reconcile).
VerdictMatchesGeneration ==
    \A p \in Policies : LET s == policy[p].status IN
        s.observedGeneration > 0 =>
          (s.ready = "Invalid" <=> ~validAt[p][s.observedGeneration])

\* Once the cluster stands still, every policy's status becomes and stays what the
\* server's policies and pools say, with no resync to help (statusRecheckDelay).
Converges ==
    <>[](\A p \in Policies : policy[p].status = computeStatus(policy[p], policy, pool))

\* Two policies that match a pool with equal, unbeaten specificity both end up saying
\* so, unless their own spec is invalid: no tie is guessed away (resolve.go: "a
\* node-deleting controller must never silently guess which policy applies").
TieIsReported ==
    <>[](\A q \in Pools, p, o \in Policies :
           LET spec(x) == specificity(policy[x].selector)
               match   == {x \in Policies : Matches(policy[x].selector, pool[q].labels)}
           IN  /\ p # o /\ {p, o} \subseteq match /\ spec(p) = spec(o)
               /\ \A x \in match : spec(x) <= spec(p)
               => policy[p].status.ready \in {"Conflict", "Invalid"})

=============================================================================
