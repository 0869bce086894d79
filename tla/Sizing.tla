------------------------------- MODULE Sizing -------------------------------
(***************************************************************************)
(* How much capacity the placeholder reserves.  The drain is what the Pods *)
(* that must re-land request; whole-node reservation raises it, the clamp  *)
(* caps it at what Karpenter is thought to provision on a fresh node, and  *)
(* the result is first tested against the NodePool's budget and later, on  *)
(* another snapshot of the Pods, given to the placeholder.                 *)
(*                                                                         *)
(* A resource list is a function from the resources it reports to integer  *)
(* quantities.                                                             *)
(*                                                                         *)
(* Source: internal/surge (requests.go, clamp.go, wholenode.go,            *)
(* headroom.go, census.go); candidateRequests, placeholderSizing, headroom *)
(* and createPlaceholder of internal/controller/rotation_controller.go.    *)
(***************************************************************************)
EXTENDS Integers, Sequences, FiniteSets, FiniteSetsExt

CONSTANTS
    Names,      \* the resource names, sorted; "cpu" and "memory" among them
    Hosts,      \* node names
    Candidate,  \* the node of the claim to rotate
    NoHost,
    Pods,       \* Pod templates, records with an id of their own
    Clusters    \* allocatable of node and claim, mode, limits and provisioned

Resources == {Names[i] : i \in DOMAIN Names}
IsList(l) == DOMAIN l \subseteq Resources /\ l \in [DOMAIN l -> Nat]
IsCluster(c) ==
    /\ IsList(c.nodeAllocatable) /\ IsList(c.claimAllocatable)
    /\ IsList(c.limits) /\ IsList(c.provisioned)
    /\ c = [nodeAllocatable  |-> c.nodeAllocatable,
            claimAllocatable |-> c.claimAllocatable,
            wholeNode        |-> c.wholeNode,
            limits           |-> c.limits,
            provisioned      |-> c.provisioned]

\* Quantities are not negative, and the surge host is not the candidate.  A Pod's
\* selector is the host it names, a term a set of hosts.
ASSUME SizingAssumption ==
    /\ Candidate \in Hosts /\ NoHost \notin Hosts /\ Hosts # {Candidate}
    /\ IsFiniteSet(Pods)
    /\ \A p \in Pods :
         /\ IsList(p.requests)
         /\ p.daemonSet \in BOOLEAN /\ p.mirror \in BOOLEAN
         /\ p.selector \in Hosts \cup {NoHost} /\ p.terms \subseteq SUBSET Hosts
    /\ \A c \in Clusters : IsCluster(c) /\ c.wholeNode \in BOOLEAN

VARIABLES
    cluster,
    bound,       \* templates with a Pod on the candidate, running
    done,        \* ... and completed
    pc,          \* "idle", "anchored" once the gate let it through, "placed"
    placeholder, \* its requests
    drain,       \* history: the drain when it was created
    moved        \* history: Pods or the pool's usage changed since the gate

vars == <<cluster, bound, done, pc, placeholder, drain, moved>>

Empty == [r \in {} |-> 0]

\* A quantity, zero when the list does not report it.
At(list, r) == IF r \in DOMAIN list THEN list[r] ELSE 0

\* The first name of S in sorted order.
First(S) == Names[Min({i \in DOMAIN Names : Names[i] \in S})]

-----------------------------------------------------------------------------
(***************************************************************************)
(* requests.go and census.go                                               *)
(***************************************************************************)

\* Mutant: one term bound to the host pins the Pod, whatever the others allow.
isNodePinnedByAny(p, node) ==
    IF p.selector # NoHost THEN p.selector = node ELSE {node} \in p.terms

\* A term is the set of hosts its In expressions allow, empty when it has none.
isNodePinned(p, node) ==
    IF p.selector # NoHost THEN p.selector = node
    ELSE p.terms # {} /\ {} \notin p.terms /\ UNION p.terms = {node}

IsInfraOrCompleted(p, completed) == p.daemonSet \/ p.mirror \/ completed

reschedulable(p, completed) ==
    ~IsInfraOrCompleted(p, completed) /\ ~isNodePinned(p, Candidate)

Total(ps) ==
    [r \in UNION {DOMAIN p.requests : p \in ps} |->
       MapThenSumSet(LAMBDA p : At(p.requests, r), ps)]

OnNode == bound \cup done
ReschedulableRequests == Total({p \in OnNode : reschedulable(p, p \in done)})

\* Mutant: completed Pods count as overhead.
DaemonSetRequestsAll == Total({p \in OnNode : p.daemonSet})

DaemonSetRequests == Total({p \in OnNode : p.daemonSet /\ p \notin done})

CensusBucket(p) ==
    CASE p.daemonSet -> "DaemonSet"
      [] ~p.daemonSet /\ p.mirror -> "Mirror"
      [] ~p.daemonSet /\ ~p.mirror /\ p \in done -> "Completed"
      [] OTHER -> IF isNodePinned(p, Candidate) THEN "NodePinned" ELSE "Counted"

CensusOnNode(b) == Cardinality({p \in OnNode : CensusBucket(p) = b})

-----------------------------------------------------------------------------
(***************************************************************************)
(* wholenode.go, clamp.go and headroom.go                                  *)
(***************************************************************************)

binPackingResources == {"cpu", "memory"}

\* Mutant: the overhead is not charged.
provisionableLimitGross(alloc, daemonSet, r) == alloc[r]

provisionableLimit(alloc, daemonSet, r) == alloc[r] - At(daemonSet, r)

\* What raise and refusable leave in out[r]; a resource stays out when they add none.
raised(requests, alloc, daemonSet, r) ==
    LET limit == provisionableLimit(alloc, daemonSet, r)
        want  == At(requests, r)
    IN  IF r \notin DOMAIN alloc THEN want
        ELSE IF limit > 0 THEN IF r \in DOMAIN requests /\ want >= limit THEN want ELSE limit
        ELSE IF r \in binPackingResources /\ want <= 0 /\ alloc[r] > 0 THEN alloc[r]
        ELSE want

WholeNode(requests, alloc, daemonSet, pods) ==
    IF pods = 0 \/ DOMAIN alloc = {} THEN requests
    ELSE LET out(r) == raised(requests, alloc, daemonSet, r)
         IN  [r \in DOMAIN requests \cup
                    {s \in binPackingResources \cap DOMAIN alloc : out(s) > 0} |-> out(r)]

Unclamped(requests) ==
    [Requests |-> requests, Limit |-> Empty, Shortfall |-> Empty, Refused |-> FALSE]

\* Mutant: every request is cut to its ceiling, also to nothing.
ClampToZero(requests, alloc, daemonSet) ==
    LET limit(r) == IF alloc[r] > At(daemonSet, r)
                    THEN provisionableLimit(alloc, daemonSet, r) ELSE 0
        cut == {r \in DOMAIN requests \cap DOMAIN alloc : requests[r] > limit(r)}
    IN  [Requests  |-> [r \in DOMAIN requests |-> IF r \in cut THEN limit(r) ELSE requests[r]],
         Limit     |-> [r \in cut |-> limit(r)],
         Shortfall |-> [r \in cut |-> requests[r] - limit(r)],
         Refused   |-> FALSE]

Clamp(requests, alloc, daemonSet) ==
    LET limit(r) == provisionableLimit(alloc, daemonSet, r)
        known    == DOMAIN requests \cap DOMAIN alloc
        cut      == {r \in known : limit(r) > 0 /\ requests[r] > limit(r)}
    IN  IF \E r \in known : limit(r) <= 0 /\ requests[r] > 0
        THEN [Unclamped(requests) EXCEPT !.Refused = TRUE]
        ELSE [Requests  |-> [r \in DOMAIN requests |->
                               IF r \in cut THEN limit(r) ELSE requests[r]],
              Limit     |-> [r \in cut |-> limit(r)],
              Shortfall |-> [r \in cut |-> requests[r] - limit(r)],
              Refused   |-> FALSE]

\* Only where both sides report a resource.
Band(node, claim) ==
    [r \in DOMAIN node \cap DOMAIN claim |->
       IF node[r] > claim[r] THEN node[r] - claim[r] ELSE 0]

ExceedsBand(shortfall, band) == {r \in DOMAIN shortfall : shortfall[r] > At(band, r)}

\* The resources that do not fit what the limits leave.
blocked(requests, limits, provisioned) ==
    {r \in DOMAIN requests \cap DOMAIN limits :
       requests[r] > limits[r] - At(provisioned, r)}

Headroom(requests, limits, provisioned) ==
    LET out == blocked(requests, limits, provisioned)
    IN  [Fits |-> out = {}, Resource |-> IF out = {} THEN "" ELSE First(out)]

-----------------------------------------------------------------------------
\* placeholderSizing: the one rule, used by the gate and by the creation.
placeholderSizing ==
    LET alloc    == cluster.claimAllocatable
        requests == IF cluster.wholeNode
                    THEN WholeNode(ReschedulableRequests, alloc, DaemonSetRequests,
                                   CensusOnNode("Counted"))
                    ELSE ReschedulableRequests
    IN  Clamp(requests, alloc, DaemonSetRequests)

\* Mutant: the gate tests the drain instead of what will be asked for.
candidateRequestsRaw == ReschedulableRequests

candidateRequests == placeholderSizing.Requests

\* surge_headroom, and the anchor when it passes.
HeadroomGate ==
    /\ pc = "idle"
    /\ Headroom(candidateRequests, cluster.limits, cluster.provisioned).Fits
    /\ pc' = "anchored" /\ moved' = FALSE
    /\ UNCHANGED <<cluster, bound, done, placeholder, drain>>

createPlaceholder ==
    /\ pc = "anchored"
    /\ placeholder' = placeholderSizing.Requests /\ drain' = ReschedulableRequests
    /\ pc' = "placed"
    /\ UNCHANGED <<cluster, bound, done, moved>>

\* The attempt ends, by any outcome, and takes the placeholder along.
AttemptEnds ==
    /\ pc \in {"anchored", "placed"}
    /\ pc' = "idle" /\ placeholder' = Empty /\ drain' = Empty /\ moved' = FALSE
    /\ UNCHANGED <<cluster, bound, done>>

-----------------------------------------------------------------------------
\* kube-scheduler packs the node's own allocatable with every Pod that still runs;
\* the cordon of an anchored candidate keeps all but DaemonSet Pods away.
Bind(p) ==
    LET sum == Total(bound \cup {p}) IN
    /\ p \notin OnNode /\ pc # "placed" /\ (pc = "idle" \/ p.daemonSet)
    /\ p.selector \in {NoHost, Candidate}
    /\ p.terms # {} => \E t \in p.terms : t = {} \/ Candidate \in t
    /\ \A r \in DOMAIN sum : sum[r] <= At(cluster.nodeAllocatable, r)
    /\ bound' = bound \cup {p} /\ moved' = TRUE
    /\ UNCHANGED <<cluster, done, pc, placeholder, drain>>

Complete(p) ==
    /\ p \in bound /\ bound' = bound \ {p} /\ done' = done \cup {p} /\ moved' = TRUE
    /\ UNCHANGED <<cluster, pc, placeholder, drain>>

Leave(p) ==
    /\ p \in OnNode /\ bound' = bound \ {p} /\ done' = done \ {p} /\ moved' = TRUE
    /\ UNCHANGED <<cluster, pc, placeholder, drain>>

\* Karpenter provisions for somebody else.
UsageGrows(r) ==
    /\ r \in DOMAIN cluster.provisioned
    /\ cluster.provisioned[r] < At(cluster.limits, r)
    /\ cluster' = [cluster EXCEPT !.provisioned[r] = @ + 1] /\ moved' = TRUE
    /\ UNCHANGED <<bound, done, pc, placeholder, drain>>

Init ==
    /\ cluster \in Clusters /\ bound = {} /\ done = {}
    /\ pc = "idle" /\ placeholder = Empty /\ drain = Empty /\ moved = FALSE

Next ==
    \/ HeadroomGate \/ createPlaceholder \/ AttemptEnds
    \/ \E p \in Pods : Bind(p) \/ Complete(p) \/ Leave(p)
    \/ \E r \in Resources : UsageGrows(r)

Spec == Init /\ [][Next]_vars

-----------------------------------------------------------------------------
(***************************************************************************)
(* Properties.                                                             *)
(***************************************************************************)

\* Whatever the scheduler admitted and whichever Pods have completed since, the clamp
\* gives up no more than the node's allocatable exceeds the claim's: the DaemonSet term
\* cancels (DaemonSetRequests: "That exclusion is what keeps the clamp's shortfall
\* bounded").
ShortfallWithinBand ==
    ExceedsBand(placeholderSizing.Shortfall,
                Band(cluster.nodeAllocatable, cluster.claimAllocatable)) = {}

\* No dimension of the drain goes unreserved: what some Pod has to find again, the
\* placeholder asks for, after raise, clamp or refusal; and with whole-node reservation
\* workload that requests nothing still reserves both packing dimensions the node has
\* ("a silent break-before-make").
NothingUnreserved ==
    pc = "placed" /\ ~moved =>
      /\ \A r \in DOMAIN drain : drain[r] > 0 => At(placeholder, r) > 0
      /\ cluster.wholeNode /\ CensusOnNode("Counted") > 0 =>
           \A r \in binPackingResources :
             At(cluster.claimAllocatable, r) > 0 => At(placeholder, r) > 0

\* A sizing that is not refused fits, with the overhead seen on the candidate, the
\* allocatable Karpenter plans a fresh node with (Clamp).
FitsFreshNode ==
    LET z == placeholderSizing IN
    ~z.Refused =>
      \A r \in DOMAIN z.Requests \cap DOMAIN cluster.claimAllocatable :
        z.Requests[r] > 0 =>
          z.Requests[r] + At(DaemonSetRequests, r) <= cluster.claimAllocatable[r]

\* The drain counts exactly the running Pods that need a place and can have one: not
\* those Karpenter or the kubelet puts on every node, nor one no other host may take.
DrainIsWhatMoves ==
    LET allowed(p, h) == /\ p.selector \in {NoHost, h}
                         /\ p.terms # {} => \E t \in p.terms : t = {} \/ h \in t
        moves(p) == ~p.daemonSet /\ ~p.mirror /\ \E h \in Hosts \ {Candidate} : allowed(p, h)
    IN  /\ ReschedulableRequests = Total({p \in bound : moves(p)})
        /\ CensusOnNode("Counted") = Cardinality({p \in bound : moves(p)})

\* The gate tested the placeholder that is then created: if neither the Pods nor the
\* pool's usage moved in between, it fits the budget (placeholderSizing: "the ONE
\* definition of that sizing").
GatePrechecks ==
    pc = "placed" /\ ~moved =>
      blocked(placeholder, cluster.limits, cluster.provisioned) = {}

=============================================================================
