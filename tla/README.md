# Formal model of the node-rotation-controller

TLA+ modules, TLC runs and TLAPS proofs for the controller in this repository:
a Kubernetes controller that replaces the nodes of a Karpenter NodePool one at a
time, inside maintenance windows, before Karpenter's `expireAfter` would remove
them forcefully. Paths below are relative to the repository root.

## 1. The system

### Components, state, operations

| Component | Source | State it keeps | Operations | Modules |
|---|---|---|---|---|
| Rotation state machine | `internal/controller/rotation_controller.go` | none in memory; annotations on the NodePool (anchor `active-rotation`, mirror `active-rotation-state`, `rotation-mode`, `last-rotation-at`, `last-failure-at`), on the old NodeClaim (`state`, `started-at`, `failed-at`, `retry-count`, `surge-claim`), on Nodes (`surge-for`, ...), and the placeholder Pod | `Reconcile` → `reconcileNodePool` → `advance` → one handler per claim state, `completeOrAbort`, `reapUngovernedRotation` | Rotation, SerialRotation, RotationRefines |
| Start gates, selection | `internal/decide`, `internal/selection` | none (pure) | `StartGate`, `Frozen`, `SurgelessFallback`, `PickEarliestDeadlineEligible`, `EffectiveBackoff`, census | Rotation, Selection, Calendar |
| Startup sweep | `internal/controller/sweep.go` | none | once per process, before its first reconcile: removes what no anchor references | Rotation, NodeMarks |
| Node markers | `internal/controller/nodeops.go` | node annotations and `spec.unschedulable` | freeze, cordon and their inverses, with ownership markers | NodeMarks |
| Window close evaluation | `internal/decide/windowclose.go`, `evaluateWindowEdge` | `window-opened-at` on the NodePool | stamp, defer, settle, report a missed window | WindowEdge |
| Policy resolution | `internal/resolve`, `internal/policy`, `internal/crd` | none | the most specific RotationPolicy wins, a tie is a conflict | PolicyStatus |
| Policy status | `internal/controller/policystatus.go` | the policy's status | recount, write if changed, recheck | PolicyStatus |
| Windows, schedule | `internal/window`, `internal/schedule` | none (pure) | worst-case period, shortest window and gap; lead time, guaranteed chances, throughput | Windows, Schedule, Calendar |
| Surge sizing | `internal/surge` | none (pure) | drain, whole-node sizing, clamp, headroom | Sizing |
| Surge path, induced claim | `internal/surge/path.go`, `inducedClaim`, `reapSurgeClaim` | `surge-claim` on the claim, `surge-path` on the pool | record, report, reap | SurgeClaim |
| Warnings, metrics | `internal/controller/warnings.go`, `transitions.go`, `recorder.go`, `internal/metrics` | dedup maps, gauges | emit once per content, forget | outcomes only |
| Simulator | `internal/sim`, `internal/simapi`, `cmd/wasm` | a virtual fleet | replays the pure parts on a virtual clock | — |

### How they interact

Everything durable is on Kubernetes objects. A reconcile pass is a sequence of
API calls; it **reads** NodePools, NodeClaims, Nodes and Pods from informer
caches that lag the API server, and **writes** with optimistic concurrency: the
patch loops (`patchPoolIf`, `patchClaimIf`, `patchNode`) read the cache, apply a
mutation that may veto itself, and update under the resourceVersion they read.
Karpenter (force-expiry, drain, finalization), the scheduler (binding and
preempting the placeholder), operators (`freeze`, policies, node edits) and the
clock act between any two calls. One pass per pool runs at a time (the work
queue), and one process at a time leads.

### What is hard

- a pass dispatched on an old view of pool or claim, and the write it then makes;
- a pass that ends between two writes, by an API error, an exhausted conflict
  retry or a stop of the process, and what the next pass finds;
- Karpenter finishing off a claim at any moment of any handler;
- timers (readyTimeout, backoff, failurePause, cooldown, window edges) that run
  out while a pass is in flight;
- fields that an operator and the controller both write;
- announcing an outcome exactly when, and only when, it was decided;
- bounds (a schedule's period and chances, a backoff within a window, a
  placeholder within a node) computed at half-open edges.

`PROJECT.json` lists these as hazards, each at its line.

### What makes each component correct

- *State machine*: one rotation per pool; a running rotation is always anchored;
  nothing of an ended rotation is left; the old claim is deleted only when the
  crash recovery that may follow has all it needs; a drain is protected while it
  runs; the failure pause is not voided by a lost write; every rotation ends.
- *Selection*: the backoff ladder and its window clamp (a retry inside the window
  whenever one fits, the whole wait otherwise); an order with no ties left to chance.
- *Node markers, sweep*: what an operator set is never removed or adopted; what the
  controller set can always be told apart; a live rotation's marks stand.
- *Window close*: a lost window is reported once, an attributed success never.
- *Policy*: a tie is never guessed away; status converges.
- *Windows, schedule, sizing*: bounds that really bound.
- *Surge claim*: a rollback deletes its own idle node, and no other.

## 2. Modules

| Module | Content | Composed of |
|---|---|---|
| Rotation | the state machine, one action per API call | — |
| RotationInv | its inductive invariant | Rotation |
| SerialRotation | the abstract promise: a gate, and what its holder may do | — |
| RotationRefines | the refinement mapping | RotationInv, SerialRotation |
| MCRotation | TLC instance | RotationRefines |
| RotationProofs | types and the serial gate | RotationInv |
| AttemptProofs | what an attempt promises: state machine, drain, refinement, clean-up, pause | RotationProofs, RotationRefines |
| NodeMarks (MCNodeMarks) | freeze, cordon, release and sweep of Nodes | — |
| WindowEdge | window-opened-at across occurrences | — |
| PolicyStatus | policy resolution and the status reconciler | — |
| Windows, Schedule, Selection | the pure packages, as operators | — |
| Calendar (MCCalendar) | claims living and failing under a schedule | Windows, Schedule, Selection |
| Sizing (MCSizing) | the sizing pipeline, from the gate to the placeholder | — |
| SurgeClaim (MCSurgeClaim) | the induced claim across attempts | — |
| NodeMarksProofs, WindowEdgeProofs, PolicyStatusProofs, CalendarProofs, SizingProofs, SurgeClaimProofs | the theorems of the module each is named after | that module |

Rotation is the core. NodeMarks, WindowEdge and SurgeClaim each take one part
that Rotation keeps coarse (markers, window stamp, surge claim) and model it in
full around a coarse rotation. Windows, Schedule and Selection are pure and meet
in Calendar, where what they compute is compared with what happens.

## 3. Rotation

### State

| Variable | Stands for |
|---|---|
| `pool`, `poolCache` | the NodePool's rotation annotations, at the API server and in the cache |
| `claims`, `claimCache` | per old NodeClaim: life (`live`, `deleting`, `gone`), `state`, `started-at`, `failed-at` |
| `marked`, `markSeen` | per claim, the nodes carrying `surge-for` of it: its own old node, and the surge host |
| `placeholder` | per claim, its Pod: none, waiting, ready (Running on a Ready host), terminating |
| `gate`, `governed` | all gates that are not on the pool (window, headroom, static, fatal); one valid policy governs |
| `pc`, `cur`, `why`, `held` | the pass: the API call it is about to make, its claim, what a shared clean-up is for, the NodePool object it was handed |
| `told`, `deleted`, `missed` | history: outcomes announced, delete issued, the marks that were not yet in the Node list of the last finished clean-up |
| `faults` | API errors and stops so far, bounded by `MaxFaults` |

Timestamps are kept as what they say when compared. `cooling`/`pausing` are
`last-rotation-at`/`last-failure-at` still within their durations; `started` is
unset, running, or over `readyTimeout`; `backoff` and `paused` are `failed-at`
still within the effective backoff, and within the failure pause. The clock
changes the server's copy and the cached copy together: an old copy of a
timestamp ages too.

### Actions

One action per API call of a pass, with everything the code does between that
call and the next; a conditional write has one action for each outcome
(`ExpirePending`, `ExpirePendingAlready`, `ExpirePendingRaced`). `map` in
`PROJECT.json` names the lines of each. A pass ends at any call by an API error
(`AbandonPass`, one fault) or when the object's cached copy stays behind
(`AbandonPass`, no fault); a process stops at any call (`Crash`), after which
the caches are listed afresh and the sweep runs. Watches (`SyncPool`,
`SyncClaim`, `SyncNodes`), clock, Karpenter, scheduler and operator are the
remaining actions.

### Abstractions

- A cache jumps to the newest version, never to one in between; "the cached copy
  has the current resourceVersion" is equality of contents (a write that changes
  nothing does not bump the version).
- A claim write is observed by the pass's own later cached reads only after
  `SyncClaim`, as in the code.
- The placeholder is read from the server: its lag is no different from a
  preemption after the check, which `PlaceholderMoves` does.
- Cordon goes with freeze (NodeMarks separates them). `surge-claim`,
  `surge-path`, `retry-count` and `window-opened-at` are in SurgeClaim, Calendar
  and WindowEdge; all annotations an anchor clear removes are cleared together.
- The sweep is one step with an arbitrary subset of its per-object work done.
- Every claim of `Claims` is past its age threshold, and any eligible one may be
  the pick.
- Announcing is one step with the write that decides it. A stop in between only
  loses an announcement, and no property of Rotation needs one; WindowEdge, whose
  subject is a report, separates the write, the count and the Event.

### Assumptions as constants

| Constant | Meaning |
|---|---|
| `Claims`, `MaxFaults` | the bounds |
| `FallbackEnabled` | some candidates start surge-less |
| `GovernanceMayLapse` | policies may stop matching, or tie |
| `NodeLag` | the Node cache may lag |
| `SlowGates` | the start gates, and the timers they read, change only between passes and with the caches caught up |
| `PauseWithinBackoff` | `failurePause <= retryBackoff`, which the defaults satisfy and validation does not require |

`SlowGates` is the one assumption on speed: a gate that opens or closes in the
milliseconds of a pass or of a cache lag is excluded. What happens without it
is `stale_retry`; `live` does not assume it.
`PauseElapses` assumes even then that a `failurePause` (minutes) outlasts a
pass and a cache lag.

### The abstract specification

SerialRotation has no pass, cache, fault or marker: a `holder` of the gate, a
`phase` per claim, and whether the controller deleted it. Only the holder begins,
drains or is rolled back; the gate is released when its holder neither rotates
nor drains; a claim is deleted only by its own drain. RotationRefines maps the
anchor to `holder` and a claim's `state` annotation to its phase while the claim
exists (`none` and `failed` are both `out`). A step of a pass is one abstract
step or a stutter; a crash and the sweep are stutters.

## 4. The other modules

**NodeMarks.** `node`/`seen` hold what the code reads and writes on a Node:
`do-not-disrupt`, `do-not-disrupt-owned`, `surge-for`, `spec.unschedulable`,
`cordoned`; `todo` the nodes a List selected. `applyFreeze`, `applyCordon`,
`applyUnfreeze` and `applyUncordon` are operators on such a record, and every
write goes through `patchNode`, conditional on a current read. The clean-up of a
rotation and of the sweep list first and then patch node by node, with the
operator's edits (`Edit`) in between. `opDnd`/`opCordon` are histories of who
set what. A new attempt assumes the Node cache has caught up with the last one
(cooldown and backoff are minutes).

**WindowEdge.** `now` runs over `MaxTime` instants, `OpenTimes` of which are in
the window. A pass takes its inputs (`BeginPass`), writes if its verdict is a
stamp, a settlement or a miss (`WindowWrite`; the verdict and the stamp are
re-asserted on the copy the write is validated against, else `WindowVeto`),
counts the miss (`CountMissed`), emits its Event (`EmitEvent`), and goes on to
start or to end a rotation. The process may stop between any two of these, and a
write may land although its answer is an error (`WindowWriteUnanswered`). After
such a write, or a stop between the write and the count, the stamp is gone and
nothing is counted; of the stop the comment of `evaluateWindowEdge` says so, and
`docs/specification/05-implementation.md:301-303`. The histories `lost` (stamps
cleared over a lost window) and `cut` (those whose pass did not live to count
them) let `NoSilentLoss` say that this is the only way a report is dropped. Due
claims come and go, the operator freezes and thaws, and `StampEdited` makes the
stamp unreadable once.

**PolicyStatus.** `Governing` and `specificity` are those of `resolve.go` (a
selector is the set of keys it requires, or does not compile), `computeStatus`
that of `policystatus.go`. The reconciler's Get, Lists with the comparison, and
Update are separate steps over `policyCache` and `poolCache`; `queue` is its work
queue, `recheck` the requeue after a write. `SyncPolicy` enqueues on a changed
generation only, `SyncPool` always.

**Windows, Schedule, Selection, Calendar.** Time is in ticks, `Step` to a minute,
so that a minute has an inside: `OccurrenceBounds` samples minutes and refines.
An entry is days, start, end and a zone offset, constant over the run. Windows
has every function of the package, the sort and the merge of `mergedOccurrences` as
a fold that takes the span sorted last (`latest`) last; Schedule has `Derive`, its findings and the
floor and ceiling divisions over Go's truncating one (`quo`); Selection has the
trigger, eligibility, backoff ladder with its clamp, the order and the census.
Calendar runs the clock over a pool from `Scenarios`: claims age, the pick of an
open window starts, fails (with the backoff it announces) or succeeds, and
Karpenter deletes at the deadline. `had` counts the chances a claim was given.

**Sizing.** A resource list is a function from names to quantities. Pods bind,
complete and leave; the gate sizes the placeholder on one snapshot
(`HeadroomGate`) and `createPlaceholder` on a later one; `moved` remembers
whether anything changed in between. Quantities are integers (milli-units and
suffixes are the library's).

**SurgeClaim.** Two other claims of the pool, in stages none, new, registered and
gone, with creation times in seconds; a claim and its node are one host. The
pending handler records the induced claim as soon as it can tell it, resolves
the surge path when the host is ready, and on readyTimeout runs `failPending`
call by call; the candidate and the claims are read through caches. Pods bind to
a node no sooner than the claim cache shows it registered (both wait for the
same kubelet registration, and binding takes a scheduling cycle more). Pods are read
from the server. The price of the two is that the early pass of `reapSurgeClaim`
on a claim the cache shows unregistered never meets workload here, so
`SparesWorkload` says little more than that guard and is not tested under that
lag.

## 5. Runs

| Run | Instance | Shows |
|---|---|---|
| `two_claims` | 2 claims (symmetric), no fault | `ImplementsSerial`, `NothingLeftBehind`, `FailurePauseKept` |
| `crash` | 1 claim, 2 faults, surge-less starts | `InFlightIsAnchored`, `RotationInv` (inductive invariant), `LiveDrainProtected`, `DeleteIsRecorded`, `Forward` |
| `lapse` | 1 claim, 1 fault, governance lapses, Node cache lags | `TypeOK`, `NothingLeftBehind` |
| `live` | 1 claim, no fault, gates at any time, Node cache lags | `AnchorReleased` |
| `node_marks` | 2 nodes, 2 claims, 3 edits, 2 attempts | `TypeOK`, `OperatorMarksKept`, `Attributable`, `LiveMarksStand` |
| `window_edge` | 6 instants, occurrences {2, 3} and {5}, one freeze, one edit; stops and unanswered writes | `ReportedOnce`, `MissIsReal`, `NoSilentLoss`, `SuccessSettlesWindow`, `EveryStampJudged` |
| `policy_status` | 2 policies, 1 pool, 1 key, 2 events | `VerdictMatchesGeneration`, `Converges`, `TieIsReported` |
| `calendar` | a week of 2 days of 2 minutes of 2 ticks; all schedules of 1 or 2 entries; up to 3 claims, 2 failures | `WeekFigures`, `BoundsExact`, `ChancesKept`, `ThroughputExact`, `AnnouncedRetryHolds`, `BackoffServed`, `PickIsEarliest` |
| `sizing` | 8 Pod kinds, 16 clusters, 3 resources | `ShortfallWithinBand`, `NothingUnreserved`, `FitsFreshNode`, `DrainIsWhatMoves`, `GatePrechecks` |
| `surge_claim` | 2 hosts (symmetric), 5 seconds, 2 faults | `TypeOK`, `ReapsOwn`, `SparesWorkload`, `PathAgrees`, `NoIdleSurgeLeft` |

Every property is stated in its module with the code it is about.

**Bounds.** Two claims are enough for the serial gate: the property relates a
claim in flight to whoever holds the anchor, and a third would play the part of
the second. Two faults let a recovery itself be interrupted; `two_claims` needs
no fault budget because conflicts, which end a pass at any write, are free. In
NodeMarks each node is the old node of one rotation and the host of the other,
so a late clean-up meets another rotation's marks; three edits set, unset and set
again. The clean-up that a fault cuts short between two Nodes is in `lapse` and
`crash`. WindowEdge's second occurrence is what a surviving stamp could be
mistaken for. In the small week entries touch, overlap, wrap, and sit off the
minute by half of one; the clock bound `until` of each scenario takes a claim from creation past its
deadline. Five seconds hold two attempts with a readyTimeout of one and a claim
created in the very second an attempt starts.

**Deadlock** is not checked where the system may stop: the clock of WindowEdge,
Calendar and SurgeClaim ends at its bound, and PolicyStatus comes to rest once
its events are used up and the caches have caught up.

**Fairness.**

- Rotation (`FairSpec`): the controller (every handler requeues while a pool is
  anchored), the watches, `readyTimeout`'s clock, and Karpenter finishing a drain
  it began. Nothing is assumed of the scheduler, of the operator, of the gates or
  of backoff. `AnchorReleased` has the premise that the freeze annotation
  eventually stays off: each change of it is a NodePool write that may make the
  pass's own conflict, and weak fairness does not exclude that happening at every
  attempt.
- WindowEdge: the clock, the watch and the work queue go on (a pass at least every
  `longRequeue`), a rotation ends (`AnchorReleased`), and a write that keeps being
  tried does not fail for ever.
- PolicyStatus: watches deliver, the queue and timers run, calls do not fail for
  ever. `RecheckFires` waits for the policy cache to show the write: a policy
  cache that lags by more than `statusRecheckDelay` is excluded; giving
  the caches that time is what the delay is for.

### Disagreements with the documentation

Two are runs that TLC must find violated; `findings` has the quotations.

| Run | What the code does |
|---|---|
| `stale_retry` | a retry whose own write the re-read misses, with a gate closing meanwhile, falls into the unconditional repair, which releases the anchor of the attempt it just began |
| `expired_twice` | expired announced from pending, its anchor clear lost, and again at completion |

### Further disagreements

Found while modelling, reachable in the modules under the constants named, and
described here without a run of their own.

- *Governance reap* (`GovernanceMayLapse`). `reapUngovernedRotation` clears the
  anchor and never writes the claim: a claim reaped out of pending or draining
  keeps that state, `stateAllows` refuses it, and it waits for the next process
  start. `docs/specification/05-implementation.md:436` calls that state
  "impossible from any crash point". The sweep then fails the claim without
  stamping `last-failure-at`, so that failure does not pause the pool.
- *Stale unfreeze* (`NodeLag`). `unfreezeNodes` picks its nodes from the cached
  list; a surge host frozen in the pass before may not be in it, and stays frozen
  after the anchor is cleared, until the sweep of the next start, which
  `Attributable` shows can still tell whose mark it is. `NothingLeftBehind` says
  that nothing else is ever left: only marks the list did not show (`missed`).
- *Stale freeze* (`NodeLag`). `patchNode` writes nothing when the cached Node
  already carries what it would write. An attempt that begins before the Node
  cache has seen the last unfreeze (a retry after a clean-up, or after the sweep
  of a restart) takes the old mark of its host for its own and drains onto a host
  that is not frozen. The lag has to outlast `retryBackoff`, or the time a
  placeholder takes to become ready. `LiveDrainProtected` and `DeleteIsRecorded`
  fail then; they are checked and proved without `NodeLag`.
- *Long pause* (`PauseWithinBackoff` false). A failure whose pool write was lost
  is retried, not repaired, once its backoff is over: within its own
  `failurePause` when that is the longer one.
- *Pause lost*. A torn failure, then a force-expiry of the failed claim: the
  deletion branch of `advanceFailed` clears the anchor with no `last-failure-at`.
- *Rolled-back success*. The draining mirror of a torn transition outlives its
  attempt: a claim that finalizes during the rollback is recorded as a success.
- *Unreadable window stamp*. `windowclose.go:94` says an unreadable stamp "can
  never manufacture a WindowMissed"; a stamp healed by re-stamping within the
  window, after the rotation that settles it has succeeded, is younger than that
  success and the window is reported missed. `SuccessSettlesWindow` therefore
  excludes an edited stamp.

Behaviours the properties are worded around:

- A retry that the clamp brought into the window but that no pass took in it
  escalates again in the next occurrence (`AnnouncedRetryHolds` is about the
  occurrence of the failure; `BackoffServed` about later ones).
- A placeholder preempted during a rollback, before `surge-claim` was recorded,
  loses the only trace of its node; the node is left to Karpenter's
  consolidation (`Preempt` drops the obligation of `NoIdleSurgeLeft`). A rollback
  cut short before the claim was recorded may, in its second try, choose another
  unregistered claim of the attempt by the creation-time heuristic; `ReapsOwn`
  and `SparesWorkload` hold of that one too.
- `surge-path` is written once per anchor: after a torn failure and a retry it may
  still name the path of the earlier attempt. `PathAgrees` is about what this
  attempt resolved.

## 6. Proofs

Every theorem holds for all values of the constants, from the assumptions the
modules declare and what the tables name.

| Theorem | Module | States | Assumes |
|---|---|---|---|
| `TypeCorrect` | RotationProofs | `Spec => []TypeOK` | nothing more |
| `RotationInvHolds` | RotationProofs | `Spec => []RotationInv` | `SlowGates`, no governance lapse |
| `SerialGate` | RotationProofs | `Spec => []InFlightIsAnchored` | the same |
| `ForwardOnly` | AttemptProofs | `Spec => Forward` | the same |
| `FailurePause` | AttemptProofs | `Spec => FailurePauseKept` | the same, `PauseWithinBackoff` |
| `DrainProtected` | AttemptProofs | `Spec => []LiveDrainProtected` | the same as `SerialGate`, no `NodeLag` |
| `DeleteRecorded` | AttemptProofs | `Spec => DeleteIsRecorded` | the same, no `NodeLag` |
| `Refinement` | AttemptProofs | `Spec => ImplementsSerial` | the same as `SerialGate` |
| `NothingLeft` | AttemptProofs | `Spec => []NothingLeftBehind` | the same as `SerialGate` |
| `MarksTyped`, `OperatorKept`, `MarksAttributable`, `LiveMarks` | NodeMarksProofs | `TypeOK`, `OperatorMarksKept`, `Attributable`, `LiveMarksStand` | nothing more |
| `LossReportedOnce`, `ReportedMissIsReal`, `NoLossSwallowed`, `SuccessSettles` | WindowEdgeProofs | `ReportedOnce`, `MissIsReal`, `NoSilentLoss`, `SuccessSettlesWindow` | nothing more |
| `GoverningNeverGuesses` | PolicyStatusProofs | a policy governs exactly when it is the only most specific match | nothing more |
| `VerdictMatches` | PolicyStatusProofs | `VerdictMatchesGeneration` | nothing more |
| `ConvergedTiesReported` | PolicyStatusProofs | `Spec => (Converges => TieIsReported)` | nothing more |
| `BoundsExactHolds` | CalendarProofs | `BoundsExact` | nothing more |
| `BackoffServedHolds` | CalendarProofs | `BackoffServed` | nothing more |
| `AnnouncedRetryHeld` | CalendarProofs | `AnnouncedRetryHolds` | nothing more |
| `PickEarliest` | CalendarProofs | `PickIsEarliest` | nothing more |
| `WeekFiguresHold` | CalendarProofs | `WeekFigures` | nothing more |
| `ThroughputHolds` | CalendarProofs | `ThroughputExact` | nothing more |
| `ChancesHold` | CalendarProofs | `ChancesKept` | nothing more |
| `ShortfallBounded`, `PlaceholderFits`, `EverythingReserved`, `DrainExact`, `GateTestsPlaceholder` | SizingProofs | `ShortfallWithinBand`, `FitsFreshNode`, `NothingUnreserved`, `DrainIsWhatMoves`, `GatePrechecks` | nothing more |
| `SurgeTyped`, `ReapsOwnOnly`, `WorkloadSpared`, `ReportAndReapAgree`, `SurgeDealtWith` | SurgeClaimProofs | `TypeOK`, `ReapsOwn`, `SparesWorkload`, `PathAgrees`, `NoIdleSurgeLeft` | nothing more |

What the modules assume of their constants is what the code or its validation
guarantees:

- a claim is never the "no claim" value, in Rotation, NodeMarks and SurgeClaim;
  in SurgeClaim the clock starts after the zero time, so a set `started-at` is
  never mistaken for an unset one;
- policies, pools and label keys are finite (PolicyStatus), and so are Pods
  (Sizing). Sizing also assumes that the candidate is one host among others,
  that quantities are not negative and that capacity covers what is allocatable;
- a minute, a day and a week have a length; a pool's policy is one
  `policy.Validate` lets through (`PoolRec`: a window at least, an entry with a day
  and a start before its end, `minRotationChances` and the durations positive
  where they are set, `cooldownAfter` not negative); NodeClaim names differ
  (Calendar).

Rotation's two assumptions are not conveniences: without either, the serial gate
fails (`stale_retry`; the governance reap of section 5). `FailurePauseKept`
fails without `PauseWithinBackoff` by the long pause, and the two theorems that
exclude `NodeLag` fail with it by the stale freeze. Every other theorem allows the
Node cache to lag. NodeMarks has the lag too, and `LiveMarksStand` is proved with
it; there a new attempt waits for the cache.

### Rotation

*Serial gate.* `InFlightIsAnchored` is not inductive: whether a write keeps it
depends on what the pass was told. `RotationInv` adds that. Each write is
conditional on a current copy, so a cache is at most one of the controller's own
writes behind; `ClaimBehind` and `PoolBehind` say what such a lag implies,
`StaleFailedRetries` that an old `failed` view of a running attempt leads to the
retry (which conflicts) and never to the repair (which would release the
anchor), `DuringPass` what the held NodePool object is worth, `StepKnows` what
each API call has established about the claim. The proof has a frame lemma per
kind of step: none of the objects written (`EndKeeps`, `GotoKeeps`), one claim
written by the pass or by others (`OneClaimFrame`, `UnderPass`), only the phase
of the pool (`PhaseFrame`), the anchor released (`Release`: the claim is over, or
rolled back and not to be retried by this view), everything current
(`CurrentAtRest`: crash, clock). Each action is then a few lines on top of one.

*Claim state machine.* Every write starts from the state the cached copy showed,
which is the server's when it lands; with `StepKnows` that gives each move. Only
the draining write is unconditional; `ForcedDrain` adds that it meets a claim
not yet pending only on a surge-less start.

*Drain.* `DrainInv` adds what the order of the writes makes durable
(`DrainSteps`), that a mirror seen under an anchor stays while that anchor does
(`MirrorSeen`), and that no cache shows a drain of a claim still pending
(`DrainSeen`).

*Refinement.* A delete has to be that of its claim's own drain whatever the Node
cache shows, so this rests on the part of the above that does not look at marks
(`DeleteInv`: `DeleteSteps` and `DrainSeen`). With it and `RotationInv` each
concrete step has its abstract one:
`AcquireStep`, `BeginSteps`, `DrainBegins`, `RollBackStep`, `ExpireSteps`,
`DeletePhase`, `RemoveStep` and `ReleaseStep` name it, action by action;
`SweepStutters` needs the serial gate (there is nothing in flight for the sweep
to fail), and `OtherSteps` are stutters because they keep anchor and phases
(`PhasesKept`). The invariant is what makes a stale release abstractly a
`Release` (nobody rotates) and a delete a `Delete` (its claim drains and holds
the gate).

*Clean-up.* `NothingLeftBehind` speaks of claims that are not anchored, and an
anchor is cleared by five different steps. `CleanInv` says the same of a claim
that has failed, or that the cache still shows failed (`SweptUnanchored`),
because that is where a torn clean-up is resumed from; and that every call
behind the clean-up finds it done while no call that places something runs
against it (`CleanSteps`). `missed` moves only where the clean-up ends
(`MissedMoves`), and marks only go until the next attempt, so what a clean-up
settled stays settled (`SweptKept`). The corollary `NothingLeftAtAll` is the case
of a Node cache that keeps up: nothing is missed, and nothing is left.

*Pause.* `FailurePauseKept` compares a start with a failure whose pool write may
never have happened. `PauseOwed` is the debt: until the pool carries the pause
the failed claim does, and it keeps the anchor, which keeps every other claim
out; its own retry is kept away by its backoff, hence `PauseWithinBackoff`.

### The other state machines

*NodeMarks.* `OperatorMarksKept` and `Attributable` are inductive together, one
lemma per mutator (`Sound` is what a record keeps through it), because a write
is conditional on a current read. `LiveMarksStand` needs `MarksBehind`: a mark
the cache shows for the rotation in flight is its own or gone, never another's;
so is that of a node the release has listed, and the release, which does not look
again, takes off no other.

*WindowEdge.* That no occurrence is reported twice rests on an order in time:
`Bounded` (whatever is durable was written no later than the pass under way),
`InWindowOnly` (stamps are instants of open windows), and `Losses` (stamps cleared
over a lost window are of different occurrences, all over, and a stamp that stands
is of a later one), which together make a stale verdict on a reported stamp fail
the re-check of its own write. `Accounts` follows each cleared stamp: counted, cut
off, or in the hands of the pass between its write and its count, of which
`StepKnows` says what the write established.
`Successes` relates `last-rotation-at` to the rotations that succeeded, and
`Unedited` a success to the stamp it began under.

*PolicyStatus.* A cached policy, however old, is a copy the server has held
(`Snapshot`), and a verdict is that of the generation it names (`Honest`), in the
caches, in the pass's target and in the status it is about to write.
`ConvergedTiesReported` is a step between two liveness properties: once every
status is what the server's objects say, a tie is named by all its policies.
`Converges` itself is left to TLC.

*SurgeClaim.* `OneStart` says that every `started-at` within reach of the pass is
this attempt's; on that rests `CreatedByAttempt`, and on it that a rollback
deletes nothing else (`DeleteOwn`). `Findable` follows the induced claim through
a rollback that may be cut short at each call: dealt with, or on the candidate,
or under the placeholder.

### Sums, searches and folds

Sizing, Windows and Selection compute by sums over Pods, walks over minutes, a
merge of spans and a loop over the List. None of it is proved by induction over
data; three arguments take its place.

- *The least counterexample.* The subsets of a finite set are well founded, so if a
  sum differs from what it should be, it does so on a least set. In Sizing this
  gives that the sum exists, is unique (`SumUnique`), and loses what a Pod
  requests when the Pod is taken out (`SumRemove`); everything else is
  arithmetic on one resource at a time. In Windows it gives that the merge exists,
  is unique and adds the latest span last (`MergeStep`), and then that what is
  merged so far keeps its spans apart and covers what went in (`MergedFrom`,
  `MergeKept`): a least set of spans for which it does not would have lost it in
  that last step.
- *A closed form.* The loop of `PickEarliestDeadlineEligible` and the sum over the
  census are folds whose result can be given outright: the first of the eligible
  claims (`FirstOf`), the claims filed in a set of buckets (`FiledIn`). The
  closed form satisfies the fold's definition (`LoopStep`, `TallyStep`), and only
  one function does. That the deadline order is a strict total order
  (`EarlierOrder`, `EarlierTransitive`) makes the first claim unique, so the
  order of the List does not matter (`Reversed`).
- *Division by a name.* An entry is decided by `div` and `mod` of symbolic lengths of
  a minute, a day and a week. `DivIs` and `DivShift` reduce them to one quotient;
  from these, in a zone on the minute the window is a function of the minute
  (`ByMinute`), comes back every week (`MinuteWeekly`), and changes once at most
  within a minute (`OneEdge`). So the walk in whole minutes steps over nothing
  (`Walked`), what is open at every minute of a week is open always (`AllWeek`),
  and the search in the
  last minute finds the edge (`Refined`).

The backoff theorems rest on these bounds: they are one and the same pair
anywhere in an occurrence (`OneRun`), so what effectiveBackoff announces at the
failure is what the predicate computes later, and outside it the failure lies
before the bounds and the whole ladder counts. `CalendarInv` carries what they
need of the past: the announced backoff is the one in force at the failure, and
the failure is behind (`AnnouncedAtFailure`).

*The week.* An entry's day is one span of the week or two (`SpansOfDay`), an
instant is open when a merged span holds it (`MergedEdges`), and joining the last
to the first makes the occurrences the maximal runs (`OccsAre`). From then on only
`InWindow` and its weekly return are used. `Closing` and `NextIs` say that the
occurrences start at the openings, with nothing open between the end of one and
the next start; so a window opens within P of any instant (`OpensWithinPeriod`),
and a closed run is the gap behind the occurrence it follows (`GapAfter`,
`GapFrom`). `FiguresNever` is the case in which nothing ever closes.
`ThroughputExact` adds the arithmetic of `ceilDiv` and what `Derive` reports
(`CeilDivIs`, `DeriveIs`).

*Chances.* "K windows in the lead time" is not inductive. `ChancesCounted` is: an
opening after the trigger and no later than the last start, in the j-th period
from the trigger, leaves more than j chances counted. The clock's step needs an
opening in the period before (`OpensSoon`), which has been counted
(`ChancesTick`). At the deadline the last start is past, and K, or G, whole
periods fit before it: in auto mode by the lead time, in override mode by
`floorDiv` (`ChancesAuto`, `ChancesOverride`). `ShortLeadClaims` never
lists a claim that is being deleted, so the property asks whether it would be
reported if it were alive.

`SizingInv` has the node's own
bookkeeping (`NodeInv`: the Pods it runs were admitted, and fit) and that the
gate's figures are current while nothing moved (`AttemptInv`).

### Only model-checked

- Liveness (`AnchorReleased`, `EveryStampJudged`, `Converges`, and with it
  `TieIsReported`): the provers do not do fairness.
- `NothingLeftBehind` when governance lapses (`lapse`): RotationInv does not hold
  there, and the clean-up after a reap has an argument of its own.

Left of the plan: that last proof; the sweep's claim and placeholder parts one item
at a time; the simulator's loop.

## 7. Not modelled

- *Warnings* (`warnings.go`): a map local to the process decides whether a log
  line or an Event repeats; no decision reads it. Only `EmitWindowMissed`, its
  count and its Event, is in WindowEdge. *Metrics, transitions*: reporting;
  the announced outcomes are in Rotation (`told`).
- *Placeholder manifest* (`surge/placeholder.go`, `name.go`): data without a
  decision.
- *Policy parsing and defaults* (`internal/policy`, `internal/crd`): whether a
  spec resolves, and to which durations, is an input of the models.
- *Simulator* (`internal/sim`, `simapi`, `cmd/wasm`): it drives no cluster, and the
  packages it replays are modelled themselves.
- *Leader hand-over onto a warm cache*: a restart lists afresh in every module.
- Preflight, flags, scheme registration, the documentation site's user interface,
  the Helm chart, the CI scripts and generated deep-copy code carry none of the
  controller's logic.
