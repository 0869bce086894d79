----------------------------- MODULE WindowEdge -----------------------------
(***************************************************************************)
(* The window-close evaluation: a pass that finds the maintenance window   *)
(* open stamps window-opened-at on the NodePool, and the pass that finds   *)
(* it closed judges the occurrence by that stamp, with a conditional write *)
(* that re-asserts the verdict on what it reads then.  Around it: the      *)
(* clock, a NodePool cache that lags, rotations that begin in the window   *)
(* and end at any time, an operator's freeze, an edited stamp, passes that *)
(* fail, writes that land unanswered, and processes that stop: also        *)
(* between the write that clears a stamp and the report that write owes.   *)
(*                                                                         *)
(* Source: internal/decide/windowclose.go, evaluateWindowEdge and its call *)
(* in reconcileNodePool (internal/controller/rotation_controller.go).      *)
(***************************************************************************)
EXTENDS Integers

CONSTANTS
    MaxTime,        \* bound: the clock
    OpenTimes,      \* when the maintenance window is open
    FreezeUntil,    \* the deadlines an operator may freeze the pool until
    MaxFreezes,     \* bound: freezes and thaws
    MayCorrupt      \* window-opened-at may be edited to something unreadable

Times == 1..MaxTime
Never == 0          \* an annotation that is absent
Bad   == -1         \* a stamp that does not parse

ASSUME WindowAssumption ==
    /\ MaxTime \in Nat /\ OpenTimes \subseteq Times
    /\ FreezeUntil \subseteq Times /\ MayCorrupt \in BOOLEAN

VARIABLES
    now,
    pool,      \* the annotations of the NodePool at the API server
    cache,     \* ... as the informer cache last saw them
    due,       \* Outstanding > 0: claims past their trigger and not held back
    pc,        \* where the reconcile pass is
    in,        \* WindowInputs: what the pass evaluated the edge from
    counted,   \* per stamp, noderotation_window_missed_total increments
    events,    \* per stamp, WindowMissed Events
    success,   \* history: when rotations succeeded, and when they had started
    lost,      \* history: the stamps cleared from a pool that had lost their window
    cut,       \* history: the stamps cleared by a pass that did not live to count them
    freezes, corrupted

reports == <<counted, events>>
history == <<success, lost, cut>>
bounds  == <<freezes, corrupted>>
ghosts  == <<reports, history, bounds>>
vars    == <<now, pool, cache, due, pc, in, counted, events, success, lost, cut, freezes,
             corrupted>>

\* The pool's annotations, each a time or Never: opened (window-opened-at, or Bad when
\* unreadable), rotated (last-rotation-at), anchor (active-rotation, as its start) and
\* freeze.

InWindow(t) == t \in OpenTimes

\* decide.Frozen
Frozen(ann, t) == t < ann.freeze

-----------------------------------------------------------------------------
(***************************************************************************)
(* decide.WindowEdge                                                       *)
(***************************************************************************)

Parsed(stamp) == stamp \in Times

\* Mutant: a rotation in flight does not defer the verdict.
ClosedVerdictNoDefer(i) ==
    IF \/ ~Parsed(i.ann.opened) \/ Frozen(i.ann, i.at) \/ ~i.due
       \/ i.ann.rotated >= i.ann.opened
    THEN "settled" ELSE "missed"

\* Mutant: a success in the very second of the stamp does not count.
ClosedVerdictStrict(i) ==
    IF Parsed(i.ann.opened) /\ i.ann.anchor # Never THEN "defer"
    ELSE IF \/ ~Parsed(i.ann.opened) \/ Frozen(i.ann, i.at) \/ ~i.due
            \/ i.ann.rotated > i.ann.opened
         THEN "settled"
         ELSE "missed"

\* Mutant: any success the pool remembers settles the window.
ClosedVerdictAnySuccess(i) ==
    IF Parsed(i.ann.opened) /\ i.ann.anchor # Never THEN "defer"
    ELSE IF \/ ~Parsed(i.ann.opened) \/ Frozen(i.ann, i.at) \/ ~i.due
            \/ i.ann.rotated # Never
         THEN "settled"
         ELSE "missed"

ClosedVerdict(i) ==
    IF Parsed(i.ann.opened) /\ i.ann.anchor # Never THEN "defer"
    ELSE IF \/ ~Parsed(i.ann.opened) \/ Frozen(i.ann, i.at) \/ ~i.due
            \/ i.ann.rotated # Never /\ i.ann.rotated >= i.ann.opened
         THEN "settled"
         ELSE "missed"

\* Mutant: an unreadable stamp is never cleared.
VerdictSkipsBad(i) ==
    IF i.inWindow
    THEN IF Parsed(i.ann.opened) THEN "nothing" ELSE "stamp"
    ELSE IF Parsed(i.ann.opened) THEN ClosedVerdict(i) ELSE "nothing"

Verdict(i) ==
    IF i.inWindow
    THEN IF Parsed(i.ann.opened) THEN "nothing" ELSE "stamp"
    ELSE IF i.ann.opened = Never THEN "nothing" ELSE ClosedVerdict(i)

-----------------------------------------------------------------------------
(***************************************************************************)
(* The pass.                                                               *)
(***************************************************************************)

\* Reconcile reads the pool and lists its claims, then evaluates the edge.
BeginPass ==
    /\ pc = "idle"
    /\ in' = [at |-> now, inWindow |-> InWindow(now), due |-> due, ann |-> cache]
    /\ pc' = IF Verdict(in') \in {"nothing", "defer"} THEN "rotate" ELSE "write"
    /\ UNCHANGED <<now, pool, cache, due, ghosts>>

\* claim: the verdict and the exact stamp are re-asserted on the read the write is
\* validated against; the clock and the census are the pass's own.
StillHolds(fresh) ==
    /\ Verdict([in EXCEPT !.ann = fresh]) = Verdict(in)
    /\ fresh.opened = in.ann.opened

\* Mutant: a reported stamp is not cleared.
ApplyKeepsMissed(p) ==
    [p EXCEPT !.opened = IF Verdict(in) = "stamp" THEN in.at
                         ELSE IF Verdict(in) = "missed" THEN @ ELSE Never]

Apply(p) == [p EXCEPT !.opened = IF Verdict(in) = "stamp" THEN in.at ELSE Never]

\* The occurrence of the stamp at the server is lost, whatever a pass makes of it: a
\* claim was due, no freeze held, and no rotation has succeeded since the stamp.
IsLost ==
    /\ Parsed(pool.opened) /\ in.due /\ ~Frozen(pool, in.at)
    /\ \A s \in success : s[2] < pool.opened

\* patchPoolIf reads the cache; a stale read that still holds conflicts, and the
\* write waits for the cache or gives up (PassFails).
Update ==
    /\ pc = "write" /\ StillHolds(cache) /\ cache = pool
    /\ pool' = Apply(pool)
    /\ lost' = lost \cup {t \in {pool.opened} : IsLost /\ pool'.opened # t}

WindowWrite ==
    /\ Update
    /\ IF Verdict(in) = "missed"
       THEN pc' = "count" /\ UNCHANGED in
       ELSE pc' = "rotate" /\ in' = [in EXCEPT !.ann = pool']
    /\ UNCHANGED <<now, cache, due, reports, success, cut, bounds>>

\* The Update lands and its answer is an error: the pass returns it, reporting nothing.
WindowWriteUnanswered ==
    /\ Update
    /\ cut' = IF Verdict(in) = "missed" THEN cut \cup {in.ann.opened} ELSE cut
    /\ pc' = "idle"
    /\ UNCHANGED <<now, cache, due, in, reports, success, bounds>>

WindowVeto ==
    /\ pc = "write" /\ ~StillHolds(cache)
    /\ in' = [in EXCEPT !.ann = cache]
    /\ pc' = "rotate"
    /\ UNCHANGED <<now, pool, cache, due, ghosts>>

CountMissed ==
    /\ pc = "count" /\ pc' = "event"
    /\ counted' = [counted EXCEPT ![in.ann.opened] = @ + 1]
    /\ UNCHANGED <<now, pool, cache, due, in, events, history, bounds>>

EmitEvent ==
    /\ pc = "event" /\ pc' = "rotate"
    /\ events' = [events EXCEPT ![in.ann.opened] = @ + 1]
    /\ in' = [in EXCEPT !.ann = Apply(in.ann)]
    /\ UNCHANGED <<now, pool, cache, due, counted, history, bounds>>

\* The rest of the pass, coarse: anchor a rotation, or end the one in flight.
StartRotation ==
    /\ pc = "rotate" /\ in.ann.anchor = Never /\ in.ann = pool
    /\ in.inWindow /\ in.due /\ ~Frozen(in.ann, in.at)
    /\ pool' = [pool EXCEPT !.anchor = in.at]
    /\ pc' = "idle"
    /\ UNCHANGED <<now, cache, due, in, ghosts>>

EndRotation(ok) ==
    /\ pc = "rotate" /\ in.ann.anchor # Never
    /\ cache = pool /\ pool.anchor # Never
    /\ pool' = [pool EXCEPT !.anchor = Never, !.rotated = IF ok THEN now ELSE @]
    /\ success' = IF ok THEN success \cup {<<pool.anchor, now>>} ELSE success
    /\ pc' = "idle"
    /\ UNCHANGED <<now, cache, due, in, reports, lost, cut, bounds>>

EndPass ==
    /\ pc = "rotate" /\ pc' = "idle"
    /\ UNCHANGED <<now, pool, cache, due, in, ghosts>>

\* An API error or an exhausted conflict retry; or the process stops, and the next
\* one lists its cache afresh.
PassFails ==
    /\ pc \in {"write", "rotate"} /\ pc' = "idle"
    /\ UNCHANGED <<now, pool, cache, due, in, ghosts>>

Restart ==
    /\ pc' = "idle" /\ cache' = pool
    /\ cut' = IF pc = "count" THEN cut \cup {in.ann.opened} ELSE cut
    /\ UNCHANGED <<now, pool, due, in, reports, success, lost, bounds>>

-----------------------------------------------------------------------------
Tick ==
    /\ now < MaxTime /\ now' = now + 1
    /\ UNCHANGED <<pool, cache, due, pc, in, ghosts>>

Sync ==
    /\ cache # pool /\ cache' = pool
    /\ UNCHANGED <<now, pool, due, pc, in, ghosts>>

\* Claims age past their trigger, leave the pool, are opted out.
DueChanges ==
    /\ due' = ~due
    /\ UNCHANGED <<now, pool, cache, pc, in, ghosts>>

OperatorFreezes(t) ==
    /\ freezes < MaxFreezes /\ freezes' = freezes + 1
    /\ pool' = [pool EXCEPT !.freeze = t]
    /\ UNCHANGED <<now, cache, due, pc, in, reports, history, corrupted>>

StampEdited ==
    /\ MayCorrupt /\ ~corrupted /\ corrupted' = TRUE
    /\ Parsed(pool.opened) /\ pool' = [pool EXCEPT !.opened = Bad]
    /\ UNCHANGED <<now, cache, due, pc, in, reports, history, freezes>>

-----------------------------------------------------------------------------
Init ==
    /\ now = 1
    /\ pool = [opened |-> Never, rotated |-> Never, anchor |-> Never, freeze |-> Never]
    /\ cache = pool
    /\ due = TRUE
    /\ pc = "idle"
    /\ in = [at |-> 1, inWindow |-> FALSE, due |-> FALSE, ann |-> pool]
    /\ counted = [t \in Times |-> 0] /\ events = counted
    /\ success = {} /\ lost = {} /\ cut = {} /\ freezes = 0 /\ corrupted = FALSE

Next ==
    \/ BeginPass \/ WindowWrite \/ WindowWriteUnanswered \/ WindowVeto
    \/ CountMissed \/ EmitEvent
    \/ StartRotation \/ EndPass \/ PassFails \/ Restart
    \/ \E ok \in BOOLEAN : EndRotation(ok)
    \/ Tick \/ Sync \/ DueChanges \/ StampEdited
    \/ \E t \in FreezeUntil \cup {Never} : OperatorFreezes(t)

\* The clock goes on, the watch delivers, the work queue runs passes (every
\* longRequeue at the latest), a rotation ends, and not every pass fails.
Fairness ==
    /\ WF_vars(Tick) /\ WF_vars(Sync) /\ WF_vars(BeginPass)
    /\ SF_vars(WindowWrite) /\ WF_vars(WindowVeto)
    /\ WF_vars(CountMissed) /\ WF_vars(EmitEvent)
    /\ SF_vars(EndRotation(FALSE)) /\ WF_vars(EndPass)

Spec == Init /\ [][Next]_vars /\ Fairness

-----------------------------------------------------------------------------
(***************************************************************************)
(* Properties.                                                             *)
(***************************************************************************)

\* The occurrence a time in the window belongs to.
Occurrence(t) == {u \in OpenTimes : (IF u < t THEN u..t ELSE t..u) \subseteq OpenTimes}

\* A lost window is counted at most once, and its Event follows a count: over stale
\* caches, retried writes, restarts and healed stamps no two reports concern one
\* occurrence of the window (evaluateWindowEdge: "AT MOST once per occurrence").
ReportedOnce ==
    /\ \A t \in Times : events[t] <= counted[t] /\ counted[t] <= 1
    /\ \A t, u \in Times : counted[t] > 0 /\ counted[u] > 0 /\ t # u =>
         t \in OpenTimes /\ u \notin Occurrence(t)

\* What is reported lost was lost: the stamp reported was cleared from a pool at the
\* server whose window was lost, by a pass that lives to report it; and when the count
\* goes up no rotation is in flight and none has succeeded since the stamp.
MissIsReal ==
    [][\A t \in Times : counted'[t] # counted[t] =>
         /\ t \in lost \ cut /\ pool.anchor = Never
         /\ \A s \in success : s[2] < t]_vars

\* A loss is not swallowed: every stamp cleared over a lost window is counted, or is
\* about to be, or the pass that cleared it was cut off then and there, by a stop of
\* the process or an Update whose answer was lost ("a controller that stops in between
\* drops the signal rather than inventing one").
NoSilentLoss ==
    \A t \in lost : \/ counted[t] > 0 \/ t \in cut
                    \/ pc = "count" /\ in.ann.opened = t

\* A rotation that started in a window and succeeded, in it or after its close, keeps
\* that occurrence from being reported, as long as nobody edits the stamp: the pass
\* that starts it has stamped, and WindowDefer holds the stamp until it lands.
SuccessSettlesWindow ==
    [][\A t \in Times : counted'[t] # counted[t] /\ ~corrupted =>
         \A s \in success : s[1] \notin Occurrence(t)]_vars

\* Every window that was stamped is judged: once the clock is past the last
\* occurrence, no stamp stays.
EveryStampJudged == []<>(now < MaxTime \/ pool.opened = Never)

=============================================================================
