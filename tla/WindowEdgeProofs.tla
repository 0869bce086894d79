-------------------------- MODULE WindowEdgeProofs --------------------------
(***************************************************************************)
(* Theorems of WindowEdge, for any clock, any set of open instants, any    *)
(* number of freezes, and a stamp that may be edited.                      *)
(***************************************************************************)
EXTENDS WindowEdge, TLAPS

Annotations == [opened: Times \cup {Never, Bad}, rotated: Nat, anchor: Nat, freeze: Nat]

Shape ==
    /\ now \in Nat \ {0} /\ due \in BOOLEAN /\ corrupted \in BOOLEAN
    /\ pool \in Annotations /\ cache \in Annotations
    /\ in \in [at: Nat \ {0}, inWindow: BOOLEAN, due: BOOLEAN, ann: Annotations]
    /\ pc \in {"idle", "write", "count", "event", "rotate"}
    /\ lost \subseteq Times /\ cut \subseteq Times
    /\ counted \in [Times -> Nat] /\ events \in [Times -> Nat]
    /\ success \subseteq Nat \X Nat

\* What is durable was written at a time no later than the pass under way, or than now
\* between passes: the clock a pass judges by is the one it began with.
Horizon == IF pc = "idle" THEN now ELSE in.at

Bounded ==
    /\ Horizon <= now
    /\ pool.opened <= Horizon /\ cache.opened <= Horizon
    /\ pc # "idle" => in.ann.opened <= Horizon
    /\ pool.rotated <= Horizon /\ pool.anchor <= Horizon

\* Stamps are instants the window was open at.
InWindowOnly ==
    /\ \A a \in {pool, cache, in.ann} : Parsed(a.opened) => a.opened \in OpenTimes
    /\ pool.anchor # Never => pool.anchor \in OpenTimes

\* The window has been closed since t, and by x.
Past(t, x) == \E u \in Nat \ OpenTimes : t < u /\ u <= x

\* An occurrence that was lost is over, and a stamp that stands is a later one's.
Over(t) == Past(t, Horizon) /\ (Parsed(pool.opened) => Past(t, pool.opened))

\* No two of the stamps cleared over a loss are of one occurrence.
Losses ==
    /\ \A t \in lost : t \in OpenTimes /\ Over(t)
    /\ \A t, u \in lost : t # u => u \notin Occurrence(t)

\* What became of them: counted, cut off, or in the hands of the pass.
Accounts ==
    /\ cut \subseteq lost
    /\ \A t \in Times : counted[t] > 0 => t \in lost \ cut
    /\ NoSilentLoss

\* The pool remembers the last success.
Successes ==
    /\ \A s \in success : /\ s[1] \in OpenTimes /\ s[1] <= s[2]
                          /\ s[2] <= pool.rotated /\ pool.rotated # Never
    /\ pool.rotated # Never => \E s \in success : s[2] = pool.rotated

\* What the steps of a pass have established.
StepKnows ==
    /\ pc # "idle" => in.inWindow = InWindow(in.at)
    /\ pc = "write" => Verdict(in) \in {"stamp", "settled", "missed"}
    /\ pc = "count" => /\ ~in.inWindow /\ Parsed(in.ann.opened)
                       /\ in.ann.opened \in lost \ cut /\ counted[in.ann.opened] = 0
                       /\ pool.anchor = Never
                       /\ \A s \in success : /\ s[2] < in.ann.opened
                                             /\ corrupted \/ Past(s[1], in.ann.opened)
    /\ pc = "event" => /\ ~in.inWindow /\ Parsed(in.ann.opened)
                       /\ events[in.ann.opened] = 0 /\ counted[in.ann.opened] = 1

\* While nobody edits the stamp a rotation starts under one, and its success finds that
\* stamp still standing or its window over.
Unedited ==
    ~corrupted =>
        /\ \A a \in {pool, cache, in.ann} : a.opened # Bad
        /\ pc = "rotate" /\ in.inWindow => Parsed(in.ann.opened)
        /\ pool.anchor # Never => Parsed(pool.opened) /\ pool.opened <= pool.anchor
        /\ \A s \in success : \/ Parsed(pool.opened) /\ pool.opened <= s[1]
                              \/ Over(s[1])

\* The inductive invariant.
WindowInv == /\ Shape /\ Bounded /\ InWindowOnly /\ Losses /\ Accounts /\ Successes
             /\ StepKnows /\ Unedited /\ ReportedOnce

-----------------------------------------------------------------------------
(***************************************************************************)
(* Frames.                                                                 *)
(***************************************************************************)

LEMMA LaterPast ==
  ASSUME NEW t \in Nat, NEW x \in Int, NEW y \in Int, Past(t, x), x <= y PROVE Past(t, y)
  BY DEF Past

LEMMA TimesAreNat == OpenTimes \subseteq Times /\ Times \subseteq Nat \ {0}
  BY WindowAssumption DEF Times

LEMMA OpenedIsInt == \A a \in Annotations : a.opened \in Int
  <1>1. Times \cup {Never, Bad} \subseteq Int
    BY TimesAreNat DEF Never, Bad
  <1> QED  BY <1>1 DEF Annotations

LEMMA Fields ==
  \A a \in Annotations : a.rotated \in Nat /\ a.anchor \in Nat /\ a.freeze \in Nat
  BY DEF Annotations

\* The copy of the annotations the pass holds, and what it owes.
PassKnows ==
    /\ pc # "idle" => in.ann.opened <= Horizon
    /\ Parsed(in.ann.opened) => in.ann.opened \in OpenTimes
    /\ StepKnows /\ Accounts
    /\ ~corrupted => in.ann.opened # Bad
                       /\ (pc = "rotate" /\ in.inWindow => Parsed(in.ann.opened))

\* Any step that leaves the stamp, the anchor, the successes and the reports as they
\* are, and the time bound no earlier.
LEMMA FrameStep ==
  ASSUME WindowInv, Shape', PassKnows',
         UNCHANGED <<counted, success, lost, corrupted>>,
         events' = events \/ (\A t \in Times : events'[t] <= counted[t]),
         pool'.opened = pool.opened, pool'.rotated = pool.rotated,
         pool'.anchor = pool.anchor,
         cache'.opened \in {cache.opened, pool.opened},
         Horizon <= Horizon', Horizon' <= now'
  PROVE  WindowInv'
  <1>1. /\ Horizon \in Int /\ Horizon' \in Int
        /\ pool.opened \in Int /\ cache.opened \in Int
        /\ pool.rotated \in Int /\ pool.anchor \in Int
    BY OpenedIsInt, Fields DEF WindowInv, Shape, Horizon
  <1>2. Bounded'
    BY <1>1 DEF WindowInv, Bounded, PassKnows
  <1>3. InWindowOnly'
    BY DEF WindowInv, InWindowOnly, PassKnows
  <1>4. \A t \in Nat : Over(t) => Over(t)'
    BY <1>1, LaterPast DEF Over, Past
  <1>5. Losses'
    BY <1>4, TimesAreNat DEF WindowInv, Shape, Losses, Occurrence
  <1>6. Successes'
    BY DEF WindowInv, Successes
  <1>7. \A s \in success : s[1] \in Nat
    BY DEF WindowInv, Shape
  <1>8. Unedited'
    <2> SUFFICES ASSUME ~corrupted PROVE Unedited'
      BY DEF Unedited
    <2>1. \A a \in {pool', cache', in'.ann} : a.opened # Bad
      BY DEF WindowInv, Unedited, PassKnows
    <2>2. pool'.anchor # Never => Parsed(pool'.opened) /\ pool'.opened <= pool'.anchor
      BY DEF WindowInv, Unedited
    <2>3. \A s \in success : (Parsed(pool'.opened) /\ pool'.opened <= s[1]) \/ Over(s[1])'
      BY <1>4, <1>7 DEF WindowInv, Unedited
    <2> QED  BY <2>1, <2>2, <2>3 DEF Unedited, PassKnows
  <1>9. ReportedOnce'
    BY DEF WindowInv, ReportedOnce, Occurrence
  <1> QED  BY <1>2, <1>3, <1>5, <1>6, <1>8, <1>9 DEF WindowInv, PassKnows

\* The pass's own knowledge, when neither the pass nor what it counted moves.
LEMMA PassFrame ==
  ASSUME WindowInv, UNCHANGED <<pc, in, reports, history, corrupted>>,
         pool'.anchor = pool.anchor, Horizon <= Horizon'
  PROVE  PassKnows'
  <1>1. StepKnows'
    BY DEF WindowInv, StepKnows, reports, history, Verdict, ClosedVerdict, Past
  <1>2. Accounts'
    BY DEF WindowInv, Accounts, NoSilentLoss, reports, history
  <1>3. pc' # "idle" => in'.ann.opened <= Horizon'
    BY DEF WindowInv, Bounded, Horizon
  <1> QED  BY <1>1, <1>2, <1>3 DEF WindowInv, InWindowOnly, Unedited, PassKnows

\* A pass that is over knows nothing.
LEMMA EndFrame ==
  ASSUME WindowInv, pc' = "idle", UNCHANGED <<in, corrupted>>, Accounts'
  PROVE  PassKnows'
  BY DEF WindowInv, InWindowOnly, Unedited, PassKnows, StepKnows

\* A pass that owes no count may go where it owes none.
LEMMA OwesNothing ==
  ASSUME WindowInv, pc # "count", UNCHANGED <<counted, lost, cut>>
  PROVE  Accounts'
  BY DEF WindowInv, Accounts, NoSilentLoss

-----------------------------------------------------------------------------
(***************************************************************************)
(* The clock, the watch, the operator.                                     *)
(***************************************************************************)

LEMMA EnvironmentKeeps ==
  ASSUME WindowInv,
         Tick \/ Sync \/ DueChanges \/ \E t \in FreezeUntil \cup {Never} : OperatorFreezes(t)
  PROVE  WindowInv'
  <1>1. Shape
    BY DEF WindowInv
  <1>2. CASE Tick
    <2>1. Shape' /\ Horizon <= Horizon' /\ Horizon' <= now'
      BY <1>1, <1>2 DEF Tick, Shape, ghosts, reports, history, bounds, Horizon, WindowInv, Bounded
    <2>2. PassKnows'
      BY <1>2, <2>1, PassFrame DEF Tick, ghosts, bounds
    <2> QED  BY <1>2, <2>1, <2>2, FrameStep DEF Tick, ghosts, reports, history, bounds
  <1>3. CASE Sync
    <2>1. Shape' /\ Horizon <= Horizon' /\ Horizon' <= now'
      BY <1>1, <1>3 DEF Sync, Shape, ghosts, reports, history, bounds, Horizon, WindowInv, Bounded
    <2>2. PassKnows'
      BY <1>3, <2>1, PassFrame DEF Sync, ghosts, bounds
    <2> QED  BY <1>3, <2>1, <2>2, FrameStep DEF Sync, ghosts, reports, history, bounds
  <1>4. CASE DueChanges
    <2>1. Shape' /\ Horizon <= Horizon' /\ Horizon' <= now'
      BY <1>1, <1>4 DEF DueChanges, Shape, ghosts, reports, history, bounds, Horizon, WindowInv, Bounded
    <2>2. PassKnows'
      BY <1>4, <2>1, PassFrame DEF DueChanges, ghosts, bounds
    <2> QED  BY <1>4, <2>1, <2>2, FrameStep DEF DueChanges, ghosts, reports, history, bounds
  <1>5. ASSUME NEW t \in FreezeUntil \cup {Never}, OperatorFreezes(t) PROVE WindowInv'
    <2>1. t \in Nat
      BY WindowAssumption, TimesAreNat DEF Never
    <2>2. \A a \in Annotations : /\ [a EXCEPT !.freeze = t] \in Annotations
                                 /\ [a EXCEPT !.freeze = t].opened = a.opened
                                 /\ [a EXCEPT !.freeze = t].rotated = a.rotated
                                 /\ [a EXCEPT !.freeze = t].anchor = a.anchor
      BY <2>1 DEF Annotations
    <2>3. Shape' /\ Horizon <= Horizon' /\ Horizon' <= now'
      BY <1>1, <1>5, <2>2 DEF OperatorFreezes, Shape, Horizon, WindowInv, Bounded, reports, history
    <2>4. PassKnows'
      BY <1>1, <1>5, <2>2, <2>3, PassFrame DEF OperatorFreezes, Shape
    <2> QED  BY <1>1, <1>5, <2>2, <2>3, <2>4, FrameStep DEF OperatorFreezes, Shape, reports, history
  <1> QED  BY <1>2, <1>3, <1>4, <1>5

LEMMA EditKeeps == ASSUME WindowInv, StampEdited PROVE WindowInv'
  <1>1. \A a \in Annotations : /\ [a EXCEPT !.opened = Bad] \in Annotations
                               /\ [a EXCEPT !.opened = Bad].opened = Bad
                               /\ [a EXCEPT !.opened = Bad].rotated = a.rotated
                               /\ [a EXCEPT !.opened = Bad].anchor = a.anchor
    BY DEF Annotations
  <1>2. /\ pool' = [pool EXCEPT !.opened = Bad] /\ corrupted'
        /\ UNCHANGED <<now, cache, due, pc, in, counted, events, success, lost, cut>>
    BY DEF StampEdited, reports, history
  <1>3. Shape'
    BY <1>1, <1>2 DEF WindowInv, Shape
  <1>4. pool'.opened = Bad /\ pool'.rotated = pool.rotated /\ pool'.anchor = pool.anchor
    BY <1>1, <1>2 DEF WindowInv, Shape
  <1>5. ~Parsed(Bad)
    BY TimesAreNat DEF Parsed, Bad
  <1>6. Horizon' = Horizon /\ Horizon \in Nat
    BY <1>2 DEF Horizon, WindowInv, Shape
  <1>7. Bounded' /\ InWindowOnly'
    BY <1>2, <1>4, <1>5, <1>6 DEF WindowInv, Bounded, InWindowOnly, Bad
  <1>8. Losses' /\ Successes'
    BY <1>2, <1>4, <1>5, <1>6 DEF WindowInv, Losses, Successes, Over, Past, Occurrence
  <1>9. Accounts' /\ StepKnows'
    BY <1>2, <1>4 DEF WindowInv, Accounts, NoSilentLoss, StepKnows, Verdict, ClosedVerdict
  <1> QED
    BY <1>2, <1>3, <1>7, <1>8, <1>9 DEF WindowInv, Unedited, ReportedOnce, Occurrence

-----------------------------------------------------------------------------
(***************************************************************************)
(* The pass.                                                               *)
(***************************************************************************)

LEMMA BeginKeeps == ASSUME WindowInv, BeginPass PROVE WindowInv'
  <1>1. /\ in' = [at |-> now, inWindow |-> InWindow(now), due |-> due, ann |-> cache]
        /\ pc = "idle" /\ pc' = IF Verdict(in') \in {"nothing", "defer"} THEN "rotate" ELSE "write"
        /\ UNCHANGED <<now, pool, cache, due, counted, events, success, lost, cut, corrupted>>
    BY DEF BeginPass, ghosts, reports, history, bounds
  <1>2. in'.at = now /\ in'.inWindow = InWindow(now) /\ in'.ann = cache
    BY <1>1
  <1>3. Shape' /\ Horizon = now /\ Horizon' = now
    BY <1>1 DEF WindowInv, Shape, Horizon, InWindow
  <1>4. Verdict(in') \in {"nothing", "defer", "stamp", "settled", "missed"}
    BY DEF Verdict, ClosedVerdict
  <1>5. StepKnows'
    BY <1>1, <1>2, <1>4 DEF StepKnows
  <1>6. ~corrupted /\ pc' = "rotate" /\ in'.inWindow => Parsed(in'.ann.opened)
    BY <1>1, <1>2 DEF Verdict
  <1>7. PassKnows'
    BY <1>1, <1>2, <1>3, <1>5, <1>6, OwesNothing
    DEF WindowInv, Bounded, InWindowOnly, Unedited, PassKnows
  <1>8. Horizon <= Horizon' /\ Horizon' <= now'
    BY <1>1, <1>3 DEF WindowInv, Shape
  <1> QED  BY <1>1, <1>3, <1>7, <1>8, FrameStep

LEMMA VetoKeeps == ASSUME WindowInv, WindowVeto PROVE WindowInv'
  <1>1. /\ pc = "write" /\ ~StillHolds(cache) /\ pc' = "rotate"
        /\ in' = [in EXCEPT !.ann = cache]
        /\ UNCHANGED <<now, pool, cache, due, counted, events, success, lost, cut, corrupted>>
    BY DEF WindowVeto, ghosts, reports, history, bounds
  <1>2. in'.at = in.at /\ in'.inWindow = in.inWindow /\ in'.ann = cache
    BY <1>1 DEF WindowInv, Shape
  <1>3. Shape' /\ Horizon' = Horizon
    BY <1>1, <1>2 DEF WindowInv, Shape, Horizon
  <1>4. ~corrupted /\ in.inWindow => Parsed(cache.opened)
    <2> SUFFICES ASSUME ~corrupted, in.inWindow, ~Parsed(cache.opened) PROVE FALSE
      OBVIOUS
    <2>1. ~Parsed(in.ann.opened)
      BY <1>1 DEF WindowInv, StepKnows, Verdict
    <2>2. cache.opened = Never /\ in.ann.opened = Never
      BY <2>1 DEF WindowInv, Shape, Annotations, Unedited, Parsed
    <2>3. Verdict([in EXCEPT !.ann = cache]) = "stamp" /\ Verdict(in) = "stamp"
      BY <1>1, <1>2, <2>1 DEF Verdict
    <2> QED  BY <1>1, <2>2, <2>3 DEF StillHolds
  <1>5. StepKnows'
    BY <1>1, <1>2 DEF WindowInv, StepKnows
  <1>6. PassKnows'
    BY <1>1, <1>2, <1>3, <1>4, <1>5, OwesNothing
    DEF WindowInv, Bounded, InWindowOnly, Unedited, PassKnows
  <1>7. Horizon <= Horizon' /\ Horizon' <= now'
    BY <1>1, <1>3 DEF WindowInv, Bounded, Shape, Horizon
  <1> QED  BY <1>1, <1>3, <1>6, <1>7, FrameStep

\* A pass that ends owing a count is one that is cut off.
LEMMA EndKeeps == ASSUME WindowInv, EndPass \/ PassFails \/ Restart PROVE WindowInv'
  <1>1. /\ pc' = "idle" /\ cache' \in {cache, pool}
        /\ UNCHANGED <<now, pool, due, in, counted, events, success, lost, corrupted>>
        /\ IF pc = "count" THEN cut' = cut \cup {in.ann.opened} ELSE cut' = cut
    BY DEF EndPass, PassFails, Restart, ghosts, reports, history, bounds
  <1>2. Shape' /\ Accounts'
    <2>1. CASE pc # "count"
      BY <1>1, <2>1, OwesNothing DEF WindowInv, Shape
    <2>2. CASE pc = "count"
      <3>1. /\ in.ann.opened \in lost \ cut /\ counted[in.ann.opened] = 0
            /\ in.ann.opened \in Times
        BY <2>2 DEF WindowInv, StepKnows, Parsed
      <3>2. Shape'
        BY <1>1, <2>2, <3>1 DEF WindowInv, Shape
      <3>3. Accounts'
        BY <1>1, <2>2, <3>1 DEF WindowInv, Accounts, NoSilentLoss
      <3> QED  BY <3>2, <3>3
    <2> QED  BY <2>1, <2>2
  <1>3. Horizon <= Horizon' /\ Horizon' <= now'
    BY <1>1 DEF WindowInv, Shape, Bounded, Horizon
  <1> QED  BY <1>1, <1>2, <1>3, EndFrame, FrameStep

\* The count pays what the pass owes, for a stamp nothing has been counted for.
LEMMA CountKeeps == ASSUME WindowInv, CountMissed PROVE WindowInv'
  <1> DEFINE o == in.ann.opened
  <1>1. /\ pc = "count" /\ pc' = "event"
        /\ counted' = [counted EXCEPT ![o] = @ + 1]
        /\ UNCHANGED <<now, pool, cache, due, in, events, success, lost, cut, corrupted>>
    BY DEF CountMissed, history, bounds
  <1>2. /\ ~in.inWindow /\ Parsed(o) /\ o \in Times /\ o \in lost \ cut /\ counted[o] = 0
    BY <1>1 DEF WindowInv, StepKnows, Parsed
  <1>3. events[o] = 0
    BY <1>2 DEF WindowInv, Shape, ReportedOnce
  <1> HIDE DEF o
  <1>4. /\ counted' \in [Times -> Nat] /\ counted'[o] = 1
        /\ \A t \in Times : t # o => counted'[t] = counted[t]
    BY <1>1, <1>2 DEF WindowInv, Shape
  <1>5. Shape' /\ Horizon' = Horizon
    BY <1>1, <1>4 DEF WindowInv, Shape, Horizon
  <1>6. Bounded' /\ InWindowOnly' /\ Successes'
    BY <1>1, <1>5 DEF WindowInv, Bounded, InWindowOnly, Successes
  <1>7. Losses'
    BY <1>1, <1>5 DEF WindowInv, Losses, Over, Past, Occurrence
  <1>8. Accounts'
    BY <1>1, <1>2, <1>4 DEF WindowInv, Shape, Accounts, NoSilentLoss, o
  <1>9. StepKnows'
    BY <1>1, <1>2, <1>3, <1>4 DEF WindowInv, StepKnows, o
  <1>10. Unedited'
    BY <1>1, <1>5 DEF WindowInv, Unedited, Over, Past
  <1>11. ReportedOnce'
    <2>1. \A t \in Times : events'[t] <= counted'[t] /\ counted'[t] <= 1
      BY <1>1, <1>3, <1>4 DEF WindowInv, ReportedOnce
    <2>2. \A t, u \in Times : counted'[t] > 0 /\ counted'[u] > 0 /\ t # u =>
            t \in OpenTimes /\ u \notin Occurrence(t)
      BY <1>1, <1>8 DEF WindowInv, Accounts, Losses
    <2> QED  BY <2>1, <2>2 DEF ReportedOnce, Occurrence
  <1> QED  BY <1>5, <1>6, <1>7, <1>8, <1>9, <1>10, <1>11 DEF WindowInv

\* The Event follows its count; the copy of the pass loses the stamp like the pool did.
LEMMA EmitKeeps == ASSUME WindowInv, EmitEvent PROVE WindowInv'
  <1>1. /\ pc = "event" /\ pc' = "rotate" /\ in' = [in EXCEPT !.ann = Apply(in.ann)]
        /\ events' = [events EXCEPT ![in.ann.opened] = @ + 1]
        /\ UNCHANGED <<now, pool, cache, due, counted, success, lost, cut, corrupted>>
    BY DEF EmitEvent, history, bounds
  <1>2. ~in.inWindow /\ Parsed(in.ann.opened)
        /\ events[in.ann.opened] = 0 /\ counted[in.ann.opened] = 1
    BY <1>1 DEF WindowInv, StepKnows
  <1>3. Apply(in.ann) = [in.ann EXCEPT !.opened = Never]
    BY <1>2 DEF Apply, Verdict, ClosedVerdict
  <1>4. in.ann \in Annotations
    BY DEF WindowInv, Shape
  <1>5. Apply(in.ann) \in Annotations /\ Apply(in.ann).opened = Never
    BY <1>3, <1>4 DEF Annotations
  <1>6. in'.at = in.at /\ in'.inWindow = in.inWindow /\ in'.ann.opened = Never
    BY <1>1, <1>5 DEF WindowInv, Shape
  <1>7. \A t \in Times : events'[t] \in Nat /\ events'[t] <= counted[t]
    BY <1>1, <1>2 DEF WindowInv, Shape, ReportedOnce, Parsed
  <1>8. events' \in [Times -> Nat]
    BY <1>1, <1>2 DEF WindowInv, Shape, Parsed
  <1>9. Shape' /\ Horizon' = Horizon
    BY <1>1, <1>5, <1>6, <1>8 DEF WindowInv, Shape, Horizon
  <1>10. StepKnows'
    BY <1>1, <1>6 DEF WindowInv, StepKnows
  <1>11. Never # Bad /\ ~Parsed(Never) /\ Never <= Horizon
    BY TimesAreNat DEF Parsed, Never, Bad, WindowInv, Shape, Horizon
  <1>12. PassKnows'
    BY <1>1, <1>2, <1>6, <1>9, <1>10, <1>11, OwesNothing DEF PassKnows
  <1>13. Horizon <= Horizon' /\ Horizon' <= now'
    BY <1>1, <1>9 DEF WindowInv, Bounded, Shape, Horizon
  <1> QED  BY <1>1, <1>7, <1>9, <1>12, <1>13, FrameStep

-----------------------------------------------------------------------------
(***************************************************************************)
(* The rotation: it starts under a stamp and ends the pass.                *)
(***************************************************************************)

LEMMA StartKeeps == ASSUME WindowInv, StartRotation PROVE WindowInv'
  <1>1. /\ pc = "rotate" /\ in.ann = pool /\ in.inWindow /\ pc' = "idle"
        /\ pool' = [pool EXCEPT !.anchor = in.at]
        /\ UNCHANGED <<now, cache, due, in, counted, events, success, lost, cut, corrupted>>
    BY DEF StartRotation, ghosts, reports, history, bounds
  <1>2. in.at \in OpenTimes /\ in.at \in Nat
    BY <1>1 DEF WindowInv, Shape, StepKnows, InWindow
  <1>3. /\ pool' \in Annotations /\ pool'.anchor = in.at
        /\ pool'.opened = pool.opened /\ pool'.rotated = pool.rotated
    BY <1>1, <1>2 DEF WindowInv, Shape, Annotations
  <1>4. Shape'
    BY <1>1, <1>3 DEF WindowInv, Shape
  <1>5. Horizon = in.at /\ Horizon' = now /\ in.at <= now
    BY <1>1 DEF Horizon, WindowInv, Bounded
  <1>6. /\ Horizon \in Nat /\ Horizon' \in Nat /\ pool.opened \in Int /\ cache.opened \in Int
        /\ pool.rotated \in Int
    BY <1>5, OpenedIsInt, Fields DEF WindowInv, Shape
  <1>7. Bounded' /\ InWindowOnly'
    BY <1>1, <1>2, <1>3, <1>5, <1>6 DEF WindowInv, Bounded, InWindowOnly
  <1>8. \A t \in Nat : Over(t) => Over(t)'
    BY <1>3, <1>5, <1>6, LaterPast DEF Over, Past
  <1>9. /\ Losses' /\ Accounts' /\ Successes' /\ ReportedOnce' /\ StepKnows'
    <2>1. Losses'
      BY <1>1, <1>8, TimesAreNat DEF WindowInv, Shape, Losses, Occurrence
    <2> QED
      BY <1>1, <1>3, <2>1, OwesNothing
      DEF WindowInv, Successes, ReportedOnce, StepKnows, Occurrence
  <1>10. Unedited'
    <2> SUFFICES ASSUME ~corrupted PROVE Unedited'
      BY <1>1 DEF Unedited
    <2>1. Parsed(pool.opened) /\ pool.opened <= in.at
      BY <1>1, <1>5 DEF WindowInv, Unedited, Bounded
    <2>2. \A s \in success : s[1] \in Nat
      BY DEF WindowInv, Shape
    <2> QED  BY <1>1, <1>3, <1>8, <2>1, <2>2 DEF WindowInv, Unedited
  <1> QED  BY <1>4, <1>7, <1>9, <1>10 DEF WindowInv

LEMMA EndRotationKeeps ==
  ASSUME WindowInv, NEW ok \in BOOLEAN, EndRotation(ok) PROVE WindowInv'
  <1>1. /\ pc = "rotate" /\ pool.anchor # Never /\ pc' = "idle"
        /\ pool' = [pool EXCEPT !.anchor = Never, !.rotated = IF ok THEN now ELSE @]
        /\ success' = IF ok THEN success \cup {<<pool.anchor, now>>} ELSE success
        /\ UNCHANGED <<now, cache, due, in, counted, events, lost, cut, corrupted>>
    BY DEF EndRotation, reports, bounds
  <1>2. now \in Nat /\ now # 0 /\ pool.anchor \in Nat /\ pool.rotated \in Nat
    BY Fields DEF WindowInv, Shape
  <1>3. /\ pool' \in Annotations /\ pool'.anchor = Never /\ pool'.opened = pool.opened
        /\ pool'.rotated = IF ok THEN now ELSE pool.rotated
    BY <1>1, <1>2 DEF WindowInv, Shape, Annotations, Never
  <1>4. Shape'
    BY <1>1, <1>2, <1>3 DEF WindowInv, Shape
  <1>5. Horizon = in.at /\ Horizon' = now /\ in.at <= now
    BY <1>1 DEF Horizon, WindowInv, Bounded
  <1>6. Horizon \in Nat /\ Horizon' \in Nat /\ pool.opened \in Int /\ cache.opened \in Int
    BY <1>5, OpenedIsInt DEF WindowInv, Shape
  <1>7. pool.anchor <= now /\ pool.rotated <= now /\ pool.anchor \in OpenTimes
    BY <1>1, <1>2, <1>5, <1>6 DEF WindowInv, Bounded, InWindowOnly
  <1>8. Bounded' /\ InWindowOnly'
    BY <1>1, <1>2, <1>3, <1>5, <1>6, <1>7 DEF WindowInv, Bounded, InWindowOnly, Never
  <1>9. \A t \in Nat : Over(t) => Over(t)'
    BY <1>3, <1>5, <1>6, LaterPast DEF Over, Past
  <1>10. Losses' /\ Accounts' /\ ReportedOnce' /\ StepKnows'
    <2>1. Losses'
      BY <1>1, <1>9, TimesAreNat DEF WindowInv, Shape, Losses, Occurrence
    <2> QED
      BY <1>1, <2>1, OwesNothing DEF WindowInv, ReportedOnce, StepKnows, Occurrence
  <1>11. Successes'
    <2>1. CASE ~ok
      BY <1>1, <1>3, <2>1 DEF WindowInv, Successes
    <2>2. CASE ok
      <3>1. <<pool.anchor, now>> \in success' /\ pool'.rotated = now /\ now # Never
        BY <1>1, <1>2, <1>3, <2>2 DEF Never
      <3>2. \A s \in success : s[2] \in Nat /\ s[2] <= now
        BY <1>2, <1>7 DEF WindowInv, Successes, Shape
      <3>3. \A s \in success' : s \in success \/ s = <<pool.anchor, now>>
        BY <1>1, <2>2
      <3>4. \A s \in success' : s[1] \in OpenTimes /\ s[1] <= s[2] /\ s[2] <= now
        BY <1>2, <1>7, <3>2, <3>3 DEF WindowInv, Successes
      <3> QED  BY <3>1, <3>4 DEF Successes
    <2> QED  BY <2>1, <2>2
  <1>12. Unedited'
    <2> SUFFICES ASSUME ~corrupted PROVE Unedited'
      BY <1>1 DEF Unedited
    <2>1. Parsed(pool.opened) /\ pool.opened <= pool.anchor
      BY <1>1 DEF WindowInv, Unedited
    <2>2. \A s \in success' : s \in success \/ s[1] = pool.anchor
      BY <1>1
    <2>3. \A s \in success : s[1] \in Nat
      BY DEF WindowInv, Shape
    <2>4. \A s \in success' : (Parsed(pool'.opened) /\ pool'.opened <= s[1]) \/ Over(s[1])'
      BY <1>3, <1>9, <2>1, <2>2, <2>3 DEF WindowInv, Unedited
    <2> QED  BY <1>1, <1>3, <2>4 DEF WindowInv, Unedited
  <1> QED  BY <1>4, <1>8, <1>10, <1>11, <1>12 DEF WindowInv

-----------------------------------------------------------------------------
(***************************************************************************)
(* The conditional write of the verdict.                                   *)
(***************************************************************************)

\* What the write knows of the pool it lands on: the verdict of the pass holds of it.
LEMMA WriteKnows ==
  ASSUME WindowInv, Update
  PROVE  /\ pc = "write" /\ cache = pool /\ pool.opened = in.ann.opened /\ Horizon = in.at
         /\ Verdict(in) \in {"stamp", "settled", "missed"}
         /\ Verdict(in) = "stamp" => in.at \in OpenTimes /\ ~Parsed(pool.opened)
         /\ Verdict(in) # "stamp" =>
              in.at \notin OpenTimes /\ (Parsed(pool.opened) => pool.anchor = Never)
         /\ Verdict(in) = "missed" =>
              /\ Parsed(pool.opened) /\ pool.opened \in OpenTimes /\ pool.opened < in.at
              /\ ~Frozen(pool, in.at) /\ in.due
              /\ pool.rotated = Never \/ pool.rotated < pool.opened
         /\ Verdict(in) = "settled" /\ Parsed(pool.opened) =>
              \/ Frozen(pool, in.at) \/ ~in.due
              \/ pool.rotated # Never /\ pool.rotated >= pool.opened
  <1> DEFINE i == [in EXCEPT !.ann = pool]
  <1>1. /\ pc = "write" /\ cache = pool /\ pool.opened = in.ann.opened
        /\ Verdict(i) = Verdict(in)
    BY DEF Update, StillHolds
  <1>2. i.at = in.at /\ i.inWindow = in.inWindow /\ i.due = in.due /\ i.ann = pool
    BY DEF WindowInv, Shape
  <1>3. in.inWindow <=> in.at \in OpenTimes
    BY <1>1 DEF WindowInv, StepKnows, InWindow, Shape
  <1>4. Verdict(in) \in {"stamp", "settled", "missed"} /\ Horizon = in.at
    BY <1>1 DEF WindowInv, StepKnows, Horizon
  <1> HIDE DEF i
  <1>5. Verdict(in) = "stamp" => in.inWindow /\ ~Parsed(pool.opened)
    BY <1>1 DEF Verdict, ClosedVerdict
  <1>6. Verdict(in) # "stamp" => ~in.inWindow /\ Verdict(i) = ClosedVerdict(i)
    BY <1>1, <1>2, <1>4 DEF Verdict
  <1>7. Verdict(in) # "stamp" /\ Parsed(pool.opened) => pool.anchor = Never
    BY <1>1, <1>2, <1>4, <1>6 DEF ClosedVerdict
  <1>8. pool.rotated \in Nat /\ pool.opened \in Int /\ in.at \in Nat
    BY OpenedIsInt, Fields DEF WindowInv, Shape
  <1>9. Verdict(in) = "missed" =>
          /\ Parsed(pool.opened) /\ ~Frozen(pool, in.at) /\ in.due
          /\ pool.rotated = Never \/ pool.rotated < pool.opened
    BY <1>1, <1>2, <1>6, <1>8 DEF ClosedVerdict
  <1>10. Parsed(pool.opened) => pool.opened \in OpenTimes /\ pool.opened <= in.at
    BY <1>4 DEF WindowInv, InWindowOnly, Bounded
  <1>11. Verdict(in) = "missed" => pool.opened < in.at
    BY <1>3, <1>6, <1>8, <1>9, <1>10
  <1>12. Verdict(in) = "settled" /\ Parsed(pool.opened) =>
           \/ Frozen(pool, in.at) \/ ~in.due
           \/ pool.rotated # Never /\ pool.rotated >= pool.opened
    BY <1>1, <1>2, <1>6 DEF ClosedVerdict
  <1> QED  BY <1>1, <1>3, <1>4, <1>5, <1>6, <1>7, <1>9, <1>10, <1>11, <1>12

\* Two open instants with a closed one between them belong to two occurrences.
LEMMA Apart ==
  ASSUME NEW t \in OpenTimes, NEW x \in OpenTimes, Past(t, x)
  PROVE  t # x /\ x \notin Occurrence(t) /\ t \notin Occurrence(x)
  <1>1. t \in Nat /\ x \in Nat
    BY TimesAreNat
  <1>2. PICK u \in Nat \ OpenTimes : t < u /\ u <= x
    BY DEF Past
  <1>3. t < x /\ u \in t..x /\ ~(x < t) /\ ~(t..x \subseteq OpenTimes)
    BY <1>1, <1>2
  <1> QED  BY <1>1, <1>3 DEF Occurrence

\* Whatever the verdict, the write leaves a stamp of this pass's time or none, and
\* everything that happened before it in the window of that stamp is over; whether the
\* pass goes on or ends with it.
LEMMA WriteOver ==
  ASSUME WindowInv, Update, in.at <= Horizon', Horizon' \in Nat
  PROVE  /\ pool' \in Annotations
         /\ pool'.rotated = pool.rotated /\ pool'.anchor = pool.anchor
         /\ pool'.opened = IF Verdict(in) = "stamp" THEN in.at ELSE Never
         /\ \A t \in Nat : Past(t, in.at) => Over(t)'
         /\ \A s \in success : s[1] \in Nat /\ (~corrupted => Over(s[1])')
         /\ ~corrupted => pool.anchor = Never
  <1>1. pool' = [pool EXCEPT !.opened = IF Verdict(in) = "stamp" THEN in.at ELSE Never]
    BY DEF Update, Apply
  <1>2. in.at \in Nat /\ pool \in Annotations
    BY DEF WindowInv, Shape
  <1>3. (IF Verdict(in) = "stamp" THEN in.at ELSE Never) \in Times \cup {Never, Bad}
    BY WriteKnows, TimesAreNat
  <1>4. /\ pool' \in Annotations
        /\ pool'.rotated = pool.rotated /\ pool'.anchor = pool.anchor
        /\ pool'.opened = IF Verdict(in) = "stamp" THEN in.at ELSE Never
    BY <1>1, <1>2, <1>3 DEF Annotations
  <1>5. Horizon = in.at
    BY WriteKnows
  <1>6. ~Parsed(Never)
    BY TimesAreNat DEF Parsed, Never
  <1>7. \A t \in Nat : Past(t, in.at) => Over(t)'
    <2> SUFFICES ASSUME NEW t \in Nat, Past(t, in.at) PROVE Over(t)'
      OBVIOUS
    <2>1. Past(t, Horizon')
      BY <1>2, LaterPast
    <2>2. Parsed(pool'.opened) => Past(t, pool'.opened)
      BY <1>4, <1>6
    <2> QED  BY <2>1, <2>2 DEF Over, Past
  <1>8. \A s \in success : s[1] \in Nat /\ s[2] \in Nat
    BY DEF WindowInv, Shape
  <1>9. \A s \in success : ~corrupted => Past(s[1], in.at)
    <2> SUFFICES ASSUME NEW s \in success, ~corrupted PROVE Past(s[1], in.at)
      OBVIOUS
    <2>1. CASE Verdict(in) = "stamp"
      BY <1>5, <2>1, WriteKnows DEF WindowInv, Unedited, Over
    <2>2. CASE Verdict(in) # "stamp"
      <3>1. s[1] \in OpenTimes /\ s[1] <= s[2] /\ s[2] <= pool.rotated
        BY DEF WindowInv, Successes
      <3>2. pool.rotated <= in.at /\ pool.rotated \in Nat
        BY <1>2, <1>5, Fields DEF WindowInv, Bounded
      <3>3. in.at \in Nat \ OpenTimes /\ s[1] <= in.at /\ s[1] # in.at
        BY <1>2, <1>8, <2>2, <3>1, <3>2, WriteKnows
      <3> QED  BY <1>2, <1>8, <3>3 DEF Past
    <2> QED  BY <2>1, <2>2
  <1>10. ~corrupted => pool.anchor = Never
    <2>1. Verdict(in) = "stamp" => ~Parsed(pool.opened)
      BY WriteKnows
    <2>2. Verdict(in) # "stamp" => (Parsed(pool.opened) => pool.anchor = Never)
      BY WriteKnows
    <2> QED  BY <2>1, <2>2 DEF WindowInv, Unedited
  <1> QED  BY <1>4, <1>7, <1>8, <1>9, <1>10

\* The write loses a window exactly when the verdict is a miss; the stamp it clears then
\* is of an occurrence no loss has been recorded for, and no rotation was in flight, nor
\* has one succeeded since.
LEMMA WriteLoses ==
  ASSUME WindowInv, Update
  PROVE  /\ Verdict(in) # "missed" => lost' = lost
         /\ Verdict(in) = "missed" =>
              /\ in.ann.opened \in Times /\ in.ann.opened \in OpenTimes
              /\ lost' = lost \cup {in.ann.opened}
              /\ Past(in.ann.opened, in.at)
              /\ \A t \in lost : /\ t # in.ann.opened
                                 /\ t \notin Occurrence(in.ann.opened)
                                 /\ in.ann.opened \notin Occurrence(t)
              /\ pool.anchor = Never
              /\ \A s \in success : /\ s[2] < in.ann.opened
                                    /\ corrupted \/ Past(s[1], in.ann.opened)
  <1> DEFINE o == pool.opened
  <1>1. lost' = lost \cup {t \in {o} : IsLost /\ pool'.opened # t}
    BY DEF Update
  <1>2. \A s \in success : /\ s[1] \in Nat /\ s[2] \in Nat /\ s[1] <= s[2]
                           /\ s[2] <= pool.rotated /\ pool.rotated # Never
    BY DEF WindowInv, Successes, Shape
  <1>3. pool.rotated \in Nat /\ o \in Int /\ in.at \in Nat
    BY OpenedIsInt, Fields DEF WindowInv, Shape
  <1>4. Verdict(in) \in {"stamp", "settled", "missed"} /\ o = in.ann.opened
    BY WriteKnows
  <1>5. CASE Verdict(in) = "stamp"
    BY <1>1, <1>5, WriteKnows DEF IsLost
  <1>6. CASE Verdict(in) = "settled"
    <2>1. ~IsLost
      <3> SUFFICES ASSUME IsLost PROVE FALSE
        OBVIOUS
      <3>1. pool.rotated # Never /\ pool.rotated >= o
        BY <1>6, WriteKnows DEF IsLost
      <3>2. PICK s \in success : s[2] = pool.rotated
        BY <3>1 DEF WindowInv, Successes
      <3>3. s[2] < o
        BY DEF IsLost
      <3> QED  BY <1>3, <3>1, <3>2, <3>3
    <2> QED  BY <1>1, <1>6, <2>1
  <1>7. CASE Verdict(in) = "missed"
    <2>1. /\ Parsed(o) /\ o \in OpenTimes /\ o \in Times /\ o < in.at /\ in.at \notin OpenTimes
          /\ pool.anchor = Never /\ ~Frozen(pool, in.at) /\ in.due
          /\ pool.rotated = Never \/ pool.rotated < o
      BY <1>7, WriteKnows DEF Parsed
    <2>2. \A s \in success : s[2] < o
      BY <1>2, <1>3, <2>1
    <2>3. pool'.opened = Never /\ Never # o
      <3>1. pool' = [pool EXCEPT !.opened = Never]
        BY <1>7 DEF Update, Apply
      <3> QED  BY <2>1, <3>1, TimesAreNat DEF WindowInv, Shape, Annotations, Never
    <2>4. IsLost
      BY <2>1, <2>2 DEF IsLost
    <2>5. lost' = lost \cup {o}
      BY <1>1, <2>3, <2>4
    <2>6. Past(o, in.at)
      BY <1>3, <2>1, TimesAreNat DEF Past
    <2>7. \A t \in lost : t # o /\ t \notin Occurrence(o) /\ o \notin Occurrence(t)
      <3>1. \A t \in lost : t \in OpenTimes /\ Past(t, o)
        BY <2>1 DEF WindowInv, Losses, Over
      <3> QED  BY <2>1, <3>1, Apart
    <2>8. \A s \in success : corrupted \/ Past(s[1], o)
      <3> SUFFICES ASSUME NEW s \in success, ~corrupted PROVE Past(s[1], o)
        OBVIOUS
      <3>1. ~(o <= s[1])
        BY <1>2, <1>3, <2>2
      <3> QED  BY <2>1, <3>1 DEF WindowInv, Unedited, Over
    <2> QED  BY <1>4, <1>7, <2>1, <2>2, <2>5, <2>6, <2>7, <2>8
  <1> QED  BY <1>4, <1>5, <1>6, <1>7

\* What the write leaves of the invariant, wherever the pass goes from it.
LEMMA UpdateKeeps ==
  ASSUME WindowInv, Update, in.at <= Horizon', Horizon' \in Nat, Horizon' <= now',
         UNCHANGED <<now, cache, due, counted, events, success, corrupted>>,
         in'.ann \in {in.ann, pool'}, pc' # "idle" => Horizon' = in.at
  PROVE  /\ Bounded' /\ InWindowOnly' /\ Losses' /\ Successes' /\ ReportedOnce'
         /\ (pc' = "rotate" /\ in'.inWindow /\ ~corrupted => Parsed(in'.ann.opened)) => Unedited'
  <1>1. /\ in.at \in Nat /\ Horizon = in.at /\ pool.opened \in Int /\ pool.rotated \in Nat
        /\ pool.anchor \in Nat /\ pool.opened = in.ann.opened /\ cache = pool
    BY OpenedIsInt, Fields, WriteKnows DEF WindowInv, Shape
  <1>2. pool'.opened <= in.at /\ (Parsed(pool'.opened) => pool'.opened \in OpenTimes)
    <2>1. ~Parsed(Never) /\ Never <= in.at
      BY <1>1, TimesAreNat DEF Parsed, Never
    <2> QED  BY <1>1, <2>1, WriteOver, WriteKnows
  <1>3. pool'.opened \in Int
    BY OpenedIsInt, WriteOver
  <1>4. Bounded'
    BY <1>1, <1>2, <1>3, WriteOver DEF WindowInv, Bounded
  <1>5. InWindowOnly'
    BY <1>1, <1>2, WriteOver DEF WindowInv, InWindowOnly
  <1>6. Successes'
    BY WriteOver DEF WindowInv, Successes
  <1>7. ReportedOnce'
    BY DEF WindowInv, ReportedOnce, Occurrence
  <1>8. Losses'
    <2>1. \A t \in lost : t \in OpenTimes /\ t \in Nat /\ Past(t, in.at)
      BY <1>1, TimesAreNat DEF WindowInv, Losses, Over
    <2>2. \A t \in lost' : t \in OpenTimes /\ t \in Nat /\ Past(t, in.at)
      BY <2>1, WriteLoses, TimesAreNat
    <2>3. \A t, u \in lost' : t # u => u \notin Occurrence(t)
      BY WriteLoses DEF WindowInv, Losses
    <2> QED  BY <2>2, <2>3, WriteOver DEF Losses, Occurrence
  <1>9. ASSUME pc' = "rotate" /\ in'.inWindow /\ ~corrupted => Parsed(in'.ann.opened)
        PROVE  Unedited'
    <2> SUFFICES ASSUME ~corrupted PROVE Unedited'
      BY DEF Unedited
    <2>1. pool'.opened # Bad /\ in'.ann.opened # Bad /\ cache'.opened # Bad
      <3>1. cache.opened # Bad /\ in.ann.opened # Bad
        BY DEF WindowInv, Unedited
      <3>2. pool'.opened # Bad
        BY <1>1, WriteOver DEF Never, Bad
      <3> QED  BY <3>1, <3>2
    <2>2. pool'.anchor = Never
      BY WriteOver
    <2>3. \A s \in success' : Over(s[1])'
      BY WriteOver
    <2> QED  BY <1>9, <2>1, <2>2, <2>3 DEF Unedited
  <1> QED  BY <1>4, <1>5, <1>6, <1>7, <1>8, <1>9

LEMMA WriteKeeps == ASSUME WindowInv, WindowWrite PROVE WindowInv'
  <1>1. /\ UNCHANGED <<now, cache, due, counted, events, success, cut, corrupted>>
        /\ pc = "write" /\ cache = pool /\ Update
    BY DEF WindowWrite, Update, reports, bounds
  <1>2. /\ in.at \in Nat \ {0} /\ in.ann \in Annotations /\ now \in Nat /\ Horizon = in.at
        /\ Horizon <= now
    BY <1>1, WriteKnows DEF WindowInv, Shape, Bounded
  <1>3. in' = in \/ in' = [in EXCEPT !.ann = pool']
    BY DEF WindowWrite
  <1>4. /\ in'.at = in.at /\ in'.inWindow = in.inWindow /\ in'.ann \in {in.ann, pool'}
        /\ pc' \in {"count", "rotate"}
        /\ pc' = "count" <=> Verdict(in) = "missed"
        /\ Verdict(in) = "missed" => in' = in
        /\ Verdict(in) # "missed" => in'.ann = pool'
    BY <1>3 DEF WindowWrite, WindowInv, Shape
  <1>5. Horizon' = in.at
    BY <1>4 DEF Horizon
  <1>6. pool' \in Annotations /\ lost' \subseteq Times
    BY <1>1, <1>2, <1>5, WriteOver, WriteLoses DEF WindowInv, Shape
  <1>7. Shape'
    <2>1. in' \in [at: Nat \ {0}, inWindow: BOOLEAN, due: BOOLEAN, ann: Annotations]
      BY <1>3, <1>6 DEF WindowInv, Shape
    <2> QED  BY <1>1, <1>4, <1>6, <2>1 DEF WindowInv, Shape
  <1>8. in.inWindow <=> in.at \in OpenTimes
    BY <1>1 DEF WindowInv, StepKnows, InWindow, Shape
  <1>9. pc' = "rotate" /\ in'.inWindow => Parsed(in'.ann.opened)
    <2> SUFFICES ASSUME pc' = "rotate", in'.inWindow PROVE Parsed(in'.ann.opened)
      OBVIOUS
    <2>1. in.at \in OpenTimes /\ Verdict(in) = "stamp"
      BY <1>1, <1>4, <1>8, WriteKnows
    <2>2. in'.ann.opened = in.at
      BY <1>1, <1>2, <1>4, <1>5, <2>1, WriteOver
    <2> QED  BY <2>1, <2>2, TimesAreNat DEF Parsed
  <1>10. Accounts'
    <2>1. CASE Verdict(in) # "missed"
      BY <1>1, <2>1, WriteLoses, OwesNothing
    <2>2. CASE Verdict(in) = "missed"
      <3>1. lost' = lost \cup {in.ann.opened} /\ pc' = "count" /\ in' = in
        BY <1>1, <1>4, <2>2, WriteLoses
      <3> QED  BY <1>1, <3>1 DEF WindowInv, Accounts, NoSilentLoss
    <2> QED  BY <2>1, <2>2
  <1>11. StepKnows'
    <2>1. in'.inWindow = InWindow(in'.at)
      BY <1>1, <1>4 DEF WindowInv, StepKnows, InWindow
    <2>2. ASSUME pc' = "count"
          PROVE  /\ ~in'.inWindow /\ Parsed(in'.ann.opened)
                 /\ in'.ann.opened \in lost' \ cut' /\ counted'[in'.ann.opened] = 0
                 /\ pool'.anchor = Never
                 /\ \A s \in success' : /\ s[2] < in'.ann.opened
                                        /\ corrupted' \/ Past(s[1], in'.ann.opened)
      <3> DEFINE o == in.ann.opened
      <3>1. Verdict(in) = "missed" /\ in' = in
        BY <1>4, <2>2
      <3>2. /\ o \in Times /\ lost' = lost \cup {o} /\ o \notin lost /\ pool.anchor = Never
            /\ \A s \in success : s[2] < o /\ (corrupted \/ Past(s[1], o))
        BY <1>1, <3>1, WriteLoses
      <3>3. ~in.inWindow
        BY <1>1, <1>8, <3>1, WriteKnows
      <3>4. pool'.anchor = Never
        BY <1>1, <1>2, <1>5, <3>2, WriteOver
      <3>5. o \notin cut /\ counted[o] = 0
        <4>1. counted[o] \in Nat /\ ~(counted[o] > 0)
          BY <3>2 DEF WindowInv, Shape, Accounts
        <4> QED  BY <3>2, <4>1 DEF WindowInv, Accounts
      <3> QED  BY <1>1, <3>1, <3>2, <3>3, <3>4, <3>5 DEF Parsed
    <2>3. pc' \notin {"write", "event"}
      BY <1>4
    <2> QED  BY <2>1, <2>2, <2>3 DEF StepKnows
  <1>12. /\ Bounded' /\ InWindowOnly' /\ Losses' /\ Successes' /\ ReportedOnce' /\ Unedited'
    BY <1>1, <1>2, <1>4, <1>5, <1>9, UpdateKeeps
  <1> QED  BY <1>7, <1>10, <1>11, <1>12 DEF WindowInv

\* The same write, with the pass ended: a stamp it has lost is cut off.
LEMMA UnansweredKeeps == ASSUME WindowInv, WindowWriteUnanswered PROVE WindowInv'
  <1>1. /\ UNCHANGED <<now, cache, due, in, counted, events, success, corrupted>>
        /\ pc = "write" /\ pc' = "idle" /\ Update
        /\ cut' = IF Verdict(in) = "missed" THEN cut \cup {in.ann.opened} ELSE cut
    BY DEF WindowWriteUnanswered, Update, reports, bounds
  <1>2. /\ in.at \in Nat /\ now \in Nat /\ in.at <= now /\ Horizon' = now
    BY <1>1, WriteKnows DEF WindowInv, Shape, Bounded, Horizon
  <1>3. Shape'
    BY <1>1, <1>2, WriteOver, WriteLoses DEF WindowInv, Shape
  <1>4. Accounts'
    <2>1. CASE Verdict(in) # "missed"
      BY <1>1, <2>1, WriteLoses, OwesNothing
    <2>2. CASE Verdict(in) = "missed"
      <3>1. /\ lost' = lost \cup {in.ann.opened} /\ cut' = cut \cup {in.ann.opened}
            /\ in.ann.opened \notin lost
        BY <1>1, <2>2, WriteLoses
      <3> QED  BY <1>1, <3>1 DEF WindowInv, Accounts, NoSilentLoss
    <2> QED  BY <2>1, <2>2
  <1>5. StepKnows'
    BY <1>1 DEF StepKnows
  <1>6. /\ Bounded' /\ InWindowOnly' /\ Losses' /\ Successes' /\ ReportedOnce' /\ Unedited'
    BY <1>1, <1>2, UpdateKeeps
  <1> QED  BY <1>3, <1>4, <1>5, <1>6 DEF WindowInv

-----------------------------------------------------------------------------
(***************************************************************************)
(* The theorems.                                                           *)
(***************************************************************************)

LEMMA WindowInit == Init => WindowInv
  <1> SUFFICES ASSUME Init PROVE WindowInv
    OBVIOUS
  <1> DEFINE z == [opened |-> Never, rotated |-> Never, anchor |-> Never, freeze |-> Never]
  <1>1. /\ now = 1 /\ pool = z /\ cache = z /\ due = TRUE /\ pc = "idle"
        /\ in = [at |-> 1, inWindow |-> FALSE, due |-> FALSE, ann |-> z]
        /\ counted = [t \in Times |-> 0] /\ events = [t \in Times |-> 0]
        /\ success = {} /\ lost = {} /\ cut = {} /\ corrupted = FALSE
    BY DEF Init
  <1>2. /\ z \in Annotations /\ z.opened = Never /\ z.rotated = Never /\ z.anchor = Never
    BY DEF Annotations, Never
  <1> HIDE DEF z
  <1>3. Shape /\ in.ann = z /\ Horizon = 1 /\ \A t \in Times : counted[t] = 0 /\ events[t] = 0
    <2>1. in \in [at: Nat \ {0}, inWindow: BOOLEAN, due: BOOLEAN, ann: Annotations] /\ in.ann = z
      BY <1>1, <1>2
    <2>2. counted \in [Times -> Nat] /\ events \in [Times -> Nat]
      BY <1>1
    <2>3. now \in Nat \ {0} /\ success \subseteq Nat \X Nat /\ Horizon = 1
      BY <1>1 DEF Horizon
    <2> QED  BY <1>1, <1>2, <2>1, <2>2, <2>3 DEF Shape
  <1>4. ~Parsed(Never) /\ Never # Bad /\ Never = 0
    BY TimesAreNat DEF Parsed, Never, Bad
  <1>5. Bounded /\ InWindowOnly
    BY <1>1, <1>2, <1>3, <1>4 DEF Bounded, InWindowOnly
  <1>6. Losses /\ Accounts /\ Successes /\ ReportedOnce
    BY <1>1, <1>2, <1>3 DEF Losses, Accounts, NoSilentLoss, Successes, ReportedOnce
  <1>7. StepKnows /\ Unedited
    BY <1>1, <1>2, <1>3, <1>4 DEF StepKnows, Unedited
  <1> QED  BY <1>3, <1>5, <1>6, <1>7 DEF WindowInv

LEMMA WindowStep == ASSUME WindowInv, [Next]_vars PROVE WindowInv'
  <1>1. CASE UNCHANGED vars
    BY <1>1 DEF vars, WindowInv, Shape, Bounded, InWindowOnly, Losses, Accounts, NoSilentLoss,
                Successes, StepKnows, Unedited, ReportedOnce, Over, Past, Horizon, Occurrence
  <1> QED
    BY <1>1, BeginKeeps, WriteKeeps, UnansweredKeeps, VetoKeeps, CountKeeps, EmitKeeps,
       StartKeeps, EndKeeps, EndRotationKeeps, EnvironmentKeeps, EditKeeps DEF Next

\* What the stamp, its cached copy and a pass's verdict say of the occurrences that have
\* closed, in every reachable state (evaluateWindowEdge).
THEOREM WindowInvHolds == Spec => []WindowInv
  BY WindowInit, WindowStep, PTL DEF Spec

\* No occurrence of the window is reported lost twice, over stale caches, retried
\* writes, restarts and healed stamps (evaluateWindowEdge).
THEOREM LossReportedOnce == Spec => []ReportedOnce
  <1>1. WindowInv => ReportedOnce
    BY DEF WindowInv
  <1> QED  BY <1>1, WindowInvHolds, PTL

\* The count goes up where the pass owes it, for the stamp it owes it for.
LEMMA OnlyTheOwedCounts ==
  ASSUME WindowInv, [Next]_vars, NEW t \in Times, counted'[t] # counted[t]
  PROVE  pc = "count" /\ t = in.ann.opened
  <1>1. CountMissed
    BY DEF Next, vars, ghosts, reports, BeginPass, WindowWrite, WindowWriteUnanswered,
           WindowVeto, EmitEvent, StartRotation, EndPass, PassFails, Restart, EndRotation,
           Tick, Sync, DueChanges, StampEdited, OperatorFreezes
  <1> QED  BY <1>1 DEF CountMissed, WindowInv, Shape

\* What is reported lost was lost: the stamp was cleared from a pool whose window was
\* lost, by a pass that lives to report it, with no rotation in flight or succeeded since.
THEOREM ReportedMissIsReal == Spec => MissIsReal
  <1>1. ASSUME WindowInv, [Next]_vars
        PROVE  \A t \in Times : counted'[t] # counted[t] =>
                 /\ t \in lost \ cut /\ pool.anchor = Never
                 /\ \A s \in success : s[2] < t
    BY <1>1, OnlyTheOwedCounts DEF WindowInv, StepKnows
  <1> QED  BY <1>1, WindowInvHolds, PTL DEF Spec, MissIsReal

\* A loss is not swallowed: every stamp cleared over a lost window is counted or about
\* to be, unless the pass was cut off between the write and the count.
THEOREM NoLossSwallowed == Spec => []NoSilentLoss
  <1>1. WindowInv => NoSilentLoss
    BY DEF WindowInv, Accounts
  <1> QED  BY <1>1, WindowInvHolds, PTL

\* A rotation that began in a window and succeeded keeps that occurrence from being
\* reported, whenever it landed.
THEOREM SuccessSettles == Spec => SuccessSettlesWindow
  <1>1. ASSUME WindowInv, [Next]_vars, ~corrupted, NEW t \in Times, counted'[t] # counted[t],
               NEW s \in success
        PROVE  s[1] \notin Occurrence(t)
    <2>1. pc = "count" /\ t = in.ann.opened
      BY <1>1, OnlyTheOwedCounts
    <2>2. t \in OpenTimes /\ Past(s[1], t) /\ s[1] \in OpenTimes
      BY <1>1, <2>1 DEF WindowInv, StepKnows, Losses, Successes
    <2> QED  BY <2>2, Apart
  <1>2. ASSUME WindowInv, [Next]_vars
        PROVE  \A t \in Times : counted'[t] # counted[t] /\ ~corrupted =>
                 \A s \in success : s[1] \notin Occurrence(t)
    BY <1>1, <1>2
  <1> QED  BY <1>2, WindowInvHolds, PTL DEF Spec, SuccessSettlesWindow

=============================================================================
