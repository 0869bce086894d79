------------------------------ MODULE Windows ------------------------------
(***************************************************************************)
(* The maintenance windows: when a pool may start rotations, the bounds of *)
(* the occurrence around an instant, and the three figures the schedule    *)
(* derivation takes from a week of windows.                                *)
(*                                                                         *)
(* Time is counted in ticks, Step of them to a minute; a week has Days     *)
(* days of DayMinutes minutes.  An entry's zone is its offset from UTC in  *)
(* ticks, constant over the instants looked at: a zone's own transitions   *)
(* are the Go library's.                                                   *)
(*                                                                         *)
(* Source: internal/window/window.go                                       *)
(***************************************************************************)
EXTENDS Integers, Sequences, FiniteSets, FiniteSetsExt, SequencesExt, Folds

CONSTANTS
    Step,           \* ticks in a minute (scanStep)
    DayMinutes,     \* minutes in a day
    Days            \* days in a week

ASSUME WeekAssumption ==
    Step \in Nat \ {0} /\ DayMinutes \in Nat \ {0} /\ Days \in Nat \ {0}

dayTicks == DayMinutes * Step
week     == Days * dayTicks

\* What policy.Validate lets through: a day at least, and start before end.
Entry == {e \in [days: (SUBSET (0..(Days - 1))) \ {{}},
                 start: 0..(DayMinutes - 1), end: 1..DayMinutes,
                 offset: Int] : e.start < e.end}

NoBounds == [ok |-> FALSE, start |-> 0, end |-> 0]

-----------------------------------------------------------------------------
\* Local wall-clock time in the entry's zone.
InEntry(e, now) ==
    LET local == now + e.offset
        mins  == (local % dayTicks) \div Step
    IN  /\ e.start <= mins /\ mins < e.end
        /\ (local \div dayTicks) % Days \in e.days

InWindow(entries, now) == \E e \in entries : InEntry(e, now)

-----------------------------------------------------------------------------
(***************************************************************************)
(* OccurrenceBounds: a walk in whole minutes from now, then a search for   *)
(* the exact tick within the minute that crossed.                          *)
(***************************************************************************)

\* Mutant: the walk is trusted in every zone.
minuteAlignedZonesUnchecked(entries) == TRUE

minuteAlignedZones(entries) == \A e \in entries : e.offset % Step = 0

\* The minutes the walk visits before it gives up.
searchSteps == 1..(week \div Step)

\* The first instant of the later side; aligned zones cross once in a minute at most.
refine(entries, lo, hi, wantIn) ==
    Min({t \in (lo + 1)..hi : \A u \in t..hi : InWindow(entries, u) = wantIn})

firstOutAfter(entries, now) ==
    LET k == Min({j \in searchSteps : ~InWindow(entries, now + j * Step)})
    IN  refine(entries, now + (k - 1) * Step, now + k * Step, FALSE)

firstInAtOrBefore(entries, now) ==
    LET k == Min({j \in searchSteps : ~InWindow(entries, now - j * Step)})
    IN  refine(entries, now - k * Step, now - (k - 1) * Step, TRUE)

OccurrenceBounds(entries, now) ==
    IF /\ InWindow(entries, now)
       /\ minuteAlignedZones(entries)
       /\ \E k \in searchSteps : ~InWindow(entries, now + k * Step)
       /\ \E k \in searchSteps : ~InWindow(entries, now - k * Step)
    THEN [ok |-> TRUE, start |-> firstInAtOrBefore(entries, now),
                       end   |-> firstOutAfter(entries, now)]
    ELSE NoBounds

-----------------------------------------------------------------------------
(***************************************************************************)
(* The canonical week: occurrences as spans of [0, week), sorted, merged   *)
(* where they overlap or touch, and joined around the week's end.          *)
(***************************************************************************)

startOffset(e, day) == (day * dayTicks + e.start * Step - e.offset) % week

spansOf(e, day) ==
    LET st == startOffset(e, day)
        en == st + (e.end - e.start) * Step
    IN  IF en > week THEN {<<0, en - week>>, <<st, week>>} ELSE {<<st, en>>}

spans(entries) == UNION {UNION {spansOf(e, d) : d \in e.days} : e \in entries}

mergeInto(merged, x) ==
    LET n == Len(merged) IN
    IF n > 0 /\ x[1] <= merged[n][2]
    THEN [merged EXCEPT ![n][2] = IF x[2] > @ THEN x[2] ELSE @]
    ELSE Append(merged, x)

\* The last span in the order of the sort: by start, then by end.
latest(s) ==
    CHOOSE x \in s : \A y \in s : x[1] > y[1] \/ (x[1] = y[1] /\ x[2] >= y[2])

merge(entries) ==
    MapThenFoldSet(LAMBDA x, merged : mergeInto(merged, x), <<>>, LAMBDA x : x,
                   latest, spans(entries))

\* Mutant: an occurrence that wraps the week counts as two.
mergedOccurrencesUnjoined(entries) ==
    LET m == merge(entries)
    IN  {[start |-> m[i][1], length |-> m[i][2] - m[i][1]] : i \in DOMAIN m}

mergedOccurrences(entries) ==
    LET m == merge(entries)
        n == Len(m)
        wraps == n > 1 /\ m[1][1] = 0 /\ m[n][2] = week
        occ(i) == [start |-> m[i][1], length |-> m[i][2] - m[i][1]]
    IN  IF wraps
        THEN {occ(i) : i \in 2..(n - 1)}
               \cup {[start |-> m[n][1], length |-> (week - m[n][1]) + m[1][2]]}
        ELSE {occ(i) : i \in 1..n}

AlwaysOpen(occs) == \E o \in occs : o.length >= week

\* From an occurrence to the next one's start, a week on if there is none later.
nextStart(occs, o) ==
    LET later == {p.start : p \in {q \in occs : q.start > o.start}}
    IN  IF later # {} THEN Min(later) ELSE Min({p.start : p \in occs}) + week

WorstCasePeriod(entries) ==
    LET occs == mergedOccurrences(entries)
    IN  IF occs = {} THEN 0
        ELSE IF AlwaysOpen(occs) THEN Step
        ELSE Max({nextStart(occs, o) - o.start : o \in occs})

ShortestWindow(entries) ==
    LET occs == mergedOccurrences(entries)
    IN  IF occs = {} THEN 0 ELSE Min({o.length : o \in occs})

\* Undefined (-1) without an occurrence and when the window never closes.
ShortestIdleGap(entries) ==
    LET occs == mergedOccurrences(entries)
    IN  IF occs = {} \/ AlwaysOpen(occs) THEN -1
        ELSE Min({nextStart(occs, o) - (o.start + o.length) : o \in occs})

=============================================================================
