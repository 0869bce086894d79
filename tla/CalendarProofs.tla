--------------------------- MODULE CalendarProofs ---------------------------
(***************************************************************************)
(* Theorems of Calendar, for any week, any entries and any claims: the     *)
(* bounds of an occurrence and the backoff that is clamped to them, the    *)
(* pick and its census, the figures of the week, and the throughput and    *)
(* the chances that rest on them.                                          *)
(***************************************************************************)
EXTENDS Calendar, FiniteSetTheorems, TLAPS

-----------------------------------------------------------------------------
(***************************************************************************)
(* Division with a symbolic divisor.                                       *)
(***************************************************************************)

LEMMA DivMod ==
  ASSUME NEW a \in Int, NEW n \in Nat \ {0}
  PROVE  /\ a \div n \in Int /\ a % n \in 0..(n - 1)
         /\ a = n * (a \div n) + (a % n)
  OBVIOUS

LEMMA LessByOne ==
  ASSUME NEW n \in Nat, NEW p \in Int, NEW q \in Int, p < q PROVE n * p + n <= n * q
  <1>1. q - (p + 1) \in Nat
    OBVIOUS
  <1>2. n * (q - (p + 1)) \in Nat
    BY <1>1
  <1>3. n * (q - (p + 1)) = n * q - (n * p + n)
    OBVIOUS
  <1> QED  BY <1>2, <1>3

LEMMA DivIs ==
  ASSUME NEW n \in Nat \ {0}, NEW q \in Int, NEW r \in 0..(n - 1), NEW a \in Int,
         a = n * q + r
  PROVE  a \div n = q /\ a % n = r
  <1> DEFINE p == a \div n
             s == a % n
  <1>1. p \in Int /\ s \in 0..(n - 1) /\ n * q + r = n * p + s
    BY DivMod
  <1> HIDE DEF p, s
  <1>2. ~(p < q)
    BY <1>1, LessByOne
  <1>3. ~(q < p)
    BY <1>1, LessByOne
  <1>4. p = q /\ s = r
    BY <1>1, <1>2, <1>3
  <1> QED  BY <1>4 DEF p, s

LEMMA DivShift ==
  ASSUME NEW n \in Nat \ {0}, NEW a \in Int, NEW j \in Int
  PROVE  (a + n * j) \div n = (a \div n) + j /\ (a + n * j) % n = a % n
  <1> DEFINE q == a \div n
             r == a % n
  <1>1. q \in Int /\ r \in 0..(n - 1) /\ a = n * q + r
    BY DivMod
  <1> HIDE DEF q, r
  <1>2. a + n * j = n * (q + j) + r
    BY <1>1
  <1>3. (a + n * j) \div n = q + j /\ (a + n * j) % n = r
    BY <1>1, <1>2, DivIs
  <1> QED  BY <1>3 DEF q, r

-----------------------------------------------------------------------------
(***************************************************************************)
(* A least and a greatest element.                                         *)
(***************************************************************************)

LEMMA LeastNat ==
  ASSUME NEW S, S \subseteq Nat, S # {} PROVE \E m \in S : \A k \in S : m <= k
  <1>1. PICK n \in S : TRUE
    OBVIOUS
  <1> DEFINE U == 0..n
             B == {0..k : k \in S \cap U}
  <1>2. IsFiniteSet(U)
    BY <1>1, FS_Interval
  <1>3. IsWellFoundedOn(StrictSubsetOrdering(U), FiniteSubsetsOf(U))
    BY <1>2, FS_StrictSubsetOrderingWellFounded
  <1>4. B \subseteq FiniteSubsetsOf(U) /\ B # {}
    <2>1. \A k \in S \cap U : IsFiniteSet(0..k) /\ 0..k \subseteq U
      BY FS_Interval
    <2>2. n \in S \cap U
      BY <1>1
    <2> QED  BY <2>1, <2>2 DEF FiniteSubsetsOf
  <1>5. PICK T \in B : \A s \in B : <<s, T>> \notin StrictSubsetOrdering(U)
    <2> HIDE DEF B
    <2> QED  BY <1>3, <1>4, WFMin
  <1>6. PICK m \in S \cap U : T = 0..m
    BY <1>5
  <1>7. ASSUME NEW k \in S, k < m PROVE FALSE
    <2>1. k \in S \cap U /\ (0..k) \in B
      BY <1>1, <1>7
    <2>2. (0..k) \subseteq T /\ (0..k) # T /\ T \subseteq U
      BY <1>1, <1>6, <1>7
    <2> QED  BY <1>5, <2>1, <2>2 DEF StrictSubsetOrdering
  <1> QED  BY <1>6, <1>7

LEMMA MinNat ==
  ASSUME NEW S, S \subseteq Nat, S # {} PROVE Min(S) \in S /\ \A x \in S : Min(S) <= x
  BY LeastNat DEF Min

LEMMA MinIs ==
  ASSUME NEW S, S \subseteq Int, S # {}, NEW lo \in Int, \A x \in S : lo <= x
  PROVE  Min(S) \in S /\ \A x \in S : Min(S) <= x
  <1>1. {x - lo : x \in S} \subseteq Nat /\ {x - lo : x \in S} # {}
    <2>1. \A x \in S : x - lo \in Nat
      OBVIOUS
    <2> QED  BY <2>1
  <1>2. PICK m \in {x - lo : x \in S} : \A k \in {x - lo : x \in S} : m <= k
    BY <1>1, LeastNat
  <1>3. PICK y \in S : m = y - lo
    OBVIOUS
  <1>4. \A x \in S : y <= x
    BY <1>2, <1>3
  <1> QED  BY <1>4 DEF Min

-----------------------------------------------------------------------------
(***************************************************************************)
(* Windows in minutes.  In a zone that is on the minute, an entry is       *)
(* decided by the minute, and comes back every week.                       *)
(***************************************************************************)

AtMinute(e, m) ==
    /\ e.start <= m % DayMinutes /\ m % DayMinutes < e.end
    /\ (m \div DayMinutes) % Days \in e.days

OpenAt(entries, m) == \E e \in entries : AtMinute(e, m + (e.offset \div Step))

weekMinutes == Days * DayMinutes

LEMMA Sizes ==
  /\ Step \in Nat \ {0} /\ DayMinutes \in Nat \ {0} /\ Days \in Nat \ {0}
  /\ dayTicks \in Nat \ {0} /\ weekMinutes \in Nat \ {0}
  /\ week \in Nat \ {0} /\ week \div Step = weekMinutes
  <1>1. Step \in Nat \ {0} /\ DayMinutes \in Nat \ {0} /\ Days \in Nat \ {0}
    BY WeekAssumption
  <1>2. \A a, b \in Nat \ {0} : a * b \in Nat \ {0}
    OBVIOUS
  <1>3. dayTicks \in Nat \ {0} /\ weekMinutes \in Nat \ {0} /\ week \in Nat \ {0}
    BY <1>1, <1>2 DEF dayTicks, week, weekMinutes
  <1>4. week = Step * weekMinutes + 0
    BY <1>1 DEF dayTicks, week, weekMinutes
  <1>5. week \div Step = weekMinutes
    BY <1>1, <1>3, <1>4, DivIs
  <1> QED  BY <1>1, <1>3, <1>5

LEMMA ByMinute ==
  ASSUME NEW e \in Entry, e.offset % Step = 0, NEW t \in Int
  PROVE  InEntry(e, t) <=> AtMinute(e, (t \div Step) + (e.offset \div Step))
  <1> DEFINE m == t \div Step
             r == t % Step
             o == e.offset \div Step
             d == (m + o) \div DayMinutes
             n == (m + o) % DayMinutes
             local == t + e.offset
             tick == Step * n + r
  <1>1. e.offset \in Int
    BY DEF Entry
  <1>2. /\ m \in Int /\ r \in 0..(Step - 1) /\ t = Step * m + r
        /\ o \in Int /\ e.offset = Step * o
    <2>1. m \in Int /\ r \in 0..(Step - 1) /\ t = Step * m + r
      BY Sizes, DivMod
    <2>2. o \in Int /\ e.offset = Step * o + (e.offset % Step)
      BY <1>1, Sizes, DivMod
    <2>3. Step * o \in Int
      BY <2>2, Sizes
    <2> QED  BY <2>1, <2>2, <2>3
  <1>3. /\ d \in Int /\ n \in 0..(DayMinutes - 1) /\ m + o = DayMinutes * d + n
    <2>1. m + o \in Int
      BY <1>2
    <2> HIDE DEF m, o
    <2> QED  BY <2>1, Sizes, DivMod
  <1> HIDE DEF m, r, o, d, n
  <1>4. local = Step * (m + o) + r
    BY <1>2, Sizes
  <1>5. Step * (DayMinutes * d + n) = (DayMinutes * Step) * d + Step * n
    BY <1>3, Sizes
  <1>6. local = dayTicks * d + tick
    BY <1>2, <1>3, <1>4, <1>5, Sizes DEF dayTicks
  <1>7. Step * n + Step <= Step * DayMinutes
    BY <1>3, Sizes, LessByOne
  <1>8. tick \in 0..(dayTicks - 1)
    <2>1. Step * n \in Nat
      BY <1>3, Sizes
    <2>2. Step * DayMinutes = dayTicks
      BY Sizes DEF dayTicks
    <2> QED  BY <1>2, <1>7, <2>1, <2>2, Sizes
  <1>9. local \div dayTicks = d /\ local % dayTicks = tick
    <2>1. local \in Int
      BY <1>1
    <2> HIDE DEF local, tick
    <2> QED  BY <1>3, <1>6, <1>8, <2>1, Sizes, DivIs
  <1>10. tick \div Step = n
    <2>1. tick \in Int /\ tick = Step * n + r
      BY <1>8, Sizes
    <2> HIDE DEF tick
    <2> QED  BY <1>2, <1>3, <2>1, Sizes, DivIs
  <1> QED  BY <1>9, <1>10 DEF InEntry, AtMinute, m, o, d, n

LEMMA InIsOpen ==
  ASSUME NEW entries, entries \subseteq Entry, minuteAlignedZones(entries), NEW t \in Int
  PROVE  InWindow(entries, t) <=> OpenAt(entries, t \div Step)
  BY ByMinute DEF InWindow, OpenAt, minuteAlignedZones

LEMMA MinuteWeekly ==
  ASSUME NEW e, NEW m \in Int, NEW j \in Int
  PROVE  AtMinute(e, m + weekMinutes * j) <=> AtMinute(e, m)
  <1> DEFINE d == m \div DayMinutes
  <1>1. weekMinutes * j = DayMinutes * (Days * j) /\ Days * j \in Int
    BY Sizes DEF weekMinutes
  <1>2. /\ (m + DayMinutes * (Days * j)) % DayMinutes = m % DayMinutes
        /\ (m + DayMinutes * (Days * j)) \div DayMinutes = d + Days * j
    BY <1>1, Sizes, DivShift
  <1>3. d \in Int
    BY Sizes, DivMod
  <1>4. (d + Days * j) % Days = d % Days
    <2> HIDE DEF d
    <2> QED  BY <1>3, Sizes, DivShift
  <1> QED  BY <1>1, <1>2, <1>4 DEF AtMinute

LEMMA OpenWeekly ==
  ASSUME NEW entries, entries \subseteq Entry, NEW m \in Int, NEW j \in Int
  PROVE  OpenAt(entries, m + weekMinutes * j) <=> OpenAt(entries, m)
  <1>1. ASSUME NEW e \in entries
        PROVE  AtMinute(e, (m + weekMinutes * j) + (e.offset \div Step))
                 <=> AtMinute(e, m + (e.offset \div Step))
    <2> DEFINE o == e.offset \div Step
    <2>1. o \in Int
      BY Sizes, DivMod DEF Entry
    <2> HIDE DEF o
    <2>2. m + o \in Int /\ (m + weekMinutes * j) + o = (m + o) + weekMinutes * j
      BY <2>1, Sizes
    <2>3. AtMinute(e, (m + weekMinutes * j) + o) <=> AtMinute(e, m + o)
      BY <2>2, MinuteWeekly
    <2> QED  BY <2>3 DEF o
  <1> QED  BY <1>1 DEF OpenAt

-----------------------------------------------------------------------------
(***************************************************************************)
(* OccurrenceBounds.                                                       *)
(***************************************************************************)

\* No more than one minute's edge lies within a minute of an instant.
LEMMA OneEdge ==
  ASSUME NEW entries, entries \subseteq Entry, minuteAlignedZones(entries),
         NEW lo \in Int, NEW t \in lo..(lo + Step)
  PROVE  \/ \A u \in lo..t : InWindow(entries, u) <=> InWindow(entries, lo)
         \/ \A u \in t..(lo + Step) :
              InWindow(entries, u) <=> InWindow(entries, lo + Step)
  <1> DEFINE m == lo \div Step
             r == lo % Step
  <1>1. m \in Int /\ r \in 0..(Step - 1) /\ lo = Step * m + r /\ Step \in Nat \ {0}
    BY Sizes, DivMod
  <1> HIDE DEF m, r
  <1>2. Step * m \in Int
    BY <1>1
  <1>3. ASSUME NEW u \in lo..(lo + Step), u < Step * m + Step PROVE u \div Step = m
    <2>1. u - Step * m \in 0..(Step - 1) /\ u = Step * m + (u - Step * m)
      BY <1>1, <1>2, <1>3
    <2> QED  BY <1>1, <2>1, DivIs
  <1>4. ASSUME NEW u \in lo..(lo + Step), ~(u < Step * m + Step)
        PROVE  u \div Step = m + 1
    <2>1. Step * (m + 1) = Step * m + Step
      BY <1>1
    <2>2. u - (Step * m + Step) \in 0..(Step - 1)
      BY <1>1, <1>2, <1>4
    <2>3. u = Step * (m + 1) + (u - (Step * m + Step)) /\ m + 1 \in Int
      BY <1>1, <1>2, <2>1
    <2> QED  BY <1>1, <2>2, <2>3, DivIs
  <1>5. CASE t < Step * m + Step
    <2>1. \A u \in lo..t : u \div Step = m
      BY <1>1, <1>2, <1>3, <1>5
    <2>2. lo \in lo..t
      OBVIOUS
    <2> QED  BY <2>1, <2>2, InIsOpen
  <1>6. CASE ~(t < Step * m + Step)
    <2>1. \A u \in t..(lo + Step) : u \div Step = m + 1
      BY <1>1, <1>2, <1>4, <1>6
    <2>2. lo + Step \in t..(lo + Step)
      BY <1>1
    <2> QED  BY <1>1, <2>1, <2>2, InIsOpen
  <1> QED  BY <1>5, <1>6

\* The walk does not step over an instant of the other side.
LEMMA NothingBetween ==
  ASSUME NEW entries, entries \subseteq Entry, minuteAlignedZones(entries), NEW lo \in Int,
         InWindow(entries, lo), InWindow(entries, lo + Step), NEW t \in lo..(lo + Step)
  PROVE  InWindow(entries, t)
  <1>1. t \in lo..t /\ t \in t..(lo + Step)
    BY Sizes
  <1> QED  BY <1>1, OneEdge

\* The search within the minute that crossed finds the only edge in it.
LEMMA Refined ==
  ASSUME NEW entries, entries \subseteq Entry, minuteAlignedZones(entries), NEW lo \in Int,
         NEW wantIn \in BOOLEAN,
         InWindow(entries, lo) = ~wantIn, InWindow(entries, lo + Step) = wantIn
  PROVE  LET t == refine(entries, lo, lo + Step, wantIn)
         IN  /\ t \in (lo + 1)..(lo + Step)
             /\ \A u \in lo..(t - 1) : InWindow(entries, u) = ~wantIn
             /\ \A u \in t..(lo + Step) : InWindow(entries, u) = wantIn
  <1> DEFINE S == {t \in (lo + 1)..(lo + Step) :
                     \A u \in t..(lo + Step) : InWindow(entries, u) = wantIn}
             t == Min(S)
  <1>1. \A x : InWindow(entries, x) \in BOOLEAN
    BY DEF InWindow
  <1>2. lo + Step \in S
    BY Sizes
  <1>3. t \in S /\ \A x \in S : t <= x
    <2>1. S \subseteq (lo + 1)..(lo + Step) /\ S # {}
      BY <1>2
    <2> HIDE DEF S
    <2>2. S \subseteq Int /\ \A x \in S : lo <= x
      BY <2>1, Sizes
    <2> QED  BY <2>1, <2>2, MinIs
  <1> HIDE DEF t
  <1>4. t - 1 \in lo..(lo + Step) /\ t - 1 \notin S
    BY <1>3, Sizes
  <1>5. InWindow(entries, t - 1) = ~wantIn
    <2>1. CASE t - 1 = lo
      BY <2>1
    <2>2. CASE t - 1 # lo
      <3>1. PICK u \in (t - 1)..(lo + Step) : InWindow(entries, u) # wantIn
        BY <1>3, <1>4, <2>2
      <3>2. u = t - 1
        BY <1>3, <3>1
      <3> QED  BY <1>1, <3>1, <3>2
    <2> QED  BY <2>1, <2>2
  <1>6. \A u \in lo..(t - 1) : InWindow(entries, u) = ~wantIn
    <2>1. CASE \A u \in lo..(t - 1) : InWindow(entries, u) <=> InWindow(entries, lo)
      BY <1>1, <2>1
    <2>2. CASE \A u \in (t - 1)..(lo + Step) :
                 InWindow(entries, u) <=> InWindow(entries, lo + Step)
      <3>1. t - 1 \in (t - 1)..(lo + Step)
        BY <1>4, Sizes
      <3>2. InWindow(entries, t - 1) <=> InWindow(entries, lo + Step)
        BY <2>2, <3>1
      <3> QED  BY <1>5, <3>2
    <2> QED  BY <1>4, <2>1, <2>2, OneEdge
  <1>7. t = refine(entries, lo, lo + Step, wantIn)
    BY DEF refine, t
  <1> QED  BY <1>3, <1>6, <1>7

\* What is open at every minute of a walk is open all along it.
LEMMA Walked ==
  ASSUME NEW entries, entries \subseteq Entry, minuteAlignedZones(entries),
         NEW base \in Int, NEW n \in Nat,
         \A j \in 0..n : InWindow(entries, base + j * Step),
         NEW t \in base..(base + n * Step)
  PROVE  InWindow(entries, t)
  <1> DEFINE j == (t - base) \div Step
             r == (t - base) % Step
  <1>1. /\ j \in Int /\ r \in 0..(Step - 1) /\ t - base = Step * j + r
        /\ Step \in Nat \ {0}
    <2>1. t - base \in Int
      BY Sizes
    <2> QED  BY <2>1, Sizes, DivMod
  <1> HIDE DEF j, r
  <1>2. Step * j \in Int /\ Step * n \in Int /\ n * Step = Step * n /\ j * Step = Step * j
        /\ (j + 1) * Step = Step * j + Step
    BY <1>1
  <1>3. t \in Int /\ base <= t /\ t <= base + Step * n
    BY <1>2
  <1>4. ~(j < 0)
    <2> SUFFICES ASSUME j < 0 PROVE FALSE
      OBVIOUS
    <2>1. Step * j + Step <= Step * 0
      BY <1>1, LessByOne
    <2> QED  BY <1>1, <1>2, <1>3, <2>1
  <1>5. ~(n < j)
    <2> SUFFICES ASSUME n < j PROVE FALSE
      OBVIOUS
    <2>1. Step * n + Step <= Step * j
      BY <1>1, LessByOne
    <2> QED  BY <1>1, <1>2, <1>3, <2>1
  <1>6. CASE j = n
    <2>1. t = base + j * Step
      BY <1>1, <1>2, <1>3, <1>6
    <2> QED  BY <1>6, <2>1
  <1>7. CASE j # n
    <2>1. j \in 0..n /\ j + 1 \in 0..n
      BY <1>1, <1>4, <1>5, <1>7
    <2>2. (base + j * Step) + Step = base + (j + 1) * Step /\ base + j * Step \in Int
      BY <1>1, <1>2
    <2>3. InWindow(entries, base + j * Step) /\ InWindow(entries, (base + j * Step) + Step)
      BY <2>1, <2>2
    <2>4. t \in (base + j * Step)..((base + j * Step) + Step)
      BY <1>1, <1>2, <1>3
    <2> QED  BY <2>2, <2>3, <2>4, NothingBetween
  <1> QED  BY <1>6, <1>7

\* What is open at every minute of a week is open always.
LEMMA AllWeek ==
  ASSUME NEW entries, entries \subseteq Entry, minuteAlignedZones(entries),
         NEW base \in Int,
         \A j \in 1..weekMinutes : InWindow(entries, base + j * Step),
         NEW t \in Int
  PROVE  InWindow(entries, t)
  <1> DEFINE m == t \div Step
             b == base \div Step
             q == ((m - b) - 1) \div weekMinutes
             r == ((m - b) - 1) % weekMinutes
             j == r + 1
  <1>1. m \in Int /\ b \in Int
    BY Sizes, DivMod
  <1>2. /\ q \in Int /\ r \in 0..(weekMinutes - 1)
        /\ (m - b) - 1 = weekMinutes * q + r
    <2>1. (m - b) - 1 \in Int
      BY <1>1
    <2> HIDE DEF m, b
    <2> QED  BY <2>1, Sizes, DivMod
  <1>3. j \in 1..weekMinutes /\ j \in Int
    BY <1>2, Sizes
  <1>4. InWindow(entries, base + j * Step)
    BY <1>3
  <1>5. (base + j * Step) \div Step = b + j
    <2>1. j * Step = Step * j
      BY <1>3, Sizes
    <2> HIDE DEF j
    <2> QED  BY <1>3, <2>1, Sizes, DivShift
  <1>6. base + j * Step \in Int
    BY <1>3, Sizes
  <1>7. OpenAt(entries, b + j)
    BY <1>4, <1>5, <1>6, InIsOpen
  <1> HIDE DEF b, q, r
  <1>8. m = (b + j) + weekMinutes * q
    <2>1. weekMinutes * q \in Int
      BY <1>2, Sizes
    <2> HIDE DEF m
    <2> QED  BY <1>1, <1>2, <2>1
  <1>9. OpenAt(entries, m)
    <2>1. b + j \in Int
      BY <1>1, <1>3
    <2> HIDE DEF m, j
    <2> QED  BY <1>2, <1>7, <1>8, <2>1, OpenWeekly
  <1> QED  BY <1>9, InIsOpen

\* The run of open instants around an instant that OccurrenceBounds finds, and why it may not.
MaximalRun(entries, b, at) ==
    /\ b.start \in Int /\ b.end \in Int /\ b.start <= at /\ at < b.end
    /\ \A t \in b.start..(b.end - 1) : InWindow(entries, t)
    /\ ~InWindow(entries, b.start - 1) /\ ~InWindow(entries, b.end)

LEMMA LastOpen ==
  ASSUME NEW entries, entries \subseteq Entry, minuteAlignedZones(entries), NEW at \in Int,
         InWindow(entries, at), \E j \in searchSteps : ~InWindow(entries, at + j * Step)
  PROVE  LET t == firstOutAfter(entries, at)
         IN  /\ t \in Int /\ at < t /\ ~InWindow(entries, t)
             /\ \A u \in at..(t - 1) : InWindow(entries, u)
  <1> DEFINE S == {j \in searchSteps : ~InWindow(entries, at + j * Step)}
             k == Min(S)
             lo == at + (k - 1) * Step
             t == refine(entries, lo, at + k * Step, FALSE)
  <1>1. k \in S /\ \A j \in S : k <= j
    <2>1. S # {} /\ S \subseteq searchSteps
      OBVIOUS
    <2> HIDE DEF S
    <2>2. S \subseteq Nat
      BY <2>1, Sizes DEF searchSteps
    <2> QED  BY <2>1, <2>2, MinNat
  <1>2. t = firstOutAfter(entries, at)
    BY DEF firstOutAfter
  <1> HIDE DEF k
  <1>3. k \in Nat \ {0} /\ k - 1 \in Nat /\ lo \in Int /\ at + k * Step = lo + Step
    BY <1>1, Sizes DEF searchSteps
  <1>4. \A j \in 0..(k - 1) : InWindow(entries, at + j * Step)
    <2>1. ASSUME NEW j \in 0..(k - 1) PROVE InWindow(entries, at + j * Step)
      <3>1. CASE j = 0
        <4>1. at + j * Step = at
          BY <3>1, Sizes
        <4> QED  BY <4>1
      <3>2. CASE j # 0
        <4>1. j \in searchSteps /\ ~(k <= j)
          BY <1>1, <1>3, <3>2, Sizes DEF searchSteps
        <4> QED  BY <1>1, <4>1
      <3> QED  BY <3>1, <3>2
    <2> QED  BY <2>1
  <1>5. \A u \in at..lo : InWindow(entries, u)
    BY <1>3, <1>4, Walked
  <1>6. at <= lo
    <2>1. (k - 1) * Step \in Nat
      BY <1>3, Sizes
    <2> QED  BY <2>1
  <1>7. InWindow(entries, lo) /\ ~InWindow(entries, lo + Step)
    BY <1>1, <1>3, <1>5, <1>6
  <1>8. /\ t \in (lo + 1)..(lo + Step)
        /\ \A u \in lo..(t - 1) : InWindow(entries, u)
        /\ \A u \in t..(lo + Step) : ~InWindow(entries, u)
    <2>1. t = refine(entries, lo, lo + Step, FALSE)
      BY <1>3
    <2>2. InWindow(entries, lo) = ~FALSE /\ InWindow(entries, lo + Step) = FALSE
      BY <1>7 DEF InWindow
    <2> HIDE DEF lo, t
    <2>3. /\ t \in (lo + 1)..(lo + Step)
          /\ \A u \in lo..(t - 1) : InWindow(entries, u) = ~FALSE
          /\ \A u \in t..(lo + Step) : InWindow(entries, u) = FALSE
      BY <1>3, <2>1, <2>2, Refined
    <2> QED  BY <2>3
  <1> HIDE DEF t, lo
  <1>9. t \in Int /\ at < t /\ t \in t..(lo + Step)
    BY <1>3, <1>6, <1>8, Sizes
  <1>10. ASSUME NEW u \in at..(t - 1) PROVE InWindow(entries, u)
    <2>1. u \in at..lo \/ u \in lo..(t - 1)
      BY <1>3, <1>6, <1>9
    <2> QED  BY <1>5, <1>8, <2>1
  <1> QED  BY <1>2, <1>8, <1>9, <1>10

LEMMA FirstOpen ==
  ASSUME NEW entries, entries \subseteq Entry, minuteAlignedZones(entries), NEW at \in Int,
         InWindow(entries, at), \E j \in searchSteps : ~InWindow(entries, at - j * Step)
  PROVE  LET t == firstInAtOrBefore(entries, at)
         IN  /\ t \in Int /\ t <= at /\ ~InWindow(entries, t - 1)
             /\ \A u \in t..at : InWindow(entries, u)
  <1> DEFINE S == {j \in searchSteps : ~InWindow(entries, at - j * Step)}
             k == Min(S)
             lo == at - k * Step
             hi == at - (k - 1) * Step
             t == refine(entries, lo, hi, TRUE)
  <1>1. k \in S /\ \A j \in S : k <= j
    <2>1. S # {} /\ S \subseteq searchSteps
      OBVIOUS
    <2> HIDE DEF S
    <2>2. S \subseteq Nat
      BY <2>1, Sizes DEF searchSteps
    <2> QED  BY <2>1, <2>2, MinNat
  <1>2. t = firstInAtOrBefore(entries, at)
    BY DEF firstInAtOrBefore
  <1> HIDE DEF k
  <1>3. /\ k \in Nat \ {0} /\ k - 1 \in Nat /\ lo \in Int /\ hi \in Int
        /\ hi = lo + Step /\ at = hi + (k - 1) * Step
    BY <1>1, Sizes DEF searchSteps
  <1>4. \A j \in 0..(k - 1) : InWindow(entries, hi + j * Step)
    <2>1. ASSUME NEW j \in 0..(k - 1) PROVE InWindow(entries, hi + j * Step)
      <3> DEFINE i == (k - 1) - j
      <3>1. i \in Nat /\ i < k /\ hi + j * Step = at - i * Step
        BY <1>3, Sizes
      <3>2. CASE i = 0
        <4>1. at - i * Step = at
          BY <3>2, Sizes
        <4> QED  BY <3>1, <4>1
      <3>3. CASE i # 0
        <4>1. i \in searchSteps /\ ~(k <= i)
          BY <1>1, <1>3, <3>1, <3>3, Sizes DEF searchSteps
        <4> QED  BY <1>1, <3>1, <4>1
      <3> QED  BY <3>2, <3>3
    <2> QED  BY <2>1
  <1> HIDE DEF hi
  <1>5. \A u \in hi..at : InWindow(entries, u)
    BY <1>3, <1>4, Walked
  <1>6. hi <= at
    <2>1. (k - 1) * Step \in Nat
      BY <1>3, Sizes
    <2> QED  BY <1>3, <2>1
  <1>7. InWindow(entries, lo + Step) /\ ~InWindow(entries, lo)
    BY <1>1, <1>3, <1>5, <1>6
  <1>8. /\ t \in (lo + 1)..(lo + Step)
        /\ \A u \in lo..(t - 1) : ~InWindow(entries, u)
        /\ \A u \in t..(lo + Step) : InWindow(entries, u)
    <2>1. t = refine(entries, lo, lo + Step, TRUE)
      BY <1>3
    <2>2. InWindow(entries, lo) = ~TRUE /\ InWindow(entries, lo + Step) = TRUE
      BY <1>7 DEF InWindow
    <2> HIDE DEF lo, t
    <2>3. /\ t \in (lo + 1)..(lo + Step)
          /\ \A u \in lo..(t - 1) : InWindow(entries, u) = ~TRUE
          /\ \A u \in t..(lo + Step) : InWindow(entries, u) = TRUE
      BY <1>3, <2>1, <2>2, Refined
    <2> QED  BY <2>3
  <1> HIDE DEF t, lo
  <1>9. t \in Int /\ t <= at /\ t - 1 \in lo..(t - 1)
    BY <1>3, <1>6, <1>8, Sizes
  <1>10. ASSUME NEW u \in t..at PROVE InWindow(entries, u)
    <2>1. u \in t..(lo + Step) \/ u \in hi..at
      BY <1>3, <1>6, <1>9
    <2> QED  BY <1>5, <1>8, <2>1
  <1> QED  BY <1>2, <1>8, <1>9, <1>10

LEMMA BoundsAre ==
  ASSUME NEW entries, entries \subseteq Entry, NEW at \in Int
  PROVE  LET b == OccurrenceBounds(entries, at)
         IN  /\ b.ok \in BOOLEAN
             /\ b.ok => minuteAlignedZones(entries) /\ MaximalRun(entries, b, at)
             /\ ~b.ok => \/ ~InWindow(entries, at) \/ ~minuteAlignedZones(entries)
                         \/ \A t \in Int : InWindow(entries, t)
  <1> DEFINE b == OccurrenceBounds(entries, at)
             found == /\ InWindow(entries, at) /\ minuteAlignedZones(entries)
                      /\ \E k \in searchSteps : ~InWindow(entries, at + k * Step)
                      /\ \E k \in searchSteps : ~InWindow(entries, at - k * Step)
  <1>1. CASE found
    <2> DEFINE f == firstInAtOrBefore(entries, at)
               l == firstOutAfter(entries, at)
    <2>1. b = [ok |-> TRUE, start |-> f, end |-> l]
      BY <1>1 DEF OccurrenceBounds
    <2>2. /\ l \in Int /\ at < l /\ ~InWindow(entries, l)
          /\ \A u \in at..(l - 1) : InWindow(entries, u)
      BY <1>1, LastOpen
    <2>3. /\ f \in Int /\ f <= at /\ ~InWindow(entries, f - 1)
          /\ \A u \in f..at : InWindow(entries, u)
      BY <1>1, FirstOpen
    <2> HIDE DEF f, l
    <2>4. ASSUME NEW t \in f..(l - 1) PROVE InWindow(entries, t)
      <3>1. t \in f..at \/ t \in at..(l - 1)
        BY <2>2, <2>3
      <3> QED  BY <2>2, <2>3, <3>1
    <2>5. b.ok = TRUE /\ b.start = f /\ b.end = l
      BY <2>1
    <2> HIDE DEF b
    <2>6. b.ok /\ MaximalRun(entries, b, at)
      BY <2>2, <2>3, <2>4, <2>5 DEF MaximalRun
    <2> QED  BY <1>1, <2>5, <2>6 DEF b
  <1>2. CASE ~found
    <2>1. b.ok = FALSE
      BY <1>2 DEF OccurrenceBounds, NoBounds
    <2>2. ASSUME minuteAlignedZones(entries),
                 \A k \in searchSteps : InWindow(entries, at + k * Step),
                 NEW t \in Int
          PROVE  InWindow(entries, t)
      BY <2>2, Sizes, AllWeek DEF searchSteps
    <2>3. ASSUME minuteAlignedZones(entries),
                 \A k \in searchSteps : InWindow(entries, at - k * Step),
                 NEW t \in Int
          PROVE  InWindow(entries, t)
      <3> DEFINE base == at - (weekMinutes + 1) * Step
      <3>1. base \in Int
        BY Sizes
      <3>2. ASSUME NEW j \in 1..weekMinutes PROVE InWindow(entries, base + j * Step)
        <4>1. /\ (weekMinutes + 1) - j \in searchSteps
              /\ base + j * Step = at - ((weekMinutes + 1) - j) * Step
          BY Sizes DEF searchSteps
        <4> QED  BY <2>3, <4>1
      <3> HIDE DEF base
      <3> QED  BY <2>3, <3>1, <3>2, AllWeek
    <2> QED  BY <1>2, <2>1, <2>2, <2>3
  <1> QED  BY <1>1, <1>2

\* An occurrence has one pair of bounds, wherever in it they are asked for.
LEMMA OneRun ==
  ASSUME NEW entries, NEW b, NEW t \in Int, MaximalRun(entries, b, t),
         NEW c, NEW u \in Int, MaximalRun(entries, c, u),
         t <= u, \A v \in t..u : InWindow(entries, v)
  PROVE  b.start = c.start /\ b.end = c.end
  <1>1. /\ b.start \in Int /\ b.end \in Int /\ b.start <= t /\ t < b.end
        /\ \A v \in b.start..(b.end - 1) : InWindow(entries, v)
        /\ ~InWindow(entries, b.start - 1) /\ ~InWindow(entries, b.end)
        /\ c.start \in Int /\ c.end \in Int /\ c.start <= u /\ u < c.end
        /\ \A v \in c.start..(c.end - 1) : InWindow(entries, v)
        /\ ~InWindow(entries, c.start - 1) /\ ~InWindow(entries, c.end)
    BY DEF MaximalRun
  <1>2. b.end > u /\ c.start <= t
    BY <1>1
  <1>3. ~(b.start < c.start) /\ ~(c.start < b.start)
    BY <1>1, <1>2
  <1>4. ~(b.end < c.end) /\ ~(c.end < b.end)
    BY <1>1, <1>2
  <1> QED  BY <1>1, <1>3, <1>4

-----------------------------------------------------------------------------
(***************************************************************************)
(* The pool's claims over their lives.                                     *)
(***************************************************************************)

\* An announced backoff is the one in force at the failure, which lies behind.
AnnouncedAtFailure ==
    \A i \in DOMAIN claims : LET c == claims[i] IN
        c.state = "failed" /\ announced[i] > 0 =>
            /\ c.failedAt \in Nat /\ c.failedAt <= now
            /\ announced[i] = effectiveBackoff(pool, c.failedAt, c.failedAt, c.retryCount)

ClaimsInv ==
    /\ \E n \in Nat : claims \in [1..n -> ClaimRec]
    /\ DOMAIN announced = DOMAIN claims
    /\ \A i, j \in DOMAIN claims : claims[i].name = claims[j].name => i = j

CalendarInv ==
    /\ pool \in PoolRec
    /\ pool.entries \subseteq Entry /\ pool.retryBackoff \in Nat \ {0}
    /\ now \in Nat
    /\ ClaimsInv
    /\ AnnouncedAtFailure

LEMMA CalendarInit == ASSUME Init PROVE CalendarInv
  <1>1. PICK s \in Scenarios :
          /\ pool = s.pool /\ claims = s.claims /\ now = s.start
          /\ announced = [i \in DOMAIN s.claims |-> 0]
    BY DEF Init
  <1>2. /\ s.pool \in PoolRec /\ s.start \in Nat
        /\ s.pool.entries \subseteq Entry /\ s.pool.retryBackoff \in Nat \ {0}
        /\ s.claims \in [1..Len(s.claims) -> ClaimRec]
        /\ \A i, j \in DOMAIN s.claims : s.claims[i].name = s.claims[j].name => i = j
    BY ScenarioAssumption DEF PoolRec
  <1>3. \E n \in Nat : claims \in [1..n -> ClaimRec]
    <2> DEFINE n == Len(s.claims)
    <2>1. CASE n \in Nat
      BY <1>1, <1>2, <2>1
    <2>2. CASE n \notin Nat
      BY <1>1, <1>2, <2>2
    <2> QED  BY <2>1, <2>2
  <1>4. AnnouncedAtFailure
    BY <1>1 DEF AnnouncedAtFailure
  <1> QED  BY <1>1, <1>2, <1>3, <1>4 DEF CalendarInv, ClaimsInv

\* A step changes one claim at most, in fields that are not its name.
LEMMA ClaimsStep ==
  ASSUME CalendarInv, Next PROVE ClaimsInv'
  <1>1. PICK n \in Nat : claims \in [1..n -> ClaimRec]
    BY DEF CalendarInv, ClaimsInv
  <1>2. CASE Tick
    BY <1>2 DEF Tick, CalendarInv, ClaimsInv
  <1>3. ASSUME NEW i \in DOMAIN claims, Start(i) \/ Fail(i) \/ Succeed(i) \/ Expire(i)
        PROVE  ClaimsInv'
    <2>1. PICK r \in ClaimRec : claims' = [claims EXCEPT ![i] = r]
                                /\ r.name = claims[i].name
      <3>1. claims[i] \in ClaimRec
        BY <1>1
      <3> DEFINE c == claims[i]
      <3>2. CASE Start(i)
        <4> DEFINE r == [c EXCEPT !.state = "pending"]
        <4>1. r \in ClaimRec /\ r.name = c.name
          BY <3>1 DEF ClaimRec
        <4>2. claims' = [claims EXCEPT ![i] = r]
          BY <3>2 DEF Start
        <4> QED  BY <4>1, <4>2
      <3>3. CASE Fail(i)
        <4> DEFINE k == c.retryCount + 1
                   r == [c EXCEPT !.state = "failed", !.failedAt = now, !.retryCount = k]
        <4>1. r \in ClaimRec /\ r.name = c.name
          <5>1. now \in Nat /\ k \in Nat
            BY <3>1 DEF ClaimRec, CalendarInv
          <5> HIDE DEF k
          <5> QED  BY <3>1, <5>1 DEF ClaimRec
        <4>2. claims' = [claims EXCEPT ![i] = r]
          BY <3>3 DEF Fail
        <4> QED  BY <4>1, <4>2
      <3>4. CASE Succeed(i)
        <4> DEFINE r == [c EXCEPT !.state = "draining", !.deleting = TRUE]
        <4>1. r \in ClaimRec /\ r.name = c.name
          BY <3>1 DEF ClaimRec
        <4>2. claims' = [claims EXCEPT ![i] = r]
          BY <3>4 DEF Succeed
        <4> QED  BY <4>1, <4>2
      <3>5. CASE Expire(i)
        <4> DEFINE r == [c EXCEPT !.deleting = TRUE,
                           !.state = IF c.state = "pending" THEN "expired" ELSE c.state]
        <4>1. r \in ClaimRec /\ r.name = c.name
          BY <3>1 DEF ClaimRec
        <4>2. claims' = [claims EXCEPT ![i] = r]
          BY <3>5 DEF Expire
        <4> QED  BY <4>1, <4>2
      <3> QED  BY <1>3, <3>2, <3>3, <3>4, <3>5
    <2>2. DOMAIN announced' = DOMAIN announced
      BY <1>3 DEF Start, Fail, Succeed, Expire
    <2>3. claims' \in [1..n -> ClaimRec] /\ DOMAIN claims' = DOMAIN claims
      BY <1>1, <2>1
    <2>4. \A j \in DOMAIN claims : claims'[j].name = claims[j].name
      BY <1>1, <2>1
    <2> QED  BY <1>1, <2>2, <2>3, <2>4 DEF CalendarInv, ClaimsInv
  <1> QED  BY <1>2, <1>3 DEF Next

LEMMA AnnouncedStep ==
  ASSUME CalendarInv, Next PROVE AnnouncedAtFailure'
  <1>1. PICK n \in Nat : claims \in [1..n -> ClaimRec] /\ DOMAIN announced = 1..n
    BY DEF CalendarInv, ClaimsInv
  <1>2. now \in Nat /\ AnnouncedAtFailure
    BY DEF CalendarInv
  <1>3. CASE Tick
    <2>1. UNCHANGED <<pool, claims, announced>> /\ now' = now + 1
      BY <1>3 DEF Tick
    <2> QED  BY <1>2, <2>1 DEF AnnouncedAtFailure, effectiveBackoff
  <1>4. ASSUME NEW i \in DOMAIN claims, Start(i) \/ Succeed(i) \/ Expire(i)
        PROVE  AnnouncedAtFailure'
    <2>1. UNCHANGED <<pool, now, announced>> /\ DOMAIN claims' = DOMAIN claims
      BY <1>4 DEF Start, Succeed, Expire
    <2>2. ASSUME NEW j \in DOMAIN claims, claims'[j].state = "failed"
          PROVE  /\ claims[j].state = "failed" /\ claims'[j].failedAt = claims[j].failedAt
                 /\ claims'[j].retryCount = claims[j].retryCount
      <3>1. claims[i] \in ClaimRec /\ claims[j] \in ClaimRec
        BY <1>1
      <3>2. CASE j # i
        <4>1. claims'[j] = claims[j]
          BY <1>4, <3>2 DEF Start, Succeed, Expire
        <4> QED  BY <2>2, <4>1
      <3>3. CASE j = i
        <4>1. CASE Start(i)
          BY <1>1, <2>2, <3>1, <3>3, <4>1 DEF Start, ClaimRec
        <4>2. CASE Succeed(i)
          BY <1>1, <2>2, <3>1, <3>3, <4>2 DEF Succeed, ClaimRec
        <4>3. CASE Expire(i)
          BY <1>1, <2>2, <3>1, <3>3, <4>3 DEF Expire, ClaimRec
        <4> QED  BY <1>4, <4>1, <4>2, <4>3
      <3> QED  BY <3>2, <3>3
    <2> QED  BY <1>2, <2>1, <2>2 DEF AnnouncedAtFailure, effectiveBackoff
  <1>5. ASSUME NEW i \in DOMAIN claims, Fail(i) PROVE AnnouncedAtFailure'
    <2>1. UNCHANGED <<pool, now>> /\ DOMAIN claims' = DOMAIN claims
      BY <1>5 DEF Fail
    <2>2. claims[i] \in ClaimRec
      BY <1>1
    <2>3. /\ claims'[i].failedAt = now /\ claims'[i].retryCount = claims[i].retryCount + 1
          /\ announced'[i] = effectiveBackoff(pool, now, now, claims[i].retryCount + 1)
      BY <1>1, <1>5, <2>2 DEF Fail, ClaimRec
    <2>4. ASSUME NEW j \in DOMAIN claims, j # i
          PROVE  claims'[j] = claims[j] /\ announced'[j] = announced[j]
      BY <1>1, <1>5, <2>4 DEF Fail
    <2>5. ASSUME NEW j \in DOMAIN claims, claims'[j].state = "failed", announced'[j] > 0
          PROVE  /\ claims'[j].failedAt \in Nat /\ claims'[j].failedAt <= now
                 /\ announced'[j] = effectiveBackoff(pool, claims'[j].failedAt,
                                      claims'[j].failedAt, claims'[j].retryCount)
      <3>1. CASE j = i
        BY <1>2, <2>3, <3>1
      <3>2. CASE j # i
        BY <1>2, <2>4, <2>5, <3>2 DEF AnnouncedAtFailure
      <3> QED  BY <3>1, <3>2
    <2> QED  BY <2>1, <2>5 DEF AnnouncedAtFailure, effectiveBackoff
  <1> QED  BY <1>3, <1>4, <1>5 DEF Next

LEMMA CalendarStep ==
  ASSUME CalendarInv, [Next]_vars PROVE CalendarInv'
  <1>1. CASE Next
    <2>1. UNCHANGED pool
      BY <1>1 DEF Next, Tick, Start, Fail, Succeed, Expire
    <2>2. now \in Nat /\ (now' = now + 1 \/ now' = now)
      BY <1>1 DEF CalendarInv, Next, Tick, Start, Fail, Succeed, Expire
    <2> QED  BY <1>1, <2>1, <2>2, ClaimsStep, AnnouncedStep DEF CalendarInv
  <1>2. CASE UNCHANGED vars
    BY <1>2 DEF vars, CalendarInv, ClaimsInv, AnnouncedAtFailure, effectiveBackoff
  <1> QED  BY <1>1, <1>2

\* The entries are ones validation let through, claims keep their names and their
\* order, and a failed claim's announcement is the backoff of its failure.
THEOREM CalendarInvHolds == Spec => []CalendarInv
  <1>1. Init => CalendarInv
    BY CalendarInit
  <1>2. CalendarInv /\ [Next]_vars => CalendarInv'
    BY CalendarStep
  <1> QED  BY <1>1, <1>2, PTL DEF Spec

-----------------------------------------------------------------------------
(***************************************************************************)
(* The bounds of the occurrence around now.                                *)
(***************************************************************************)

LEMMA Zones ==
  ASSUME NEW entries, entries \subseteq Entry
  PROVE  minuteAlignedZones(entries) <=> \A e \in entries : e.offset % Step = 0
  BY DEF minuteAlignedZones

\* Whatever the phase of now within its minute, the occurrence found around it is the
\* maximal run of open instants; none is found only where a zone is off the minute or
\* the window never closes (OccurrenceBounds, refine).
THEOREM BoundsExactHolds == Spec => []BoundsExact
  <1>1. CalendarInv => BoundsExact
    <2> SUFFICES ASSUME CalendarInv PROVE BoundsExact
      OBVIOUS
    <2> DEFINE b == OccurrenceBounds(pool.entries, now)
    <2>1. pool.entries \subseteq Entry /\ now \in Int
      BY DEF CalendarInv
    <2>2. /\ b.ok \in BOOLEAN
          /\ b.ok => MaximalRun(pool.entries, b, now)
          /\ ~b.ok => \/ ~InWindow(pool.entries, now) \/ ~minuteAlignedZones(pool.entries)
                      \/ \A t \in Int : InWindow(pool.entries, t)
      BY <2>1, BoundsAre
    <2>3. ~minuteAlignedZones(pool.entries) => \E e \in pool.entries : e.offset % Step # 0
      BY <2>1, Zones
    <2>4. 0..(week - 1) \subseteq Int
      OBVIOUS
    <2> HIDE DEF b
    <2>5. b.ok => /\ now \in b.start..(b.end - 1) /\ \A t \in b.start..(b.end - 1) : In(t)
                  /\ ~In(b.start - 1) /\ ~In(b.end)
      BY <2>1, <2>2 DEF MaximalRun, In
    <2>6. ~b.ok => \/ ~In(now) \/ \E e \in pool.entries : e.offset % Step # 0
                   \/ \A t \in 0..(week - 1) : In(t)
      BY <2>2, <2>3, <2>4 DEF In
    <2> QED  BY <2>2, <2>5, <2>6 DEF BoundsExact, b
  <1> QED  BY <1>1, CalendarInvHolds, PTL

-----------------------------------------------------------------------------
(***************************************************************************)
(* The backoff, and the occurrence it is clamped to.                       *)
(***************************************************************************)

ladderFactor(retry) == CASE retry <= 1 -> 1 [] retry = 2 -> 2 [] retry = 3 -> 4 [] OTHER -> 8

LEMMA Ladder ==
  ASSUME NEW retry \in Nat, NEW base \in Nat \ {0}
  PROVE  /\ ladderShift(retry) \in 0..3
         /\ EscalatedBackoff(retry, base) = base * ladderFactor(retry)
  <1>1. CASE retry <= 1
    <2>1. ladderShift(retry) = 0 /\ ladderFactor(retry) = 1
      BY <1>1 DEF ladderShift, maxBackoffShift, ladderFactor
    <2> QED  BY <2>1 DEF EscalatedBackoff, Rung
  <1>2. CASE retry = 2
    <2>1. ladderShift(retry) = 1 /\ ladderFactor(retry) = 2
      BY <1>2 DEF ladderShift, maxBackoffShift, ladderFactor
    <2> QED  BY <2>1 DEF EscalatedBackoff, Rung
  <1>3. CASE retry = 3
    <2>1. ladderShift(retry) = 2 /\ ladderFactor(retry) = 4
      BY <1>3 DEF ladderShift, maxBackoffShift, ladderFactor
    <2> QED  BY <2>1 DEF EscalatedBackoff, Rung
  <1>4. CASE 4 <= retry
    <2>1. ladderShift(retry) = 3 /\ ladderFactor(retry) = 8
      BY <1>4 DEF ladderShift, maxBackoffShift, ladderFactor
    <2> QED  BY <2>1 DEF EscalatedBackoff, Rung
  <1> QED  BY <1>1, <1>2, <1>3, <1>4

LEMMA RungBounds ==
  ASSUME NEW base \in Nat \ {0}, NEW s \in 0..3
  PROVE  Rung(base, s) \in Nat /\ base <= Rung(base, s) /\ Rung(base, 0) = base
  <1>1. s = 0 \/ s = 1 \/ s = 2 \/ s = 3
    OBVIOUS
  <1> QED  BY <1>1 DEF Rung

\* The whole ladder, or a rung that lands before the close when one does.
LEMMA Clamped ==
  ASSUME NEW retry \in Nat, NEW base \in Nat \ {0}, NEW f \in Nat, NEW b
  PROVE  LET B == EffectiveBackoff(retry, base, f, b)
         IN  /\ B \in Nat /\ base <= B
             /\ ~b.ok \/ f < b.start \/ f >= b.end => B = EscalatedBackoff(retry, base)
             /\ b.ok /\ ~(f < b.start) /\ ~(f >= b.end) /\ f + base < b.end
                  => f + B < b.end
  <1> DEFINE B == EffectiveBackoff(retry, base, f, b)
             top == ladderShift(retry)
             fits == {s \in 0..top : f + Rung(base, s) < b.end}
             s == CHOOSE x \in fits : \A y \in fits : y <= x
             out == ~b.ok \/ f < b.start \/ f >= b.end
  <1>1. top \in 0..3
    BY Ladder
  <1>2. EscalatedBackoff(retry, base) = Rung(base, top)
    BY DEF EscalatedBackoff
  <1> HIDE DEF top
  <1>3. fits # {} => s \in fits
    <2> SUFFICES ASSUME fits # {} PROVE s \in fits
      OBVIOUS
    <2> DEFINE R == {top - x : x \in fits}
    <2>1. R \subseteq Nat /\ R # {}
      <3>1. \A x \in fits : top - x \in Nat
        BY <1>1
      <3> HIDE DEF fits
      <3> QED  BY <3>1
    <2>2. PICK m \in R : \A k \in R : m <= k
      <3> HIDE DEF R
      <3> QED  BY <2>1, LeastNat
    <2>3. PICK x \in fits : m = top - x
      BY <2>2
    <2>4. ASSUME NEW y \in fits PROVE y <= x
      <3>1. m <= top - y
        BY <2>2
      <3> QED  BY <1>1, <2>3, <3>1
    <2> HIDE DEF fits
    <2> QED  BY <2>3, <2>4
  <1>4. B = IF out \/ fits = {} THEN EscalatedBackoff(retry, base) ELSE Rung(base, s)
    BY DEF EffectiveBackoff, top
  <1>5. Rung(base, 0) = base /\ 0 \in 0..top
    BY <1>1, RungBounds
  <1>6. CASE out \/ fits = {}
    <2>1. B = Rung(base, top) /\ B = EscalatedBackoff(retry, base)
      BY <1>2, <1>4, <1>6
    <2>2. ~out => ~(f + base < b.end)
      BY <1>5, <1>6
    <2>3. B \in Nat /\ base <= B
      BY <1>1, <2>1, RungBounds
    <2> HIDE DEF B
    <2>4. /\ B \in Nat /\ base <= B
          /\ out => B = EscalatedBackoff(retry, base)
          /\ ~out /\ f + base < b.end => f + B < b.end
      BY <2>1, <2>2, <2>3
    <2> QED  BY <2>4 DEF B
  <1>7. CASE ~out /\ fits # {}
    <2>1. B = Rung(base, s) /\ s \in fits
      BY <1>3, <1>4, <1>7
    <2>2. s \in 0..3 /\ f + Rung(base, s) < b.end
      BY <1>1, <2>1
    <2> HIDE DEF s
    <2>3. Rung(base, s) \in Nat /\ base <= Rung(base, s)
      BY <2>2, RungBounds
    <2> HIDE DEF B
    <2>4. /\ B \in Nat /\ base <= B
          /\ out => B = EscalatedBackoff(retry, base)
          /\ ~out /\ f + base < b.end => f + B < b.end
      BY <1>7, <2>1, <2>2, <2>3
    <2> QED  BY <2>4 DEF B
  <1> QED  BY <1>6, <1>7

\* What a reconcile in whose view a claim has failed reads of the windows.
LEMMA PastBackoff ==
  ASSUME NEW i \in DOMAIN claims, claims[i].state = "failed", claims[i].failedAt # Unset
  PROVE  failedPastBackoff(claims[i], inputs)
           <=> now - claims[i].failedAt >=
                 EffectiveBackoff(claims[i].retryCount, pool.retryBackoff, claims[i].failedAt,
                                  OccurrenceBounds(pool.entries, now))
  <1>1. hasFailedClaim(claims)
    BY DEF hasFailedClaim
  <1>2. /\ inputs.now = now /\ inputs.retryBackoff = pool.retryBackoff
        /\ inputs.bounds = OccurrenceBounds(pool.entries, now)
    BY <1>1 DEF inputs, selInputs
  <1> QED  BY <1>2 DEF failedPastBackoff

LEMMA Unstamped ==
  ASSUME CalendarInv, NEW i \in DOMAIN claims
  PROVE  /\ claims[i].failedAt # Unset => claims[i].failedAt \in Nat
         /\ claims[i].retryCount \in Nat /\ Unset \notin Nat
  <1>1. claims[i] \in ClaimRec
    BY DEF CalendarInv, ClaimsInv
  <1> QED  BY <1>1 DEF ClaimRec, Unset

\* The clamp does not leak into a later occurrence: a failed claim that may start again
\* outside the occurrence it failed in has waited its whole ladder step; within it, the
\* base at the least (EffectiveBackoff, effectiveBackoff).
THEOREM BackoffServedHolds == Spec => []BackoffServed
  <1>1. CalendarInv => BackoffServed
    <2> SUFFICES ASSUME CalendarInv, NEW i \in DOMAIN claims, claims[i].state = "failed",
                        claims[i].failedAt # Unset, In(now), eligible(claims[i], inputs)
                 PROVE  now - claims[i].failedAt >=
                          IF SameOccurrence(claims[i].failedAt, now) THEN pool.retryBackoff
                          ELSE pool.retryBackoff * ladderFactor(claims[i].retryCount)
      BY DEF BackoffServed, ladderFactor
    <2> DEFINE c == claims[i]
               b == OccurrenceBounds(pool.entries, now)
               B == EffectiveBackoff(c.retryCount, pool.retryBackoff, c.failedAt, b)
    <2>1. /\ pool.entries \subseteq Entry /\ pool.retryBackoff \in Nat \ {0} /\ now \in Nat
          /\ c.failedAt \in Nat /\ c.retryCount \in Nat
      BY Unstamped DEF CalendarInv
    <2>2. now - c.failedAt >= B
      BY PastBackoff DEF eligible, stateAllows
    <2>3. /\ B \in Nat /\ pool.retryBackoff <= B
          /\ ~b.ok \/ c.failedAt < b.start \/ c.failedAt >= b.end
               => B = EscalatedBackoff(c.retryCount, pool.retryBackoff)
      <3> HIDE DEF b
      <3> DEFINE base == pool.retryBackoff
                 k == c.retryCount
                 f == c.failedAt
      <3>1. k \in Nat /\ base \in Nat \ {0} /\ f \in Nat
        BY <2>1
      <3> HIDE DEF base, k, f, c
      <3>2. ASSUME NEW o
            PROVE  LET X == EffectiveBackoff(k, base, f, o)
                   IN  /\ X \in Nat /\ base <= X
                       /\ ~o.ok \/ f < o.start \/ f >= o.end
                            => X = EscalatedBackoff(k, base)
        BY <3>1, Clamped
      <3> QED  BY <3>2 DEF base, k, f
    <2>4. b.ok => MaximalRun(pool.entries, b, now)
      BY <2>1, BoundsAre
    <2> HIDE DEF B, b
    <2>5. CASE SameOccurrence(c.failedAt, now)
      BY <2>1, <2>2, <2>3, <2>5
    <2>6. CASE ~SameOccurrence(c.failedAt, now)
      <3>1. PICK v \in c.failedAt..now : ~InWindow(pool.entries, v)
        BY <2>6 DEF SameOccurrence, In
      <3>2. b.ok => c.failedAt < b.start
        BY <2>1, <2>4, <3>1 DEF MaximalRun
      <3>3. B = pool.retryBackoff * ladderFactor(c.retryCount)
        BY <2>1, <2>3, <3>2, Ladder
      <3> QED  BY <2>2, <2>6, <3>3
    <2> QED  BY <2>5, <2>6
  <1> QED  BY <1>1, CalendarInvHolds, PTL

\* A claim that failed in an occurrence with room for the base backoff is retried in
\* that occurrence, at the very instant its failure announced: the bounds read at the
\* failure and those read later in the occurrence are the same (effectiveBackoff).
THEOREM AnnouncedRetryHeld == Spec => []AnnouncedRetryHolds
  <1>1. CalendarInv => AnnouncedRetryHolds
    <2> SUFFICES ASSUME CalendarInv, NEW i \in DOMAIN claims, claims[i].state = "failed",
                        announced[i] > 0, SameOccurrence(claims[i].failedAt, now),
                        \A e \in pool.entries : e.offset % Step = 0
                 PROVE  /\ failedPastBackoff(claims[i], inputs)
                             <=> now >= claims[i].failedAt + announced[i]
                        /\ ~In(now + 1) /\ now >= claims[i].failedAt + pool.retryBackoff
                             => failedPastBackoff(claims[i], inputs)
      BY DEF AnnouncedRetryHolds
    <2> DEFINE f == claims[i].failedAt
               k == claims[i].retryCount
               a == OccurrenceBounds(pool.entries, f)
               b == OccurrenceBounds(pool.entries, now)
               A == EffectiveBackoff(k, pool.retryBackoff, f, a)
               B == EffectiveBackoff(k, pool.retryBackoff, f, b)
    <2>1. /\ pool.entries \subseteq Entry /\ pool.retryBackoff \in Nat \ {0} /\ now \in Nat
          /\ f \in Nat /\ f <= now /\ announced[i] = A
      BY DEF CalendarInv, AnnouncedAtFailure, effectiveBackoff
    <2>2. k \in Nat /\ f # Unset
      BY <2>1, Unstamped
    <2>3. failedPastBackoff(claims[i], inputs) <=> now - f >= B
      BY <2>2, PastBackoff
    <2>4. /\ A \in Nat /\ B \in Nat
          /\ ~a.ok => A = EscalatedBackoff(k, pool.retryBackoff)
          /\ ~b.ok => B = EscalatedBackoff(k, pool.retryBackoff)
          /\ b.ok /\ ~(f < b.start) /\ ~(f >= b.end) /\ f + pool.retryBackoff < b.end
               => f + B < b.end
      <3> HIDE DEF a, b, f, k
      <3> DEFINE base == pool.retryBackoff
      <3>0. k \in Nat /\ base \in Nat \ {0} /\ f \in Nat
        BY <2>1, <2>2
      <3> HIDE DEF base
      <3>3. ASSUME NEW o
            PROVE  LET X == EffectiveBackoff(k, base, f, o)
                   IN  /\ X \in Nat /\ (~o.ok => X = EscalatedBackoff(k, base))
                       /\ o.ok /\ ~(f < o.start) /\ ~(f >= o.end) /\ f + base < o.end
                            => f + X < o.end
        BY <3>0, Clamped
      <3>1. A \in Nat /\ (~a.ok => A = EscalatedBackoff(k, pool.retryBackoff))
        BY <3>3 DEF base
      <3>2. /\ B \in Nat /\ (~b.ok => B = EscalatedBackoff(k, pool.retryBackoff))
            /\ b.ok /\ ~(f < b.start) /\ ~(f >= b.end) /\ f + pool.retryBackoff < b.end
                 => f + B < b.end
        BY <3>3 DEF base
      <3> QED  BY <3>1, <3>2
    <2>5. minuteAlignedZones(pool.entries)
      BY <2>1, Zones
    <2>6. \A v \in f..now : InWindow(pool.entries, v)
      BY DEF SameOccurrence, In
    <2>7. InWindow(pool.entries, f) /\ InWindow(pool.entries, now)
      BY <2>1, <2>6
    <2>8. /\ a.ok \in BOOLEAN /\ b.ok \in BOOLEAN
          /\ a.ok => MaximalRun(pool.entries, a, f)
          /\ b.ok => MaximalRun(pool.entries, b, now)
          /\ ~a.ok => \A t \in Int : InWindow(pool.entries, t)
          /\ ~b.ok => \A t \in Int : InWindow(pool.entries, t)
      BY <2>1, <2>5, <2>7, BoundsAre
    <2>9. A = B
      <3>1. a.ok <=> b.ok
        <4> HIDE DEF a, b
        <4> QED  BY <2>8 DEF MaximalRun
      <3>2. CASE a.ok
        <4>1. MaximalRun(pool.entries, a, f) /\ MaximalRun(pool.entries, b, now)
          BY <2>8, <3>1, <3>2
        <4> HIDE DEF a, b, f
        <4>2. a.start = b.start /\ a.end = b.end
          BY <2>1, <2>6, <4>1, OneRun
        <4> QED  BY <3>1, <3>2, <4>2 DEF EffectiveBackoff
      <3>3. CASE ~a.ok
        BY <2>4, <3>1, <3>3
      <3> QED  BY <3>2, <3>3
    <2> HIDE DEF A, B, a, b
    <2>10. failedPastBackoff(claims[i], inputs) <=> now >= f + announced[i]
      BY <2>1, <2>3, <2>4, <2>9
    <2>11. ASSUME ~In(now + 1), now >= f + pool.retryBackoff
           PROVE  failedPastBackoff(claims[i], inputs)
      <3>1. b.ok /\ MaximalRun(pool.entries, b, now)
        <4>1. now + 1 \in Int
          BY <2>1
        <4> QED  BY <2>8, <2>11, <4>1 DEF In
      <3>2. b.end = now + 1
        BY <2>1, <2>11, <3>1 DEF MaximalRun, In
      <3>3. ~(f < b.start)
        BY <2>1, <2>6, <3>1 DEF MaximalRun
      <3>4. f + B < now + 1
        BY <2>1, <2>4, <2>11, <3>1, <3>2, <3>3
      <3> QED  BY <2>1, <2>3, <2>4, <3>4
    <2> QED  BY <2>10, <2>11
  <1> QED  BY <1>1, CalendarInvHolds, PTL

-----------------------------------------------------------------------------
(***************************************************************************)
(* The pick.  The loop over the list is a fold; a function that satisfies  *)
(* the fold's definition is given outright, and there is only one.         *)
(***************************************************************************)

\* Claims of different names, read in one order of the List or another.
IsView(cs, n) ==
    /\ cs \in [1..n -> ClaimRec]
    /\ \A i, j \in 1..n : cs[i].name = cs[j].name => i = j

LEMMA EarlierOrder ==
  ASSUME NEW in, NEW a \in ClaimRec, NEW b \in ClaimRec, a.name # b.name
  PROVE  isEarlierDeadline(a, b, in) <=> ~isEarlierDeadline(b, a, in)
  <1> DEFINE da == deadlineOf(a, in)
             db == deadlineOf(b, in)
  <1>1. /\ a.createdAt \in Nat /\ b.createdAt \in Nat /\ a.name \in Nat /\ b.name \in Nat
        /\ a.expireAfter \in Nat \cup {Unset} /\ b.expireAfter \in Nat \cup {Unset}
    BY DEF ClaimRec
  <1>2. da \in Nat \cup {Unset} /\ db \in Nat \cup {Unset}
    BY <1>1 DEF deadlineOf
  <1>3. olderThan(a, b) <=> ~olderThan(b, a)
    BY <1>1 DEF olderThan
  <1> HIDE DEF da, db
  <1>4. /\ isEarlierDeadline(a, b, in)
             <=> IF (da # Unset) # (db # Unset) THEN da # Unset
                 ELSE IF da # db THEN da < db ELSE olderThan(a, b)
        /\ isEarlierDeadline(b, a, in)
             <=> IF (db # Unset) # (da # Unset) THEN db # Unset
                 ELSE IF db # da THEN db < da ELSE olderThan(b, a)
    BY DEF isEarlierDeadline, da, db
  <1>5. CASE da = db
    BY <1>3, <1>4, <1>5
  <1>6. CASE da # db
    BY <1>2, <1>4, <1>6 DEF Unset
  <1> QED  BY <1>5, <1>6

LEMMA EarlierTransitive ==
  ASSUME NEW in, NEW a \in ClaimRec, NEW b \in ClaimRec, NEW c \in ClaimRec,
         isEarlierDeadline(a, b, in), isEarlierDeadline(b, c, in)
  PROVE  isEarlierDeadline(a, c, in)
  <1> DEFINE da == deadlineOf(a, in)
             db == deadlineOf(b, in)
             dc == deadlineOf(c, in)
             less(x, y) == x # y /\ (y = Unset \/ (x # Unset /\ x < y))
  <1>1. \A x \in {a, b, c} : /\ x.createdAt \in Nat /\ x.name \in Nat
                             /\ x.expireAfter \in Nat \cup {Unset}
    BY DEF ClaimRec
  <1>2. /\ da \in Nat \cup {Unset} /\ db \in Nat \cup {Unset} /\ dc \in Nat \cup {Unset}
    BY <1>1 DEF deadlineOf
  <1>3. olderThan(a, b) /\ olderThan(b, c) => olderThan(a, c)
    BY <1>1 DEF olderThan
  <1>4. \A x, y \in {a, b, c} :
          isEarlierDeadline(x, y, in)
            <=> \/ less(deadlineOf(x, in), deadlineOf(y, in))
                \/ deadlineOf(x, in) = deadlineOf(y, in) /\ olderThan(x, y)
    <2> SUFFICES ASSUME NEW x \in {a, b, c}, NEW y \in {a, b, c}
                 PROVE  isEarlierDeadline(x, y, in)
                          <=> \/ less(deadlineOf(x, in), deadlineOf(y, in))
                              \/ deadlineOf(x, in) = deadlineOf(y, in) /\ olderThan(x, y)
      OBVIOUS
    <2> DEFINE dx == deadlineOf(x, in)
               dy == deadlineOf(y, in)
    <2>1. isEarlierDeadline(x, y, in)
            <=> IF (dx # Unset) # (dy # Unset) THEN dx # Unset
                ELSE IF dx # dy THEN dx < dy ELSE olderThan(x, y)
      BY DEF isEarlierDeadline
    <2>2. dx \in Nat \cup {Unset} /\ dy \in Nat \cup {Unset}
      BY <1>2
    <2> HIDE DEF dx, dy
    <2>3. isEarlierDeadline(x, y, in) <=> less(dx, dy) \/ (dx = dy /\ olderThan(x, y))
      <3>1. CASE dx = dy
        BY <2>1, <3>1
      <3>2. CASE dx # dy
        BY <2>1, <2>2, <3>2 DEF Unset
      <3> QED  BY <3>1, <3>2
    <2> QED  BY <2>3 DEF dx, dy
  <1>5. /\ less(da, db) \/ (da = db /\ olderThan(a, b))
        /\ less(db, dc) \/ (db = dc /\ olderThan(b, c))
    BY <1>4
  <1>6. less(da, dc) \/ (da = dc /\ olderThan(a, c))
    <2> HIDE DEF da, db, dc
    <2>1. less(da, db) /\ less(db, dc) => less(da, dc)
      BY <1>2 DEF Unset
    <2> HIDE DEF less
    <2> QED  BY <1>3, <1>5, <2>1
  <1> QED  BY <1>4, <1>6

\* The claim of s to rotate first.
IsFirst(cs, in, s, i) ==
    /\ i \in s /\ eligible(cs[i], in)
    /\ \A j \in s : eligible(cs[j], in) /\ j # i => isEarlierDeadline(cs[i], cs[j], in)

First(cs, in, s) == CHOOSE i : IsFirst(cs, in, s, i)

FirstOf(cs, in, s) ==
    IF \E i \in s : eligible(cs[i], in) THEN <<cs[First(cs, in, s)]>> ELSE <<>>

LEMMA MaxIn == ASSUME NEW n \in Nat, NEW s, s \subseteq 1..n, s # {} PROVE Max(s) \in s
  <1> DEFINE R == {n - x : x \in s}
  <1>1. \A x \in s : n - x \in Nat
    OBVIOUS
  <1>2. R \subseteq Nat /\ R # {}
    BY <1>1
  <1>3. PICK m \in R : \A k \in R : m <= k
    <2> HIDE DEF R
    <2> QED  BY <1>2, LeastNat
  <1>4. PICK x \in s : m = n - x
    BY <1>3
  <1>5. ASSUME NEW y \in s PROVE x >= y
    <2>1. n - x <= n - y
      BY <1>3, <1>4
    <2> QED  BY <2>1
  <1> QED  BY <1>5 DEF Max

\* The subsets of a finite set are well founded.
LEMMA LeastPlaces ==
  ASSUME NEW D, IsFiniteSet(D), NEW B, B \subseteq SUBSET D, B # {}
  PROVE  \E T \in B : \A s \in B : ~(s \subseteq T /\ s # T)
  <1>1. IsWellFoundedOn(StrictSubsetOrdering(D), FiniteSubsetsOf(D))
    BY FS_StrictSubsetOrderingWellFounded
  <1>2. B \subseteq FiniteSubsetsOf(D)
    BY FS_Subset DEF FiniteSubsetsOf
  <1>3. \E T \in B : \A s \in B : <<s, T>> \notin StrictSubsetOrdering(D)
    BY <1>1, <1>2, WFMin
  <1> QED  BY <1>3 DEF StrictSubsetOrdering

\* One more claim leaves the first one first, or is it.
LEMMA OneMore ==
  ASSUME NEW in, NEW n \in Nat, NEW cs, IsView(cs, n),
         NEW s, s \subseteq 1..n, NEW m \in s, eligible(cs[m], in),
         NEW i, IsFirst(cs, in, s \ {m}, i)
  PROVE  IsFirst(cs, in, s, IF isEarlierDeadline(cs[m], cs[i], in) THEN m ELSE i)
  <1>1. /\ i \in s /\ i # m /\ eligible(cs[i], in)
        /\ \A j \in s : eligible(cs[j], in) /\ j # i /\ j # m
                          => isEarlierDeadline(cs[i], cs[j], in)
    BY DEF IsFirst
  <1>2. cs[m].name # cs[i].name /\ \A j \in s : cs[j] \in ClaimRec
    BY <1>1 DEF IsView
  <1>3. CASE isEarlierDeadline(cs[m], cs[i], in)
    <2>1. \A j \in s : eligible(cs[j], in) /\ j # m => isEarlierDeadline(cs[m], cs[j], in)
      BY <1>1, <1>2, <1>3, EarlierTransitive
    <2> QED  BY <1>3, <2>1 DEF IsFirst
  <1>4. CASE ~isEarlierDeadline(cs[m], cs[i], in)
    <2>1. isEarlierDeadline(cs[i], cs[m], in)
      BY <1>1, <1>2, <1>4, EarlierOrder
    <2> QED  BY <1>1, <1>4, <2>1 DEF IsFirst
  <1> QED  BY <1>3, <1>4

LEMMA FirstExists ==
  ASSUME NEW in, NEW n \in Nat, NEW cs, IsView(cs, n), NEW s0, s0 \subseteq 1..n,
         \E i \in s0 : eligible(cs[i], in)
  PROVE  IsFirst(cs, in, s0, First(cs, in, s0))
  <1> DEFINE B == {s \in SUBSET (1..n) : /\ \E i \in s : eligible(cs[i], in)
                                         /\ ~\E i : IsFirst(cs, in, s, i)}
  <1> SUFFICES ASSUME B # {} PROVE FALSE
    BY DEF First
  <1>1. PICK T \in B : \A t \in B : ~(t \subseteq T /\ t # T)
    <2> DEFINE D == 1..n
    <2>1. B \subseteq SUBSET D /\ IsFiniteSet(D)
      BY FS_Interval
    <2> HIDE DEF B, D
    <2> QED  BY <2>1, LeastPlaces
  <1>2. PICK m \in T : eligible(cs[m], in)
    OBVIOUS
  <1>3. ~\E i \in T \ {m} : eligible(cs[i], in)
    <2> SUFFICES ASSUME \E i \in T \ {m} : eligible(cs[i], in) PROVE FALSE
      OBVIOUS
    <2>0. T \ {m} \in SUBSET (1..n) /\ T \ {m} \subseteq T /\ T \ {m} # T
      BY <1>2
    <2>1. T \ {m} \notin B
      BY <1>1, <2>0
    <2>2. \E i : IsFirst(cs, in, T \ {m}, i)
      BY <2>0, <2>1
    <2> QED  BY <1>1, <1>2, <2>2, OneMore
  <1>4. IsFirst(cs, in, T, m)
    BY <1>2, <1>3 DEF IsFirst
  <1> QED  BY <1>4

LEMMA FirstUnique ==
  ASSUME NEW in, NEW n \in Nat, NEW cs, IsView(cs, n), NEW s, s \subseteq 1..n,
         NEW i, NEW j, IsFirst(cs, in, s, i), IsFirst(cs, in, s, j)
  PROVE  i = j
  <1> SUFFICES ASSUME i # j PROVE FALSE
    OBVIOUS
  <1>1. /\ isEarlierDeadline(cs[i], cs[j], in) /\ isEarlierDeadline(cs[j], cs[i], in)
        /\ i \in s /\ j \in s
    BY DEF IsFirst
  <1>2. cs[i] \in ClaimRec /\ cs[j] \in ClaimRec /\ cs[i].name # cs[j].name
    BY <1>1 DEF IsView
  <1> QED  BY <1>1, <1>2, EarlierOrder

\* The loop, as the fold defines it.
better(best, c, in) ==
    IF eligible(c, in) /\ (best = <<>> \/ isEarlierDeadline(c, best[1], in))
    THEN <<c>> ELSE best

IsLoop(cs, in, f) ==
    f = [s \in SUBSET (DOMAIN cs) |->
           IF s = {} THEN <<>> ELSE better(f[s \ {Max(s)}], cs[Max(s)], in)]

LEMMA LoopIs ==
  ASSUME NEW cs, NEW in
  PROVE  PickEarliestDeadlineEligible(cs, in) = (CHOOSE f : IsLoop(cs, in, f))[DOMAIN cs]
  BY DEF PickEarliestDeadlineEligible, FoldLeft, MapThenFoldSet, IsLoop, better

LEMMA LoopStep ==
  ASSUME NEW in, NEW n \in Nat, NEW cs, IsView(cs, n), NEW s, s \subseteq 1..n, NEW m \in s
  PROVE  FirstOf(cs, in, s) = better(FirstOf(cs, in, s \ {m}), cs[m], in)
  <1> DEFINE r == s \ {m}
  <1>1. r \subseteq 1..n
    OBVIOUS
  <1>2. CASE ~eligible(cs[m], in)
    <2>1. \A i : IsFirst(cs, in, s, i) <=> IsFirst(cs, in, r, i)
      BY <1>2 DEF IsFirst
    <2>2. (\E i \in s : eligible(cs[i], in)) <=> (\E i \in r : eligible(cs[i], in))
      BY <1>2
    <2>3. CASE \E i \in r : eligible(cs[i], in)
      <3>1. IsFirst(cs, in, s, First(cs, in, s)) /\ IsFirst(cs, in, r, First(cs, in, r))
        BY <1>1, <2>2, <2>3, FirstExists
      <3> HIDE DEF r
      <3>2. IsFirst(cs, in, s, First(cs, in, r))
        BY <2>1, <3>1
      <3>3. First(cs, in, s) = First(cs, in, r)
        BY <3>1, <3>2, FirstUnique
      <3> QED  BY <1>2, <2>2, <2>3, <3>3 DEF FirstOf, better, r
    <2>4. CASE ~\E i \in r : eligible(cs[i], in)
      BY <1>2, <2>2, <2>4 DEF FirstOf, better
    <2> QED  BY <2>3, <2>4
  <1>3. CASE eligible(cs[m], in) /\ ~\E i \in r : eligible(cs[i], in)
    <2>1. IsFirst(cs, in, s, m)
      BY <1>3 DEF IsFirst
    <2>2. IsFirst(cs, in, s, First(cs, in, s))
      BY <1>3, FirstExists
    <2>3. First(cs, in, s) = m
      BY <2>1, <2>2, FirstUnique
    <2> QED  BY <1>3, <2>3 DEF FirstOf, better
  <1>4. CASE eligible(cs[m], in) /\ \E i \in r : eligible(cs[i], in)
    <2> DEFINE i == First(cs, in, r)
               k == IF isEarlierDeadline(cs[m], cs[i], in) THEN m ELSE i
    <2>1. IsFirst(cs, in, r, i)
      BY <1>1, <1>4, FirstExists
    <2> HIDE DEF i
    <2>2. IsFirst(cs, in, s, k)
      BY <1>4, <2>1, OneMore
    <2>3. IsFirst(cs, in, s, First(cs, in, s))
      BY <1>4, FirstExists
    <2>4. First(cs, in, s) = k
      <3> HIDE DEF k
      <3> QED  BY <2>2, <2>3, FirstUnique
    <2>5. FirstOf(cs, in, s) = <<cs[k]>> /\ FirstOf(cs, in, r) = <<cs[i]>>
      BY <1>4, <2>4 DEF FirstOf, i
    <2>6. <<cs[i]>> # <<>> /\ <<cs[i]>>[1] = cs[i]
      OBVIOUS
    <2> QED  BY <1>4, <2>5, <2>6 DEF better
  <1> QED  BY <1>2, <1>3, <1>4

\* What the loop leaves in its hand is the first of the eligible claims.
LEMMA PickIs ==
  ASSUME NEW in, NEW n \in Nat, NEW cs, IsView(cs, n)
  PROVE  PickEarliestDeadlineEligible(cs, in) = FirstOf(cs, in, 1..n)
  <1> DEFINE D == 1..n
             g == [s \in SUBSET D |-> FirstOf(cs, in, s)]
             f == CHOOSE h : IsLoop(cs, in, h)
  <1>0. \A s : s \subseteq 1..n =>
          \A m \in s : FirstOf(cs, in, s) = better(FirstOf(cs, in, s \ {m}), cs[m], in)
    BY LoopStep
  <1>1. DOMAIN cs = D
    BY DEF IsView
  <1>2. \A s \in SUBSET D : s # {} => Max(s) \in s
    BY MaxIn
  <1>3. g = [s \in SUBSET D |-> IF s = {} THEN <<>>
               ELSE better(g[s \ {Max(s)}], cs[Max(s)], in)]
    <2>1. ASSUME NEW s \in SUBSET D
          PROVE  FirstOf(cs, in, s) = IF s = {} THEN <<>>
                   ELSE better(FirstOf(cs, in, s \ {Max(s)}), cs[Max(s)], in)
      <3>1. CASE s = {}
        BY <3>1 DEF FirstOf
      <3>2. CASE s # {}
        <4> DEFINE m == Max(s)
        <4>1. m \in s /\ s \subseteq 1..n
          BY <1>2, <3>2
        <4> HIDE DEF m, g, f, D
        <4>2. FirstOf(cs, in, s) = better(FirstOf(cs, in, s \ {m}), cs[m], in)
          BY <1>0, <4>1
        <4> QED  BY <3>2, <4>2 DEF m
      <3> QED  BY <3>1, <3>2
    <2>2. \A s \in SUBSET D : g[s] = FirstOf(cs, in, s)
                              /\ g[s \ {Max(s)}] = FirstOf(cs, in, s \ {Max(s)})
      OBVIOUS
    <2> HIDE DEF D
    <2> QED  BY <2>1, <2>2
  <1>4. IsLoop(cs, in, g)
    <2> HIDE DEF g, D
    <2> QED  BY <1>1, <1>3 DEF IsLoop
  <1>5. IsLoop(cs, in, f)
    <2> HIDE DEF g
    <2> QED  BY <1>4
  <1> HIDE DEF f
  <1>6. \A s \in SUBSET D : f[s] = IF s = {} THEN <<>>
                              ELSE better(f[s \ {Max(s)}], cs[Max(s)], in)
    BY <1>1, <1>5 DEF IsLoop
  <1>7. \A s \in SUBSET D : g[s] = IF s = {} THEN <<>>
                              ELSE better(g[s \ {Max(s)}], cs[Max(s)], in)
    <2> HIDE DEF g
    <2> QED  BY <1>1, <1>4 DEF IsLoop
  <1>8. f[D] = g[D]
    <2> DEFINE B == {s \in SUBSET D : f[s] # g[s]}
    <2> SUFFICES ASSUME B # {} PROVE FALSE
      <3> HIDE DEF g
      <3> QED  OBVIOUS
    <2>1. PICK s \in B : \A t \in B : ~(t \subseteq s /\ t # s)
      <3>1. B \subseteq SUBSET D /\ IsFiniteSet(D)
        BY FS_Interval
      <3> HIDE DEF B, D
      <3> QED  BY <3>1, LeastPlaces
    <2> HIDE DEF g
    <2>2. s # {} => f[s \ {Max(s)}] = g[s \ {Max(s)}]
      BY <1>2, <2>1
    <2> QED  BY <1>6, <1>7, <2>1, <2>2
  <1>9. g[D] = FirstOf(cs, in, D)
    OBVIOUS
  <1>10. PickEarliestDeadlineEligible(cs, in) = f[D]
    BY <1>1, LoopIs DEF f
  <1> QED
    <2> HIDE DEF g
    <2> QED  BY <1>8, <1>9, <1>10

-----------------------------------------------------------------------------
(***************************************************************************)
(* The census: the sum over its buckets, by the same argument.             *)
(***************************************************************************)

LEMMA Filed ==
  ASSUME NEW c \in ClaimRec, NEW in
  PROVE  /\ bucket(c, in) \in Buckets
         /\ bucket(c, in) = "Eligible" <=> eligible(c, in)
  <1>1. c.deleting \in BOOLEAN /\ c.ready \in BOOLEAN
    BY DEF ClaimRec
  <1>2. CASE c.name \in in.excluded
    <2>1. bucket(c, in) = "OptedOut"
      BY <1>2 DEF bucket
    <2> QED  BY <1>2, <2>1 DEF Buckets, eligible
  <1>3. CASE c.name \notin in.excluded /\ c.deleting
    <2>1. bucket(c, in) = "Deleting"
      BY <1>3 DEF bucket
    <2> QED  BY <1>3, <2>1 DEF Buckets, eligible
  <1>4. CASE c.name \notin in.excluded /\ ~c.deleting /\ ~c.ready
    <2>1. bucket(c, in) = "NotReady"
      BY <1>4 DEF bucket
    <2> QED  BY <1>4, <2>1 DEF Buckets, eligible
  <1>5. CASE c.name \notin in.excluded /\ ~c.deleting /\ c.ready
    <2> DEFINE held == CASE c.state = "expired" -> "Terminal"
                         [] c.state = "failed"  -> "InBackoff"
                         [] OTHER               -> "InFlight"
    <2>1. bucket(c, in) = IF ~stateAllows(c, in) THEN held
                          ELSE IF ~triggered(c, in) THEN "NotTriggered" ELSE "Eligible"
      BY <1>1, <1>5 DEF bucket
    <2>2. held \in {"Terminal", "InBackoff", "InFlight"}
      OBVIOUS
    <2> HIDE DEF held
    <2>3. held \in Buckets /\ held # "Eligible"
      BY <2>2 DEF Buckets
    <2> QED  BY <1>5, <2>1, <2>3 DEF Buckets, eligible
  <1> QED  BY <1>1, <1>2, <1>3, <1>4, <1>5

FiledIn(cs, in, s) == {i \in DOMAIN cs : bucket(cs[i], in) \in s}

Some(s) == CHOOSE x \in s : TRUE

IsTally(cs, in, f) ==
    f = [s \in SUBSET Buckets |->
           IF s = {} THEN 0
           ELSE TakeCensus(cs, in).tally[Some(s)] + f[s \ {Some(s)}]]

SumOfTally(cs, in) == MapThenSumSet(LAMBDA b : TakeCensus(cs, in).tally[b], Buckets)

LEMMA TallyIs ==
  ASSUME NEW cs, NEW in
  PROVE  SumOfTally(cs, in) = (CHOOSE f : IsTally(cs, in, f))[Buckets]
  BY DEF SumOfTally, MapThenSumSet, MapThenFoldSet, IsTally, Some

LEMMA TallyStep ==
  ASSUME NEW in, NEW cs, IsFiniteSet(DOMAIN cs), NEW s, s \subseteq Buckets, NEW b \in s
  PROVE  Cardinality(FiledIn(cs, in, s)) =
           TakeCensus(cs, in).tally[b] + Cardinality(FiledIn(cs, in, s \ {b}))
  <1> DEFINE S == FiledIn(cs, in, s)
             R == FiledIn(cs, in, s \ {b})
             Q == {i \in DOMAIN cs : bucket(cs[i], in) = b}
  <1>1. S = Q \cup R /\ Q \cap R = {}
    BY DEF FiledIn
  <1>2. IsFiniteSet(Q) /\ IsFiniteSet(R)
    <2>1. Q \subseteq DOMAIN cs /\ R \subseteq DOMAIN cs
      BY DEF FiledIn
    <2> HIDE DEF Q, R
    <2> QED  BY <2>1, FS_Subset
  <1>3. TakeCensus(cs, in).tally[b] = Cardinality(Q)
    BY DEF TakeCensus
  <1> HIDE DEF S, Q, R
  <1>4. /\ Cardinality(S) = Cardinality(Q) + Cardinality(R) - Cardinality(Q \cap R)
        /\ Cardinality(Q) \in Nat /\ Cardinality(R) \in Nat /\ Cardinality({}) = 0
    BY <1>1, <1>2, FS_Union, FS_CardinalityType, FS_EmptySet
  <1>5. Cardinality(S) = Cardinality(Q) + Cardinality(R)
    <2>1. Cardinality(Q \cap R) = 0
      BY <1>1, <1>4
    <2> QED  BY <1>4, <2>1
  <1> QED  BY <1>3, <1>5 DEF S, R

LEMMA BucketsFinite == IsFiniteSet(Buckets)
  <1> DEFINE A == {"OptedOut", "Deleting", "NotReady", "Terminal"}
             B == {"InBackoff", "InFlight", "NotTriggered", "Eligible"}
  <1>1. ASSUME NEW a, NEW b, NEW c, NEW d PROVE IsFiniteSet({a, b, c, d})
    <2>1. IsFiniteSet({} \cup {a})
      BY FS_EmptySet, FS_AddElement
    <2>2. IsFiniteSet(({} \cup {a}) \cup {b})
      BY <2>1, FS_AddElement
    <2>3. IsFiniteSet((({} \cup {a}) \cup {b}) \cup {c})
      BY <2>2, FS_AddElement
    <2>4. IsFiniteSet(((({} \cup {a}) \cup {b}) \cup {c}) \cup {d})
      BY <2>3, FS_AddElement
    <2>5. {a, b, c, d} = ((({} \cup {a}) \cup {b}) \cup {c}) \cup {d}
      OBVIOUS
    <2> QED  BY <2>4, <2>5
  <1>2. IsFiniteSet(A) /\ IsFiniteSet(B)
    BY <1>1
  <1>3. Buckets = A \cup B
    BY DEF Buckets
  <1> HIDE DEF A, B
  <1> QED  BY <1>2, <1>3, FS_Union

\* Every claim is filed under one bucket.
LEMMA TallyTotal ==
  ASSUME NEW in, NEW n \in Nat, NEW cs, IsView(cs, n) PROVE SumOfTally(cs, in) = n
  <1> DEFINE g == [s \in SUBSET Buckets |-> Cardinality(FiledIn(cs, in, s))]
             f == CHOOSE h : IsTally(cs, in, h)
             w(b) == TakeCensus(cs, in).tally[b]
  <1>1. DOMAIN cs = 1..n
    BY DEF IsView
  <1>0. IsFiniteSet(DOMAIN cs)
    BY <1>1, FS_Interval
  <1>2. \A s : s # {} => Some(s) \in s
    BY DEF Some
  <1>3. g = [s \in SUBSET Buckets |-> IF s = {} THEN 0
               ELSE w(Some(s)) + g[s \ {Some(s)}]]
    <2>1. ASSUME NEW s \in SUBSET Buckets
          PROVE  Cardinality(FiledIn(cs, in, s)) = IF s = {} THEN 0
                   ELSE w(Some(s)) + Cardinality(FiledIn(cs, in, s \ {Some(s)}))
      <3>1. CASE s = {}
        <4>1. FiledIn(cs, in, s) = {}
          BY <3>1 DEF FiledIn
        <4> QED  BY <3>1, <4>1, FS_EmptySet
      <3>2. CASE s # {}
        <4> DEFINE b == Some(s)
        <4>1. b \in s
          BY <1>2, <3>2
        <4> HIDE DEF b
        <4>2. Cardinality(FiledIn(cs, in, s)) =
                TakeCensus(cs, in).tally[b] + Cardinality(FiledIn(cs, in, s \ {b}))
          <5>1. s \subseteq Buckets
            OBVIOUS
          <5> HIDE DEF w
          <5> QED  BY <1>0, <4>1, <5>1, TallyStep
        <4> QED  BY <3>2, <4>2 DEF b
      <3> QED  BY <3>1, <3>2
    <2>2. \A s \in SUBSET Buckets :
            /\ g[s] = Cardinality(FiledIn(cs, in, s))
            /\ g[s \ {Some(s)}] = Cardinality(FiledIn(cs, in, s \ {Some(s)}))
      OBVIOUS
    <2> HIDE DEF w
    <2> QED  BY <2>1, <2>2
  <1>4. IsTally(cs, in, g)
    <2> HIDE DEF g
    <2> QED  BY <1>3 DEF IsTally
  <1>5. IsTally(cs, in, f)
    <2> HIDE DEF g
    <2> QED  BY <1>4
  <1> HIDE DEF f
  <1>6. \A s \in SUBSET Buckets :
          f[s] = IF s = {} THEN 0 ELSE w(Some(s)) + f[s \ {Some(s)}]
    BY <1>5 DEF IsTally
  <1>7. \A s \in SUBSET Buckets :
          g[s] = IF s = {} THEN 0 ELSE w(Some(s)) + g[s \ {Some(s)}]
    <2> HIDE DEF g
    <2> QED  BY <1>4 DEF IsTally
  <1> HIDE DEF w
  <1>8. f[Buckets] = g[Buckets]
    <2> DEFINE B == {s \in SUBSET Buckets : f[s] # g[s]}
    <2> SUFFICES ASSUME B # {} PROVE FALSE
      <3> HIDE DEF g
      <3> QED  OBVIOUS
    <2>1. PICK s \in B : \A t \in B : ~(t \subseteq s /\ t # s)
      <3>1. IsFiniteSet(Buckets)
        BY BucketsFinite
      <3>2. B \subseteq SUBSET Buckets
        OBVIOUS
      <3> HIDE DEF B
      <3> QED  BY <3>1, <3>2, LeastPlaces
    <2> HIDE DEF g
    <2>2. s # {} => f[s \ {Some(s)}] = g[s \ {Some(s)}]
      BY <1>2, <2>1
    <2> QED  BY <1>6, <1>7, <2>1, <2>2
  <1>9. g[Buckets] = Cardinality(FiledIn(cs, in, Buckets))
    OBVIOUS
  <1>10. FiledIn(cs, in, Buckets) = 1..n
    BY <1>1, Filed DEF FiledIn, IsView
  <1>11. Cardinality(1..n) = n
    BY FS_Interval
  <1>12. SumOfTally(cs, in) = f[Buckets]
    BY TallyIs DEF f
  <1> HIDE DEF g
  <1> QED  BY <1>8, <1>9, <1>10, <1>11, <1>12

LEMMA Reversed ==
  ASSUME NEW in, NEW n \in Nat, NEW cs, IsView(cs, n)
  PROVE  PickEarliestDeadlineEligible(Reverse(cs), in) = PickEarliestDeadlineEligible(cs, in)
  <1> DEFINE rs == Reverse(cs)
             D == 1..n
  <1>1. cs \in [D -> ClaimRec] /\ Len(cs) = n
    <2>1. cs \in [1..n -> ClaimRec]
      BY DEF IsView
    <2>2. cs \in Seq(ClaimRec)
      BY <2>1
    <2>3. Len(cs) = n
      BY <2>1, <2>2
    <2> QED  BY <2>1, <2>3
  <1>2. rs = [i \in 1..n |-> cs[(n - i) + 1]]
    BY <1>1 DEF Reverse
  <1>3. \A i \in 1..n : (n - i) + 1 \in 1..n /\ rs[i] = cs[(n - i) + 1]
                        /\ rs[(n - i) + 1] = cs[i]
    <2>1. \A i \in 1..n : (n - i) + 1 \in 1..n /\ (n - ((n - i) + 1)) + 1 = i
      OBVIOUS
    <2> QED  BY <1>2, <2>1
  <1>4. rs \in [1..n -> ClaimRec]
    <2> HIDE DEF rs
    <2> QED  BY <1>1, <1>2, <1>3
  <1> HIDE DEF rs
  <1>5. \A i, j \in 1..n : rs[i].name = rs[j].name => i = j
    <2> SUFFICES ASSUME NEW i \in 1..n, NEW j \in 1..n, rs[i].name = rs[j].name
                 PROVE  i = j
      OBVIOUS
    <2>1. (n - i) + 1 = (n - j) + 1
      BY <1>3 DEF IsView
    <2> QED  BY <2>1
  <1>6. IsView(rs, n)
    BY <1>4, <1>5 DEF IsView
  <1>7. (\E i \in D : eligible(cs[i], in)) <=> (\E i \in D : eligible(rs[i], in))
    BY <1>3
  <1>8. CASE \E i \in D : eligible(cs[i], in)
    <2> DEFINE i == First(cs, in, D)
               k == (n - i) + 1
    <2>1. IsFirst(cs, in, D, i) /\ IsFirst(rs, in, D, First(rs, in, D))
      BY <1>6, <1>7, <1>8, FirstExists
    <2> HIDE DEF i
    <2>2. i \in 1..n /\ k \in 1..n /\ rs[k] = cs[i] /\ eligible(cs[i], in)
      BY <1>3, <2>1 DEF IsFirst
    <2> HIDE DEF k
    <2>3. ASSUME NEW j \in D, eligible(rs[j], in), j # k
          PROVE  isEarlierDeadline(rs[k], rs[j], in)
      <3>1. (n - j) + 1 \in 1..n /\ (n - j) + 1 # i /\ rs[j] = cs[(n - j) + 1]
        BY <1>3, <2>2, <2>3 DEF k
      <3> QED  BY <2>1, <2>2, <2>3, <3>1 DEF IsFirst
    <2>4. IsFirst(rs, in, D, k)
      BY <2>2, <2>3 DEF IsFirst
    <2>5. First(rs, in, D) = k
      BY <1>6, <2>1, <2>4, FirstUnique
    <2>6. FirstOf(rs, in, D) = FirstOf(cs, in, D)
      BY <1>7, <1>8, <2>2, <2>5 DEF FirstOf, i
    <2> QED  BY <1>6, <2>6, PickIs DEF rs
  <1>9. CASE ~\E i \in D : eligible(cs[i], in)
    <2>1. FirstOf(rs, in, D) = FirstOf(cs, in, D)
      BY <1>7, <1>9 DEF FirstOf
    <2> QED  BY <1>6, <2>1, PickIs DEF rs
  <1> QED  BY <1>8, <1>9

\* The pick does not depend on the order of the List, is empty exactly when the census
\* counts nothing eligible, and passes over no claim whose deadline comes first; the
\* census files every claim once (PickEarliestDeadlineEligible, TakeCensus).
THEOREM PickEarliest == Spec => []PickIsEarliest
  <1>1. CalendarInv => PickIsEarliest
    <2> SUFFICES ASSUME CalendarInv PROVE PickIsEarliest
      OBVIOUS
    <2> DEFINE in == inputs
               pick == PickEarliestDeadlineEligible(claims, in)
               census == TakeCensus(claims, in)
    <2>1. PICK n \in Nat : claims \in [1..n -> ClaimRec]
      BY DEF CalendarInv, ClaimsInv
    <2>2. DOMAIN claims = 1..n /\ IsView(claims, n)
      BY <2>1 DEF CalendarInv, ClaimsInv, IsView
    <2>3. Len(claims) = n
      BY <2>1
    <2>4. in.override = pool.override
      BY DEF inputs, selInputs
    <2> HIDE DEF in
    <2>5. pick = FirstOf(claims, in, 1..n)
      BY <2>2, PickIs
    <2>6. pick = PickEarliestDeadlineEligible(Reverse(claims), in)
      BY <2>2, Reversed
    <2>7. {i \in DOMAIN claims : bucket(claims[i], in) = "Eligible"}
            = {i \in DOMAIN claims : eligible(claims[i], in)}
      BY <2>1, Filed
    <2>8. census.tally["Eligible"] =
            Cardinality({i \in DOMAIN claims : eligible(claims[i], in)})
      BY <2>7 DEF TakeCensus, Buckets
    <2>9. census.tally["Eligible"] = CountEligible(claims, in)
      BY <2>8 DEF CountEligible
    <2>10. (pick = <<>>) <=> ~\E i \in 1..n : eligible(claims[i], in)
      <3>1. <<claims[First(claims, in, 1..n)]>> # <<>>
        OBVIOUS
      <3> QED  BY <2>5, <3>1 DEF FirstOf
    <2>11. (census.tally["Eligible"] = 0) <=> ~\E i \in 1..n : eligible(claims[i], in)
      <3> DEFINE E == {i \in DOMAIN claims : eligible(claims[i], in)}
      <3>1. IsFiniteSet(1..n) /\ E \subseteq 1..n
        BY <2>2, FS_Interval
      <3>2. E = {} <=> ~\E i \in 1..n : eligible(claims[i], in)
        BY <2>2
      <3> HIDE DEF E
      <3>3. IsFiniteSet(E)
        BY <3>1, FS_Subset
      <3>4. Cardinality(E) = 0 <=> E = {}
        BY <3>3, FS_EmptySet
      <3> QED  BY <2>8, <3>2, <3>4 DEF E
    <2>12. SumOfTally(claims, in) = Len(claims)
      BY <2>2, <2>3, TallyTotal
    <2>13. ASSUME pool.override = Unset, NEW i \in DOMAIN claims, eligible(claims[i], in)
           PROVE  claims[i].createdAt + claims[i].expireAfter
                    >= pick[1].createdAt + pick[1].expireAfter
      <3> DEFINE k == First(claims, in, 1..n)
      <3>1. IsFirst(claims, in, 1..n, k)
        BY <2>2, <2>13, FirstExists
      <3>2. pick = <<claims[k]>>
        BY <2>2, <2>5, <2>13 DEF FirstOf
      <3> HIDE DEF k, pick
      <3>3. pick[1] = claims[k]
        BY <3>2
      <3>4. k \in 1..n /\ eligible(claims[k], in)
            /\ (i # k => isEarlierDeadline(claims[k], claims[i], in))
        BY <2>2, <2>13, <3>1 DEF IsFirst
      <3>5. claims[i].expireAfter # Unset /\ claims[k].expireAfter # Unset
        BY <2>4, <2>13, <3>4 DEF eligible, triggered
      <3>6. /\ claims[i].createdAt \in Nat /\ claims[i].expireAfter \in Nat
            /\ claims[k].createdAt \in Nat /\ claims[k].expireAfter \in Nat
        <4>1. claims[i] \in ClaimRec /\ claims[k] \in ClaimRec
          BY <2>1, <3>4
        <4> QED  BY <3>5, <4>1 DEF ClaimRec
      <3>7. /\ deadlineOf(claims[i], in) = claims[i].createdAt + claims[i].expireAfter
            /\ deadlineOf(claims[k], in) = claims[k].createdAt + claims[k].expireAfter
        BY <2>4, <2>13, <3>5 DEF deadlineOf
      <3>8. CASE i = k
        BY <3>3, <3>6, <3>8
      <3>9. CASE i # k
        <4> DEFINE di == claims[i].createdAt + claims[i].expireAfter
                   dk == claims[k].createdAt + claims[k].expireAfter
        <4>1. di \in Nat /\ dk \in Nat
          BY <3>6
        <4>2. isEarlierDeadline(claims[k], claims[i], in)
          BY <3>4, <3>9
        <4> HIDE DEF di, dk
        <4>3. dk = di \/ dk < di
          BY <3>7, <4>1, <4>2 DEF isEarlierDeadline, Unset, di, dk
        <4> QED  BY <3>3, <4>1, <4>3 DEF di, dk
      <3> QED  BY <3>8, <3>9
    <2> HIDE DEF pick, census
    <2>14. /\ pick = PickEarliestDeadlineEligible(Reverse(claims), in)
           /\ (pick = <<>>) = (census.tally["Eligible"] = 0)
           /\ census.tally["Eligible"] = CountEligible(claims, in)
           /\ pool.override = Unset =>
                \A i \in {j \in DOMAIN claims : eligible(claims[j], in)} :
                  claims[i].createdAt + claims[i].expireAfter
                    >= pick[1].createdAt + pick[1].expireAfter
      BY <2>6, <2>9, <2>10, <2>11, <2>13
    <2> QED  BY <2>12, <2>14 DEF PickIsEarliest, SumOfTally, pick, census, in
  <1> QED  BY <1>1, CalendarInvHolds, PTL

-----------------------------------------------------------------------------
(***************************************************************************)
(* The canonical week.  An instant of the week is open exactly when one of *)
(* the spans holds it, in any zone, on the minute or off it.               *)
(***************************************************************************)

Span == {x \in Nat \X Nat : x[1] < x[2] /\ x[2] <= week}

Within(x, t) == x[1] <= t /\ t < x[2]

LEMMA InWeekly ==
  ASSUME NEW entries, entries \subseteq Entry, NEW t \in Int, NEW j \in Int
  PROVE  InWindow(entries, t + week * j) <=> InWindow(entries, t)
  <1>1. ASSUME NEW e \in entries PROVE InEntry(e, t + week * j) <=> InEntry(e, t)
    <2> DEFINE local == t + e.offset
               q == local \div dayTicks
    <2>1. local \in Int /\ Days * j \in Int
      BY Sizes DEF Entry
    <2>2. (t + week * j) + e.offset = local + dayTicks * (Days * j)
      <3>1. week * j = dayTicks * (Days * j)
        BY Sizes DEF week
      <3>2. week * j \in Int /\ e.offset \in Int
        BY Sizes DEF Entry
      <3> QED  BY <3>1, <3>2
    <2> HIDE DEF local
    <2>3. /\ (local + dayTicks * (Days * j)) \div dayTicks = q + Days * j
          /\ (local + dayTicks * (Days * j)) % dayTicks = local % dayTicks
      BY <2>1, Sizes, DivShift
    <2>4. q \in Int
      BY <2>1, Sizes, DivMod
    <2>5. (q + Days * j) % Days = q % Days
      <3> HIDE DEF q
      <3> QED  BY <2>4, Sizes, DivShift
    <2> QED  BY <2>2, <2>3, <2>5 DEF InEntry, local
  <1> QED  BY <1>1 DEF InWindow

\* Where a local instant of the week lies: in a day of the entry, between its minutes.
LEMMA InDay ==
  ASSUME NEW e \in Entry, NEW d \in e.days, NEW local \in Int
  PROVE  LET base == d * dayTicks + e.start * Step
             w == local % week
         IN  /\ base \in Nat /\ base + (e.end - e.start) * Step <= week
             /\ (e.end - e.start) * Step \in 1..week
             /\ (local \div dayTicks) % Days = d
                  /\ e.start <= (local % dayTicks) \div Step
                  /\ (local % dayTicks) \div Step < e.end
                <=> base <= w /\ w < base + (e.end - e.start) * Step
  <1> DEFINE base == d * dayTicks + e.start * Step
             lo == e.start * Step
             hi == e.end * Step
             w == local % week
             k == local \div week
             q == local \div dayTicks
             r == local % dayTicks
             D == q % Days
             z == q \div Days
             mins == r \div Step
             sec == r % Step
  <1>1. /\ d \in 0..(Days - 1) /\ e.start \in 0..(DayMinutes - 1) /\ e.end \in 1..DayMinutes
        /\ e.start < e.end
    BY DEF Entry
  <1>2. /\ lo \in Nat /\ hi \in Nat /\ lo + Step <= hi /\ hi <= dayTicks
        /\ (e.end - e.start) * Step = hi - lo
    <2>1. \A a, b \in Nat : a < b => a * Step + Step <= b * Step
      BY Sizes, LessByOne
    <2>2. \A a, b \in Nat : a * Step \in Nat /\ (b - a) * Step = b * Step - a * Step
      BY Sizes
    <2>3. hi <= DayMinutes * Step
      <3>1. CASE e.end = DayMinutes
        BY <1>1, <3>1, <2>2, Sizes
      <3>2. CASE e.end < DayMinutes
        BY <1>1, <3>2, <2>1, <2>2, Sizes
      <3> QED  BY <1>1, <3>1, <3>2, Sizes
    <2>4. lo + Step <= hi
      BY <1>1, <2>1, Sizes
    <2>5. lo \in Nat /\ hi \in Nat /\ (e.end - e.start) * Step = hi - lo
      BY <1>1, <2>2, Sizes
    <2> QED  BY <2>3, <2>4, <2>5 DEF dayTicks
  <1>3. /\ d * dayTicks \in Nat /\ d * dayTicks + dayTicks <= week
    <2>1. dayTicks * d + dayTicks <= dayTicks * Days
      BY <1>1, Sizes, LessByOne
    <2>2. dayTicks * d = d * dayTicks /\ dayTicks * d \in Nat
      BY <1>1, Sizes
    <2>3. dayTicks * Days = week
      BY Sizes DEF week
    <2> QED  BY <2>1, <2>2, <2>3
  <1>4. /\ q \in Int /\ r \in 0..(dayTicks - 1) /\ local = dayTicks * q + r
    BY Sizes, DivMod
  <1>5. /\ z \in Int /\ D \in 0..(Days - 1) /\ q = Days * z + D
    <2> HIDE DEF q
    <2> QED  BY <1>4, Sizes, DivMod
  <1>6. /\ mins \in Int /\ sec \in 0..(Step - 1) /\ r = Step * mins + sec
    <2> HIDE DEF r
    <2> QED  BY <1>4, Sizes, DivMod
  <1> HIDE DEF q, r, z, D, mins, sec
  <1>7. w = dayTicks * D + r
    <2> DEFINE v == dayTicks * D + r
    <2>1. dayTicks * D + dayTicks <= dayTicks * Days /\ dayTicks * D \in Nat
      BY <1>5, Sizes, LessByOne
    <2>2. v \in 0..(week - 1)
      BY <1>4, <2>1, Sizes DEF week
    <2>3. local = week * z + v
      <3>1. dayTicks * (Days * z + D) = (Days * dayTicks) * z + dayTicks * D
        BY <1>5, Sizes
      <3> QED  BY <1>4, <1>5, <2>1, <3>1, Sizes DEF week
    <2> HIDE DEF v
    <2>4. local % week = v
      BY <1>5, <2>2, <2>3, Sizes, DivIs
    <2> QED  BY <2>4 DEF v
  <1> HIDE DEF w
  <1>8. e.start <= mins <=> lo <= r
    <2>1. e.start <= mins => e.start * Step <= mins * Step
      <3>1. CASE e.start < mins
        <4>1. Step * e.start + Step <= Step * mins
          BY <1>1, <1>6, <3>1, Sizes, LessByOne
        <4>2. /\ Step * e.start = e.start * Step /\ Step * mins = mins * Step
              /\ e.start * Step \in Int /\ mins * Step \in Int
          BY <1>1, <1>6, Sizes
        <4> HIDE DEF lo, hi
        <4> QED  BY <4>1, <4>2, Sizes
      <3>2. CASE ~(e.start < mins)
        <4>1. e.start <= mins => e.start = mins
          BY <1>1, <1>6, <3>2
        <4>2. mins * Step \in Int
          BY <1>6, Sizes
        <4> QED  BY <4>1, <4>2
      <3> QED  BY <3>1, <3>2
    <2>2. mins < e.start => mins * Step + Step <= e.start * Step
      <3>1. mins < e.start => Step * mins + Step <= Step * e.start
        BY <1>1, <1>6, Sizes, LessByOne
      <3> QED  BY <1>1, <1>6, <3>1, Sizes
    <2>3. mins * Step = Step * mins /\ Step * mins \in Int
      BY <1>6, Sizes
    <2> QED  BY <1>1, <1>2, <1>6, <2>1, <2>2, <2>3, Sizes
  <1>9. mins < e.end <=> r < hi
    <2>1. e.end <= mins => e.end * Step <= mins * Step
      <3>1. CASE e.end < mins
        <4>1. Step * e.end + Step <= Step * mins
          BY <1>1, <1>6, <3>1, Sizes, LessByOne
        <4>2. /\ Step * e.end = e.end * Step /\ Step * mins = mins * Step
              /\ e.end * Step \in Int /\ mins * Step \in Int
          BY <1>1, <1>6, Sizes
        <4> HIDE DEF lo, hi
        <4> QED  BY <4>1, <4>2, Sizes
      <3>2. CASE ~(e.end < mins)
        <4>1. e.end <= mins => e.end = mins
          BY <1>1, <1>6, <3>2
        <4>2. mins * Step \in Int
          BY <1>6, Sizes
        <4> QED  BY <4>1, <4>2
      <3> QED  BY <3>1, <3>2
    <2>2. mins < e.end => mins * Step + Step <= e.end * Step
      <3>1. mins < e.end => Step * mins + Step <= Step * e.end
        BY <1>1, <1>6, Sizes, LessByOne
      <3> QED  BY <1>1, <1>6, <3>1, Sizes
    <2>3. mins * Step = Step * mins /\ Step * mins \in Int
      BY <1>6, Sizes
    <2> QED  BY <1>1, <1>2, <1>6, <2>1, <2>2, <2>3, Sizes
  <1>10. base = dayTicks * d + lo /\ dayTicks * d \in Nat /\ dayTicks * D \in Nat
    BY <1>1, <1>3, <1>5, Sizes
  <1>11. /\ d < D => dayTicks * d + dayTicks <= dayTicks * D
         /\ D < d => dayTicks * D + dayTicks <= dayTicks * d
    BY <1>1, <1>5, Sizes, LessByOne
  <1>12. D = d /\ lo <= r /\ r < hi <=> base <= w /\ w < base + (hi - lo)
    <2> HIDE DEF base, lo, hi
    <2>1. CASE D = d
      BY <1>2, <1>4, <1>7, <1>10, <2>1, Sizes
    <2>2. CASE D # d
      BY <1>1, <1>2, <1>4, <1>5, <1>7, <1>10, <1>11, <2>2, Sizes
    <2> QED  BY <2>1, <2>2
  <1>13. /\ base \in Nat /\ base + (hi - lo) <= week /\ (hi - lo) \in 1..week
    <2> HIDE DEF lo, hi
    <2>1. d * dayTicks = dayTicks * d
      BY <1>1, Sizes
    <2> HIDE DEF base
    <2> QED  BY <1>2, <1>3, <1>10, <2>1, Sizes
  <1> QED  BY <1>2, <1>8, <1>9, <1>12, <1>13 DEF q, r, D, mins, w

\* An entry's day as spans of the week, cut in two where it runs past the week's end.
LEMMA SpansOfDay ==
  ASSUME NEW e \in Entry, NEW d \in e.days
  PROVE  /\ spansOf(e, d) \subseteq Span /\ spansOf(e, d) # {}
         /\ \A t \in 0..(week - 1) :
              (\E x \in spansOf(e, d) : Within(x, t))
                <=> /\ ((t + e.offset) \div dayTicks) % Days = d
                    /\ e.start <= ((t + e.offset) % dayTicks) \div Step
                    /\ ((t + e.offset) % dayTicks) \div Step < e.end
  <1> DEFINE base == d * dayTicks + e.start * Step
             len == (e.end - e.start) * Step
             st == (base - e.offset) % week
             j == (base - e.offset) \div week
             OpenOn(t) == /\ ((t + e.offset) \div dayTicks) % Days = d
                          /\ e.start <= ((t + e.offset) % dayTicks) \div Step
                          /\ ((t + e.offset) % dayTicks) \div Step < e.end
  <1>1. e.offset \in Int
    BY DEF Entry
  <1>2. base \in Nat /\ base + len <= week /\ len \in 1..week
    BY InDay, 0 \in Int
  <1>3. ASSUME NEW t \in Int
        PROVE  OpenOn(t) <=> base <= (t + e.offset) % week /\ (t + e.offset) % week < base + len
    <2> DEFINE local == t + e.offset
    <2>1. local \in Int
      BY <1>1
    <2> HIDE DEF local
    <2>2. (local \div dayTicks) % Days = d
                  /\ e.start <= (local % dayTicks) \div Step
                  /\ (local % dayTicks) \div Step < e.end
                <=> base <= local % week /\ local % week < base + len
      BY <2>1, InDay
    <2> QED  BY <2>2 DEF local
  <1>4. startOffset(e, d) = st
    <2>1. d * dayTicks \in Int /\ e.start * Step \in Int
      BY Sizes DEF Entry
    <2>2. d * dayTicks + e.start * Step - e.offset = base - e.offset
      BY <1>1, <2>1
    <2> QED  BY <2>2 DEF startOffset
  <1>5. spansOf(e, d) = IF st + len > week THEN {<<0, (st + len) - week>>, <<st, week>>}
                                           ELSE {<<st, st + len>>}
    BY <1>4 DEF spansOf
  <1> HIDE DEF OpenOn
  <1>6. st \in 0..(week - 1) /\ j \in Int /\ base - e.offset = week * j + st
    <2>1. base - e.offset \in Int
      BY <1>1, <1>2
    <2> HIDE DEF base
    <2> QED  BY <2>1, Sizes, DivMod
  <1> HIDE DEF base, len, st, j
  <1>7. spansOf(e, d) \subseteq Span /\ spansOf(e, d) # {}
    <2>1. CASE st + len > week
      <3>1. spansOf(e, d) = {<<0, (st + len) - week>>, <<st, week>>}
        BY <1>5, <2>1
      <3>2. <<0, (st + len) - week>> \in Span /\ <<st, week>> \in Span
        BY <1>2, <1>6, <2>1, Sizes DEF Span
      <3> QED  BY <3>1, <3>2
    <2>2. CASE ~(st + len > week)
      <3>1. spansOf(e, d) = {<<st, st + len>>}
        BY <1>5, <2>2
      <3>2. <<st, st + len>> \in Span
        BY <1>2, <1>6, <2>2, Sizes DEF Span
      <3> QED  BY <3>1, <3>2
    <2> QED  BY <2>1, <2>2
  <1>8. ASSUME NEW t \in 0..(week - 1)
        PROVE  (\E x \in spansOf(e, d) : Within(x, t)) <=> OpenOn(t)
    <2> DEFINE w == (t + e.offset) % week
               k == (t + e.offset) \div week
    <2>1. w \in 0..(week - 1) /\ k \in Int /\ t + e.offset = week * k + w
      <3>1. t + e.offset \in Int
        BY <1>1, Sizes
      <3> QED  BY <3>1, Sizes, DivMod
    <2>2. OpenOn(t) <=> base <= w /\ w < base + len
      BY <1>3
    <2> HIDE DEF w, k
    <2>3. t \in Int /\ w - base \in Int /\ t - st = week * (k + j) + (w - base)
      BY <1>1, <1>2, <1>6, <2>1, Sizes
    <2> DEFINE z == k + j
    <2>4. z \in Int
      BY <1>6, <2>1
    <2> HIDE DEF z
    <2>5. /\ z <= -2 => week * z <= -(week + week)
          /\ z >= 1 => week * z >= week
          /\ z = 0 => week * z = 0
          /\ z = -1 => week * z = -week
      BY <2>4, Sizes, LessByOne
    <2>6. (\E x \in spansOf(e, d) : Within(x, t))
            <=> (st <= t /\ t < st + len) \/ t + week < st + len
      <3>1. CASE st + len > week
        <4>1. spansOf(e, d) = {<<0, (st + len) - week>>, <<st, week>>}
          BY <1>5, <3>1
        <4>2. (\E x \in spansOf(e, d) : Within(x, t))
                <=> Within(<<0, (st + len) - week>>, t) \/ Within(<<st, week>>, t)
          BY <4>1
        <4> QED  BY <1>2, <1>6, <3>1, <4>2, Sizes DEF Within
      <3>2. CASE ~(st + len > week)
        <4>1. spansOf(e, d) = {<<st, st + len>>}
          BY <1>5, <3>2
        <4>2. (\E x \in spansOf(e, d) : Within(x, t)) <=> Within(<<st, st + len>>, t)
          BY <4>1
        <4> QED  BY <1>2, <1>6, <3>2, <4>2, Sizes DEF Within
      <3> QED  BY <3>1, <3>2
    <2>7. t - st = week * z + (w - base) /\ week * z \in Int
      BY <2>3, <2>4, Sizes DEF z
    <2>8. z \in {0, -1, 1} \/ z <= -2 \/ z >= 2
      BY <2>4
    <2> QED  BY <1>2, <1>6, <2>1, <2>2, <2>3, <2>4, <2>5, <2>6, <2>7, <2>8, Sizes
  <1> QED  BY <1>7, <1>8 DEF OpenOn

LEMMA SpansAre ==
  ASSUME NEW entries, entries \subseteq Entry
  PROVE  /\ spans(entries) \subseteq Span /\ (entries # {} => spans(entries) # {})
         /\ \A t \in 0..(week - 1) :
              InWindow(entries, t) <=> \E x \in spans(entries) : Within(x, t)
  <1>1. \A e \in entries : e.days # {}
    BY DEF Entry
  <1>2. \A x : x \in spans(entries) <=> \E e \in entries : \E d \in e.days : x \in spansOf(e, d)
    BY DEF spans
  <1>3. spans(entries) \subseteq Span
    <2>1. ASSUME NEW x \in spans(entries) PROVE x \in Span
      <3>1. PICK e \in entries : \E d \in e.days : x \in spansOf(e, d)
        BY <1>2, <2>1
      <3> QED  BY <3>1, SpansOfDay
    <2> QED  BY <2>1
  <1>4. entries # {} => spans(entries) # {}
    <2>1. ASSUME NEW e \in entries PROVE spans(entries) # {}
      <3>1. PICK d \in e.days : TRUE
        BY <1>1
      <3>2. spansOf(e, d) # {}
        BY SpansOfDay
      <3> QED  BY <1>2, <3>2
    <2> QED  BY <2>1
  <1>5. ASSUME NEW t \in 0..(week - 1)
        PROVE  InWindow(entries, t) <=> \E x \in spans(entries) : Within(x, t)
    <2>1. ASSUME NEW e \in entries
          PROVE  InEntry(e, t) <=> \E d \in e.days : \E x \in spansOf(e, d) : Within(x, t)
      BY SpansOfDay DEF InEntry
    <2> QED  BY <1>2, <2>1 DEF InWindow
  <1> QED  BY <1>3, <1>4, <1>5

\* A set of integers that is bounded has a greatest.
LEMMA MaxIs ==
  ASSUME NEW S, S \subseteq Int, S # {}, NEW hi \in Int, \A x \in S : x <= hi
  PROVE  Max(S) \in S /\ \A x \in S : x <= Max(S)
  <1>1. {hi - x : x \in S} \subseteq Nat /\ {hi - x : x \in S} # {}
    <2>1. \A x \in S : hi - x \in Nat
      OBVIOUS
    <2> QED  BY <2>1
  <1>2. PICK m \in {hi - x : x \in S} : \A k \in {hi - x : x \in S} : m <= k
    BY <1>1, LeastNat
  <1>3. PICK y \in S : m = hi - y
    OBVIOUS
  <1>4. \A x \in S : x <= y
    <2>1. ASSUME NEW x \in S PROVE x <= y
      <3>1. hi - y <= hi - x
        BY <1>2, <1>3
      <3> QED  BY <3>1
    <2> QED  BY <2>1
  <1> QED  BY <1>4 DEF Max

LEMMA LatestIn ==
  ASSUME NEW s, s \subseteq Span, s # {}
  PROVE  latest(s) \in s /\ \A y \in s : y[1] <= latest(s)[1]
  <1>1. ASSUME NEW x \in s
        PROVE  x[1] \in Nat /\ x[2] \in Nat /\ x[1] < x[2] /\ x[2] <= week /\ x[1] <= week
    BY Sizes DEF Span
  <1> DEFINE A == {x[1] : x \in s}
             a == Max(A)
  <1>2. a \in A /\ \A y \in A : y <= a
    <2>1. A \subseteq Int /\ A # {} /\ \A y \in A : y <= week
      BY <1>1
    <2>2. week \in Int
      BY Sizes
    <2> HIDE DEF A
    <2> QED  BY <2>1, <2>2, MaxIs
  <1> HIDE DEF a
  <1> DEFINE B == {x[2] : x \in {z \in s : z[1] = a}}
             b == Max(B)
  <1>3. b \in B /\ \A y \in B : y <= b
    <2>1. B \subseteq Int /\ B # {} /\ \A y \in B : y <= week
      BY <1>1, <1>2
    <2>2. week \in Int
      BY Sizes
    <2> HIDE DEF B
    <2> QED  BY <2>1, <2>2, MaxIs
  <1> HIDE DEF b
  <1>4. PICK x \in s : x[1] = a /\ x[2] = b
    BY <1>3
  <1>5. \A y \in s : x[1] > y[1] \/ (x[1] = y[1] /\ x[2] >= y[2])
    <2>1. ASSUME NEW y \in s PROVE x[1] > y[1] \/ (x[1] = y[1] /\ x[2] >= y[2])
      <3>1. y[1] <= a /\ (y[1] = a => y[2] <= b)
        BY <1>2, <1>3
      <3> QED  BY <1>1, <1>4, <3>1
    <2> QED  BY <2>1
  <1>6. /\ latest(s) \in s
        /\ \A y \in s : \/ latest(s)[1] > y[1]
                        \/ (latest(s)[1] = y[1] /\ latest(s)[2] >= y[2])
    BY <1>5 DEF latest
  <1> HIDE DEF A, B
  <1> QED  BY <1>1, <1>6

LEMMA LeastSpans ==
  ASSUME NEW B, B \subseteq SUBSET Span, B # {}
  PROVE  \E T \in B : \A s \in B : ~(s \subseteq T /\ s # T)
  <1> DEFINE D == (0..week) \X (0..week)
  <1>1. IsFiniteSet(D)
    <2>1. IsFiniteSet(0..week)
      <3>1. week \in Int
        BY Sizes
      <3> QED  BY <3>1, FS_Interval
    <2> QED  BY <2>1, FS_Product
  <1>2. Span \subseteq D
    BY Sizes DEF Span
  <1>3. B \subseteq SUBSET D
    BY <1>2
  <1> HIDE DEF D
  <1> QED  BY <1>1, <1>3, LeastPlaces

\* The fold, as its definition has it.
IsMerge(S, f) ==
    f = [s \in SUBSET S |-> IF s = {} THEN <<>>
                            ELSE mergeInto(f[s \ {latest(s)}], latest(s))]

MergeOf(S) == (CHOOSE f : IsMerge(S, f))[S]

LEMMA MergeIs ==
  ASSUME NEW entries PROVE merge(entries) = MergeOf(spans(entries))
  BY DEF merge, MapThenFoldSet, IsMerge, MergeOf

LEMMA MergeUnique ==
  ASSUME NEW S \in SUBSET Span, NEW T \in SUBSET Span, NEW f, NEW g,
         IsMerge(S, f), IsMerge(T, g), NEW s0 \in SUBSET (S \cap T)
  PROVE  f[s0] = g[s0]
  <1> DEFINE B == {s \in SUBSET (S \cap T) : f[s] # g[s]}
  <1> SUFFICES ASSUME B # {} PROVE FALSE
    OBVIOUS
  <1>1. PICK s \in B : \A t \in B : ~(t \subseteq s /\ t # s)
    <2>1. B \subseteq SUBSET Span
      OBVIOUS
    <2> HIDE DEF B
    <2> QED  BY <2>1, LeastSpans
  <1>2. /\ f[s] = IF s = {} THEN <<>> ELSE mergeInto(f[s \ {latest(s)}], latest(s))
        /\ g[s] = IF s = {} THEN <<>> ELSE mergeInto(g[s \ {latest(s)}], latest(s))
    BY DEF IsMerge
  <1>3. s # {} => f[s \ {latest(s)}] = g[s \ {latest(s)}]
    <2>1. s # {} => latest(s) \in s
      BY LatestIn
    <2> QED  BY <1>1, <2>1
  <1> QED  BY <1>2, <1>3

LEMMA MergeExists ==
  ASSUME NEW S \in SUBSET Span PROVE \E f : IsMerge(S, f)
  <1> DEFINE B == {T \in SUBSET Span : ~\E f : IsMerge(T, f)}
  <1> SUFFICES ASSUME B # {} PROVE FALSE
    OBVIOUS
  <1>1. PICK T \in B : \A t \in B : ~(t \subseteq T /\ t # T)
    <2>1. B \subseteq SUBSET Span
      OBVIOUS
    <2> HIDE DEF B
    <2> QED  BY <2>1, LeastSpans
  <1> DEFINE F(t) == CHOOSE f : IsMerge(t, f)
             f == [s \in SUBSET T |-> IF s = {} THEN <<>>
                     ELSE mergeInto(F(s \ {latest(s)})[s \ {latest(s)}], latest(s))]
  <1>2. \A t \in SUBSET T : t # T => IsMerge(t, F(t))
    BY <1>1
  <1> HIDE DEF F
  <1>0. \A s \in SUBSET T : s # {} => latest(s) \in s
    BY LatestIn
  <1>3. ASSUME NEW t \in SUBSET T, t # T PROVE f[t] = F(t)[t]
    <2>1. F(t)[t] = IF t = {} THEN <<>>
                    ELSE mergeInto(F(t)[t \ {latest(t)}], latest(t))
      BY <1>2, <1>3 DEF IsMerge
    <2>2. CASE t # {}
      <3>1. t \ {latest(t)} \subseteq T /\ t \ {latest(t)} # T
        BY <1>0, <1>3, <2>2
      <3>2. F(t)[t \ {latest(t)}] = F(t \ {latest(t)})[t \ {latest(t)}]
        BY <1>2, <1>3, <3>1, MergeUnique
      <3> QED  BY <2>1, <2>2, <3>2
    <2> QED  BY <2>1, <2>2
  <1>4. ASSUME NEW s \in SUBSET T, s # {}
        PROVE  F(s \ {latest(s)})[s \ {latest(s)}] = f[s \ {latest(s)}]
    <2>1. s \ {latest(s)} \subseteq T /\ s \ {latest(s)} # T
      BY <1>0, <1>4
    <2> HIDE DEF f
    <2> QED  BY <1>3, <2>1
  <1>5. f = [s \in SUBSET T |-> IF s = {} THEN <<>>
               ELSE mergeInto(f[s \ {latest(s)}], latest(s))]
    BY <1>4
  <1>6. IsMerge(T, f)
    BY <1>5 DEF IsMerge
  <1> QED  BY <1>6

LEMMA MergeStep ==
  ASSUME NEW S \in SUBSET Span
  PROVE  MergeOf(S) = IF S = {} THEN <<>>
                      ELSE mergeInto(MergeOf(S \ {latest(S)}), latest(S))
  <1> DEFINE F(t) == CHOOSE f : IsMerge(t, f)
             R == S \ {latest(S)}
  <1>1. IsMerge(S, F(S)) /\ IsMerge(R, F(R))
    BY MergeExists
  <1>2. MergeOf(S) = F(S)[S] /\ MergeOf(R) = F(R)[R]
    BY DEF MergeOf
  <1> HIDE DEF F
  <1>3. F(S)[S] = IF S = {} THEN <<>> ELSE mergeInto(F(S)[R], latest(S))
    BY <1>1 DEF IsMerge
  <1>4. F(S)[R] = F(R)[R]
    BY <1>1, MergeUnique
  <1> QED  BY <1>2, <1>3, <1>4

\* Spans that are apart, in order, and cover what they were merged from.
MergedFrom(S, m) ==
    /\ m \in Seq(Span)
    /\ \A i, j \in 1..Len(m) : i < j => m[i][2] < m[j][1]
    /\ \A t \in Int : (\E i \in 1..Len(m) : Within(m[i], t)) <=> (\E x \in S : Within(x, t))
    /\ \A i \in 1..Len(m) : \E x \in S : m[i][1] = x[1]

\* One span more, none of which starts earlier: it stretches the last or follows it.
LEMMA MergeKept ==
  ASSUME NEW S \in SUBSET Span, NEW x \in S, \A y \in S : y[1] <= x[1],
         NEW m, MergedFrom(S \ {x}, m)
  PROVE  MergedFrom(S, mergeInto(m, x))
  <1> DEFINE n == Len(m)
             R == S \ {x}
  <1>1. /\ m \in Seq(Span) /\ n \in Nat /\ m \in [1..n -> Span]
        /\ \A i \in 1..n : m[i] \in Span
    BY DEF MergedFrom
  <1>2. \A y \in Span : /\ y[1] \in Nat /\ y[2] \in Nat /\ y[1] < y[2] /\ y[2] <= week
                        /\ y = <<y[1], y[2]>>
    BY DEF Span
  <1>3. x \in Span /\ x[1] \in Nat /\ x[2] \in Nat /\ x[1] < x[2]
    BY <1>2
  <1>4. \A i \in 1..n : m[i][1] <= x[1]
    BY DEF MergedFrom
  <1>5. \A i, j \in 1..n : i < j => m[i][2] < m[j][1]
    BY DEF MergedFrom
  <1>6. \A t \in Int : (\E i \in 1..n : Within(m[i], t)) <=> \E y \in R : Within(y, t)
    BY DEF MergedFrom
  <1>7. \A i \in 1..n : \E y \in R : m[i][1] = y[1]
    BY DEF MergedFrom
  <1>8. \A t \in Int : (\E y \in S : Within(y, t)) <=> (\E y \in R : Within(y, t)) \/ Within(x, t)
    OBVIOUS
  <1>9. CASE n > 0 /\ x[1] <= m[n][2]
    <2> DEFINE last == <<m[n][1], IF x[2] > m[n][2] THEN x[2] ELSE m[n][2]>>
               k == [m EXCEPT ![n] = last]
    <2>1. n \in 1..n /\ m[n] \in Span
      BY <1>1, <1>9
    <2>2. m[n] = <<m[n][1], m[n][2]>> /\ m[n][1] \in Nat /\ m[n][2] \in Nat /\ m[n][1] < m[n][2]
      BY <1>2, <2>1
    <2>3. [m[n] EXCEPT ![2] = IF x[2] > m[n][2] THEN x[2] ELSE m[n][2]] = last
      <3> DEFINE a == m[n][1]
                 b == m[n][2]
                 c == IF x[2] > m[n][2] THEN x[2] ELSE m[n][2]
      <3>1. m[n] = <<a, b>>
        BY <2>2
      <3> HIDE DEF a, b, c
      <3>2. [<<a, b>> EXCEPT ![2] = c] = <<a, c>>
        OBVIOUS
      <3>3. [m[n] EXCEPT ![2] = c] = <<a, c>>
        BY <3>1, <3>2
      <3> QED  BY <3>3 DEF a, c
    <2>4. mergeInto(m, x) = k
      BY <1>9, <2>3 DEF mergeInto
    <2>5. last \in Span /\ last[1] = m[n][1] /\ last[2] \in {x[2], m[n][2]}
          /\ x[2] <= last[2] /\ m[n][2] <= last[2]
      BY <1>2, <1>3, <2>1, <2>2 DEF Span
    <2> HIDE DEF last
    <2>6. k \in Seq(Span) /\ Len(k) = n /\ k[n] = last
          /\ \A i \in 1..n : i # n => k[i] = m[i]
      BY <1>1, <2>1, <2>5
    <2> HIDE DEF k
    <2>7. \A i, j \in 1..n : i < j => k[i][2] < k[j][1]
      <3> SUFFICES ASSUME NEW i \in 1..n, NEW j \in 1..n, i < j PROVE k[i][2] < k[j][1]
        OBVIOUS
      <3>1. k[i] = m[i] /\ k[j][1] = m[j][1]
        BY <1>1, <2>5, <2>6
      <3> QED  BY <1>5, <3>1
    <2>8. ASSUME NEW t \in Int
          PROVE  (\E i \in 1..n : Within(k[i], t)) <=> \E y \in S : Within(y, t)
      <3>1. Within(last, t) <=> Within(m[n], t) \/ Within(x, t)
        BY <1>3, <1>4, <1>9, <2>1, <2>2, <2>5 DEF Within
      <3>2. (\E i \in 1..n : Within(k[i], t))
              <=> (\E i \in 1..n : Within(m[i], t)) \/ Within(x, t)
        BY <2>1, <2>6, <3>1
      <3> QED  BY <1>6, <1>8, <3>2
    <2>9. \A i \in 1..n : \E y \in S : k[i][1] = y[1]
      BY <1>7, <2>5, <2>6
    <2> QED  BY <2>4, <2>6, <2>7, <2>8, <2>9 DEF MergedFrom
  <1>10. CASE ~(n > 0 /\ x[1] <= m[n][2])
    <2> DEFINE k == Append(m, x)
    <2>1. mergeInto(m, x) = k
      BY <1>10 DEF mergeInto
    <2>2. k \in Seq(Span) /\ Len(k) = n + 1 /\ k[n + 1] = x /\ \A i \in 1..n : k[i] = m[i]
      BY <1>1, <1>3
    <2> HIDE DEF k
    <2>3. \A i \in 1..n : m[i][2] < x[1]
      <3>1. ASSUME NEW i \in 1..n PROVE m[i][2] < x[1]
        <4>1. n \in 1..n /\ m[n] \in Span /\ m[i] \in Span /\ m[n][2] < x[1]
          BY <1>1, <1>2, <1>3, <1>10
        <4>2. CASE i = n
          BY <4>1, <4>2
        <4>3. CASE i # n
          <5>1. m[i][2] < m[n][1]
            BY <1>1, <1>5, <4>1, <4>3
          <5> QED  BY <1>2, <1>3, <4>1, <5>1
        <4> QED  BY <4>2, <4>3
      <3> QED  BY <3>1
    <2>4. \A i, j \in 1..(n + 1) : i < j => k[i][2] < k[j][1]
      <3> SUFFICES ASSUME NEW i \in 1..(n + 1), NEW j \in 1..(n + 1), i < j
                   PROVE  k[i][2] < k[j][1]
        OBVIOUS
      <3>1. i \in 1..n /\ k[i] = m[i]
        BY <1>1, <2>2
      <3>2. CASE j = n + 1
        BY <2>2, <2>3, <3>1, <3>2
      <3>3. CASE j # n + 1
        BY <1>1, <1>5, <2>2, <3>1, <3>3
      <3> QED  BY <3>2, <3>3
    <2>5. ASSUME NEW t \in Int
          PROVE  (\E i \in 1..(n + 1) : Within(k[i], t)) <=> \E y \in S : Within(y, t)
      <3>1. (\E i \in 1..(n + 1) : Within(k[i], t))
              <=> (\E i \in 1..n : Within(m[i], t)) \/ Within(x, t)
        <4>1. \A i : i \in 1..(n + 1) <=> i \in 1..n \/ i = n + 1
          BY <1>1
        <4> QED  BY <2>2, <4>1
      <3> QED  BY <1>6, <1>8, <3>1
    <2>6. \A i \in 1..(n + 1) : \E y \in S : k[i][1] = y[1]
      <3>1. ASSUME NEW i \in 1..(n + 1) PROVE \E y \in S : k[i][1] = y[1]
        <4>1. i \in 1..n \/ i = n + 1
          BY <1>1
        <4> QED  BY <1>7, <2>2, <4>1
      <3> QED  BY <3>1
    <2> QED  BY <2>1, <2>2, <2>4, <2>5, <2>6 DEF MergedFrom
  <1> QED  BY <1>9, <1>10

LEMMA MergeAll ==
  ASSUME NEW S \in SUBSET Span PROVE MergedFrom(S, MergeOf(S))
  <1> DEFINE B == {T \in SUBSET Span : ~MergedFrom(T, MergeOf(T))}
  <1> SUFFICES ASSUME B # {} PROVE FALSE
    OBVIOUS
  <1>1. PICK T \in B : \A t \in B : ~(t \subseteq T /\ t # T)
    <2>1. B \subseteq SUBSET Span
      OBVIOUS
    <2> HIDE DEF B
    <2> QED  BY <2>1, LeastSpans
  <1>2. CASE T = {}
    <2>1. MergeOf(T) = <<>>
      BY <1>2, MergeStep
    <2>2. MergedFrom(T, <<>>)
      BY <1>2 DEF MergedFrom
    <2> QED  BY <1>1, <2>1, <2>2
  <1>3. CASE T # {}
    <2> DEFINE x == latest(T)
    <2>1. x \in T /\ \A y \in T : y[1] <= x[1]
      BY <1>3, LatestIn
    <2>2. MergeOf(T) = mergeInto(MergeOf(T \ {x}), x)
      BY <1>3, MergeStep
    <2> HIDE DEF x
    <2>3. MergedFrom(T \ {x}, MergeOf(T \ {x}))
      BY <1>1, <2>1
    <2>4. MergedFrom(T, mergeInto(MergeOf(T \ {x}), x))
      BY <2>1, <2>3, MergeKept
    <2> QED  BY <1>1, <2>2, <2>4
  <1> QED  BY <1>2, <1>3

LEMMA MergedWeek ==
  ASSUME NEW entries, entries \subseteq Entry
  PROVE  /\ merge(entries) \in Seq(Span)
         /\ \A i, j \in 1..Len(merge(entries)) :
              i < j => merge(entries)[i][2] < merge(entries)[j][1]
         /\ \A t \in 0..(week - 1) :
              InWindow(entries, t) <=> \E i \in 1..Len(merge(entries)) : Within(merge(entries)[i], t)
         /\ entries # {} => Len(merge(entries)) > 0
  <1>1. spans(entries) \in SUBSET Span /\ merge(entries) = MergeOf(spans(entries))
    BY SpansAre, MergeIs
  <1>2. MergedFrom(spans(entries), merge(entries))
    BY <1>1, MergeAll
  <1>3. entries # {} => Len(merge(entries)) > 0
    <2>1. ASSUME NEW x \in spans(entries) PROVE Len(merge(entries)) > 0
      <3>1. x[1] \in Int /\ Within(x, x[1])
        BY <1>1 DEF Span, Within
      <3>2. \E i \in 1..Len(merge(entries)) : Within(merge(entries)[i], x[1])
        BY <1>2, <2>1, <3>1 DEF MergedFrom
      <3>3. Len(merge(entries)) \in Nat
        BY <1>2 DEF MergedFrom
      <3> QED  BY <3>2, <3>3
    <2> QED  BY <2>1, SpansAre
  <1> QED  BY <1>2, <1>3, SpansAre, Sizes DEF MergedFrom

-----------------------------------------------------------------------------
(***************************************************************************)
(* The occurrences of the week are its maximal runs of open instants.      *)
(***************************************************************************)

NeverCloses(entries) == \A t \in 0..(week - 1) : InWindow(entries, t)

Run(entries, s, l) ==
    /\ s \in 0..(week - 1) /\ l \in 1..(week - 1)
    /\ ~InWindow(entries, s - 1) /\ ~InWindow(entries, s + l)
    /\ \A u \in Int : s <= u /\ u < s + l => InWindow(entries, u)

LEMMA Around ==
  ASSUME NEW entries, entries \subseteq Entry
  PROVE  /\ InWindow(entries, -1) <=> InWindow(entries, week - 1)
         /\ \A t \in Int : InWindow(entries, week + t) <=> InWindow(entries, t)
  <1>1. ASSUME NEW t \in Int PROVE InWindow(entries, week + t) <=> InWindow(entries, t)
    <2>1. t + week * 1 = week + t
      BY Sizes
    <2> QED  BY <2>1, InWeekly
  <1>2. week + (-1) = week - 1
    BY Sizes
  <1> QED  BY <1>1, <1>2

\* What the merged spans say of the instants at their edges.
LEMMA MergedEdges ==
  ASSUME NEW entries, entries \subseteq Entry, NEW m, m = merge(entries), NEW n, n = Len(m)
  PROVE  /\ n \in Nat
         /\ \A i \in 1..n : /\ m[i][1] \in Nat /\ m[i][2] \in Nat
                            /\ m[i][1] < m[i][2] /\ m[i][2] <= week
         /\ \A i, j \in 1..n : i < j => m[i][2] < m[j][1]
         /\ \A i \in 1..n : \A t \in Int : Within(m[i], t) => InWindow(entries, t)
         /\ \A i \in 1..n : m[i][2] < week => ~InWindow(entries, m[i][2])
         /\ \A i \in 1..n : m[i][1] > 0 => ~InWindow(entries, m[i][1] - 1)
         /\ \A t \in 0..(week - 1) :
              InWindow(entries, t) /\ (t > 0 => ~InWindow(entries, t - 1))
                => \E i \in 1..n : m[i][1] = t
         /\ \A t \in 0..(week - 1) :
              InWindow(entries, t) <=> \E i \in 1..n : Within(m[i], t)
  <1>1. /\ m \in Seq(Span) /\ n \in Nat
        /\ \A t \in 0..(week - 1) :
              InWindow(entries, t) <=> \E i \in 1..n : Within(m[i], t)
    BY MergedWeek
  <1>2. ASSUME NEW i \in 1..n
        PROVE  m[i][1] \in Nat /\ m[i][2] \in Nat /\ m[i][1] < m[i][2] /\ m[i][2] <= week
    <2>1. m[i] \in Span
      BY <1>1
    <2> QED  BY <2>1 DEF Span
  <1>3. \A i, j \in 1..n : i < j => m[i][2] < m[j][1]
    BY MergedWeek
  <1>4. ASSUME NEW i \in 1..n, NEW t \in Int, Within(m[i], t) PROVE InWindow(entries, t)
    <2>1. t \in 0..(week - 1)
      BY <1>2, <1>4, Sizes DEF Within
    <2> QED  BY <1>1, <1>4, <2>1
  <1>5. ASSUME NEW i \in 1..n, m[i][2] < week PROVE ~InWindow(entries, m[i][2])
    <2>1. m[i][2] \in 0..(week - 1)
      BY <1>2, <1>5, Sizes
    <2>2. ASSUME NEW j \in 1..n, Within(m[j], m[i][2]) PROVE FALSE
      <3>1. m[j][1] <= m[i][2] /\ m[i][2] < m[j][2]
        BY <2>2 DEF Within
      <3>2. j < i \/ j = i \/ i < j
        BY <1>1
      <3>3. j < i => m[j][2] < m[i][1]
        BY <1>3
      <3>4. i < j => m[i][2] < m[j][1]
        BY <1>3
      <3>5. /\ m[i][1] \in Nat /\ m[i][2] \in Nat /\ m[i][1] < m[i][2]
            /\ m[j][1] \in Nat /\ m[j][2] \in Nat
        BY <1>2
      <3>6. CASE j < i
        BY <3>1, <3>3, <3>5, <3>6
      <3>7. CASE j = i
        BY <3>1, <3>5, <3>7
      <3>8. CASE i < j
        BY <3>1, <3>4, <3>5, <3>8
      <3> QED  BY <3>2, <3>6, <3>7, <3>8
    <2> QED  BY <1>1, <2>1, <2>2
  <1>6. ASSUME NEW i \in 1..n, m[i][1] > 0 PROVE ~InWindow(entries, m[i][1] - 1)
    <2>1. m[i][1] - 1 \in 0..(week - 1)
      BY <1>2, <1>6, Sizes
    <2>2. ASSUME NEW j \in 1..n, Within(m[j], m[i][1] - 1) PROVE FALSE
      <3>1. m[j][1] <= m[i][1] - 1 /\ m[i][1] - 1 < m[j][2]
        BY <2>2 DEF Within
      <3>2. j < i \/ j = i \/ i < j
        BY <1>1
      <3>3. j < i => m[j][2] < m[i][1]
        BY <1>3
      <3>4. i < j => m[i][2] < m[j][1]
        BY <1>3
      <3> QED  BY <1>2, <3>1, <3>2, <3>3, <3>4
    <2> QED  BY <1>1, <2>1, <2>2
  <1>7. ASSUME NEW t \in 0..(week - 1), InWindow(entries, t),
               t > 0 => ~InWindow(entries, t - 1)
        PROVE  \E i \in 1..n : m[i][1] = t
    <2>1. PICK i \in 1..n : Within(m[i], t)
      BY <1>1, <1>7
    <2>2. m[i][1] <= t /\ t < m[i][2]
      BY <2>1 DEF Within
    <2>3. CASE m[i][1] < t
      <3>1. Within(m[i], t - 1) /\ t - 1 \in Int /\ t > 0
        BY <1>2, <2>2, <2>3 DEF Within
      <3> QED  BY <1>4, <1>7, <3>1
    <2> QED  BY <1>2, <2>2, <2>3
  <1> QED  BY <1>1, <1>2, <1>3, <1>4, <1>5, <1>6, <1>7

LEMMA OccsAre ==
  ASSUME NEW entries, entries \subseteq Entry
  PROVE  LET occs == mergedOccurrences(entries) IN
         /\ entries # {} => occs # {}
         /\ \A o \in occs : o = [start |-> o.start, length |-> o.length]
         /\ NeverCloses(entries) => occs = {[start |-> 0, length |-> week]}
         /\ ~NeverCloses(entries) =>
              /\ \A o \in occs : Run(entries, o.start, o.length)
              /\ \A t \in 0..(week - 1) :
                   InWindow(entries, t) /\ ~InWindow(entries, t - 1)
                     => \E o \in occs : o.start = t
  <1> DEFINE occs == mergedOccurrences(entries)
             m == merge(entries)
             n == Len(m)
             wraps == n > 1 /\ m[1][1] = 0 /\ m[n][2] = week
             occ(i) == [start |-> m[i][1], length |-> m[i][2] - m[i][1]]
             joined == [start |-> m[n][1], length |-> (week - m[n][1]) + m[1][2]]
             Op(t) == InWindow(entries, t)
  <1>1. occs = IF wraps THEN {occ(i) : i \in 2..(n - 1)} \cup {joined}
                        ELSE {occ(i) : i \in 1..n}
    BY DEF mergedOccurrences
  <1>2. /\ n \in Nat
        /\ \A i \in 1..n : /\ m[i][1] \in Nat /\ m[i][2] \in Nat
                           /\ m[i][1] < m[i][2] /\ m[i][2] <= week
        /\ \A i, j \in 1..n : i < j => m[i][2] < m[j][1]
        /\ \A i \in 1..n : \A t \in Int : Within(m[i], t) => Op(t)
        /\ \A i \in 1..n : m[i][2] < week => ~Op(m[i][2])
        /\ \A i \in 1..n : m[i][1] > 0 => ~Op(m[i][1] - 1)
        /\ \A t \in 0..(week - 1) :
             Op(t) /\ (t > 0 => ~Op(t - 1)) => \E i \in 1..n : m[i][1] = t
        /\ \A t \in 0..(week - 1) : Op(t) <=> \E i \in 1..n : Within(m[i], t)
    BY MergedEdges
  <1>3. entries # {} => n > 0
    BY MergedWeek
  <1>4. (Op(-1) <=> Op(week - 1)) /\ \A t \in Int : Op(week + t) <=> Op(t)
    BY Around
  <1> HIDE DEF occs, m, n
  <1>5. entries # {} => occs # {}
    <2> SUFFICES ASSUME entries # {} PROVE \E o : o \in occs
      OBVIOUS
    <2>1. CASE wraps
      <3>1. joined \in occs
        BY <1>1, <2>1
      <3> QED  BY <3>1
    <2>2. CASE ~wraps
      <3>1. 1 \in 1..n
        BY <1>2, <1>3
      <3>2. occ(1) \in occs
        BY <1>1, <2>2, <3>1
      <3> QED  BY <3>2
    <2> QED  BY <2>1, <2>2
  <1>6. \A o \in occs : o = [start |-> o.start, length |-> o.length]
    BY <1>1
  <1>7. ASSUME NEW i \in 1..n, ~Op(m[i][1] - 1), ~Op(m[i][2]), m[i][2] - m[i][1] # week
        PROVE  Run(entries, m[i][1], m[i][2] - m[i][1])
    <2>1. m[i][1] + (m[i][2] - m[i][1]) = m[i][2]
      BY <1>2
    <2>2. \A u \in Int : m[i][1] <= u /\ u < m[i][2] => Op(u)
      BY <1>2 DEF Within
    <2>3. m[i][1] \in 0..(week - 1) /\ m[i][2] - m[i][1] \in 1..(week - 1)
      BY <1>2, <1>7, Sizes
    <2> QED  BY <1>7, <2>1, <2>2, <2>3 DEF Run
  <1>8. CASE wraps
    <2>1. n > 1 /\ 1 \in 1..n /\ n \in 1..n /\ m[1][1] = 0 /\ m[n][2] = week
      BY <1>2, <1>8
    <2>2. m[1][2] < m[n][1] /\ m[n][1] < week
      BY <1>2, <2>1
    <2>3. ~Op(m[1][2]) /\ m[1][2] \in 0..(week - 1)
      BY <1>2, <2>1, <2>2, Sizes
    <2>4. ~NeverCloses(entries)
      BY <2>3 DEF NeverCloses
    <2>5. ASSUME NEW i \in 2..(n - 1) PROVE Run(entries, occ(i).start, occ(i).length)
      <3>1. i \in 1..n /\ 1 < i /\ i < n
        BY <1>2, <2>1
      <3>2. m[1][2] < m[i][1] /\ m[i][2] < m[n][1]
        BY <1>2, <2>1, <3>1
      <3>3. m[i][1] > 0 /\ m[i][2] < week /\ m[i][2] - m[i][1] # week
        BY <1>2, <2>1, <2>2, <3>1, <3>2, Sizes
      <3> QED  BY <1>2, <1>7, <3>1, <3>3
    <2>6. Run(entries, joined.start, joined.length)
      <3> DEFINE s == m[n][1]
                 e == m[1][2]
      <3>1. s \in Nat /\ e \in Nat /\ 0 < e /\ e < s /\ s < week
        BY <1>2, <2>1, <2>2
      <3>2. ~Op(s - 1) /\ ~Op(e)
        BY <1>2, <2>1, <2>3, <3>1
      <3>3. \A u \in Int : /\ s <= u /\ u < week => Op(u)
                           /\ 0 <= u /\ u < e => Op(u)
        BY <1>2, <2>1 DEF Within
      <3> HIDE DEF s, e
      <3>4. \A u \in Int : s <= u /\ u < s + ((week - s) + e) => Op(u)
        <4>1. ASSUME NEW u \in Int, s <= u, u < s + ((week - s) + e) PROVE Op(u)
          <5>1. CASE u < week
            BY <3>3, <4>1, <5>1
          <5>2. CASE ~(u < week)
            <6>1. u - week \in Int /\ 0 <= u - week /\ u - week < e /\ week + (u - week) = u
              BY <3>1, <4>1, <5>2, Sizes
            <6> QED  BY <1>4, <3>3, <6>1
          <5> QED  BY <5>1, <5>2
        <4> QED  BY <4>1
      <3>5. ~Op(s + ((week - s) + e))
        <4>1. s + ((week - s) + e) = week + e
          BY <3>1, Sizes
        <4> QED  BY <1>4, <3>1, <3>2, <4>1
      <3>6. s \in 0..(week - 1) /\ (week - s) + e \in 1..(week - 1)
        BY <3>1, Sizes
      <3>7. Run(entries, s, (week - s) + e)
        BY <3>2, <3>4, <3>5, <3>6 DEF Run
      <3> QED  BY <3>7 DEF s, e
    <2>7. ASSUME NEW t \in 0..(week - 1), Op(t), ~Op(t - 1) PROVE \E o \in occs : o.start = t
      <3>1. Within(m[n], week - 1) /\ week - 1 \in Int
        BY <1>2, <2>1, <2>2, Sizes DEF Within
      <3>2. t # 0
        <4>1. Op(week - 1)
          BY <1>2, <2>1, <3>1
        <4>2. 0 - 1 = -1
          OBVIOUS
        <4> QED  BY <1>4, <2>7, <4>1, <4>2
      <3>3. PICK i \in 1..n : m[i][1] = t
        BY <1>2, <2>7
      <3>4. i # 1
        BY <2>1, <3>2, <3>3
      <3>5. CASE i = n
        <4>1. joined \in occs /\ joined.start = t
          BY <1>1, <1>8, <3>3, <3>5
        <4> QED  BY <4>1
      <3>6. CASE i # n
        <4>1. i \in 2..(n - 1)
          BY <1>2, <3>4, <3>6
        <4>2. occ(i) \in occs /\ occ(i).start = t
          BY <1>1, <1>8, <3>3, <4>1
        <4> QED  BY <4>2
      <3> QED  BY <3>5, <3>6
    <2>8. \A o \in occs : Run(entries, o.start, o.length)
      BY <1>1, <1>8, <2>5, <2>6
    <2> QED  BY <1>5, <1>6, <2>4, <2>7, <2>8 DEF occs
  <1>9. CASE ~wraps
    <2>1. occs = {occ(i) : i \in 1..n}
      BY <1>1, <1>9
    <2>2. ASSUME NEW i \in 1..n, m[i][1] = 0, m[i][2] = week
          PROVE  NeverCloses(entries) /\ occs = {[start |-> 0, length |-> week]}
      <3>1. \A t \in 0..(week - 1) : Within(m[i], t) /\ t \in Int
        BY <2>2, Sizes DEF Within
      <3>2. NeverCloses(entries)
        BY <1>2, <3>1 DEF NeverCloses
      <3>3. ASSUME NEW j \in 1..n PROVE j = i
        <4>1. j < i => m[j][2] < m[i][1]
          BY <1>2
        <4>2. i < j => m[i][2] < m[j][1]
          BY <1>2
        <4> QED  BY <1>2, <2>2, <4>1, <4>2, Sizes
      <3>4. occ(i) = [start |-> 0, length |-> week]
        BY <2>2, Sizes
      <3> QED  BY <2>1, <3>2, <3>3, <3>4
    <2>3. NeverCloses(entries) => \E i \in 1..n : m[i][1] = 0 /\ m[i][2] = week
      <3> SUFFICES ASSUME NeverCloses(entries) PROVE \E i \in 1..n : m[i][1] = 0 /\ m[i][2] = week
        OBVIOUS
      <3>1. 0 \in 0..(week - 1) /\ Op(0)
        BY Sizes DEF NeverCloses
      <3>2. PICK i \in 1..n : m[i][1] = 0
        BY <1>2, <3>1
      <3>3. ~(m[i][2] < week)
        <4>1. m[i][2] < week => m[i][2] \in 0..(week - 1) /\ ~Op(m[i][2])
          BY <1>2, Sizes
        <4> QED  BY <4>1 DEF NeverCloses
      <3> QED  BY <1>2, <3>2, <3>3, Sizes
    <2>4. ASSUME ~NeverCloses(entries), NEW i \in 1..n
          PROVE  Run(entries, m[i][1], m[i][2] - m[i][1])
      <3>0. 1 \in 1..n /\ n \in 1..n
        BY <1>2
      <3>1. m[i][2] - m[i][1] # week
        BY <1>2, <2>2, <2>4, Sizes
      <3>2. ~Op(m[i][1] - 1)
        <4>1. CASE m[i][1] = 0
          <5>1. ASSUME Op(week - 1) PROVE FALSE
            <6>1. week - 1 \in 0..(week - 1)
              BY Sizes
            <6>2. PICK j \in 1..n : Within(m[j], week - 1)
              BY <1>2, <5>1, <6>1
            <6>3. m[j][2] = week
              BY <1>2, <6>2, Sizes DEF Within
            <6>4. j = n
              <7>1. j < n => m[j][2] < m[n][1] /\ m[n][1] < week
                BY <1>2, <3>0, Sizes
              <7> QED  BY <1>2, <6>3, <7>1, Sizes
            <6>5. i = 1
              <7>1. 1 < i => m[1][2] < m[i][1]
                BY <1>2, <3>0
              <7> QED  BY <1>2, <3>0, <4>1, <7>1
            <6>6. n = 1
              BY <1>2, <1>9, <3>0, <4>1, <6>3, <6>4, <6>5
            <6> QED  BY <2>2, <2>4, <4>1, <6>3, <6>4, <6>5, <6>6
          <5>2. m[i][1] - 1 = -1
            BY <4>1
          <5> QED  BY <1>4, <5>1, <5>2
        <4>2. CASE m[i][1] # 0
          BY <1>2, <4>2
        <4> QED  BY <4>1, <4>2
      <3>3. ~Op(m[i][2])
        <4>1. CASE m[i][2] = week
          <5>1. i = n
            <6>1. i < n => m[i][2] < m[n][1] /\ m[n][1] < week
              BY <1>2, <3>0, Sizes
            <6> QED  BY <1>2, <4>1, <6>1, Sizes
          <5>2. ASSUME Op(0) PROVE FALSE
            <6>1. 0 \in 0..(week - 1)
              BY Sizes
            <6>2. PICK j \in 1..n : m[j][1] = 0
              BY <1>2, <5>2, <6>1
            <6>3. j = 1
              <7>1. 1 < j => m[1][2] < m[j][1]
                BY <1>2, <3>0
              <7> QED  BY <1>2, <3>0, <6>2, <7>1
            <6>4. n = 1
              BY <1>2, <1>9, <3>0, <4>1, <5>1, <6>2, <6>3
            <6> QED  BY <2>2, <2>4, <4>1, <5>1, <6>2, <6>3, <6>4
          <5>3. week + 0 = week
            BY Sizes
          <5> QED  BY <1>4, <4>1, <5>2, <5>3
        <4>2. CASE m[i][2] # week
          BY <1>2, <4>2, Sizes
        <4> QED  BY <4>1, <4>2
      <3> QED  BY <1>7, <3>1, <3>2, <3>3
    <2>5. ~NeverCloses(entries) => \A o \in occs : Run(entries, o.start, o.length)
      BY <2>1, <2>4
    <2>6. ASSUME NEW t \in 0..(week - 1), Op(t), ~Op(t - 1) PROVE \E o \in occs : o.start = t
      <3>1. PICK i \in 1..n : m[i][1] = t
        BY <1>2, <2>6
      <3>2. occ(i) \in occs /\ occ(i).start = t
        BY <2>1, <3>1
      <3> QED  BY <3>2
    <2> QED  BY <1>5, <1>6, <2>2, <2>3, <2>5, <2>6 DEF occs
  <1> QED  BY <1>8, <1>9

Opening(entries, t) == InWindow(entries, t) /\ ~InWindow(entries, t - 1)

LEMMA OpeningWeekly ==
  ASSUME NEW entries, entries \subseteq Entry, NEW t \in Int, NEW j \in Int
  PROVE  Opening(entries, t + week * j) <=> Opening(entries, t)
  <1>1. t - 1 \in Int /\ (t + week * j) - 1 = (t - 1) + week * j
    BY Sizes
  <1>2. /\ InWindow(entries, t + week * j) <=> InWindow(entries, t)
        /\ InWindow(entries, (t - 1) + week * j) <=> InWindow(entries, t - 1)
    BY <1>1, InWeekly
  <1> QED  BY <1>1, <1>2 DEF Opening

\* A window that closes, as the three figures see it.
LEMMA Closing ==
  ASSUME NEW entries, entries \subseteq Entry, entries # {}, ~NeverCloses(entries),
         NEW occs, occs = mergedOccurrences(entries)
  PROVE  /\ occs # {} /\ ~AlwaysOpen(occs)
         /\ \A o \in occs : /\ o.start \in 0..(week - 1) /\ o.length \in 1..(week - 1)
                            /\ Run(entries, o.start, o.length)
                            /\ Opening(entries, o.start)
         /\ \A t \in 0..(week - 1) : Opening(entries, t) => \E o \in occs : o.start = t
         /\ \A o, p \in occs : o.start = p.start => o.length = p.length
  <1>1. /\ occs # {}
        /\ \A o \in occs : Run(entries, o.start, o.length)
        /\ \A t \in 0..(week - 1) : Opening(entries, t) => \E o \in occs : o.start = t
    BY OccsAre DEF Opening
  <1>2. ASSUME NEW o \in occs
        PROVE  /\ o.start \in 0..(week - 1) /\ o.length \in 1..(week - 1)
               /\ Opening(entries, o.start)
    <2>1. Run(entries, o.start, o.length)
      BY <1>1
    <2>2. o.start \in 0..(week - 1) /\ o.length \in 1..(week - 1) /\ ~InWindow(entries, o.start - 1)
      BY <2>1 DEF Run
    <2>3. InWindow(entries, o.start)
      BY <2>1, <2>2, Sizes DEF Run
    <2> QED  BY <2>2, <2>3 DEF Opening
  <1>3. ~AlwaysOpen(occs)
    BY <1>2, Sizes DEF AlwaysOpen
  <1>4. ASSUME NEW o \in occs, NEW p \in occs, o.start = p.start, o.length < p.length PROVE FALSE
    <2>1. /\ o.start + o.length \in Int
          /\ p.start <= o.start + o.length /\ o.start + o.length < p.start + p.length
      BY <1>2, <1>4, Sizes
    <2> QED  BY <1>1, <2>1 DEF Run
  <1>5. ASSUME NEW o \in occs, NEW p \in occs, o.start = p.start PROVE o.length = p.length
    <2>1. ~(o.length < p.length) /\ ~(p.length < o.length)
      BY <1>4, <1>5
    <2> QED  BY <1>2, <2>1, Sizes
  <1> QED  BY <1>1, <1>2, <1>3, <1>5

\* The next start is the next opening, and the window is closed in between.
LEMMA NextIs ==
  ASSUME NEW entries, entries \subseteq Entry, entries # {}, ~NeverCloses(entries),
         NEW occs, occs = mergedOccurrences(entries), NEW o \in occs
  PROVE  LET N == nextStart(occs, o)
             end == o.start + o.length
         IN  /\ N \in Int /\ end < N /\ N <= o.start + week
             /\ Opening(entries, N)
             /\ \A u \in Int : o.start < u /\ u < N => ~Opening(entries, u)
             /\ \A u \in Int : end <= u /\ u < N => ~InWindow(entries, u)
  <1> DEFINE N == nextStart(occs, o)
             end == o.start + o.length
             later == {p.start : p \in {q \in occs : q.start > o.start}}
             starts == {p.start : p \in occs}
  <1>1. /\ \A p \in occs : p.start \in 0..(week - 1) /\ Opening(entries, p.start)
        /\ \A t \in 0..(week - 1) : Opening(entries, t) => \E p \in occs : p.start = t
    BY Closing
  <1>2. Run(entries, o.start, o.length) /\ o.start \in 0..(week - 1) /\ o.length \in 1..(week - 1)
    BY Closing
  <1>3. N = IF later # {} THEN Min(later) ELSE Min(starts) + week
    BY DEF nextStart
  <1>4. \A t : t \in later <=> t \in starts /\ t > o.start
    OBVIOUS
  <1>5. starts \subseteq Int /\ starts # {} /\ later \subseteq starts /\ \A x \in starts : 0 <= x
    BY <1>1, <1>4, Sizes
  <1>6. \A t \in Int : Opening(entries, week + t) <=> Opening(entries, t)
    <2>1. ASSUME NEW t \in Int PROVE Opening(entries, week + t) <=> Opening(entries, t)
      <3>1. t + week * 1 = week + t
        BY Sizes
      <3> QED  BY <3>1, OpeningWeekly
    <2> QED  BY <2>1
  <1>7. \A t : t \in starts <=> t \in 0..(week - 1) /\ Opening(entries, t)
    BY <1>1
  <1> HIDE DEF N, later, starts
  <1>8. /\ N \in Int /\ o.start < N /\ N <= o.start + week /\ Opening(entries, N)
        /\ \A u \in Int : o.start < u /\ u < N => ~Opening(entries, u)
    <2>1. CASE later # {}
      <3>1. Min(later) \in later /\ \A x \in later : Min(later) <= x
        <4>1. later \subseteq Nat
          BY <1>5
        <4> QED  BY <2>1, <4>1, MinNat
      <3>2. N \in later /\ \A x \in later : N <= x
        BY <1>3, <2>1, <3>1
      <3>3. N \in 0..(week - 1) /\ Opening(entries, N) /\ N > o.start
        BY <1>4, <1>7, <3>2
      <3>4. ASSUME NEW u \in Int, o.start < u, u < N PROVE ~Opening(entries, u)
        <4>1. u \in 0..(week - 1)
          BY <1>2, <3>3, <3>4, Sizes
        <4>2. Opening(entries, u) => N <= u
          BY <1>4, <1>7, <3>2, <3>4, <4>1
        <4>3. N \in Int
          BY <3>3
        <4>4. ~(N <= u)
          BY <3>4, <4>3
        <4> QED  BY <4>2, <4>4
      <3>5. N \in Int /\ o.start < N /\ N <= o.start + week
        BY <1>2, <3>3, Sizes
      <3> QED  BY <3>3, <3>4, <3>5
    <2>2. CASE later = {}
      <3> DEFINE f == Min(starts)
      <3>1. f \in starts /\ \A x \in starts : f <= x
        <4>1. starts \subseteq Nat /\ starts # {}
          BY <1>5
        <4> QED  BY <4>1, MinNat
      <3> HIDE DEF f
      <3>2. N = f + week
        BY <1>3, <2>2 DEF f
      <3>3. f \in 0..(week - 1) /\ Opening(entries, f)
        BY <1>7, <3>1
      <3>4. o.start \in starts
        BY DEF starts
      <3>5. f <= o.start
        BY <3>1, <3>4
      <3>6. Opening(entries, N)
        <4>1. N = week + f
          BY <3>2, <3>3, Sizes
        <4> QED  BY <1>6, <3>3, <4>1
      <3>7. ASSUME NEW u \in Int, o.start < u, u < N PROVE ~Opening(entries, u)
        <4>1. CASE u < week
          <5>1. u \in 0..(week - 1)
            BY <1>2, <3>7, <4>1, Sizes
          <5> QED  BY <1>4, <1>7, <2>2, <3>7, <5>1
        <4>2. CASE ~(u < week)
          <5>1. /\ u - week \in 0..(week - 1) /\ u - week < f /\ week + (u - week) = u
            BY <3>2, <3>3, <3>7, <4>2, Sizes
          <5>2. Opening(entries, u - week) => f <= u - week
            BY <1>7, <3>1, <5>1
          <5>3. Opening(entries, u) <=> Opening(entries, u - week)
            BY <1>6, <5>1
          <5> QED  BY <3>3, <5>1, <5>2, <5>3, Sizes
        <4> QED  BY <4>1, <4>2
      <3>8. N \in Int /\ o.start < N /\ N <= o.start + week
        BY <1>2, <3>2, <3>3, <3>5, Sizes
      <3> QED  BY <3>6, <3>7, <3>8
    <2> QED  BY <2>1, <2>2
  <1>9. /\ end \in Int /\ o.start < end /\ ~InWindow(entries, end)
        /\ \A u \in Int : o.start <= u /\ u < end => InWindow(entries, u)
    BY <1>2, Sizes DEF Run
  <1> HIDE DEF end
  <1>10. end < N
    <2>1. InWindow(entries, N) /\ ~InWindow(entries, N - 1)
      BY <1>8 DEF Opening
    <2>2. N < end => N - 1 \in Int /\ o.start <= N - 1 /\ N - 1 < end
      BY <1>2, <1>8, <1>9, Sizes
    <2>3. N # end /\ ~(N < end)
      BY <1>9, <2>1, <2>2
    <2> QED  BY <1>8, <1>9, <2>3
  <1>11. ASSUME NEW u \in Int, end <= u, u < N, InWindow(entries, u) PROVE FALSE
    <2> DEFINE K == {k \in Nat : end + k < N /\ InWindow(entries, end + k)}
    <2>1. u - end \in K
      <3>1. u - end \in Nat /\ end + (u - end) = u
        BY <1>9, <1>11
      <3> QED  BY <1>11, <3>1
    <2>2. PICK k \in K : \A x \in K : k <= x
      <3>1. K \subseteq Nat /\ K # {}
        BY <2>1
      <3> HIDE DEF K
      <3> QED  BY <3>1, LeastNat
    <2>3. k \in Nat /\ end + k < N /\ InWindow(entries, end + k)
      BY <2>2
    <2>4. k # 0
      <3>1. end + 0 = end
        BY <1>9
      <3> QED  BY <1>9, <2>3, <3>1
    <2>5. ~InWindow(entries, (end + k) - 1)
      <3>1. k - 1 \in Nat /\ ~(k <= k - 1) /\ end + (k - 1) = (end + k) - 1
            /\ (end + k) - 1 < N
        BY <1>8, <1>9, <2>3, <2>4
      <3>2. k - 1 \notin K
        BY <2>2, <3>1
      <3> QED  BY <3>1, <3>2
    <2>6. Opening(entries, end + k)
      BY <2>3, <2>5 DEF Opening
    <2>7. end + k \in Int /\ o.start < end + k
      BY <1>2, <1>9, <2>3, Sizes
    <2> QED  BY <1>8, <2>3, <2>6, <2>7
  <1> QED  BY <1>8, <1>10, <1>11 DEF N, end

\* P is the longest of the spans from an opening to the next, and one of them.
LEMMA PeriodIs ==
  ASSUME NEW entries, entries \subseteq Entry, entries # {}, ~NeverCloses(entries),
         NEW occs, occs = mergedOccurrences(entries), NEW P, P = WorstCasePeriod(entries)
  PROVE  /\ P \in 1..week
         /\ \A o \in occs : nextStart(occs, o) - o.start <= P
         /\ \E o \in occs : nextStart(occs, o) - o.start = P
  <1> DEFINE gap(o) == nextStart(occs, o) - o.start
             G == {gap(o) : o \in occs}
  <1>1. occs # {} /\ ~AlwaysOpen(occs)
    BY Closing
  <1>2. P = Max(G)
    BY <1>1 DEF WorstCasePeriod
  <1>3. ASSUME NEW o \in occs PROVE gap(o) \in 1..week
    <2>1. o.start \in 0..(week - 1) /\ o.length \in 1..(week - 1)
      BY Closing
    <2>2. /\ nextStart(occs, o) \in Int /\ o.start + o.length < nextStart(occs, o)
          /\ nextStart(occs, o) <= o.start + week
      BY NextIs
    <2> QED  BY <2>1, <2>2, Sizes
  <1>4. G \subseteq Int /\ G # {} /\ \A x \in G : x <= week
    BY <1>1, <1>3, Sizes
  <1>5. Max(G) \in G /\ \A x \in G : x <= Max(G)
    <2> HIDE DEF G
    <2>1. week \in Int
      BY Sizes
    <2> QED  BY <1>4, <2>1, MaxIs
  <1> HIDE DEF gap
  <1>6. P \in G /\ \A o \in occs : gap(o) <= P
    BY <1>2, <1>5
  <1> QED  BY <1>3, <1>6 DEF gap

\* However late it is, the window opens within P.
LEMMA OpensWithinPeriod ==
  ASSUME NEW entries, entries \subseteq Entry, entries # {}, ~NeverCloses(entries),
         NEW t \in Int
  PROVE  \E u \in Int : /\ t < u /\ u <= t + WorstCasePeriod(entries)
                        /\ Opening(entries, u)
  <1> DEFINE occs == mergedOccurrences(entries)
             P == WorstCasePeriod(entries)
             r == t % week
             j == t \div week
             before == {x \in {o.start : o \in occs} : x <= r}
             starts == {o.start : o \in occs}
  <1>1. r \in 0..(week - 1) /\ j \in Int /\ t = week * j + r
    BY Sizes, DivMod
  <1>2. /\ occs # {}
        /\ \A o \in occs : o.start \in 0..(week - 1)
    BY Closing
  <1>3. P \in 1..week /\ \A o \in occs : nextStart(occs, o) - o.start <= P
    BY PeriodIs
  <1>4. \A o \in occs :
          /\ nextStart(occs, o) \in Int /\ Opening(entries, nextStart(occs, o))
          /\ \A u \in Int : o.start < u /\ u < nextStart(occs, o) => ~Opening(entries, u)
          /\ o.start < nextStart(occs, o) /\ nextStart(occs, o) <= o.start + week
    <2>1. ASSUME NEW o \in occs
          PROVE  /\ nextStart(occs, o) \in Int /\ Opening(entries, nextStart(occs, o))
                 /\ \A u \in Int : o.start < u /\ u < nextStart(occs, o) => ~Opening(entries, u)
                 /\ o.start < nextStart(occs, o) /\ nextStart(occs, o) <= o.start + week
      <3>1. o.start \in 0..(week - 1) /\ o.length \in 1..(week - 1)
        BY Closing
      <3>2. /\ nextStart(occs, o) \in Int /\ Opening(entries, nextStart(occs, o))
            /\ \A u \in Int : o.start < u /\ u < nextStart(occs, o) => ~Opening(entries, u)
            /\ o.start + o.length < nextStart(occs, o)
            /\ nextStart(occs, o) <= o.start + week
        BY NextIs
      <3> QED  BY <3>1, <3>2, Sizes
    <2> QED  BY <2>1
  <1>5. \A o \in occs : Opening(entries, o.start)
    BY Closing
  <1>6. ASSUME NEW v \in Int, r < v, v <= r + P, Opening(entries, v)
        PROVE  \E u \in Int : t < u /\ u <= t + P /\ Opening(entries, u)
    <2> DEFINE u == v + week * j
    <2>1. week * j \in Int
      BY <1>1, Sizes
    <2>2. u \in Int /\ t < u /\ u <= t + P
      <3> HIDE DEF r, j, P
      <3> QED  BY <1>1, <1>3, <1>6, <2>1, Sizes
    <2>3. Opening(entries, u)
      BY <1>1, <1>6, OpeningWeekly
    <2> QED  BY <2>2, <2>3
  <1>7. \A o \in occs : nextStart(occs, o) <= P + o.start
    <2> HIDE DEF occs, P
    <2> QED  BY <1>2, <1>3, <1>4, Sizes
  <1>8. week \in Int /\ \A x \in starts : x \in Int /\ 0 <= x /\ x <= week /\ x < week
    BY <1>2, Sizes
  <1> HIDE DEF P, r, j, occs
  <1>9. CASE before # {}
    <2>1. PICK o \in occs : o.start <= r /\ \A x \in before : x <= o.start
      <3>1. before \subseteq Int /\ \A x \in before : x <= week
        BY <1>8
      <3>2. Max(before) \in before /\ \A x \in before : x <= Max(before)
        <4> HIDE DEF before
        <4> QED  BY <1>8, <1>9, <3>1, MaxIs
      <3> QED  BY <3>2
    <2> DEFINE v == nextStart(occs, o)
    <2>2. v \in Int /\ Opening(entries, v) /\ o.start < v /\ v <= P + o.start
          /\ o.start \in 0..(week - 1)
      BY <1>2, <1>4, <1>7
    <2>3. r < v
      <3> SUFFICES ASSUME v <= r PROVE FALSE
        BY <1>1, <2>2, Sizes
      <3>1. v \in 0..(week - 1)
        BY <1>1, <2>2, Sizes
      <3>2. v \in starts
        <4>1. \A w \in 0..(week - 1) : Opening(entries, w) => \E p \in occs : p.start = w
          BY Closing DEF occs
        <4> HIDE DEF v
        <4> QED  BY <2>2, <3>1, <4>1
      <3>3. v <= o.start
        BY <2>1, <3>2
      <3> HIDE DEF v
      <3> QED  BY <2>2, <3>3, Sizes
    <2>4. v <= r + P
      <3> HIDE DEF v
      <3> QED  BY <1>1, <1>3, <2>1, <2>2, Sizes
    <2> HIDE DEF v
    <2> QED  BY <1>6, <2>2, <2>3, <2>4 DEF P
  <1>10. CASE before = {}
    <2>1. \A x \in starts : r < x
      BY <1>1, <1>8, <1>10, Sizes
    <2>2. PICK o \in occs : \A x \in starts : x <= o.start
      <3>1. starts \subseteq Int /\ starts # {} /\ \A x \in starts : x <= week
        BY <1>2, <1>8
      <3>2. Max(starts) \in starts /\ \A x \in starts : x <= Max(starts)
        <4> HIDE DEF starts
        <4> QED  BY <1>8, <3>1, MaxIs
      <3> QED  BY <3>2
    <2> DEFINE f == nextStart(occs, o) - week
    <2>3. /\ nextStart(occs, o) \in Int /\ Opening(entries, nextStart(occs, o))
          /\ nextStart(occs, o) <= P + o.start /\ o.start \in 0..(week - 1)
          /\ o.start < nextStart(occs, o)
          /\ nextStart(occs, o) <= o.start + week
      BY <1>2, <1>4, <1>7
    <2>4. ~(nextStart(occs, o) < week)
      <3> SUFFICES ASSUME nextStart(occs, o) < week PROVE FALSE
        OBVIOUS
      <3>1. nextStart(occs, o) \in 0..(week - 1)
        BY <2>3, Sizes
      <3>2. nextStart(occs, o) \in starts
        <4>1. \A w \in 0..(week - 1) : Opening(entries, w) => \E p \in occs : p.start = w
          BY Closing DEF occs
        <4> QED  BY <2>3, <3>1, <4>1
      <3>3. nextStart(occs, o) <= o.start
        BY <2>2, <3>2
      <3> HIDE DEF starts, before
      <3>4. o.start \in Int
        BY <2>3, Sizes
      <3> QED  BY <2>3, <3>3, <3>4
    <2>5. f \in 0..(week - 1) /\ f + week * 1 = nextStart(occs, o)
      BY <2>3, <2>4, Sizes
    <2>6. Opening(entries, f)
      <3>1. f \in Int /\ 1 \in Int
        BY <2>5, Sizes
      <3> HIDE DEF f
      <3> QED  BY <2>3, <2>5, <3>1, OpeningWeekly
    <2>7. r < f
      <3>1. f \in starts
        <4>1. \A w \in 0..(week - 1) : Opening(entries, w) => \E p \in occs : p.start = w
          BY Closing DEF occs
        <4> HIDE DEF f
        <4> QED  BY <2>5, <2>6, <4>1
      <3> QED  BY <2>1, <3>1
    <2>8. f \in Int /\ f <= r + P
      BY <1>1, <1>3, <2>3, <2>5, Sizes
    <2> HIDE DEF f
    <2> QED  BY <1>6, <2>6, <2>7, <2>8 DEF P
  <1> QED  BY <1>9, <1>10

-----------------------------------------------------------------------------
(***************************************************************************)
(* The three figures of the week.                                          *)
(***************************************************************************)

Length(entries, t) ==
    Min({n \in 1..week : InWindow(entries, t + n) # InWindow(entries, t)})

LEMMA LengthIs ==
  ASSUME NEW entries, NEW t \in Int, NEW n \in 1..week,
         ~(InWindow(entries, t + n) <=> InWindow(entries, t)),
         \A u \in Int : t <= u /\ u < t + n => (InWindow(entries, u) <=> InWindow(entries, t))
  PROVE  Length(entries, t) = n
  <1> DEFINE S == {k \in 1..week : InWindow(entries, t + k) # InWindow(entries, t)}
  <1>1. n \in S
    BY DEF InWindow
  <1>2. ASSUME NEW k \in S PROVE n <= k
    <2>1. k \in 1..week /\ ~(InWindow(entries, t + k) <=> InWindow(entries, t))
      BY DEF InWindow
    <2>2. k < n => t + k \in Int /\ t <= t + k /\ t + k < t + n
      BY <2>1, Sizes
    <2>3. ~(k < n)
      BY <2>1, <2>2
    <2> QED  BY <2>1, <2>3, Sizes
  <1>3. S \subseteq Nat /\ S # {}
    BY <1>1
  <1> HIDE DEF S
  <1>4. Min(S) \in S /\ \A k \in S : Min(S) <= k
    BY <1>3, MinNat
  <1>5. Min(S) \in Nat /\ n \in Nat /\ Min(S) <= n /\ n <= Min(S)
    BY <1>1, <1>2, <1>3, <1>4
  <1>6. Min(S) = n
    BY <1>5
  <1> QED  BY <1>6 DEF Length, S

LEMMA LengthWeekly ==
  ASSUME NEW entries, entries \subseteq Entry, NEW t \in Int, NEW j \in Int
  PROVE  Length(entries, t + week * j) = Length(entries, t)
  <1> DEFINE L(v) == {n \in 1..week : InWindow(entries, v + n) # InWindow(entries, v)}
  <1>1. ASSUME NEW n \in Nat
        PROVE  InWindow(entries, (t + week * j) + n) = InWindow(entries, t + n)
    <2>1. (t + week * j) + n = (t + n) + week * j /\ t + n \in Int
      BY Sizes
    <2>2. InWindow(entries, (t + n) + week * j) <=> InWindow(entries, t + n)
      BY <2>1, InWeekly
    <2> QED  BY <2>1, <2>2 DEF InWindow
  <1>2. InWindow(entries, t + week * j) = InWindow(entries, t)
    <2>1. InWindow(entries, t + week * j) <=> InWindow(entries, t)
      BY InWeekly
    <2> QED  BY <2>1 DEF InWindow
  <1>3. L(t + week * j) = L(t)
    BY <1>1, <1>2, \A n \in 1..week : n \in Nat
  <1> QED  BY <1>3 DEF Length

\* What is left of the week after an occurrence, seen from the next tick on.
LEMMA GapAfter ==
  ASSUME NEW entries, entries \subseteq Entry, entries # {}, ~NeverCloses(entries),
         NEW occs, occs = mergedOccurrences(entries), NEW o \in occs
  PROVE  LET end == o.start + o.length
         IN  /\ end \in Int /\ ~InWindow(entries, end) /\ InWindow(entries, end - 1)
             /\ Length(entries, end) = nextStart(occs, o) - end
  <1> DEFINE end == o.start + o.length
             N == nextStart(occs, o)
  <1>1. /\ o.start \in 0..(week - 1) /\ o.length \in 1..(week - 1)
        /\ Run(entries, o.start, o.length)
    BY Closing
  <1>2. /\ end \in Int /\ ~InWindow(entries, end)
        /\ \A u \in Int : o.start <= u /\ u < end => InWindow(entries, u)
        /\ o.start <= end - 1 /\ end - 1 < end /\ end - 1 \in Int /\ o.start < end
    BY <1>1, Sizes DEF Run
  <1>3. /\ N \in Int /\ end < N /\ N <= o.start + week /\ Opening(entries, N)
        /\ \A u \in Int : end <= u /\ u < N => ~InWindow(entries, u)
    BY NextIs
  <1>4. InWindow(entries, end - 1)
    BY <1>2
  <1> HIDE DEF end, N
  <1>5. N - end \in 1..week /\ end + (N - end) = N
    BY <1>1, <1>2, <1>3, Sizes
  <1>6. Length(entries, end) = N - end
    <2> DEFINE n == N - end
    <2>1. n \in 1..week /\ end + n = N
      BY <1>5
    <2> HIDE DEF n
    <2>2. InWindow(entries, end + n)
      BY <1>3, <2>1 DEF Opening
    <2>3. Length(entries, end) = n
      BY <1>2, <1>3, <2>1, <2>2, LengthIs
    <2> QED  BY <2>3 DEF n
  <1> QED  BY <1>2, <1>4, <1>6 DEF end, N

\* Before every closing instant lies the occurrence that closes there.
LEMMA GapFrom ==
  ASSUME NEW entries, entries \subseteq Entry, entries # {}, ~NeverCloses(entries),
         NEW occs, occs = mergedOccurrences(entries),
         NEW t \in Int, ~InWindow(entries, t), InWindow(entries, t - 1)
  PROVE  \E o \in occs : \E j \in Int : t = (o.start + o.length) + week * j
  <1> DEFINE K == {k \in Nat : ~InWindow(entries, (t - 1) - k)}
  <1>1. week - 1 \in K
    <2>1. (t - 1) - (week - 1) = t + week * (-1) /\ week - 1 \in Nat
      BY Sizes
    <2>2. ~InWindow(entries, t + week * (-1))
      BY InWeekly, -1 \in Int
    <2> QED  BY <2>1, <2>2
  <1>2. PICK k \in K : \A x \in K : k <= x
    <2>1. K \subseteq Nat /\ K # {}
      BY <1>1
    <2> HIDE DEF K
    <2> QED  BY <2>1, LeastNat
  <1>3. k \in Nat /\ ~InWindow(entries, (t - 1) - k)
    BY <1>2
  <1>4. \A x \in Nat : x < k => InWindow(entries, (t - 1) - x)
    <2>1. ASSUME NEW x \in Nat, x < k PROVE InWindow(entries, (t - 1) - x)
      <3>1. ~(k <= x)
        BY <1>3, <2>1
      <3>2. x \notin K
        BY <1>2, <3>1
      <3> QED  BY <3>2
    <2> QED  BY <2>1
  <1>5. k # 0
    <2>1. (t - 1) - 0 = t - 1
      OBVIOUS
    <2> QED  BY <1>3, <2>1
  <1> HIDE DEF K
  <1> DEFINE s == t - k
             r == s % week
             j == s \div week
  <1>6. s \in Int /\ s < t /\ s + k = t
    BY <1>3, <1>5
  <1>7. \A u \in Int : s <= u /\ u < t => InWindow(entries, u)
    <2>1. ASSUME NEW u \in Int, s <= u, u < t PROVE InWindow(entries, u)
      <3>1. (t - 1) - u \in Nat /\ (t - 1) - u < k /\ (t - 1) - ((t - 1) - u) = u
        BY <1>3, <2>1
      <3> QED  BY <1>4, <3>1
    <2> QED  BY <2>1
  <1>8. ~InWindow(entries, s - 1)
    <2>1. s - 1 = (t - 1) - k
      BY <1>3
    <2> QED  BY <1>3, <2>1
  <1>9. Opening(entries, s)
    BY <1>6, <1>7, <1>8 DEF Opening
  <1> HIDE DEF s
  <1>10. r \in 0..(week - 1) /\ j \in Int /\ s = r + week * j
    <2>1. r \in 0..(week - 1) /\ j \in Int /\ s = week * j + r
      BY <1>6, Sizes, DivMod
    <2>2. week * j \in Int
      BY <2>1, Sizes
    <2> HIDE DEF r, j
    <2> QED  BY <2>1, <2>2
  <1> HIDE DEF r, j
  <1>11. r \in Int /\ Opening(entries, r)
    BY <1>9, <1>10, OpeningWeekly
  <1>12. PICK o \in occs : o.start = r
    BY <1>10, <1>11, Closing
  <1>13. /\ o.length \in 1..(week - 1) /\ Run(entries, o.start, o.length)
    BY Closing
  <1>14. /\ \A u \in Int : r <= u /\ u < r + o.length => InWindow(entries, u)
         /\ ~InWindow(entries, r + o.length)
    BY <1>12, <1>13 DEF Run
  <1>15. \A u \in Int : InWindow(entries, u + week * j) <=> InWindow(entries, u)
    BY <1>10, InWeekly
  <1>16. week * j \in Int /\ o.length \in Nat
    BY <1>10, <1>13, Sizes
  <1>17. ~(o.length < k)
    <2>1. ~InWindow(entries, (r + o.length) + week * j)
      BY <1>11, <1>14, <1>15, <1>16
    <2>2. o.length < k => /\ (r + o.length) + week * j \in Int
                          /\ s <= (r + o.length) + week * j
                          /\ (r + o.length) + week * j < t
      BY <1>3, <1>6, <1>10, <1>11, <1>16
    <2> QED  BY <1>7, <2>1, <2>2
  <1>18. ~(k < o.length)
    <2>1. k < o.length => /\ r + k \in Int /\ r <= r + k /\ r + k < r + o.length
                          /\ (r + k) + week * j = t
      BY <1>3, <1>6, <1>10, <1>11, <1>16
    <2> QED  BY <1>14, <1>15, <2>1
  <1>19. o.length = k
    BY <1>3, <1>16, <1>17, <1>18
  <1>20. t = (r + o.length) + week * j
    BY <1>3, <1>6, <1>10, <1>11, <1>16, <1>19
  <1> QED  BY <1>10, <1>12, <1>20

LEMMA FiguresNever ==
  ASSUME NEW entries, entries \subseteq Entry, entries # {}, NeverCloses(entries)
  PROVE  /\ WorstCasePeriod(entries) = Step /\ ShortestWindow(entries) = week
         /\ ShortestIdleGap(entries) = -1 /\ AlwaysOpen(mergedOccurrences(entries))
  <1> DEFINE occs == mergedOccurrences(entries)
  <1>1. occs = {[start |-> 0, length |-> week]}
    BY OccsAre
  <1>2. AlwaysOpen(occs) /\ occs # {}
    <2>1. [start |-> 0, length |-> week] \in occs /\ week >= week
      BY <1>1, Sizes
    <2> QED  BY <2>1 DEF AlwaysOpen
  <1>3. {o.length : o \in occs} = {week}
    BY <1>1
  <1>4. Min({week}) = week
    <2>1. {week} \subseteq Nat /\ {week} # {}
      BY Sizes
    <2>2. Min({week}) \in {week}
      BY <2>1, MinNat
    <2> QED  BY <2>2
  <1> HIDE DEF occs
  <1> QED
    BY <1>2, <1>3, <1>4 DEF WorstCasePeriod, ShortestWindow, ShortestIdleGap, occs

LEMMA FiguresCloses ==
  ASSUME NEW entries, entries \subseteq Entry, entries # {}, ~NeverCloses(entries),
         NEW occs, occs = mergedOccurrences(entries)
  PROVE  /\ {o.start : o \in occs} = {t \in 0..(week - 1) : Opening(entries, t)}
         /\ \A t \in Int : \E u \in (t + 1)..(t + WorstCasePeriod(entries)) :
              Opening(entries, u % week)
         /\ \E t \in 0..(week - 1) : \A u \in (t + 1)..(t + WorstCasePeriod(entries) - 1) :
              ~Opening(entries, u % week)
         /\ ShortestWindow(entries)
              = Min({Length(entries, t) : t \in {s \in 0..(week - 1) : Opening(entries, s)}})
         /\ ShortestIdleGap(entries)
              = Min({Length(entries, t) : t \in {s \in 0..(week - 1) :
                       ~InWindow(entries, s) /\ InWindow(entries, s - 1)}})
  <1> DEFINE P == WorstCasePeriod(entries)
  <1>1. /\ occs # {} /\ ~AlwaysOpen(occs)
        /\ \A o \in occs : /\ o.start \in 0..(week - 1) /\ o.length \in 1..(week - 1)
                           /\ Run(entries, o.start, o.length)
                           /\ Opening(entries, o.start)
        /\ \A t \in 0..(week - 1) : Opening(entries, t) => \E o \in occs : o.start = t
    BY Closing
  <1>2. ASSUME NEW u \in Int
        PROVE  /\ u % week \in 0..(week - 1)
               /\ Opening(entries, u % week) <=> Opening(entries, u)
               /\ InWindow(entries, u % week) <=> InWindow(entries, u)
               /\ InWindow(entries, (u % week) - 1) <=> InWindow(entries, u - 1)
               /\ Length(entries, u % week) = Length(entries, u)
    <2> DEFINE r == u % week
               j == u \div week
    <2>1. r \in 0..(week - 1) /\ j \in Int /\ u = week * j + r
      BY Sizes, DivMod
    <2> HIDE DEF r, j
    <2>2. r \in Int /\ r - 1 \in Int /\ u = r + week * j /\ u - 1 = (r - 1) + week * j
      BY <2>1, Sizes
    <2>3. /\ Opening(entries, r + week * j) <=> Opening(entries, r)
          /\ Length(entries, r + week * j) = Length(entries, r)
          /\ InWindow(entries, r + week * j) <=> InWindow(entries, r)
          /\ InWindow(entries, (r - 1) + week * j) <=> InWindow(entries, r - 1)
      BY <2>1, <2>2, OpeningWeekly, LengthWeekly, InWeekly
    <2> QED  BY <2>1, <2>2, <2>3 DEF r
  <1>3. {o.start : o \in occs} = {t \in 0..(week - 1) : Opening(entries, t)}
    BY <1>1
  <1>4. P \in 1..week
    BY PeriodIs
  <1>5. ASSUME NEW t \in Int PROVE \E u \in (t + 1)..(t + P) : Opening(entries, u % week)
    <2>1. PICK u \in Int : t < u /\ u <= t + P /\ Opening(entries, u)
      BY OpensWithinPeriod
    <2>2. u \in (t + 1)..(t + P)
      BY <1>4, <2>1, Sizes
    <2>3. Opening(entries, u % week)
      BY <1>2, <2>1
    <2> QED  BY <2>2, <2>3
  <1>6. \E t \in 0..(week - 1) : \A u \in (t + 1)..(t + P - 1) : ~Opening(entries, u % week)
    <2>1. PICK o \in occs : nextStart(occs, o) - o.start = P
      BY PeriodIs
    <2> DEFINE N == nextStart(occs, o)
    <2>2. N \in Int /\ \A u \in Int : o.start < u /\ u < N => ~Opening(entries, u)
      BY NextIs
    <2>3. o.start \in 0..(week - 1) /\ N = o.start + P
      <3>1. o.start \in 0..(week - 1)
        BY <1>1
      <3> HIDE DEF P
      <3> QED  BY <1>4, <2>1, <2>2, <3>1, Sizes
    <2> HIDE DEF N
    <2>4. ASSUME NEW u \in (o.start + 1)..(o.start + P - 1) PROVE ~Opening(entries, u % week)
      <3>1. u \in Int /\ o.start < u /\ u < N
        BY <1>4, <2>3, Sizes
      <3> QED  BY <1>2, <2>2, <3>1
    <2> QED  BY <2>3, <2>4
  <1>7. ShortestWindow(entries)
          = Min({Length(entries, t) : t \in {s \in 0..(week - 1) : Opening(entries, s)}})
    <2>1. ASSUME NEW o \in occs PROVE Length(entries, o.start) = o.length
      <3>1. /\ o.start \in 0..(week - 1) /\ o.length \in 1..(week - 1)
            /\ Run(entries, o.start, o.length) /\ Opening(entries, o.start)
        BY <1>1
      <3>2. /\ InWindow(entries, o.start) /\ ~InWindow(entries, o.start + o.length)
            /\ \A u \in Int : o.start <= u /\ u < o.start + o.length => InWindow(entries, u)
        BY <3>1 DEF Opening, Run
      <3>3. o.start \in Int /\ o.length \in 1..week
        BY <3>1, Sizes
      <3> QED  BY <3>2, <3>3, LengthIs
    <2>2. {o.length : o \in occs}
            = {Length(entries, t) : t \in {s \in 0..(week - 1) : Opening(entries, s)}}
      <3>1. \A n : n \in {o.length : o \in occs}
                     <=> \E s \in 0..(week - 1) : Opening(entries, s) /\ n = Length(entries, s)
        BY <1>1, <2>1
      <3> QED  BY <3>1
    <2> QED  BY <1>1, <2>2 DEF ShortestWindow
  <1>8. ShortestIdleGap(entries)
          = Min({Length(entries, t) : t \in {s \in 0..(week - 1) :
                   ~InWindow(entries, s) /\ InWindow(entries, s - 1)}})
    <2> DEFINE gap(o) == nextStart(occs, o) - (o.start + o.length)
               closings == {s \in 0..(week - 1) :
                              ~InWindow(entries, s) /\ InWindow(entries, s - 1)}
    <2>1. ASSUME NEW o \in occs PROVE \E s \in closings : gap(o) = Length(entries, s)
      <3> DEFINE end == o.start + o.length
      <3>1. /\ end \in Int /\ ~InWindow(entries, end) /\ InWindow(entries, end - 1)
            /\ Length(entries, end) = gap(o)
        BY GapAfter
      <3> HIDE DEF end
      <3>2. end % week \in closings /\ Length(entries, end % week) = gap(o)
        BY <1>2, <3>1
      <3> QED  BY <3>2
    <2>2. ASSUME NEW s \in closings PROVE \E o \in occs : gap(o) = Length(entries, s)
      <3>1. s \in Int
        BY Sizes
      <3>2. PICK o \in occs : \E j \in Int : s = (o.start + o.length) + week * j
        BY <3>1, GapFrom
      <3>3. PICK j \in Int : s = (o.start + o.length) + week * j
        BY <3>2
      <3>4. o.start + o.length \in Int /\ Length(entries, o.start + o.length) = gap(o)
        BY GapAfter
      <3> HIDE DEF gap
      <3>5. Length(entries, s) = gap(o)
        BY <3>3, <3>4, LengthWeekly
      <3> QED  BY <3>5
    <2>3. {gap(o) : o \in occs} = {Length(entries, t) : t \in closings}
      <3> HIDE DEF gap, closings
      <3> QED  BY <2>1, <2>2
    <2>4. ShortestIdleGap(entries) = Min({gap(o) : o \in occs})
      BY <1>1 DEF ShortestIdleGap
    <2> QED  BY <2>3, <2>4
  <1> QED
    <2>1. 0..(week - 1) \subseteq Int
      OBVIOUS
    <2> QED  BY <1>3, <1>5, <1>6, <1>7, <1>8

\* The week the figures are taken from is the one InWindow sees, whatever the entries:
\* its occurrences are the maximal open runs, P the longest wait for an opening, D the
\* shortest run and the gap the shortest closed one (mergedOccurrences,
\* WorstCasePeriod, ShortestWindow and ShortestIdleGap of internal/window).
THEOREM WeekFiguresHold == Spec => []WeekFigures
  <1>1. ASSUME CalendarInv PROVE WeekFigures
    <2> DEFINE E == pool.entries
               ticks == 0..(week - 1)
               P == WorstCasePeriod(E)
               runs(open) == {t \in ticks : In(t) = open /\ In(t - 1) # open}
               length(t) == Min({n \in 1..week : In(t + n) # In(t)})
    <2>1. E \subseteq Entry /\ E # {}
      BY <1>1 DEF CalendarInv, PoolRec
    <2>2. \A t : In(t) = InWindow(E, t) /\ In(t) \in BOOLEAN
      BY DEF In, InWindow
    <2>3. \A t : length(t) = Length(E, t)
      BY <2>2 DEF Length
    <2>4. runs(TRUE) = {t \in ticks : Opening(E, t)}
      BY <2>2 DEF Opening
    <2>5. runs(FALSE) = {t \in ticks : ~InWindow(E, t) /\ InWindow(E, t - 1)}
      BY <2>2
    <2>6. CASE \A t \in ticks : In(t)
      <3>1. NeverCloses(E)
        BY <2>2, <2>6 DEF NeverCloses
      <3>2. P = Step /\ ShortestWindow(E) = week /\ ShortestIdleGap(E) = -1
        BY <2>1, <3>1, FiguresNever
      <3> QED  BY <2>6, <3>2 DEF WeekFigures
    <2>7. CASE ~\A t \in ticks : In(t)
      <3>1. ~NeverCloses(E)
        BY <2>2, <2>7 DEF NeverCloses
      <3>2. /\ {o.start : o \in mergedOccurrences(E)} = runs(TRUE)
            /\ \A t \in Int : \E u \in (t + 1)..(t + P) : Opening(E, u % week)
            /\ \E t \in ticks : \A u \in (t + 1)..(t + P - 1) : ~Opening(E, u % week)
            /\ ShortestWindow(E) = Min({Length(E, t) : t \in runs(TRUE)})
            /\ ShortestIdleGap(E) = Min({Length(E, t) : t \in runs(FALSE)})
        BY <2>1, <2>4, <2>5, <3>1, FiguresCloses
      <3>3. {Length(E, t) : t \in runs(TRUE)} = {length(t) : t \in runs(TRUE)}
            /\ {Length(E, t) : t \in runs(FALSE)} = {length(t) : t \in runs(FALSE)}
        <4> HIDE DEF length, runs
        <4> QED  BY <2>3
      <3>4. ASSUME NEW u \in Int PROVE u % week \in runs(TRUE) <=> Opening(E, u % week)
        BY <2>4, Sizes, DivMod
      <3>5. ASSUME NEW t \in ticks PROVE \E u \in (t + 1)..(t + P) : u % week \in runs(TRUE)
        <4>1. PICK u \in (t + 1)..(t + P) : Opening(E, u % week)
          BY <3>2
        <4> HIDE DEF runs, P, ticks
        <4>2. u \in Int
          OBVIOUS
        <4>3. u % week \in runs(TRUE)
          BY <3>4, <4>1, <4>2
        <4> QED  BY <4>3
      <3>6. \E t \in ticks : \A u \in (t + 1)..(t + P - 1) : u % week \notin runs(TRUE)
        <4>1. PICK t \in ticks : \A u \in (t + 1)..(t + P - 1) : ~Opening(E, u % week)
          BY <3>2
        <4> HIDE DEF runs, P, ticks
        <4>2. \A u \in (t + 1)..(t + P - 1) : u \in Int
          OBVIOUS
        <4> QED  BY <3>4, <4>1, <4>2
      <3> HIDE DEF length, runs
      <3>7. /\ ShortestWindow(E) = Min({length(t) : t \in runs(TRUE)})
            /\ ShortestIdleGap(E) = Min({length(t) : t \in runs(FALSE)})
        BY <3>2, <3>3
      <3> QED  BY <2>7, <3>2, <3>5, <3>6, <3>7 DEF WeekFigures, runs, length
    <2> QED  BY <2>6, <2>7
  <1> QED  BY <1>1, CalendarInvHolds, PTL

-----------------------------------------------------------------------------
(***************************************************************************)
(* What the pool is made into, and the chances a claim has had.            *)
(***************************************************************************)

TGPOf(c) == IF c.TGP = Unset THEN DrainFallback ELSE c.TGP

TriggerOf(c) ==
    IF pool.override # Unset THEN c.createdAt + pool.override
    ELSE c.createdAt + c.expireAfter - (resolved.leadBase + TGPOf(c))

\* An opening after the trigger and in time counts, whichever period it falls in.
ChancesCounted ==
    \A i \in DOMAIN claims : LET c == claims[i] IN
        c.expireAfter # Unset /\ start <= TriggerOf(c) =>
          \A j \in Nat, t \in Int :
            /\ TriggerOf(c) + j * WorstCasePeriod(pool.entries) < t
            /\ t <= now /\ t <= LastStart(c) /\ Opens(t)
            => j < had[i]

HistoryInv ==
    /\ start \in Nat /\ start <= now
    /\ \E n : resolved = [leadBase |-> leadBase(pool), derived |-> derivedThresholds(pool, n)]
    /\ DOMAIN had = DOMAIN claims /\ \A i \in DOMAIN had : had[i] \in Nat
    /\ ChancesCounted

LEMMA OpensSoon ==
  ASSUME pool.entries \subseteq Entry, pool.entries # {}
  PROVE  /\ WorstCasePeriod(pool.entries) \in Nat \ {0}
         /\ \A t \in Int : \E u \in Int :
              t < u /\ u <= t + WorstCasePeriod(pool.entries) /\ Opens(u)
  <1> DEFINE E == pool.entries
             P == WorstCasePeriod(E)
  <1>1. CASE NeverCloses(E)
    <2>1. P = Step /\ AlwaysOpen(mergedOccurrences(E))
      BY <1>1, FiguresNever
    <2>2. ASSUME NEW t \in Int
          PROVE  \E u \in Int : t < u /\ u <= t + P /\ Opens(u)
      <3> DEFINE q == t \div Step
                 r == t % Step
                 u == Step * (q + 1) + 0
      <3>1. q \in Int /\ r \in 0..(Step - 1) /\ t = Step * q + r
        BY Sizes, DivMod
      <3> HIDE DEF q, r
      <3>2. u = Step * q + Step /\ Step * q \in Int
        BY <3>1, Sizes
      <3>3. u \in Int /\ t < u /\ u <= t + Step
        <4> HIDE DEF u
        <4> QED  BY <3>1, <3>2, Sizes
      <3>4. u % Step = 0
        <4> DEFINE z == q + 1
        <4>1. z \in Int /\ 0 \in 0..(Step - 1) /\ u = Step * z + 0
          BY <3>1, Sizes
        <4>2. Step \in Nat \ {0}
          BY Sizes
        <4> HIDE DEF z, u
        <4> QED  BY <3>3, <4>1, <4>2, DivIs
      <3> HIDE DEF u
      <3>5. InWindow(E, u)
        <4> DEFINE w == u % week
                   k == u \div week
        <4>1. w \in 0..(week - 1) /\ k \in Int /\ u = week * k + w
          BY <3>3, Sizes, DivMod
        <4> HIDE DEF w, k
        <4>2. InWindow(E, w)
          BY <1>1, <4>1 DEF NeverCloses
        <4>3. w \in Int /\ u = w + week * k
          BY <4>1, Sizes
        <4> QED  BY <4>1, <4>2, <4>3, InWeekly
      <3>6. Opens(u)
        BY <2>1, <3>4, <3>5 DEF Opens, In
      <3> QED  BY <2>1, <3>3, <3>6
    <2>3. P \in Nat \ {0}
      BY <2>1, Sizes
    <2> QED  BY <2>2, <2>3
  <1>2. CASE ~NeverCloses(E)
    <2>1. \A u : Opening(E, u) => Opens(u)
      BY DEF Opening, Opens, In
    <2>2. ASSUME NEW t \in Int PROVE \E u \in Int : t < u /\ u <= t + P /\ Opens(u)
      <3>1. PICK u \in Int : t < u /\ u <= t + P /\ Opening(E, u)
        BY <1>2, OpensWithinPeriod
      <3> QED  BY <2>1, <3>1
    <2>3. P \in Nat \ {0}
      BY <1>2, PeriodIs
    <2> QED  BY <2>2, <2>3
  <1> QED  BY <1>1, <1>2

\* Nobody moves a claim's creation, its expiry or its grace period.
LEMMA TermsStay ==
  ASSUME CalendarInv, Next
  PROVE  /\ DOMAIN claims' = DOMAIN claims
         /\ \A i \in DOMAIN claims : /\ claims'[i].createdAt = claims[i].createdAt
                                     /\ claims'[i].expireAfter = claims[i].expireAfter
                                     /\ claims'[i].TGP = claims[i].TGP
  <1>1. PICK n \in Nat : claims \in [1..n -> ClaimRec]
    BY DEF CalendarInv, ClaimsInv
  <1>2. CASE Tick
    BY <1>2 DEF Tick
  <1>3. ASSUME NEW i \in DOMAIN claims, Start(i) \/ Fail(i) \/ Succeed(i) \/ Expire(i),
               NEW j \in DOMAIN claims
        PROVE  /\ DOMAIN claims' = DOMAIN claims
               /\ claims'[j].createdAt = claims[j].createdAt
               /\ claims'[j].expireAfter = claims[j].expireAfter
               /\ claims'[j].TGP = claims[j].TGP
    <2>1. claims[i] \in ClaimRec /\ claims[j] \in ClaimRec
      BY <1>1
    <2>2. DOMAIN claims' = DOMAIN claims
      BY <1>1, <1>3 DEF Start, Fail, Succeed, Expire
    <2>3. CASE j # i
      <3>1. claims'[j] = claims[j]
        BY <1>1, <1>3, <2>3 DEF Start, Fail, Succeed, Expire
      <3> QED  BY <2>2, <3>1
    <2>4. CASE j = i
      <3>1. CASE Start(i)
        BY <1>1, <2>1, <2>2, <2>4, <3>1 DEF Start, ClaimRec
      <3>2. CASE Fail(i)
        BY <1>1, <2>1, <2>2, <2>4, <3>2 DEF Fail, ClaimRec
      <3>3. CASE Succeed(i)
        BY <1>1, <2>1, <2>2, <2>4, <3>3 DEF Succeed, ClaimRec
      <3>4. CASE Expire(i)
        BY <1>1, <2>1, <2>2, <2>4, <3>4 DEF Expire, ClaimRec
      <3> QED  BY <1>3, <3>1, <3>2, <3>3, <3>4
    <2> QED  BY <2>2, <2>3, <2>4
  <1>4. ASSUME NEW i \in DOMAIN claims, Start(i) \/ Fail(i) \/ Succeed(i) \/ Expire(i)
        PROVE  DOMAIN claims' = DOMAIN claims
    BY <1>3, <1>4
  <1> QED  BY <1>2, <1>3, <1>4 DEF Next

\* The instants a claim's chances lie between.
LEMMA Terms ==
  ASSUME CalendarInv, resolved.leadBase = leadBase(pool),
         NEW i \in DOMAIN claims, claims[i].expireAfter # Unset
  PROVE  /\ claims[i].createdAt \in Nat /\ claims[i].expireAfter \in Nat
         /\ TGPOf(claims[i]) \in Nat
         /\ leadBase(pool) \in Nat
         /\ pool.override \in Int
         /\ TriggerOf(claims[i]) \in Int /\ LastStart(claims[i]) \in Int
         /\ \A t \in Int :
              triggered(claims[i], [inputs EXCEPT !.now = t]) <=> TriggerOf(claims[i]) < t
  <1> DEFINE c == claims[i]
             P == WorstCasePeriod(pool.entries)
  <1>1. c \in ClaimRec
    BY DEF CalendarInv, ClaimsInv
  <1>2. pool \in PoolRec /\ pool.entries \subseteq Entry /\ pool.entries # {}
    BY DEF CalendarInv, PoolRec
  <1>3. P \in Nat
    BY <1>2, OpensSoon
  <1>4. c.createdAt \in Nat /\ c.expireAfter \in Nat /\ c.TGP \in Nat \cup {Unset}
    BY <1>1 DEF ClaimRec
  <1>5. DrainFallback \in Nat /\ Buffer \in Nat
    BY DurationAssumption
  <1>6. TGPOf(c) \in Nat
    BY <1>4, <1>5 DEF TGPOf
  <1>7. pool.K \in Nat /\ pool.readyTimeout \in Nat /\ pool.override \in Int
    BY <1>2 DEF PoolRec, Unset
  <1>8. leadBase(pool) \in Nat
    <2> HIDE DEF P
    <2>1. \A k, p \in Nat : k * p \in Nat
      OBVIOUS
    <2>2. pool.K * P \in Nat
      BY <1>3, <1>7, <2>1
    <2> QED  BY <1>5, <1>7, <2>2 DEF leadBase, P
  <1>9. resolved.leadBase = leadBase(pool)
    OBVIOUS
  <1> DEFINE A == TriggerOf(c)
             L == resolved.leadBase + TGPOf(c)
  <1>10. L \in Nat
    BY <1>6, <1>8, <1>9
  <1>11. A = IF pool.override # Unset THEN c.createdAt + pool.override
             ELSE c.createdAt + c.expireAfter - L
    BY DEF TriggerOf
  <1>12. A \in Int
    <2> HIDE DEF L, A, c
    <2> QED  BY <1>4, <1>7, <1>10, <1>11
  <1>13. LastStart(c) \in Int
    <2> DEFINE T == TGPOf(c)
    <2>1. LastStart(c) = c.createdAt + c.expireAfter - (pool.readyTimeout + T + Buffer)
      BY DEF LastStart, TGPOf
    <2> HIDE DEF T, c
    <2> QED  BY <1>4, <1>5, <1>6, <1>7, <2>1 DEF T
  <1>14. ASSUME NEW t \in Int PROVE triggered(c, [inputs EXCEPT !.now = t]) <=> A < t
    <2> DEFINE in == [inputs EXCEPT !.now = t]
    <2>1. /\ in.now = t /\ in.override = pool.override /\ in.leadBase = resolved.leadBase
          /\ in.drainFallback = DrainFallback
      BY DEF inputs, selInputs
    <2> HIDE DEF in
    <2>2. LeadTimeFor(in, c) = L
      BY <2>1 DEF LeadTimeFor, TGPOf
    <2> HIDE DEF L, A
    <2>3. triggered(c, in) <=> IF pool.override # Unset THEN t - c.createdAt > pool.override
                               ELSE t - c.createdAt > c.expireAfter - L
      BY <2>1, <2>2 DEF triggered
    <2> HIDE DEF c
    <2>4. A < t <=> IF pool.override # Unset THEN t - c.createdAt > pool.override
                    ELSE t - c.createdAt > c.expireAfter - L
      BY <1>4, <1>7, <1>10, <1>11
    <2> QED  BY <2>3, <2>4 DEF in
  <1> QED  BY <1>4, <1>6, <1>7, <1>8, <1>9, <1>12, <1>13, <1>14

LEMMA HistoryInit == ASSUME Init, CalendarInv PROVE HistoryInv
  <1>1. PICK s \in Scenarios :
          /\ pool = s.pool /\ claims = s.claims /\ start = s.start /\ now = s.start
          /\ resolved = [leadBase |-> leadBase(pool),
                         derived |-> derivedThresholds(pool, Len(s.claims))]
          /\ announced = [i \in DOMAIN s.claims |-> 0] /\ had = announced
    BY DEF Init
  <1>2. start \in Nat /\ now = start
    BY <1>1, ScenarioAssumption
  <1>3. DOMAIN had = DOMAIN claims /\ \A i \in DOMAIN had : had[i] = 0
    BY <1>1
  <1>4. \E n : resolved = [leadBase |-> leadBase(pool), derived |-> derivedThresholds(pool, n)]
    BY <1>1
  <1>5. WorstCasePeriod(pool.entries) \in Nat
    BY OpensSoon DEF CalendarInv, PoolRec
  <1>6. ChancesCounted
    <2> DEFINE P == WorstCasePeriod(pool.entries)
    <2> SUFFICES ASSUME NEW i \in DOMAIN claims, claims[i].expireAfter # Unset,
                        start <= TriggerOf(claims[i]), NEW j \in Nat, NEW t \in Int,
                        TriggerOf(claims[i]) + j * P < t, t <= now
                 PROVE  FALSE
      BY DEF ChancesCounted
    <2>1. TriggerOf(claims[i]) \in Int
      <3>1. resolved.leadBase = leadBase(pool)
        BY <1>1
      <3> QED  BY <3>1, Terms
    <2>2. j * P \in Nat
      <3> HIDE DEF P
      <3> QED  BY <1>5 DEF P
    <2> HIDE DEF P
    <2> QED  BY <1>2, <2>1, <2>2
  <1> QED  BY <1>2, <1>3, <1>4, <1>6 DEF HistoryInv

\* An opening of the next tick is counted, and those behind it have been.
LEMMA ChancesTick ==
  ASSUME CalendarInv, HistoryInv, Tick, NEW i \in DOMAIN claims,
         claims[i].expireAfter # Unset, start <= TriggerOf(claims[i]),
         NEW j \in Nat, NEW t \in Int,
         TriggerOf(claims[i]) + j * WorstCasePeriod(pool.entries) < t,
         t <= now', t <= LastStart(claims[i]), Opens(t)
  PROVE  j < had'[i]
  <1> DEFINE P == WorstCasePeriod(pool.entries)
             A == TriggerOf(claims[i])
             L == LastStart(claims[i])
  <1>1. now \in Nat /\ now' = now + 1 /\ resolved.leadBase = leadBase(pool)
    BY DEF CalendarInv, HistoryInv, Tick
  <1>2. /\ P \in Nat \ {0}
        /\ \A v \in Int : \E u \in Int : v < u /\ u <= v + P /\ Opens(u)
    BY OpensSoon DEF CalendarInv, PoolRec
  <1>3. /\ A \in Int /\ L \in Int
        /\ \A v \in Int : triggered(claims[i], [inputs EXCEPT !.now = v]) <=> A < v
    BY <1>1, Terms
  <1>4. had[i] \in Nat /\ DOMAIN had = DOMAIN claims
    BY DEF HistoryInv
  <1>5. had'[i] = IF /\ Opens(now') /\ claims[i].expireAfter # Unset
                     /\ triggered(claims[i], [inputs EXCEPT !.now = now'])
                     /\ now' <= L
                  THEN had[i] + 1 ELSE had[i]
    BY DEF Tick
  <1>6. \A k \in Nat, v \in Int : A + k * P < v /\ v <= now /\ v <= L /\ Opens(v) => k < had[i]
    BY DEF HistoryInv, ChancesCounted
  <1>7. A + j * P < t /\ t <= L /\ t <= now + 1
    BY <1>1
  <1> HIDE DEF A, L, P
  <1>8. j * P \in Nat
    BY <1>2
  <1>9. CASE t <= now
    <2>1. j < had[i]
      BY <1>6, <1>7, <1>9
    <2>2. had'[i] = had[i] \/ had'[i] = had[i] + 1
      BY <1>5
    <2> QED  BY <1>4, <2>1, <2>2
  <1>10. CASE ~(t <= now)
    <2>1. t = now'
      BY <1>1, <1>7, <1>10
    <2>2. A < now'
      BY <1>3, <1>7, <1>8, <2>1
    <2>3. had'[i] = had[i] + 1
      <3>1. Opens(now') /\ now' <= L /\ now' \in Int
        BY <1>7, <2>1
      <3>2. triggered(claims[i], [inputs EXCEPT !.now = now'])
        BY <1>3, <2>2, <3>1
      <3> QED  BY <1>5, <3>1, <3>2
    <2>4. j <= had[i]
      <3>1. CASE j = 0
        BY <1>4, <3>1
      <3>2. CASE j # 0
        <4> DEFINE k == j - 1
        <4>1. k \in Nat /\ j = k + 1 /\ k * P \in Nat /\ k * P + P = j * P
          BY <1>2, <3>2
        <4> HIDE DEF k
        <4>2. A + k * P \in Int
          BY <1>3, <4>1
        <4>3. PICK u \in Int : A + k * P < u /\ u <= (A + k * P) + P /\ Opens(u)
          BY <1>2, <4>2
        <4>4. u <= A + j * P
          BY <1>2, <1>3, <4>1, <4>3
        <4>5. u < t
          BY <1>3, <1>7, <1>8, <4>4
        <4>6. u <= now /\ u <= L
          BY <1>1, <1>3, <1>7, <4>5
        <4>7. k < had[i]
          BY <1>6, <4>1, <4>3, <4>6
        <4> QED  BY <1>4, <4>1, <4>7
      <3> QED  BY <3>1, <3>2
    <2> QED  BY <1>4, <2>3, <2>4
  <1> QED  BY <1>9, <1>10

LEMMA HistoryStep ==
  ASSUME CalendarInv, HistoryInv, [Next]_vars PROVE HistoryInv'
  <1>1. CASE Next
    <2>1. UNCHANGED <<pool, resolved, start>>
      BY <1>1 DEF Next, Tick, Start, Fail, Succeed, Expire
    <2>2. /\ DOMAIN claims' = DOMAIN claims
          /\ \A i \in DOMAIN claims : /\ claims'[i].createdAt = claims[i].createdAt
                                      /\ claims'[i].expireAfter = claims[i].expireAfter
                                      /\ claims'[i].TGP = claims[i].TGP
      BY <1>1, TermsStay
    <2>3. CASE Tick
      <3>1. /\ now \in Nat /\ now' = now + 1 /\ UNCHANGED claims
            /\ DOMAIN had' = DOMAIN claims
            /\ \A i \in DOMAIN claims : had'[i] = had[i] \/ had'[i] = had[i] + 1
        BY <2>3 DEF Tick, CalendarInv
      <3>2. start \in Nat /\ start <= now /\ \A i \in DOMAIN claims : had[i] \in Nat
        BY DEF HistoryInv
      <3>3. start <= now' /\ \A i \in DOMAIN claims : had'[i] \in Nat
        BY <3>1, <3>2
      <3>4. \A t : Opens(t)' <=> Opens(t)
        BY <2>1 DEF Opens, In
      <3>5. \A i \in DOMAIN claims : /\ TriggerOf(claims[i])' = TriggerOf(claims[i])
                                     /\ LastStart(claims[i])' = LastStart(claims[i])
        BY <2>1, <3>1 DEF TriggerOf, LastStart
      <3>6. ChancesCounted'
        <4> SUFFICES ASSUME NEW i \in DOMAIN claims, claims[i].expireAfter # Unset,
                            start <= TriggerOf(claims[i]), NEW j \in Nat, NEW t \in Int,
                            TriggerOf(claims[i]) + j * WorstCasePeriod(pool.entries) < t,
                            t <= now', t <= LastStart(claims[i]), Opens(t)
                     PROVE  j < had'[i]
          BY <2>1, <3>1, <3>4, <3>5 DEF ChancesCounted
        <4> QED  BY <2>3, ChancesTick
      <3> QED  BY <2>1, <3>1, <3>3, <3>6 DEF HistoryInv, leadBase, derivedThresholds, poolTGP
    <2>4. CASE \E i \in DOMAIN claims : Start(i) \/ Fail(i) \/ Succeed(i) \/ Expire(i)
      <3>1. UNCHANGED <<now, had>>
        BY <2>4 DEF Start, Fail, Succeed, Expire
      <3>2. \A t : Opens(t)' <=> Opens(t)
        BY <2>1 DEF Opens, In
      <3>3. \A i \in DOMAIN claims : /\ TriggerOf(claims[i])' = TriggerOf(claims[i])
                                     /\ LastStart(claims[i])' = LastStart(claims[i])
        BY <2>1, <2>2 DEF TriggerOf, TGPOf, LastStart
      <3>4. ChancesCounted'
        BY <2>1, <2>2, <3>1, <3>2, <3>3 DEF HistoryInv, ChancesCounted
      <3> QED  BY <2>1, <2>2, <3>1, <3>4 DEF HistoryInv, leadBase, derivedThresholds, poolTGP
    <2> QED  BY <1>1, <2>3, <2>4 DEF Next
  <1>2. CASE UNCHANGED vars
    <2>1. \A t : Opens(t)' <=> Opens(t)
      BY <1>2 DEF vars, Opens, In
    <2>2. \A i \in DOMAIN claims : /\ TriggerOf(claims[i])' = TriggerOf(claims[i])
                                   /\ LastStart(claims[i])' = LastStart(claims[i])
      BY <1>2 DEF vars, TriggerOf, LastStart
    <2>3. UNCHANGED <<pool, resolved, start, now, had, claims>>
      BY <1>2 DEF vars
    <2>4. ChancesCounted'
      BY <2>1, <2>2, <2>3 DEF HistoryInv, ChancesCounted
    <2> QED  BY <2>3, <2>4 DEF HistoryInv, leadBase, derivedThresholds, poolTGP
  <1> QED  BY <1>1, <1>2

\* The pool's figures are those of its own policy and windows at every instant, and an
\* opening a claim could be rotated at counts as a chance, whichever period it falls in.
THEOREM HistoryInvHolds == Spec => [](CalendarInv /\ HistoryInv)
  <1>1. Init => CalendarInv /\ HistoryInv
    BY CalendarInit, HistoryInit
  <1>2. CalendarInv /\ HistoryInv /\ [Next]_vars => (CalendarInv /\ HistoryInv)'
    BY CalendarStep, HistoryStep
  <1> QED  BY <1>1, <1>2, PTL DEF Spec

-----------------------------------------------------------------------------
(***************************************************************************)
(* The derivation, and the two properties that rest on its figures.        *)
(***************************************************************************)

LEMMA FloorDivIs ==
  ASSUME NEW a \in Int, NEW b \in Nat \ {0}
  PROVE  floorDiv(a, b) \in Int /\ floorDiv(a, b) * b <= a
  <1> DEFINE n == -a
             q == n \div b
             r == n % b
             p == a \div b
             s == a % b
  <1>1. CASE a < 0
    <2>1. q \in Int /\ r \in 0..(b - 1) /\ n = b * q + r /\ n \in Int
      <3>1. n \in Int
        OBVIOUS
      <3> HIDE DEF n
      <3> QED  BY <3>1, DivMod
    <2>2. quo(a, b) = -q
      BY <1>1 DEF quo
    <2>3. ~(b < 0)
      OBVIOUS
    <2>4. floorDiv(a, b) = IF a # (-q) * b THEN (-q) - 1 ELSE -q
      BY <1>1, <2>2, <2>3 DEF floorDiv
    <2> HIDE DEF q, r
    <2>5. /\ b * q \in Int /\ (-q) * b = -(b * q) /\ ((-q) - 1) * b = -(b * q) - b
          /\ a = -(b * q) - r
      BY <2>1
    <2> QED  BY <2>1, <2>4, <2>5
  <1>2. CASE ~(a < 0)
    <2>1. p \in Int /\ s \in 0..(b - 1) /\ a = b * p + s
      BY DivMod
    <2>2. quo(a, b) = p
      BY <1>2 DEF quo
    <2>3. ~(b < 0)
      OBVIOUS
    <2>4. floorDiv(a, b) = p
      BY <1>2, <2>2, <2>3 DEF floorDiv
    <2> HIDE DEF p, s
    <2>5. b * p \in Int /\ p * b = b * p
      BY <2>1
    <2> QED  BY <2>1, <2>4, <2>5
  <1> QED  BY <1>1, <1>2

LEMMA CeilDivIs ==
  ASSUME NEW a \in Nat \ {0}, NEW b \in Nat \ {0}
  PROVE  /\ ceilDiv(a, b) \in Nat \ {0}
         /\ (ceilDiv(a, b) - 1) * b < a /\ a <= ceilDiv(a, b) * b
  <1> DEFINE q == a \div b
             r == a % b
  <1>1. q \in Int /\ r \in 0..(b - 1) /\ a = b * q + r
    BY DivMod
  <1>2. ceilDiv(a, b) = IF r # 0 THEN q + 1 ELSE q
    BY DEF ceilDiv
  <1> HIDE DEF q, r
  <1>3. /\ b * q \in Int /\ q * b = b * q /\ (q + 1) * b = b * q + b /\ (q - 1) * b = b * q - b
        /\ (q + 1) - 1 = q
    BY <1>1
  <1>4. q >= 0 /\ (r = 0 => q > 0)
    <2>1. q < 0 => b * q + b <= b * 0
      BY <1>1, LessByOne
    <2>2. b * 0 = 0
      OBVIOUS
    <2>3. r = 0 => q # 0
      BY <1>1, <2>2
    <2> QED  BY <1>1, <1>3, <2>1, <2>2, <2>3
  <1>5. CASE r # 0
    <2>1. ceilDiv(a, b) = q + 1
      BY <1>2, <1>5
    <2> QED  BY <1>1, <1>3, <1>4, <1>5, <2>1
  <1>6. CASE r = 0
    <2>1. ceilDiv(a, b) = q
      BY <1>2, <1>6
    <2> QED  BY <1>1, <1>3, <1>4, <1>6, <2>1
  <1> QED  BY <1>5, <1>6

\* The figures of a derivation with a window: the forecast is no negative duration.
LEMMA DeriveIs ==
  ASSUME NEW in, in.P \in Nat \ {0},
         in.TGP \in Nat, in.readyTimeout \in Nat,
         in.drainEstimate \in (Nat \ {0}) \cup {Nil},
         in.provisioningEstimate \in (Nat \ {0}) \cup {Nil},
         NEW d, d = Derive(in)
  PROVE  /\ d.TRotEst \in Nat /\ d.G = chances(in) /\ d.C = throughput(in, d.TRotEst)
         /\ in.override # Nil => /\ in.override <= 0 => "OverrideNonPositive" \in d.findings
                                 /\ in.override > 0 /\ chances(in) < 1
                                      => "OverrideGBelowOne" \in d.findings
         /\ in.override = Nil /\ ageThreshold(in) <= 0 => "ANonPositive" \in d.findings
         /\ ~(in.windowLen <= 0) /\ ~(d.C < 1) /\ in.idleGap # Nil
              /\ d.TRotEst + in.cooldown > in.idleGap
              => "RotationSpansNextWindow" \in d.findings
  <1> DEFINE drain == resolveDrainEstimate(in)
             prov == resolveProvisioningEstimate(in)
             base == [TRot |-> TRot(in), TRotEst |-> prov.est + drain.est,
                      A |-> 0, G |-> 0, C |-> 0,
                      findings |-> drain.findings \cup prov.findings]
             r == [base EXCEPT !.A = ageThreshold(in), !.G = chances(in),
                               !.C = throughput(in, base.TRotEst)]
  <1>1. DrainEstimateDefault \in Nat /\ ProvisioningEstimateDefault \in Nat
    BY DurationAssumption
  <1>2. drain.est \in Nat
    BY <1>1 DEF resolveDrainEstimate, AtMost
  <1>3. prov.est \in Nat
    BY <1>1 DEF resolveProvisioningEstimate, AtMost
  <1>4. ~(in.P <= 0)
    OBVIOUS
  <1>5. d = [r EXCEPT !.findings = @ \cup layer1(in, r) \cup layer2(in, r)]
    BY <1>4 DEF Derive
  <1>6. /\ r.TRotEst = prov.est + drain.est /\ r.G = chances(in)
        /\ r.C = throughput(in, r.TRotEst) /\ r.A = ageThreshold(in)
    <2> HIDE DEF drain, prov
    <2> QED  OBVIOUS
  <1>7. /\ d.TRotEst = r.TRotEst /\ d.G = r.G /\ d.C = r.C
        /\ layer1(in, r) \subseteq d.findings /\ layer2(in, r) \subseteq d.findings
    <2> HIDE DEF drain, prov
    <2> QED  BY <1>5
  <1> HIDE DEF r
  <1>8. /\ in.override # Nil => /\ r.A <= 0 => "OverrideNonPositive" \in layer1(in, r)
                                /\ r.A > 0 /\ r.G < 1 => "OverrideGBelowOne" \in layer1(in, r)
        /\ in.override = Nil /\ r.A <= 0 => "ANonPositive" \in layer1(in, r)
    BY DEF layer1, On
  <1>9. ~(in.windowLen <= 0) /\ ~(r.C < 1) /\ in.idleGap # Nil /\ r.TRotEst + in.cooldown > in.idleGap
          => "RotationSpansNextWindow" \in layer2(in, r)
    BY DEF layer2, On
  <1>10. in.override # Nil => r.A = in.override
    BY <1>6 DEF ageThreshold
  <1> QED  BY <1>2, <1>3, <1>6, <1>7, <1>8, <1>9, <1>10

LEMMA ShortestIs ==
  ASSUME NEW entries, entries \subseteq Entry, entries # {},
         NEW occs, occs = mergedOccurrences(entries)
  PROVE  /\ ShortestWindow(entries) \in Nat \ {0}
         /\ \A o \in occs : o.length \in Nat /\ ShortestWindow(entries) <= o.length
         /\ \E o \in occs : o.length = ShortestWindow(entries)
         /\ ~AlwaysOpen(occs) =>
              /\ ShortestIdleGap(entries) \in Nat
              /\ \A o \in occs :
                   /\ o.start + o.length \in Int /\ nextStart(occs, o) \in Int
                   /\ ShortestIdleGap(entries) <= nextStart(occs, o) - (o.start + o.length)
  <1> DEFINE L == {o.length : o \in occs}
             gap(o) == nextStart(occs, o) - (o.start + o.length)
             G == {gap(o) : o \in occs}
  <1>1. occs # {} /\ \A o \in occs : o.length \in Nat \ {0}
    <2>1. CASE NeverCloses(entries)
      <3>1. occs = {[start |-> 0, length |-> week]}
        BY <2>1, OccsAre
      <3> QED  BY <3>1, Sizes
    <2>2. CASE ~NeverCloses(entries)
      BY <2>2, Closing
    <2> QED  BY <2>1, <2>2
  <1>2. ShortestWindow(entries) = Min(L)
    BY <1>1 DEF ShortestWindow
  <1>3. Min(L) \in L /\ \A x \in L : Min(L) <= x
    <2>1. L \subseteq Nat /\ L # {}
      BY <1>1
    <2> HIDE DEF L
    <2> QED  BY <2>1, MinNat
  <1>4. ASSUME ~AlwaysOpen(occs)
        PROVE  /\ ShortestIdleGap(entries) \in Nat
               /\ \A o \in occs :
                    /\ o.start + o.length \in Int /\ nextStart(occs, o) \in Int
                    /\ ShortestIdleGap(entries) <= gap(o)
    <2>1. ~NeverCloses(entries)
      BY <1>4, FiguresNever
    <2>2. ASSUME NEW o \in occs
          PROVE  /\ o.start + o.length \in Int /\ nextStart(occs, o) \in Int
                 /\ o.start + o.length < nextStart(occs, o)
      <3>1. o.start + o.length \in Int
        BY <2>1, Closing
      <3>2. nextStart(occs, o) \in Int /\ o.start + o.length < nextStart(occs, o)
        BY <2>1, NextIs
      <3> QED  BY <3>1, <3>2
    <2>3. \A o \in occs : gap(o) \in Nat
      BY <2>2
    <2>4. ShortestIdleGap(entries) = Min(G)
      BY <1>1, <1>4 DEF ShortestIdleGap
    <2>5. G \subseteq Nat /\ G # {} /\ \A o \in occs : gap(o) \in G
      <3> HIDE DEF gap
      <3> QED  BY <1>1, <2>3
    <2> HIDE DEF G, gap
    <2>6. Min(G) \in G /\ \A x \in G : Min(G) <= x
      BY <2>5, MinNat
    <2> QED  BY <2>2, <2>4, <2>5, <2>6
  <1> QED  BY <1>1, <1>2, <1>3, <1>4

\* The C rotations of a derivation, spaced by the forecast and the cooldown, do start in
\* every occurrence, one more does not fit the shortest, and without the finding the
\* last start leaves the next occurrence whole (ceilDiv, layer2).
THEOREM ThroughputHolds == Spec => []ThroughputExact
  <1>1. ASSUME CalendarInv, HistoryInv PROVE ThroughputExact
    <2> DEFINE E == pool.entries
               d == resolved.derived
               denom == d.TRotEst + pool.cooldown
               occs == mergedOccurrences(E)
               W == ShortestWindow(E)
               gap == ShortestIdleGap(E)
    <2> SUFFICES ASSUME denom > 0
                 PROVE  /\ \A o \in occs : (d.C - 1) * denom < o.length
                        /\ \E o \in occs : d.C * denom >= o.length
                        /\ "RotationSpansNextWindow" \notin d.findings /\ ~AlwaysOpen(occs) =>
                             \A o \in occs : o.start + o.length + denom <= nextStart(occs, o)
      BY DEF ThroughputExact
    <2>1. pool \in PoolRec /\ E \subseteq Entry /\ E # {}
      BY <1>1 DEF CalendarInv, PoolRec
    <2>2. PICK n : d = derivedThresholds(pool, n)
      BY <1>1 DEF HistoryInv
    <2>3. /\ WorstCasePeriod(E) \in Nat \ {0} /\ poolTGP(pool) \in Nat
          /\ pool.readyTimeout \in Nat /\ pool.cooldown \in Nat
          /\ pool.drainEstimate \in (Nat \ {0}) \cup {Nil}
          /\ pool.provisioningEstimate \in (Nat \ {0}) \cup {Nil}
      BY <2>1, OpensSoon, DurationAssumption DEF PoolRec, poolTGP
    <2>4. /\ W \in Nat \ {0}
          /\ \A o \in occs : o.length \in Nat /\ W <= o.length
          /\ \E o \in occs : o.length = W
          /\ ~AlwaysOpen(occs) =>
               /\ gap \in Nat
               /\ \A o \in occs : /\ o.start + o.length \in Int /\ nextStart(occs, o) \in Int
                                  /\ gap <= nextStart(occs, o) - (o.start + o.length)
      BY <2>1, ShortestIs
    <2> DEFINE in ==
          [E |-> pool.expireAfter, TGP |-> poolTGP(pool), TGPWasUnset |-> pool.TGP = Unset,
           P |-> WorstCasePeriod(E), windowLen |-> W, idleGap |-> gap,
           readyTimeout |-> pool.readyTimeout, cooldown |-> pool.cooldown,
           drainEstimate |-> pool.drainEstimate,
           provisioningEstimate |-> pool.provisioningEstimate,
           retryBackoff |-> pool.retryBackoff, K |-> pool.K, maxUnavailable |-> 1,
           nodeCount |-> n, override |-> pool.override]
    <2>5. d = Derive(in)
      BY <2>2 DEF derivedThresholds
    <2>6. /\ in.P = WorstCasePeriod(E) /\ in.TGP = poolTGP(pool)
          /\ in.readyTimeout = pool.readyTimeout /\ in.drainEstimate = pool.drainEstimate
          /\ in.provisioningEstimate = pool.provisioningEstimate
          /\ in.windowLen = W /\ in.idleGap = gap /\ in.cooldown = pool.cooldown
          /\ in.maxUnavailable = 1
      OBVIOUS
    <2> HIDE DEF in, d, W, gap, occs, E
    <2>7. /\ d.TRotEst \in Nat /\ d.C = throughput(in, d.TRotEst)
          /\ ~(W <= 0) /\ ~(d.C < 1) /\ gap # Nil /\ d.TRotEst + pool.cooldown > gap
               => "RotationSpansNextWindow" \in d.findings
      BY <2>3, <2>5, <2>6, DeriveIs
    <2>8. denom \in Nat \ {0}
      BY <2>3, <2>7
    <2>9. d.C = ceilDiv(W, denom) /\ d.C \in Nat \ {0}
          /\ (d.C - 1) * denom < W /\ W <= d.C * denom
      <3>1. ceilDiv(W, denom) \in Nat \ {0}
            /\ (ceilDiv(W, denom) - 1) * denom < W /\ W <= ceilDiv(W, denom) * denom
        <4> HIDE DEF denom
        <4> QED  BY <2>4, <2>8, CeilDivIs
      <3>2. d.C = 1 * ceilDiv(W, denom)
        BY <2>4, <2>6, <2>7, <2>8 DEF throughput
      <3> HIDE DEF denom
      <3>3. d.C = ceilDiv(W, denom)
        BY <3>1, <3>2
      <3> QED  BY <3>1, <3>3
    <2>10. (d.C - 1) * denom \in Int /\ d.C * denom \in Int
      <3> HIDE DEF denom
      <3> QED  BY <2>8, <2>9
    <2>11. ASSUME NEW o \in occs PROVE (d.C - 1) * denom < o.length
      <3> HIDE DEF denom
      <3> QED  BY <2>4, <2>9, <2>10
    <2>12. \E o \in occs : d.C * denom >= o.length
      <3> HIDE DEF denom
      <3> QED  BY <2>4, <2>9, <2>10
    <2>13. ASSUME "RotationSpansNextWindow" \notin d.findings, ~AlwaysOpen(occs), NEW o \in occs
           PROVE  o.start + o.length + denom <= nextStart(occs, o)
      <3>1. gap \in Nat /\ o.start + o.length \in Int /\ nextStart(occs, o) \in Int
            /\ gap <= nextStart(occs, o) - (o.start + o.length)
        BY <2>4, <2>13
      <3>2. ~(denom > gap)
        <4>1. ~(W <= 0) /\ ~(d.C < 1) /\ gap # Nil
          BY <2>4, <2>9, <3>1 DEF Nil
        <4> QED  BY <2>7, <2>13, <4>1
      <3> DEFINE e == o.start + o.length
                 N == nextStart(occs, o)
      <3>3. e \in Int /\ N \in Int /\ gap <= N - e
        BY <3>1
      <3> HIDE DEF denom, e, N
      <3>4. e + denom <= N
        BY <2>8, <3>1, <3>2, <3>3
      <3> QED  BY <3>4 DEF e, N
    <2> QED  BY <2>11, <2>12, <2>13
  <1> QED  BY <1>1, HistoryInvHolds, PTL

\* One chance in every whole period between the trigger and the last start.
LEMMA ChancesBy ==
  ASSUME CalendarInv, HistoryInv, NEW i \in DOMAIN claims, claims[i].expireAfter # Unset,
         start <= TriggerOf(claims[i]), NEW n \in Nat \ {0},
         TriggerOf(claims[i]) + n * WorstCasePeriod(pool.entries) <= LastStart(claims[i]),
         LastStart(claims[i]) <= now
  PROVE  n <= had[i]
  <1> DEFINE P == WorstCasePeriod(pool.entries)
             A == TriggerOf(claims[i])
             L == LastStart(claims[i])
             k == n - 1
  <1>1. now \in Nat /\ resolved.leadBase = leadBase(pool) /\ had[i] \in Nat
    BY DEF CalendarInv, HistoryInv
  <1>2. /\ P \in Nat \ {0}
        /\ \A v \in Int : \E u \in Int : v < u /\ u <= v + P /\ Opens(u)
    BY OpensSoon DEF CalendarInv, PoolRec
  <1>3. A \in Int /\ L \in Int
    BY <1>1, Terms
  <1>4. \A j \in Nat, v \in Int : A + j * P < v /\ v <= now /\ v <= L /\ Opens(v) => j < had[i]
    BY DEF HistoryInv, ChancesCounted
  <1>5. A + n * P <= L /\ L <= now
    OBVIOUS
  <1> HIDE DEF A, L, P
  <1>6. k \in Nat /\ n = k + 1 /\ k * P \in Nat /\ k * P + P = n * P
    BY <1>2
  <1> HIDE DEF k
  <1>7. A + k * P \in Int
    BY <1>3, <1>6
  <1>8. PICK u \in Int : A + k * P < u /\ u <= (A + k * P) + P /\ Opens(u)
    BY <1>2, <1>7
  <1>9. u <= L /\ u <= now
    BY <1>1, <1>2, <1>3, <1>5, <1>6, <1>8
  <1>10. k < had[i]
    BY <1>4, <1>6, <1>8, <1>9
  <1> QED  BY <1>1, <1>6, <1>10

\* Auto mode: the lead time is K periods and the time a rotation may take.
LEMMA ChancesAuto ==
  ASSUME CalendarInv, HistoryInv, NEW i \in DOMAIN claims, claims[i].expireAfter # Unset,
         start <= claims[i].createdAt,
         claims[i].createdAt + claims[i].expireAfter <= now,
         pool.override = Unset,
         leadBase(pool) + TGPOf(claims[i]) < claims[i].expireAfter
  PROVE  pool.K <= had[i]
  <1> DEFINE P == WorstCasePeriod(pool.entries)
             c == claims[i]
             A == TriggerOf(c)
             L == LastStart(c)
             T == TGPOf(c)
             R == pool.readyTimeout
  <1>1. /\ now \in Nat /\ start \in Nat /\ resolved.leadBase = leadBase(pool)
        /\ pool.K \in Nat \ {0} /\ R \in Nat
    BY DEF CalendarInv, HistoryInv, PoolRec
  <1>2. P \in Nat \ {0}
    BY OpensSoon DEF CalendarInv, PoolRec
  <1>3. /\ c.createdAt \in Nat /\ c.expireAfter \in Nat /\ T \in Nat /\ Buffer \in Nat
        /\ leadBase(pool) \in Nat
    BY <1>1, Terms, DurationAssumption
  <1>4. leadBase(pool) = pool.K * P + R + Buffer
    BY DEF leadBase
  <1>5. A = c.createdAt + c.expireAfter - (leadBase(pool) + T)
    BY <1>1 DEF TriggerOf
  <1>6. L = c.createdAt + c.expireAfter - (R + T + Buffer)
    BY DEF LastStart, TGPOf
  <1>7. /\ start <= c.createdAt /\ c.createdAt + c.expireAfter <= now
        /\ leadBase(pool) + T < c.expireAfter
    OBVIOUS
  <1>8. pool.K * P \in Nat
    <2> HIDE DEF P
    <2> QED  BY <1>1, <1>2
  <1> HIDE DEF P, c, A, L, T, R
  <1>9. start <= A
    BY <1>1, <1>3, <1>5, <1>7
  <1>10. A + pool.K * P <= L
    BY <1>1, <1>3, <1>4, <1>5, <1>6, <1>8
  <1>11. L <= now
    BY <1>1, <1>3, <1>6, <1>7
  <1> QED  BY <1>1, <1>9, <1>10, <1>11, ChancesBy DEF c, A, L, P

\* Override mode: what is left after the override holds G periods.
LEMMA ChancesOverride ==
  ASSUME CalendarInv, HistoryInv, NEW i \in DOMAIN claims, claims[i].expireAfter # Unset,
         start <= claims[i].createdAt,
         claims[i].createdAt + claims[i].expireAfter <= now,
         pool.override # Unset, NEW n \in Nat \ {0},
         n * WorstCasePeriod(pool.entries)
           <= claims[i].expireAfter - (pool.readyTimeout + TGPOf(claims[i]) + Buffer)
                - pool.override
  PROVE  n <= had[i]
  <1> DEFINE P == WorstCasePeriod(pool.entries)
             c == claims[i]
             A == TriggerOf(c)
             L == LastStart(c)
             T == TGPOf(c)
             R == pool.readyTimeout
             O == pool.override
  <1>1. /\ now \in Nat /\ start \in Nat /\ resolved.leadBase = leadBase(pool)
        /\ R \in Nat /\ O \in Nat
    BY DEF CalendarInv, HistoryInv, PoolRec
  <1>2. P \in Nat \ {0}
    BY OpensSoon DEF CalendarInv, PoolRec
  <1>3. c.createdAt \in Nat /\ c.expireAfter \in Nat /\ T \in Nat /\ Buffer \in Nat
    BY <1>1, Terms, DurationAssumption
  <1>4. A = c.createdAt + O
    BY DEF TriggerOf
  <1>5. L = c.createdAt + c.expireAfter - (R + T + Buffer)
    BY DEF LastStart, TGPOf
  <1>6. /\ start <= c.createdAt /\ c.createdAt + c.expireAfter <= now
        /\ n * P <= c.expireAfter - (R + T + Buffer) - O
    OBVIOUS
  <1>7. n * P \in Nat
    <2> HIDE DEF P
    <2> QED  BY <1>2
  <1> HIDE DEF P, c, A, L, T, R, O
  <1>8. start <= A /\ A + n * P <= L /\ L <= now
    BY <1>1, <1>3, <1>4, <1>5, <1>6, <1>7
  <1> QED  BY <1>8, ChancesBy DEF c, A, L, P

\* A claim of auto mode never short of lead time has had its K chances when its deadline
\* comes, and one like its pool's template the G of a derivation with no fatal finding
\* (Derive, LeadTime.For, triggered, ShortLeadClaims).
THEOREM ChancesHold == Spec => []ChancesKept
  <1>1. ASSUME CalendarInv, HistoryInv PROVE ChancesKept
    <2> SUFFICES ASSUME NEW i \in DOMAIN claims, claims[i].expireAfter # Unset,
                        claims[i].createdAt >= start,
                        now >= claims[i].createdAt + claims[i].expireAfter
                 PROVE  /\ /\ pool.override = Unset
                           /\ i \notin ShortLeadClaims([claims EXCEPT ![i].deleting = FALSE],
                                                       inputs)
                           => had[i] >= pool.K
                        /\ claims[i].expireAfter = pool.expireAfter /\ claims[i].TGP = pool.TGP
                           => LET d == resolved.derived
                              IN  d.findings \cap Fatal = {} => had[i] >= d.G
      BY DEF ChancesKept
    <2> DEFINE c == claims[i]
               d == resolved.derived
               P == WorstCasePeriod(pool.entries)
               T == TGPOf(c)
    <2>1. /\ c \in ClaimRec /\ now \in Nat /\ start \in Nat /\ resolved.leadBase = leadBase(pool)
          /\ pool \in PoolRec /\ had[i] \in Nat /\ \E n \in Nat : claims \in [1..n -> ClaimRec]
      <3>1. PICK n \in Nat : claims \in [1..n -> ClaimRec]
        BY <1>1 DEF CalendarInv, ClaimsInv
      <3>2. c \in ClaimRec
        BY <3>1
      <3>3. now \in Nat /\ pool \in PoolRec
        BY <1>1 DEF CalendarInv
      <3>4. start \in Nat /\ had[i] \in Nat /\ resolved.leadBase = leadBase(pool)
        BY <1>1 DEF HistoryInv
      <3> QED  BY <3>1, <3>2, <3>3, <3>4
    <2>2. /\ c.createdAt \in Nat /\ c.expireAfter \in Nat /\ T \in Nat
          /\ leadBase(pool) \in Nat /\ Buffer \in Nat
      BY <1>1, <2>1, Terms, DurationAssumption
    <2>3. start <= c.createdAt /\ c.createdAt + c.expireAfter <= now
      <3> HIDE DEF c
      <3> QED  BY <2>1, <2>2 DEF c
    <2>4. P \in Nat \ {0}
      BY <2>1, OpensSoon DEF PoolRec
    <2>5. /\ pool.K \in Nat \ {0} /\ pool.readyTimeout \in Nat /\ pool.override \in Nat \cup {Unset}
          /\ pool.drainEstimate \in (Nat \ {0}) \cup {Nil}
          /\ pool.provisioningEstimate \in (Nat \ {0}) \cup {Nil}
          /\ poolTGP(pool) \in Nat
      BY <2>1, DurationAssumption DEF PoolRec, poolTGP
    <2>6. ASSUME pool.override = Unset,
                 i \notin ShortLeadClaims([claims EXCEPT ![i].deleting = FALSE], inputs)
          PROVE  had[i] >= pool.K
      <3> DEFINE alive == [claims EXCEPT ![i].deleting = FALSE]
      <3>1. /\ i \in DOMAIN alive /\ alive[i].deleting = FALSE
            /\ alive[i].expireAfter = c.expireAfter /\ alive[i].TGP = c.TGP
        BY <2>1 DEF ClaimRec
      <3>2. LeadTimeFor(inputs, alive[i]) = leadBase(pool) + T
        BY <2>1, <3>1 DEF LeadTimeFor, inputs, selInputs, TGPOf
      <3>3. ~(c.expireAfter <= leadBase(pool) + T)
        <4> HIDE DEF alive
        <4>1. i \notin ShortLeadClaims(alive, inputs)
          BY <2>6 DEF alive
        <4> QED  BY <3>1, <3>2, <4>1 DEF ShortLeadClaims
      <3> HIDE DEF alive
      <3>4. leadBase(pool) + T < c.expireAfter
        <4> HIDE DEF c, T
        <4> QED  BY <2>2, <3>3
      <3>5. pool.K <= had[i]
        BY <1>1, <2>3, <2>6, <3>4, ChancesAuto
      <3> QED  BY <2>1, <2>5, <3>5
    <2>7. ASSUME c.expireAfter = pool.expireAfter, c.TGP = pool.TGP, d.findings \cap Fatal = {}
          PROVE  had[i] >= d.G
      <3>1. PICK n : d = derivedThresholds(pool, n)
        BY <1>1 DEF HistoryInv
      <3> DEFINE in ==
            [E |-> pool.expireAfter, TGP |-> poolTGP(pool), TGPWasUnset |-> pool.TGP = Unset,
             P |-> P, windowLen |-> ShortestWindow(pool.entries),
             idleGap |-> ShortestIdleGap(pool.entries),
             readyTimeout |-> pool.readyTimeout, cooldown |-> pool.cooldown,
             drainEstimate |-> pool.drainEstimate,
             provisioningEstimate |-> pool.provisioningEstimate,
             retryBackoff |-> pool.retryBackoff, K |-> pool.K, maxUnavailable |-> 1,
             nodeCount |-> n, override |-> pool.override]
      <3>2. d = Derive(in)
        BY <3>1 DEF derivedThresholds
      <3>3. /\ in.P = P /\ in.TGP = poolTGP(pool) /\ in.E = pool.expireAfter
            /\ in.readyTimeout = pool.readyTimeout /\ in.drainEstimate = pool.drainEstimate
            /\ in.provisioningEstimate = pool.provisioningEstimate /\ in.K = pool.K
            /\ in.override = pool.override
        OBVIOUS
      <3>4. in.E = c.expireAfter /\ in.TGP = T
        BY <2>7 DEF poolTGP, TGPOf
      <3> HIDE DEF in, d, P, T, c
      <3>5. /\ d.G = chances(in)
            /\ in.override # Nil => /\ in.override <= 0 => "OverrideNonPositive" \in d.findings
                                    /\ in.override > 0 /\ chances(in) < 1
                                         => "OverrideGBelowOne" \in d.findings
            /\ in.override = Nil /\ ageThreshold(in) <= 0 => "ANonPositive" \in d.findings
        BY <2>4, <2>5, <3>2, <3>3, DeriveIs
      <3>6. \A f \in Fatal : f \notin d.findings
        BY <2>7 DEF d
      <3>7. /\ in.override # Nil => ~(in.override <= 0) /\ ~(in.override > 0 /\ chances(in) < 1)
            /\ in.override = Nil => ~(ageThreshold(in) <= 0)
        BY <3>5, <3>6 DEF Fatal
      <3>8. TRot(in) = pool.readyTimeout + T + Buffer
        BY <3>3, <3>4 DEF TRot
      <3>9. CASE pool.override = Unset
        <4>1. in.override = Nil
          BY <3>3, <3>9 DEF Unset, Nil
        <4>2. d.G = pool.K
          BY <3>3, <3>5, <4>1 DEF chances
        <4>3. ~(c.expireAfter - (pool.K * P + (pool.readyTimeout + T + Buffer)) <= 0)
          BY <3>3, <3>4, <3>7, <3>8, <4>1 DEF ageThreshold
        <4>4. pool.K * P \in Nat
          BY <2>4, <2>5
        <4>5. leadBase(pool) = pool.K * P + pool.readyTimeout + Buffer
          BY DEF leadBase, P
        <4>6. leadBase(pool) + T < c.expireAfter
          BY <2>2, <2>5, <4>3, <4>4, <4>5
        <4>7. pool.K <= had[i]
          BY <1>1, <2>3, <3>9, <4>6, ChancesAuto DEF c, T
        <4> QED  BY <2>1, <2>5, <4>2, <4>7
      <3>10. CASE pool.override # Unset
        <4>1. in.override # Nil
          BY <3>3, <3>10 DEF Unset, Nil
        <4>2. pool.override \in Nat \ {0} /\ ~(chances(in) < 1)
          BY <2>5, <3>3, <3>7, <3>10, <4>1
        <4> DEFINE room == c.expireAfter - (pool.readyTimeout + T + Buffer) - pool.override
        <4>3. room \in Int
          BY <2>2, <2>5, <4>2
        <4>4. chances(in) = floorDiv(room, P)
          BY <3>3, <3>4, <3>8, <4>1 DEF chances
        <4>5. chances(in) \in Int /\ chances(in) * P <= room
          <5> HIDE DEF room
          <5> QED  BY <2>4, <4>3, <4>4, FloorDivIs
        <4>6. d.G \in Nat \ {0} /\ d.G * P <= room
          BY <3>5, <4>2, <4>5
        <4>7. d.G <= had[i]
          BY <1>1, <2>3, <3>10, <4>6, ChancesOverride DEF c, T, P
        <4> QED  BY <2>1, <4>6, <4>7
      <3> QED  BY <3>9, <3>10
    <2> QED  BY <2>6, <2>7
  <1> QED  BY <1>1, HistoryInvHolds, PTL

=============================================================================
