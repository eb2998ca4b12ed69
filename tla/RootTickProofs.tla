--------------------------- MODULE RootTickProofs ---------------------------
(***************************************************************************)
(* Proofs about Schedule, for any config and instant: a next fire is the   *)
(* schedule's first occurrence after the instant it is computed at, later  *)
(* instants have later next fires, and which schedules always have one.    *)
(* Proofs about RootTick, for any rows, schedules, starts, delays and      *)
(* bounds, which rest on it.                                               *)
(***************************************************************************)
EXTENDS RootTick, FiniteSetTheorems, WellFoundedInduction, TLAPS

-----------------------------------------------------------------------------
(* Least elements, multiples, days *)

\* Integers above a bound have a least one among them.
LEMMA LeastOf ==
    ASSUME NEW S \in SUBSET Int, NEW t \in Int, \A x \in S : x > t, S # {}
    PROVE  Min(S) \in S /\ \A y \in S : Min(S) <= y
<1> DEFINE T == {n \in Nat : t + n \in S}
           R == OpToRel(<, Nat)
<1>1. T # {}
  <2>1. PICK x \in S : TRUE
    OBVIOUS
  <2>2. x - t \in Nat /\ t + (x - t) = x
    BY <2>1
  <2> QED
    BY <2>1, <2>2
<1>2. IsWellFoundedOn(R, Nat)
  BY NatLessThanWellFounded
<1>3. T \subseteq Nat
  OBVIOUS
<1>4. \E x \in T : \A y \in T : <<y, x>> \notin R
  <2> HIDE DEF T, R
  <2> QED
    BY <1>1, <1>2, <1>3, WFMin
<1>5. PICK x \in T : \A y \in T : ~(y < x)
  BY <1>4 DEF OpToRel
<1>6. t + x \in S /\ \A y \in S : t + x <= y
  <2>1. ASSUME NEW y \in S PROVE t + x <= y
    <3>1. y - t \in T
      OBVIOUS
    <3> QED
      BY <1>5, <3>1
  <2> QED
    BY <2>1
<1> QED
  BY <1>6 DEF Min

\* A multiple of n below x, and the next one above.
LEMMA Division ==
    ASSUME NEW x \in Int, NEW n \in Int, n > 0
    PROVE  /\ x \div n \in Int
           /\ (x \div n) * n \in Int /\ (x \div n) * n <= x
           /\ (x \div n + 1) * n \in Int /\ x < (x \div n + 1) * n
<1> DEFINE q == x \div n
           r == x % n
<1>1. q \in Int /\ r \in 0..(n - 1) /\ x = n * q + r
  OBVIOUS
<1> HIDE DEF q, r
<1>2. q * n = n * q /\ (q + 1) * n = n * q + n /\ n * q \in Int
  BY <1>1
<1>3. (q + 1) * n \in Int /\ x < (q + 1) * n
  BY <1>1, <1>2
<1> QED
  BY <1>1, <1>2, <1>3 DEF q

\* Multiples of n are ordered as their factors.
LEMMA Multiples ==
    ASSUME NEW a \in Int, NEW b \in Int, NEW n \in Int, n > 0
    PROVE  /\ a * n \in Int /\ b * n \in Int
           /\ a * n < b * n => a < b
           /\ a <= b => a * n <= b * n
<1>1. a * n \in Int /\ b * n \in Int
  OBVIOUS
<1>2. a <= b => a * n <= b * n
  <2>1. b * n = a * n + (b - a) * n
    OBVIOUS
  <2>2. a <= b => (b - a) * n >= 0
    OBVIOUS
  <2> QED
    BY <2>1, <2>2
<1>3. b <= a => b * n <= a * n
  <2>1. a * n = b * n + (a - b) * n
    OBVIOUS
  <2>2. b <= a => (a - b) * n >= 0
    OBVIOUS
  <2> QED
    BY <2>1, <2>2
<1> QED
  BY <1>1, <1>2, <1>3

\* A day holds the instants from its midnight to the next.
LEMMA DayBounds ==
    ASSUME NEW t \in Int
    PROVE  /\ DayOf(t) \in Int
           /\ DayOf(t) * Day <= t /\ t < DayOf(t) * Day + Day
  BY DEF DayOf, Day, Hour, Minute

LEMMA DayIsMonotonic ==
    ASSUME NEW t \in Int, NEW u \in Int, t <= u
    PROVE  DayOf(t) <= DayOf(u)
  BY DEF DayOf, Day, Hour, Minute

LEMMA AtIsInDay ==
    ASSUME NEW day \in Int, NEW h, IsHour(h), NEW m, IsMinute(m)
    PROVE  At(day, h, m) \in Int /\ DayOf(At(day, h, m)) = day
  BY DEF At, DayOf, Day, Hour, Minute, IsHour, IsMinute

-----------------------------------------------------------------------------
(* The next fire is the next occurrence *)

\* n is the first of the instants that f gives for each day and that lie after t.
IsFirstAfter(f, t, n) ==
    /\ n \in Int /\ n > t
    /\ n \in f[DayOf(n)]
    /\ \A day \in Int : \A o \in f[day] : o <= t \/ o >= n

InTheirDay(f) == \A day \in Int : \A o \in f[day] : o \in Int /\ DayOf(o) = day

\* A sweep over the days from t's own finds the first instant after t, if it
\* finds one: whatever lies before the sweep is past, whatever lies behind it is
\* later than what was found.
LEMMA SweepFindsFirst ==
    ASSUME NEW f, InTheirDay(f), NEW t \in Int, NEW last \in Int,
           NEW candidates, candidates = UNION {f[day] : day \in DayOf(t)..last},
           FirstAfter(candidates, t) # Thrown
    PROVE  IsFirstAfter(f, t, FirstAfter(candidates, t))
<1> DEFINE later == {c \in candidates : c > t}
           n == Min(later)
<1>1. candidates \in SUBSET Int
  BY DayBounds DEF InTheirDay
<1>2. later \in SUBSET Int /\ (\A c \in later : c > t) /\ later # {}
  BY <1>1 DEF FirstAfter
<1>3. n \in later /\ \A c \in later : n <= c
  <2> HIDE DEF later
  <2> QED
    BY <1>2, LeastOf
<1>4. FirstAfter(candidates, t) = n
  BY <1>2 DEF FirstAfter
<1>5. n \in Int /\ n > t /\ n \in candidates
  BY <1>2, <1>3
<1> HIDE DEF n
<1>6. PICK d \in DayOf(t)..last : n \in f[d]
  BY <1>5
<1>7. DayOf(n) = d /\ d \in Int /\ d <= last
  BY <1>6, DayBounds DEF InTheirDay
<1>8. ASSUME NEW day \in Int, NEW o \in f[day], ~(o <= t), ~(o >= n)
      PROVE  FALSE
  <2>1. o \in Int /\ DayOf(o) = day /\ t <= o /\ o <= n
    BY <1>5, <1>8 DEF InTheirDay
  <2>2. DayOf(t) <= day /\ day <= d /\ DayOf(t) \in Int
    BY <1>5, <1>7, <2>1, DayIsMonotonic, DayBounds
  <2>3. day \in DayOf(t)..last
    BY <1>7, <2>2
  <2>4. o \in later
    BY <1>8, <2>1, <2>3
  <2> QED
    BY <1>3, <1>5, <1>8, <2>1, <2>4 DEF n
<1> QED
  BY <1>4, <1>5, <1>6, <1>7, <1>8 DEF IsFirstAfter

\* A schedule's occurrences, day by day.
Occur(c) == [day \in Int |-> Occurrences(c, day)]

\* An answer that is an instant is the schedule's first occurrence after t.
IsNext(c, t, n) == n \notin {Null, Thrown} => IsFirstAfter(Occur(c), t, n)

\* Today and tomorrow suffice.
LEMMA DailyIsFirst ==
    ASSUME NEW c, c.mode = "daily-at-utc", NEW t \in Int
    PROVE  IsNext(c, t, NextDailyAtUtc(c, t))
<1> DEFINE Bad == c.hours = {} \/ (\E h \in c.hours : ~IsHour(h)) \/ ~IsMinute(c.minute)
           candidates == {At(DayOf(t) + i, h, c.minute) : i \in 0..1, h \in c.hours}
<1>1. CASE Bad
  BY <1>1 DEF NextDailyAtUtc, IsNext
<1>2. CASE ~Bad
  <2>1. NextDailyAtUtc(c, t) = FirstAfter(candidates, t)
    BY <1>2 DEF NextDailyAtUtc
  <2>2. \A day \in Int : Occur(c)[day] = {At(day, h, c.minute) : h \in c.hours}
    BY DEF Occur, Occurrences
  <2>3. InTheirDay(Occur(c))
    BY <1>2, <2>2, AtIsInDay DEF InTheirDay
  <2>4. candidates = UNION {Occur(c)[day] : day \in DayOf(t)..DayOf(t) + 1}
    <3>1. candidates = UNION {{At(day, h, c.minute) : h \in c.hours} :
                                 day \in {DayOf(t) + i : i \in 0..1}}
      OBVIOUS
    <3>2. {DayOf(t) + i : i \in 0..1} = DayOf(t)..DayOf(t) + 1
      BY DayBounds
    <3> QED
      BY <2>2, <3>1, <3>2, DayBounds
  <2>5. DayOf(t) + 1 \in Int
    BY DayBounds
  <2> HIDE DEF candidates
  <2> QED
    BY <2>1, <2>3, <2>4, <2>5, SweepFindsFirst DEF IsNext
<1> QED
  BY <1>1, <1>2

LEMMA SeveralTimesIsFirst ==
    ASSUME NEW c, c.mode = "several-times-per-day", NEW t \in Int
    PROVE  IsNext(c, t, NextSeveralTimesPerDay(c, t))
<1> DEFINE Bad == c.times = {} \/ \E x \in c.times : ~IsHour(x.hour) \/ ~IsMinute(x.minute)
           candidates == {At(DayOf(t) + i, x.hour, x.minute) : i \in 0..1, x \in c.times}
<1>1. CASE Bad
  BY <1>1 DEF NextSeveralTimesPerDay, IsNext
<1>2. CASE ~Bad
  <2>1. NextSeveralTimesPerDay(c, t) = FirstAfter(candidates, t)
    BY <1>2 DEF NextSeveralTimesPerDay
  <2>2. \A day \in Int : Occur(c)[day] = {At(day, x.hour, x.minute) : x \in c.times}
    BY DEF Occur, Occurrences
  <2>3. InTheirDay(Occur(c))
    BY <1>2, <2>2, AtIsInDay DEF InTheirDay
  <2>4. candidates = UNION {Occur(c)[day] : day \in DayOf(t)..DayOf(t) + 1}
    <3>1. candidates = UNION {{At(day, x.hour, x.minute) : x \in c.times} :
                                 day \in {DayOf(t) + i : i \in 0..1}}
      OBVIOUS
    <3>2. {DayOf(t) + i : i \in 0..1} = DayOf(t)..DayOf(t) + 1
      BY DayBounds
    <3> QED
      BY <2>2, <3>1, <3>2, DayBounds
  <2>5. DayOf(t) + 1 \in Int
    BY DayBounds
  <2> HIDE DEF candidates
  <2> QED
    BY <2>1, <2>3, <2>4, <2>5, SweepFindsFirst DEF IsNext
<1> QED
  BY <1>1, <1>2

\* Weekly and monthly: one instant on each day that is chosen.
OnChosenDays(c, chosen, h, m) ==
    \A day \in Int : Occurrences(c, day) = IF day \in chosen THEN {At(day, h, m)} ELSE {}

IsSweepOf(candidates, chosen, h, m, t, w) ==
    \A x : x \in candidates <=>
        \E j \in 0..w : x = At(DayOf(t) + j, h, m) /\ DayOf(t) + j \in chosen

LEMMA ChosenDaysAreFirst ==
    ASSUME NEW c, NEW h, IsHour(h), NEW m, IsMinute(m), NEW t \in Int, NEW w \in Nat,
           NEW chosen, NEW candidates,
           OnChosenDays(c, chosen, h, m), IsSweepOf(candidates, chosen, h, m, t, w)
    PROVE  IsNext(c, t, FirstAfter(candidates, t))
<1>1. \A day \in Int : \A x : x \in Occur(c)[day] <=> day \in chosen /\ x = At(day, h, m)
  BY DEF Occur, OnChosenDays
<1>2. InTheirDay(Occur(c))
  BY <1>1, AtIsInDay DEF InTheirDay
<1>3. DayOf(t) \in Int /\ DayOf(t) + w \in Int
  BY DayBounds
<1>4. ASSUME NEW x \in candidates
      PROVE  \E day \in DayOf(t)..DayOf(t) + w : x \in Occur(c)[day]
  <2>1. PICK j \in 0..w : x = At(DayOf(t) + j, h, m) /\ DayOf(t) + j \in chosen
    BY <1>4 DEF IsSweepOf
  <2>2. DayOf(t) + j \in DayOf(t)..DayOf(t) + w
    BY <1>3
  <2> QED
    BY <1>1, <1>3, <2>1, <2>2
<1>5. ASSUME NEW day \in DayOf(t)..DayOf(t) + w, NEW x \in Occur(c)[day]
      PROVE  x \in candidates
  <2>1. day \in Int
    BY <1>3
  <2>2. day \in chosen /\ x = At(day, h, m)
    BY <1>1, <1>5, <2>1
  <2> DEFINE j == day - DayOf(t)
  <2>3. j \in 0..w /\ DayOf(t) + j = day
    BY <1>3
  <2> HIDE DEF j
  <2> QED
    BY <2>2, <2>3 DEF IsSweepOf
<1>6. candidates = UNION {Occur(c)[day] : day \in DayOf(t)..DayOf(t) + w}
  BY <1>4, <1>5
<1> QED
  BY <1>2, <1>3, <1>6, SweepFindsFirst DEF IsNext

\* Today and the week to the same day of the next.
LEMMA WeeklyIsFirst ==
    ASSUME NEW c, c.mode = "weekly", NEW t \in Int
    PROVE  IsNext(c, t, NextWeekly(c, t))
<1> DEFINE Bad == \/ c.days = {} \/ ~(c.days \subseteq 0..6)
                  \/ ~IsHour(c.hour) \/ ~IsMinute(c.minute)
           chosen == {day \in Int : DayOfWeek(day) \in c.days}
<1>1. CASE Bad
  BY <1>1 DEF NextWeekly, IsNext
<1>2. CASE ~Bad
  <2> DEFINE candidates == {At(DayOf(t) + i, c.hour, c.minute) :
                               i \in {j \in 0..7 : DayOfWeek(DayOf(t) + j) \in c.days}}
  <2>1. NextWeekly(c, t) = FirstAfter(candidates, t)
    BY <1>2 DEF NextWeekly
  <2>2. IsSweepOf(candidates, chosen, c.hour, c.minute, t, 7)
    <3>1. \A j \in 0..7 : DayOfWeek(DayOf(t) + j) \in c.days <=> DayOf(t) + j \in chosen
      BY DayBounds
    <3> QED
      BY <3>1 DEF IsSweepOf
  <2>3. OnChosenDays(c, chosen, c.hour, c.minute)
    BY DEF OnChosenDays, Occurrences
  <2>4. IsHour(c.hour) /\ IsMinute(c.minute) /\ 7 \in Nat
    BY <1>2
  <2> HIDE DEF chosen, candidates
  <2> QED
    BY <2>1, <2>2, <2>3, <2>4, ChosenDaysAreFirst
<1> QED
  BY <1>1, <1>2

\* The sweep of 33 days may find nothing, but what it finds comes first.
LEMMA MonthlyIsFirst ==
    ASSUME NEW c, c.mode = "monthly", NEW t \in Int
    PROVE  IsNext(c, t, NextMonthly(c, t))
<1> DEFINE Bad == \/ c.days = {} \/ ~(c.days \subseteq 1..31)
                  \/ ~IsHour(c.hour) \/ ~IsMinute(c.minute)
           chosen == {day \in Int : DayOfMonth(day) \in c.days}
<1>1. CASE Bad
  BY <1>1 DEF NextMonthly, IsNext
<1>2. CASE ~Bad
  <2> DEFINE candidates == {At(DayOf(t) + i, c.hour, c.minute) :
                               i \in {j \in 0..32 : DayOfMonth(DayOf(t) + j) \in c.days}}
  <2>1. NextMonthly(c, t) = FirstAfter(candidates, t)
    BY <1>2 DEF NextMonthly
  <2>2. IsSweepOf(candidates, chosen, c.hour, c.minute, t, 32)
    <3>1. \A j \in 0..32 : DayOfMonth(DayOf(t) + j) \in c.days <=> DayOf(t) + j \in chosen
      BY DayBounds
    <3> QED
      BY <3>1 DEF IsSweepOf
  <2>3. OnChosenDays(c, chosen, c.hour, c.minute)
    BY DEF OnChosenDays, Occurrences
  <2>4. IsHour(c.hour) /\ IsMinute(c.minute) /\ 32 \in Nat
    BY <1>2
  <2> HIDE DEF chosen, candidates
  <2> QED
    BY <2>1, <2>2, <2>3, <2>4, ChosenDaysAreFirst
<1> QED
  BY <1>1, <1>2

\* The occurrences of an interval schedule are its multiples, on whatever day.
LEMMA MultiplesOccur ==
    ASSUME NEW c, c.mode = "every-n-minutes", c.start \in Int,
           c.interval \in Int, c.interval > 0, NEW day \in Int, NEW o
    PROVE  o \in Occurrences(c, day) <=>
               /\ o \in Int /\ o >= c.start /\ DayOf(o) = day
               /\ \E j \in Int : o = c.start + j * (c.interval * Minute)
<1> DEFINE n == c.interval * Minute
           start == c.start
           x == day * Day - start
           k == x \div n
           span == Day \div n
<1>1. o \in Occurrences(c, day) <=>
          /\ \E j \in k..k + span + 1 : o = start + j * n
          /\ o >= start /\ DayOf(o) = day
  BY DEF Occurrences
<1>2. Day \in Int /\ day * Day \in Int
  BY DEF Day, Hour, Minute
<1>3. x \in Int /\ n \in Int /\ n > 0 /\ start \in Int
  BY <1>2 DEF Minute
<1> HIDE DEF x, n, start
<1>4. /\ k \in Int /\ k * n \in Int /\ k * n <= x /\ (k + 1) * n \in Int /\ x < (k + 1) * n
      /\ span \in Int /\ (span + 1) * n \in Int /\ Day < (span + 1) * n
  BY <1>2, <1>3, Division
<1> HIDE DEF k, span
<1>5. ASSUME NEW j \in Int, o = start + j * n, DayOf(o) = day
      PROVE  j \in k..k + span + 1
  <2>1. j * n \in Int /\ o \in Int
    BY <1>3, <1>5
  <2>2. day * Day <= o /\ o < day * Day + Day
    BY <1>5, <2>1, DayBounds
  <2>3. x <= j * n /\ j * n < x + Day
    BY <1>2, <1>3, <1>5, <2>1, <2>2 DEF x
  <2>4. k <= j
    <3>1. k + 1 \in Int /\ j + 1 \in Int /\ (j + 1) * n = j * n + n
      BY <1>3, <1>4, <2>1
    <3>2. k * n < (j + 1) * n
      BY <1>3, <1>4, <2>1, <2>3, <3>1
    <3>3. k < j + 1
      BY <1>3, <1>4, <3>1, <3>2, Multiples
    <3> QED
      BY <1>4, <3>3
  <2>5. j < k + span + 2
    <3> DEFINE l == k + span + 2
    <3>1. l \in Int /\ l * n = (k + 1) * n + (span + 1) * n
      BY <1>3, <1>4
    <3>2. j * n < l * n
      BY <1>2, <1>3, <1>4, <2>1, <2>3, <3>1
    <3> HIDE DEF l
    <3>3. j < l
      BY <1>3, <3>1, <3>2, Multiples
    <3> QED
      BY <3>3 DEF l
  <2> QED
    BY <1>4, <2>4, <2>5
<1>6. ASSUME NEW j \in k..k + span + 1, o = start + j * n
      PROVE  j \in Int /\ o \in Int
  BY <1>3, <1>4, <1>6
<1>7. (\E j \in Int : o = start + j * n) /\ DayOf(o) = day =>
          o \in Int /\ \E j \in k..k + span + 1 : o = start + j * n
  BY <1>3, <1>5
<1>8. (\E j \in k..k + span + 1 : o = start + j * n) =>
          o \in Int /\ \E j \in Int : o = start + j * n
  BY <1>6
<1> QED
  BY <1>1, <1>7, <1>8 DEF n, start

\* The start, or the last multiple of the interval at or before t and one more.
LEMMA EveryNMinutesIsFirst ==
    ASSUME NEW c, c.mode = "every-n-minutes", IsConfig(c), NEW t \in Int
    PROVE  IsNext(c, t, NextEveryNMinutes(c, t))
<1>1. CASE c.interval <= 0 \/ c.start = Null
  BY <1>1 DEF NextEveryNMinutes, IsNext, IsConfig
<1>2. CASE c.interval > 0 /\ c.start # Null
  <2> DEFINE n == c.interval * Minute
             start == c.start
             x == t - start
             q == x \div n
             j1 == IF t < start THEN 0 ELSE q + 1
             next1 == start + j1 * n
  <2>1. n \in Int /\ n > 0 /\ start \in Int /\ x \in Int
    BY <1>2 DEF Minute, IsConfig
  <2>2. NextEveryNMinutes(c, t) = next1
    <3>1. CASE t < start
      BY <1>2, <2>1, <3>1 DEF NextEveryNMinutes
    <3>2. CASE ~(t < start)
      BY <1>2, <2>1, <3>2 DEF NextEveryNMinutes, IsConfig
    <3> QED
      BY <3>1, <3>2
  <2>3. \A day \in Int : \A o : o \in Occur(c)[day] <=>
             /\ o \in Int /\ o >= start /\ DayOf(o) = day
             /\ \E j \in Int : o = start + j * n
    BY <2>1, <1>2, MultiplesOccur DEF Occur, IsConfig
  <2> HIDE DEF n, x, start
  <2>4. q \in Int /\ q * n \in Int /\ q * n <= x /\ (q + 1) * n \in Int /\ x < (q + 1) * n
    BY <2>1, Division
  <2> HIDE DEF q
  <2>5. j1 \in Int /\ j1 * n \in Int /\ next1 \in Int /\ next1 >= start /\ next1 > t
    <3>1. CASE t < start
      BY <2>1, <3>1
    <3>2. CASE ~(t < start)
      <4>1. j1 * n = (q + 1) * n /\ j1 \in Int
        BY <2>4, <3>2
      <4> QED
        BY <2>1, <2>4, <3>2, <4>1 DEF x
    <3> QED
      BY <3>1, <3>2
  <2>6. ASSUME NEW day \in Int, NEW o \in Occur(c)[day], ~(o <= t)
        PROVE  o >= next1
    <3>1. PICK j \in Int : o = start + j * n
      BY <2>3, <2>6
    <3>2. o \in Int /\ o >= start /\ o > t
      BY <2>3, <2>6
    <3>3. CASE t < start
      BY <2>1, <3>2, <3>3
    <3>4. CASE ~(t < start)
      <4>1. q * n < j * n
        BY <2>1, <2>4, <3>1, <3>2 DEF x
      <4>2. q + 1 <= j
        BY <2>1, <2>4, <4>1, Multiples
      <4>3. q + 1 \in Int /\ (q + 1) * n <= j * n
        BY <2>1, <2>4, <4>2, Multiples
      <4>4. next1 = start + (q + 1) * n
        BY <3>4
      <4> QED
        BY <2>1, <2>4, <3>1, <4>3, <4>4
    <3> QED
      BY <3>3, <3>4
  <2>7. next1 \in Occur(c)[DayOf(next1)]
    <3> DEFINE day == DayOf(next1)
    <3>1. day \in Int /\ next1 >= start /\ \E j \in Int : next1 = start + j * n
      BY <2>5, DayBounds
    <3> HIDE DEF next1
    <3> QED
      BY <2>3, <2>5, <3>1
  <2> HIDE DEF next1
  <2> QED
    BY <2>2, <2>5, <2>6, <2>7 DEF IsNext, IsFirstAfter
<1> QED
  BY <1>1, <1>2 DEF IsConfig

\* The only occurrence, if it is ahead.
LEMMA OneTimeIsFirst ==
    ASSUME NEW c, c.mode = "one-time", IsConfig(c), NEW t \in Int
    PROVE  IsNext(c, t, NextOneTime(c, t))
<1>1. \A day \in Int : Occur(c)[day] = {o \in {c.fireAt} : DayOf(o) = day}
  BY DEF Occur, Occurrences
<1>2. c.fireAt \in Int \cup {Null}
  BY DEF IsConfig
<1>3. CASE NextOneTime(c, t) = c.fireAt /\ c.fireAt \in Int /\ c.fireAt > t
  BY <1>1, <1>3, DayBounds DEF IsNext, IsFirstAfter
<1>4. CASE NextOneTime(c, t) \in {Null, Thrown}
  BY <1>4 DEF IsNext
<1> QED
  BY <1>2, <1>3, <1>4, ScheduleAssumption DEF NextOneTime

-----------------------------------------------------------------------------
(* Cron expressions *)

\* Gregorian: a year has at most 366 days, a month at most 31.
LEMMA CalendarDay ==
    ASSUME NEW day \in Int
    PROVE  /\ DayOfYear(day) \in 0..365
           /\ Month(day) \in 1..12 /\ DayOfMonth(day) \in 1..31
<1>1. DayOfEra(day) \in Int /\ 0 <= DayOfEra(day) /\ DayOfEra(day) < 146097
  BY DEF DayOfEra
<1>2. ASSUME NEW e \in Int, 0 <= e, e < 146097
      PROVE  LET y == (e - e \div 1460 + e \div 36524 - e \div 146096) \div 365
                 d == e - (365 * y + y \div 4 - y \div 100)
             IN  d \in 0..365
  BY <1>2, SMTT(60)
<1>3. DayOfYear(day) \in 0..365
  BY <1>1, <1>2 DEF DayOfYear, YearOfEra
<1>4. \A d \in 0..365 :
          LET m == (5 * d + 2) \div 153
          IN  m \in 0..11 /\ d - (153 * m + 2) \div 5 + 1 \in 1..31
  BY SMTT(60)
<1>5. MonthFromMarch(day) \in 0..11 /\ DayOfMonth(day) \in 1..31
  BY <1>3, <1>4 DEF MonthFromMarch, DayOfMonth
<1> QED
  BY <1>3, <1>5 DEF Month

\* The values of a valid field lie in its range.
LEMMA FieldsAreInRange ==
    ASSUME NEW pieces, \A p \in pieces : IsPiece(p), NEW lo \in Int, NEW hi \in Int,
           FieldValues(pieces, lo, hi) # Thrown
    PROVE  FieldValues(pieces, lo, hi) \in SUBSET (lo..hi)
<1>1. /\ FieldValues(pieces, lo, hi) = UNION {PieceValues(p, lo, hi) : p \in pieces}
      /\ \A p \in pieces : PieceIsValid(p, lo, hi)
  BY DEF FieldValues
<1>2. ASSUME NEW p \in pieces PROVE PieceValues(p, lo, hi) \in SUBSET (lo..hi)
  <2>1. PieceRange(p, hi, lo) \in SUBSET (lo..hi)
    <3>1. CASE p.base = "any"
      BY <3>1 DEF PieceRange
    <3>2. CASE p.base = "range"
      <4>1. p.from \in Int /\ p.to \in Int /\ p.from >= lo /\ p.to <= hi
        BY <1>1, <3>2 DEF IsPiece, PieceIsValid
      <4> QED
        BY <3>2, <4>1 DEF PieceRange
    <3>3. CASE p.base = "value"
      <4>1. p.from \in Int /\ p.from >= lo /\ p.from <= hi
        BY <1>1, <3>3 DEF IsPiece, PieceIsValid
      <4>2. PieceRange(p, hi, lo) \in {p.from..p.from, p.from..hi}
        BY <3>3 DEF PieceRange
      <4> QED
        BY <4>1, <4>2
    <3> QED
      BY <3>1, <3>2, <3>3 DEF IsPiece
  <2> QED
    BY <2>1 DEF PieceValues
<1> QED
  BY <1>1, <1>2

\* What the parser hands to the search.
LEMMA ParsedFields ==
    ASSUME NEW c, c.mode = "cron-expression", IsConfig(c), CronParses(c.expression)
    PROVE  LET p == ParsedCron(c.expression)
           IN  /\ p.minutes \in SUBSET (0..59) /\ p.hours \in SUBSET (0..23)
               /\ p.daysOfMonth \in SUBSET (1..31) /\ p.daysOfWeek \in SUBSET (0..6)
<1> DEFINE e == c.expression
           Fit(pieces) == \A x \in pieces : IsPiece(x)
<1>1. Fit(e.minute) /\ Fit(e.hour) /\ Fit(e.dayOfMonth) /\ Fit(e.dayOfWeek)
  BY DEF CronParses, IsConfig
<1>2. /\ FieldValues(e.minute, 0, 59) # Thrown /\ FieldValues(e.hour, 0, 23) # Thrown
      /\ FieldValues(e.dayOfMonth, 1, 31) # Thrown /\ FieldValues(e.dayOfWeek, 0, 6) # Thrown
  BY DEF CronParses, ParsedCron
<1>3. /\ FieldValues(e.minute, 0, 59) \in SUBSET (0..59)
      /\ FieldValues(e.hour, 0, 23) \in SUBSET (0..23)
  BY <1>1, <1>2, FieldsAreInRange
<1>4. /\ FieldValues(e.dayOfMonth, 1, 31) \in SUBSET (1..31)
      /\ FieldValues(e.dayOfWeek, 0, 6) \in SUBSET (0..6)
  BY <1>1, <1>2, FieldsAreInRange
<1> QED
  BY <1>3, <1>4 DEF ParsedCron

\* A field that parses has a value.
LEMMA FieldsHaveValues ==
    ASSUME NEW pieces, \A p \in pieces : IsPiece(p), NEW lo \in Int, NEW hi \in Int, lo <= hi,
           FieldValues(pieces, lo, hi) # Thrown
    PROVE  FieldValues(pieces, lo, hi) # {}
<1>1. /\ FieldValues(pieces, lo, hi) = UNION {PieceValues(p, lo, hi) : p \in pieces}
      /\ pieces # {} /\ \A p \in pieces : PieceIsValid(p, lo, hi)
  BY DEF FieldValues
<1>2. PICK p \in pieces : IsPiece(p) /\ PieceIsValid(p, lo, hi)
  BY <1>1
<1> DEFINE from == IF p.base = "any" THEN lo ELSE p.from
<1>3. from \in Int /\ from \in PieceRange(p, hi, lo)
  BY <1>2 DEF IsPiece, PieceIsValid, PieceRange
<1>4. ASSUME NEW n \in Int, n > 0 PROVE (from - from) % n = 0
  <2>1. /\ (0 \div n) * n <= 0 /\ 0 < (0 \div n + 1) * n /\ 0 \div n \in Int
        /\ 0 % n \in Int /\ 0 = n * (0 \div n) + (0 % n) /\ 0 <= 0 % n /\ 0 % n < n
    BY <1>4, Division
  <2>2. 0 \div n = 0
    BY <1>4, <2>1
  <2>3. 0 % n = 0
    BY <1>4, <2>1, <2>2
  <2> QED
    BY <1>3, <2>3
<1>5. p.step = Null \/ (from - from) % p.step = 0
  BY <1>2, <1>4 DEF IsPiece, PieceIsValid
<1>6. from \in PieceValues(p, lo, hi)
  BY <1>3, <1>5 DEF PieceValues
<1> QED
  BY <1>1, <1>2, <1>6

\* So every field of a parsed expression allows something.
LEMMA ParsedFieldsHaveValues ==
    ASSUME NEW c, c.mode = "cron-expression", IsConfig(c), CronParses(c.expression)
    PROVE  LET p == ParsedCron(c.expression)
           IN  /\ p.months \in SUBSET (1..12)
               /\ p.minutes # {} /\ p.hours # {} /\ p.months # {}
               /\ p.daysOfMonth # {} /\ p.daysOfWeek # {}
<1> DEFINE e == c.expression
           Fit(pieces) == \A x \in pieces : IsPiece(x)
<1>1. /\ Fit(e.minute) /\ Fit(e.hour) /\ Fit(e.month) /\ Fit(e.dayOfMonth)
      /\ Fit(e.dayOfWeek)
  BY DEF CronParses, IsConfig
<1>2. /\ FieldValues(e.minute, 0, 59) # Thrown /\ FieldValues(e.hour, 0, 23) # Thrown
      /\ FieldValues(e.month, 1, 12) # Thrown
      /\ FieldValues(e.dayOfMonth, 1, 31) # Thrown /\ FieldValues(e.dayOfWeek, 0, 6) # Thrown
  BY DEF CronParses, ParsedCron
<1>3. FieldValues(e.minute, 0, 59) # {} /\ FieldValues(e.hour, 0, 23) # {}
  BY <1>1, <1>2, FieldsHaveValues
<1>4. FieldValues(e.month, 1, 12) # {} /\ FieldValues(e.month, 1, 12) \in SUBSET (1..12)
  BY <1>1, <1>2, FieldsHaveValues, FieldsAreInRange
<1>5. FieldValues(e.dayOfMonth, 1, 31) # {} /\ FieldValues(e.dayOfWeek, 0, 6) # {}
  BY <1>1, <1>2, FieldsHaveValues
<1> QED
  BY <1>3, <1>4, <1>5 DEF ParsedCron
\* A field is full exactly if it has as many values as its range.
LEMMA FullField ==
    ASSUME NEW lo \in Nat, NEW hi \in Nat, lo <= hi, NEW size \in Nat, size = hi - lo + 1,
           NEW field \in SUBSET (lo..hi)
    PROVE  Cardinality(field) = size <=> lo..hi \subseteq field
<1>1. IsFiniteSet(lo..hi) /\ Cardinality(lo..hi) = size
  BY FS_Interval
<1>2. Cardinality(lo..hi) = Cardinality(field) => lo..hi = field
  BY <1>1, FS_Subset
<1>3. lo..hi \subseteq field => field = lo..hi
  OBVIOUS
<1> QED
  BY <1>1, <1>2, <1>3

\* Which days the search takes: a day field is restricted unless it has its full range.
LEMMA CronDayReads ==
    ASSUME NEW c, c.mode = "cron-expression", IsConfig(c), CronParses(c.expression),
           NEW day \in Int
    PROVE  LET p == ParsedCron(c.expression)
               dom == DayOfMonth(day) \in p.daysOfMonth
               dow == DayOfWeek(day) \in p.daysOfWeek
               either == ~(1..31 \subseteq p.daysOfMonth) /\ ~(0..6 \subseteq p.daysOfWeek)
           IN  CronDay(p, day) <=>
                   Month(day) \in p.months /\ IF either THEN dom \/ dow ELSE dom /\ dow
<1> DEFINE p == ParsedCron(c.expression)
           dom == DayOfMonth(day) \in p.daysOfMonth
           dow == DayOfWeek(day) \in p.daysOfWeek
           domFull == 1..31 \subseteq p.daysOfMonth
           dowFull == 0..6 \subseteq p.daysOfWeek
           either == ~domFull /\ ~dowFull
           match == IF either THEN dom \/ dow ELSE dom /\ dow
<1>1. Cardinality(p.daysOfMonth) = 31 <=> domFull
  <2> DEFINE first == 1
             last == 31
             size == 31
             field == p.daysOfMonth
  <2>1. /\ first \in Nat /\ last \in Nat /\ size \in Nat
        /\ first <= last /\ size = last - first + 1
    OBVIOUS
  <2>2. field \in SUBSET (first..last)
    BY ParsedFields
  <2>3. Cardinality(field) = size <=> first..last \subseteq field
    <3> HIDE DEF first, last, size, field
    <3> QED
      BY <2>1, <2>2, FullField
  <2> QED
    BY <2>3
<1>2. Cardinality(p.daysOfWeek) = 7 <=> dowFull
  <2> DEFINE first == 0
             last == 6
             size == 7
             field == p.daysOfWeek
  <2>1. /\ first \in Nat /\ last \in Nat /\ size \in Nat
        /\ first <= last /\ size = last - first + 1
    OBVIOUS
  <2>2. field \in SUBSET (first..last)
    BY ParsedFields
  <2>3. Cardinality(field) = size <=> first..last \subseteq field
    <3> HIDE DEF first, last, size, field
    <3> QED
      BY <2>1, <2>2, FullField
  <2> QED
    BY <2>3
<1>3. (domFull => dom) /\ (dowFull => dow)
  <2>1. DayOfMonth(day) \in 1..31 /\ DayOfWeek(day) \in 0..6
    BY CalendarDay DEF DayOfWeek
  <2> QED
    BY <2>1
<1>4. CronDay(p, day) <=> Month(day) \in p.months /\ match
  <2>1. CronDay(p, day) <=>
          /\ Month(day) \in p.months
          /\ IF domFull \/ dowFull THEN (domFull \/ dom) /\ (dowFull \/ dow) ELSE dom \/ dow
    BY <1>1, <1>2 DEF CronDay
  <2> HIDE DEF dom, dow, domFull, dowFull, p
  <2> QED
    BY <1>3, <2>1
<1> QED
  BY <1>4


\* The search's reading of the day fields is the description's.
LEMMA CronDayOccurs ==
    ASSUME NEW c, c.mode = "cron-expression", IsConfig(c), CronParses(c.expression),
           NEW day \in Int
    PROVE  Occurrences(c, day) = IF CronDay(ParsedCron(c.expression), day)
                                 THEN CronInstants(ParsedCron(c.expression), day) ELSE {}
  BY CronDayReads DEF Occurrences, CronInstants

\* The instants of a cron expression are whole minutes, so the first one that lies
\* ahead is not before the minute that the search starts at.
LEMMA CronInstantsAhead ==
    ASSUME NEW c, c.mode = "cron-expression", IsConfig(c), CronParses(c.expression),
           NEW t \in Int, NEW day \in Int, NEW o \in CronInstants(ParsedCron(c.expression), day)
    PROVE  /\ o \in Int /\ DayOf(o) = day
           /\ o > t => o >= (t \div Minute + 1) * Minute
<1> DEFINE p == ParsedCron(c.expression)
           start == (t \div Minute + 1) * Minute
<1>1. PICK h \in p.hours, m \in p.minutes : o = At(day, h, m)
  BY DEF CronInstants
<1>2. IsHour(h) /\ IsMinute(m) /\ h \in Int /\ m \in Int
  <2>1. p.hours \in SUBSET (0..23) /\ p.minutes \in SUBSET (0..59)
    BY ParsedFields
  <2> HIDE DEF p
  <2>2. h \in 0..23 /\ m \in 0..59
    BY <2>1
  <2> QED
    BY <2>2 DEF IsHour, IsMinute
<1>3. o \in Int /\ DayOf(o) = day
  BY <1>1, <1>2, AtIsInDay
<1>4. o > t => o >= start
  <2> DEFINE k == day * 1440 + h * 60 + m
  <2>1. k \in Int /\ o = 2 * k
    BY <1>1, <1>2 DEF At, Day, Hour, Minute
  <2>2. start = (t \div 2 + 1) * 2
    BY DEF Minute
  <2> HIDE DEF k, start
  <2> QED
    BY <2>1, <2>2
<1> QED
  BY <1>3, <1>4

\* The first day that matches, and its first match after t.
LEMMA CronFinds ==
    ASSUME NEW c, c.mode = "cron-expression", IsConfig(c), CronParses(c.expression),
           NEW t \in Int, NEW start, start = (t \div Minute + 1) * Minute,
           NEW end, end = start + MaxMinutes * Minute,
           \E d \in DayOf(start)..DayOf(end) :
               /\ CronDay(ParsedCron(c.expression), d)
               /\ \E x \in CronInstants(ParsedCron(c.expression), d) : start <= x /\ x < end
    PROVE  IsFirstAfter(Occur(c), t, NextCronExpression(c, t))
<1> DEFINE p == ParsedCron(c.expression)
           Found(day) == {x \in CronInstants(p, day) : start <= x /\ x < end}
           Matches(day) == CronDay(p, day) /\ Found(day) # {}
           days == DayOf(start)..DayOf(end)
           IsFirst(d) == Matches(d) /\ \A e \in DayOf(start)..d - 1 : ~Matches(e)
           first == CHOOSE d \in days : IsFirst(d)
<1>0. \E d \in days : Matches(d)
  OBVIOUS
<1> DEFINE f == Occur(c)
           found == Found(first)
           n == Min(found)
<1>1. NextCronExpression(c, t) = n
  BY DEF NextCronExpression
<1>2. start \in Int /\ start > t /\ end \in Int
  BY Division DEF Minute, MaxMinutes
<1>3. \A day \in Int : f[day] = IF CronDay(p, day) THEN CronInstants(p, day) ELSE {}
  BY CronDayOccurs DEF Occur
<1>4. ASSUME NEW day \in Int, NEW o \in CronInstants(p, day)
      PROVE  o \in Int /\ DayOf(o) = day /\ (o > t => o >= start)
  BY <1>4, CronInstantsAhead
<1>5. InTheirDay(f)
  BY <1>3, <1>4 DEF InTheirDay
<1> HIDE DEF p, f
<1>6. DayOf(start) \in Int /\ DayOf(end) \in Int
  BY <1>2, DayBounds
<1>7. \E d \in days : IsFirst(d)
  <2> DEFINE S == {d \in days : Matches(d)}
             before == DayOf(start) - 1
  <2>1. before \in Int /\ S \in SUBSET Int /\ (\A d \in S : d > before) /\ S # {}
    BY <1>0, <1>6
  <2>2. Min(S) \in S /\ \A d \in S : Min(S) <= d
    <3> HIDE DEF S, before
    <3> QED
      BY <2>1, LeastOf
  <2> HIDE DEF Matches
  <2>3. \A e \in DayOf(start)..Min(S) - 1 : e \notin S /\ e \in days
    BY <1>6, <2>1, <2>2
  <2> QED
    BY <2>2, <2>3
<1>8. first \in days /\ IsFirst(first)
  <2> HIDE DEF IsFirst
  <2> QED
    BY <1>7
<1>9. first \in Int /\ CronDay(p, first) /\ found # {}
  BY <1>6, <1>8
<1>10. \A e \in DayOf(start)..first - 1 : ~Matches(e)
  BY <1>8
<1> HIDE DEF first
<1>11. found \in SUBSET Int /\ \A x \in found : x > t
  BY <1>2, <1>4, <1>9
<1>12. n \in found /\ \A x \in found : n <= x
  <2> HIDE DEF found
  <2> QED
    BY <1>9, <1>11, LeastOf
<1>13. n \in Int /\ n > t /\ n < end /\ n \in f[first] /\ DayOf(n) = first
  BY <1>3, <1>4, <1>9, <1>11, <1>12
<1> HIDE DEF n
<1>14. ASSUME NEW day \in Int, NEW o \in f[day], ~(o <= t), ~(o >= n)
       PROVE  FALSE
  <2>1. CronDay(p, day) /\ o \in CronInstants(p, day)
    BY <1>3, <1>14
  <2>2. o \in Int /\ o > t /\ o < n /\ DayOf(o) = day /\ start <= o
    BY <1>4, <1>13, <1>14, <2>1
  <2>3. o < end /\ o <= end /\ o <= n
    BY <1>2, <1>13, <2>2
  <2>4. o \in Found(day)
    BY <2>1, <2>2, <2>3
  <2>5. DayOf(start) <= day /\ day <= DayOf(end) /\ day <= first
    BY <1>2, <1>13, <2>2, <2>3, DayIsMonotonic
  <2>6. ~(day < first)
    <3>1. day < first => day \in DayOf(start)..first - 1
      BY <1>6, <1>9, <2>5
    <3>2. Matches(day)
      BY <2>1, <2>4
    <3> HIDE DEF Matches
    <3> QED
      BY <1>10, <3>1, <3>2
  <2>7. day = first
    BY <1>9, <2>5, <2>6
  <2> QED
    BY <1>12, <1>13, <2>2, <2>4, <2>7
<1> QED
  BY <1>1, <1>13, <1>14 DEF IsFirstAfter, f

\* With the searches that find nothing.
LEMMA CronIsFirst ==
    ASSUME NEW c, c.mode = "cron-expression", IsConfig(c), NEW t \in Int
    PROVE  IsNext(c, t, NextCronExpression(c, t))
<1> DEFINE p == ParsedCron(c.expression)
           start == (t \div Minute + 1) * Minute
           end == start + MaxMinutes * Minute
           Found(day) == {x \in CronInstants(p, day) : start <= x /\ x < end}
           Matches(day) == CronDay(p, day) /\ Found(day) # {}
           days == DayOf(start)..DayOf(end)
<1>1. CASE ~CronParses(c.expression) \/ ~\E d \in days : Matches(d)
  BY <1>1 DEF NextCronExpression, IsNext
<1>2. CASE CronParses(c.expression) /\ \E d \in days : Matches(d)
  <2> HIDE DEF start, end
  <2>1. start = (t \div Minute + 1) * Minute /\ end = start + MaxMinutes * Minute
    BY DEF start, end
  <2>2. \E d \in DayOf(start)..DayOf(end) :
            CronDay(p, d) /\ \E x \in CronInstants(p, d) : start <= x /\ x < end
    BY <1>2
  <2> QED
    BY <1>2, <2>1, <2>2, CronFinds DEF IsNext
<1> QED
  BY <1>1, <1>2

\* The search gives up only on an expression without an occurrence in the 366 days
\* after now (schedule.ts, nextCronExpression).
THEOREM CronSearchesAYear ==
    ASSUME NEW c, c.mode = "cron-expression", IsConfig(c), CronParses(c.expression),
           NEW t \in Int, computeNextFire(c, t) = Thrown
    PROVE  \A day \in Int : \A o \in Occurrences(c, day) : o <= t \/ o > t + 366 * Day
<1> SUFFICES ASSUME NEW day \in Int, NEW o \in Occurrences(c, day), ~(o <= t),
                    ~(o > t + 366 * Day)
             PROVE  FALSE
  OBVIOUS
<1> DEFINE p == ParsedCron(c.expression)
           start == (t \div Minute + 1) * Minute
           end == start + MaxMinutes * Minute
<1>1. CronDay(p, day) /\ o \in CronInstants(p, day)
  BY CronDayOccurs
<1>2. o \in Int /\ DayOf(o) = day /\ o >= start
  <2>1. o \in Int /\ DayOf(o) = day /\ (o > t => o >= start)
    BY <1>1, CronInstantsAhead
  <2>2. o > t
    BY <2>1
  <2> QED
    BY <2>1, <2>2
<1>3. start \in Int /\ start > t /\ end \in Int /\ end = start + 366 * Day
  BY Division DEF Minute, MaxMinutes, Day, Hour
<1>4. o < end /\ o <= end
  BY <1>2, <1>3 DEF Day, Hour, Minute
<1>5. DayOf(start) <= day /\ day <= DayOf(end) /\ DayOf(start) \in Int /\ DayOf(end) \in Int
  BY <1>2, <1>3, <1>4, DayIsMonotonic, DayBounds
<1>6. \E d \in DayOf(start)..DayOf(end) :
          CronDay(p, d) /\ \E x \in CronInstants(p, d) : start <= x /\ x < end
  <2>1. day \in DayOf(start)..DayOf(end)
    BY <1>5
  <2> QED
    BY <1>1, <1>2, <1>4, <2>1
<1>7. computeNextFire(c, t) \in Int
  <2> HIDE DEF start, end
  <2>1. start = (t \div Minute + 1) * Minute /\ end = start + MaxMinutes * Minute
    BY DEF start, end
  <2>2. IsFirstAfter(Occur(c), t, NextCronExpression(c, t))
    BY <1>6, <2>1, CronFinds
  <2> QED
    BY <2>2 DEF IsFirstAfter, computeNextFire
<1> QED
  BY <1>7, ScheduleAssumption

-----------------------------------------------------------------------------
(* All modes *)

\* computeNextFire, every mode: an answer that is an instant is an occurrence of the
\* schedule as the package's README describes its mode, it lies after now, and no
\* other occurrence lies between the two.
THEOREM NextFireIsNextOccurrence ==
    ASSUME NEW c, IsConfig(c), NEW t \in Int
    PROVE  IsNext(c, t, computeNextFire(c, t))
<1>1. IsNext(c, t, Thrown)
  BY DEF IsNext
<1> QED
  BY <1>1, DailyIsFirst, EveryNMinutesIsFirst, WeeklyIsFirst, MonthlyIsFirst, CronIsFirst,
     OneTimeIsFirst, SeveralTimesIsFirst DEF computeNextFire

\* A one-time schedule names one instant: whenever it is asked, it answers that
\* instant or none, and once the instant has come it answers none for good.
THEOREM OneTimeNamesOneInstant ==
    ASSUME NEW c, c.mode = "one-time", IsConfig(c), NEW t \in Int
    PROVE  /\ computeNextFire(c, t) \in {c.fireAt, Null, Thrown}
           /\ c.fireAt # Null /\ c.fireAt <= t => computeNextFire(c, t) = Null
<1>1. computeNextFire(c, t) = NextOneTime(c, t)
  BY DEF computeNextFire
<1> QED
  BY <1>1 DEF NextOneTime

\* MONOTONIC (schedule.ts): a later now never has an earlier next fire. Nothing but
\* the schedule is needed for it, no fire in common to both.
THEOREM NextFiresAreMonotonic ==
    ASSUME NEW c, IsConfig(c), NEW t \in Int, NEW u \in Int, t <= u,
           computeNextFire(c, t) \notin {Null, Thrown},
           computeNextFire(c, u) \notin {Null, Thrown}
    PROVE  computeNextFire(c, t) <= computeNextFire(c, u)
<1> DEFINE n == computeNextFire(c, t)
           m == computeNextFire(c, u)
           f == Occur(c)
<1>1. IsFirstAfter(f, t, n) /\ IsFirstAfter(f, u, m)
  BY NextFireIsNextOccurrence DEF IsNext
<1> HIDE DEF n, m, f
<1>2. n \in Int /\ m \in Int /\ m > t
  BY <1>1 DEF IsFirstAfter
<1>3. m <= t \/ m >= n
  BY <1>1, <1>2, DayBounds DEF IsFirstAfter
<1>4. n <= m
  BY <1>2, <1>3
<1> QED
  BY <1>4 DEF n, m

\* No next fire, or one that lies ahead.
IsAhead(n, t) == n \in {Null, Thrown} \/ (n \in Int /\ n > t)

\* No mode answers an instant at or before now.
THEOREM NextFiresAreAhead ==
    ASSUME NEW c, IsConfig(c), NEW t \in Int
    PROVE  IsAhead(computeNextFire(c, t), t)
  BY NextFireIsNextOccurrence DEF IsNext, IsFirstAfter, IsAhead

-----------------------------------------------------------------------------
(* Every recurring schedule has a next fire *)

\* A sweep with a candidate ahead finds one.
LEMMA SweepFinds ==
    ASSUME NEW candidates \in SUBSET Int, NEW t \in Int, NEW x \in candidates, x > t
    PROVE  FirstAfter(candidates, t) \notin {Null, Thrown}
<1> DEFINE later == {c \in candidates : c > t}
<1>1. later \in SUBSET Int /\ later # {} /\ \A c \in later : c > t
  OBVIOUS
<1>2. Min(later) \in later
  <2> HIDE DEF later
  <2> QED
    BY <1>1, LeastOf
<1>3. FirstAfter(candidates, t) = Min(later)
  BY <1>1 DEF FirstAfter
<1> HIDE DEF later
<1> QED
  BY <1>1, <1>2, <1>3, ScheduleAssumption

\* Tomorrow and any later day is ahead.
LEMMA LaterDayIsAhead ==
    ASSUME NEW t \in Int, NEW i \in Int, i >= 1, NEW h, IsHour(h), NEW m, IsMinute(m)
    PROVE  At(DayOf(t) + i, h, m) \in Int /\ At(DayOf(t) + i, h, m) > t
<1> DEFINE d == DayOf(t)
<1>1. d \in Int /\ t < d * Day + Day
  BY DayBounds
<1> HIDE DEF d
<1>2. At(d + i, h, m) \in Int /\ At(d + i, h, m) >= d * Day + Day
  BY <1>1 DEF At, Day, Hour, Minute, IsHour, IsMinute
<1> QED
  BY <1>1, <1>2 DEF d, Day, Hour, Minute

\* Weekly and monthly: a chosen day from tomorrow on suffices.
LEMMA SweepOfDaysFinds ==
    ASSUME NEW t \in Int, NEW h, IsHour(h), NEW m, IsMinute(m), NEW days \in SUBSET Int,
           NEW i \in days, i >= 1
    PROVE  FirstAfter({At(DayOf(t) + j, h, m) : j \in days}, t) \notin {Null, Thrown}
<1> DEFINE candidates == {At(DayOf(t) + j, h, m) : j \in days}
           x == At(DayOf(t) + i, h, m)
<1>1. candidates \in SUBSET Int
  <2>1. \A j \in days : DayOf(t) + j \in Int
    BY DayBounds
  <2> QED
    BY <2>1, AtIsInDay
<1>2. x \in candidates /\ x > t
  BY LaterDayIsAhead
<1> HIDE DEF x, candidates
<1>3. FirstAfter(candidates, t) \notin {Null, Thrown}
  BY <1>1, <1>2, SweepFinds
<1> QED
  BY <1>3 DEF candidates

\* Every day of the week comes within seven days.
LEMMA WeekDayComes ==
    ASSUME NEW day \in Int, NEW wanted \in 0..6
    PROVE  \E j \in 1..7 : DayOfWeek(day + j) = wanted
<1> DEFINE j == 1 + ((wanted - (day + 5)) % 7)
<1>1. /\ j \in 1..7
      /\ \E k \in Int : day + j + 4 = wanted + 7 * k
  <2> DEFINE x == wanted - (day + 5)
  <2>1. /\ x \in Int /\ x % 7 \in 0..6 /\ x \div 7 \in Int
        /\ x = 7 * (x \div 7) + (x % 7) /\ j = 1 + (x % 7)
    OBVIOUS
  <2> DEFINE k == 0 - (x \div 7)
  <2>2. k \in Int /\ day + j + 4 = wanted + 7 * k
    BY <2>1
  <2> QED
    BY <2>1, <2>2
<1> HIDE DEF j
<1>2. DayOfWeek(day + j) = wanted
  BY <1>1 DEF DayOfWeek
<1> QED
  BY <1>1, <1>2

\* A config that passes the checks of its mode, cron expressions aside.
IsValid(c) ==
    \/ /\ c.mode = "daily-at-utc"
       /\ c.hours # {} /\ (\A h \in c.hours : IsHour(h)) /\ IsMinute(c.minute)
    \/ /\ c.mode = "several-times-per-day"
       /\ c.times # {} /\ \A x \in c.times : IsHour(x.hour) /\ IsMinute(x.minute)
    \/ c.mode = "every-n-minutes" /\ c.interval \in Nat \ {0} /\ c.start \in Int
    \/ /\ c.mode = "weekly"
       /\ c.days # {} /\ c.days \subseteq 0..6 /\ IsHour(c.hour) /\ IsMinute(c.minute)
    \/ /\ c.mode = "monthly"
       /\ c.days # {} /\ c.days \subseteq 1..31 /\ IsHour(c.hour) /\ IsMinute(c.minute)

\* TOTAL (schedule.ts): a recurring mode whose config passes its mode's checks has a
\* next fire at any instant. Cron expressions and monthly days are apart, below.
THEOREM RecurringModesAreTotal ==
    ASSUME NEW c, IsValid(c), c.mode # "monthly", NEW t \in Int
    PROVE  computeNextFire(c, t) \notin {Null, Thrown}
<1>1. CASE c.mode = "daily-at-utc"
  <2> DEFINE candidates == {At(DayOf(t) + i, h, c.minute) : i \in 0..1, h \in c.hours}
  <2>1. PICK h \in c.hours : IsHour(h)
    BY <1>1 DEF IsValid
  <2>2. (\A x \in c.hours : IsHour(x)) /\ IsMinute(c.minute)
    BY <1>1 DEF IsValid
  <2>3. candidates \in SUBSET Int
    <3>1. \A i \in 0..1 : DayOf(t) + i \in Int
      BY DayBounds
    <3> QED
      BY <2>2, <3>1, AtIsInDay
  <2>4. At(DayOf(t) + 1, h, c.minute) \in candidates /\ At(DayOf(t) + 1, h, c.minute) > t
    BY <2>1, <2>2, LaterDayIsAhead
  <2>5. computeNextFire(c, t) = FirstAfter(candidates, t)
    BY <1>1, <2>2 DEF computeNextFire, NextDailyAtUtc
  <2> HIDE DEF candidates
  <2> QED
    BY <2>3, <2>4, <2>5, SweepFinds
<1>2. CASE c.mode = "several-times-per-day"
  <2> DEFINE candidates == {At(DayOf(t) + i, x.hour, x.minute) : i \in 0..1, x \in c.times}
  <2>1. PICK x \in c.times : IsHour(x.hour) /\ IsMinute(x.minute)
    BY <1>2 DEF IsValid
  <2>2. \A y \in c.times : IsHour(y.hour) /\ IsMinute(y.minute)
    BY <1>2 DEF IsValid
  <2>3. candidates \in SUBSET Int
    <3>1. \A i \in 0..1 : DayOf(t) + i \in Int
      BY DayBounds
    <3> QED
      BY <2>2, <3>1, AtIsInDay
  <2>4. /\ At(DayOf(t) + 1, x.hour, x.minute) \in candidates
        /\ At(DayOf(t) + 1, x.hour, x.minute) > t
    BY <2>1, LaterDayIsAhead
  <2>5. computeNextFire(c, t) = FirstAfter(candidates, t)
    BY <1>2, <2>1, <2>2 DEF computeNextFire, NextSeveralTimesPerDay
  <2> HIDE DEF candidates
  <2> QED
    BY <2>3, <2>4, <2>5, SweepFinds
<1>3. CASE c.mode = "every-n-minutes"
  <2>1. c.interval \in Int /\ c.interval > 0 /\ c.start \in Int
    BY <1>3 DEF IsValid
  <2>2. CASE t < c.start
    BY <1>3, <2>1, <2>2, ScheduleAssumption DEF computeNextFire, NextEveryNMinutes
  <2>3. CASE ~(t < c.start)
    <3> DEFINE n == c.interval * Minute
               x == t - c.start
               next1 == (x \div n + 1) * n
    <3>1. n \in Int /\ n > 0 /\ x \in Int
      BY <2>1 DEF Minute
    <3>2. computeNextFire(c, t) = c.start + next1
      BY <1>3, <2>1, <2>3, ScheduleAssumption DEF computeNextFire, NextEveryNMinutes
    <3> HIDE DEF n, x
    <3>3. next1 \in Int
      BY <3>1, Division
    <3> HIDE DEF next1
    <3> QED
      BY <2>1, <3>2, <3>3, ScheduleAssumption
  <2> QED
    BY <2>2, <2>3
<1>4. CASE c.mode = "weekly"
  <2> DEFINE days == {j \in 0..7 : DayOfWeek(DayOf(t) + j) \in c.days}
  <2>1. c.days # {} /\ c.days \subseteq 0..6 /\ IsHour(c.hour) /\ IsMinute(c.minute)
    BY <1>4 DEF IsValid
  <2>2. PICK wanted \in c.days : wanted \in 0..6
    BY <2>1
  <2>3. PICK i \in 1..7 : DayOfWeek(DayOf(t) + i) = wanted
    BY <2>2, WeekDayComes, DayBounds
  <2>4. i \in days /\ i >= 1 /\ days \in SUBSET Int
    BY <2>2, <2>3
  <2>5. computeNextFire(c, t) = FirstAfter({At(DayOf(t) + k, c.hour, c.minute) : k \in days}, t)
    BY <1>4, <2>1 DEF computeNextFire, NextWeekly
  <2> HIDE DEF days
  <2> QED
    BY <2>1, <2>4, <2>5, SweepOfDaysFinds
<1> QED
  BY <1>1, <1>2, <1>3, <1>4 DEF IsValid

\* The day of the year, counted from March, is followed by the next one, or by the
\* first of March.
LEMMA NextYearDay ==
    ASSUME NEW day \in Int
    PROVE  \/ DayOfYear(day + 1) = DayOfYear(day) + 1
           \/ DayOfYear(day + 1) = 0 /\ DayOfYear(day) \in {364, 365}
<1> DEFINE Year(e) == (e - e \div 1460 + e \div 36524 - e \div 146096) \div 365
           YearDay(e) == e - (365 * Year(e) + Year(e) \div 4 - Year(e) \div 100)
           era == DayOfEra(day)
           d1 == DayOfYear(day)
           d2 == DayOfYear(day + 1)
<1>1. /\ era \in Int /\ 0 <= era /\ era < 146097
      /\ DayOfEra(day + 1) = IF era = 146096 THEN 0 ELSE era + 1
  BY DEF DayOfEra
<1>2. d1 = YearDay(era) /\ d2 = YearDay(DayOfEra(day + 1))
  BY DEF DayOfYear, YearOfEra
<1>3. ASSUME NEW e \in Int, 0 <= e, e < 146096
      PROVE  \/ YearDay(e + 1) = YearDay(e) + 1
             \/ YearDay(e + 1) = 0 /\ YearDay(e) \in {364, 365}
  BY <1>3, SMTT(100)
<1>4. YearDay(146096) = 365 /\ YearDay(0) = 0
  OBVIOUS
<1> HIDE DEF YearDay, era
<1>5. CASE era = 146096
  BY <1>1, <1>2, <1>4, <1>5
<1>6. CASE era # 146096
  <2>1. era < 146096
    BY <1>1, <1>6
  <2> QED
    BY <1>1, <1>2, <1>3, <1>6, <2>1
<1> QED
  BY <1>5, <1>6

\* The next day is the next of the same month, or the first of the next one,
\* which no month has before its 28th.
LEMMA NextDay ==
    ASSUME NEW day \in Int
    PROVE  \/ DayOfMonth(day + 1) = DayOfMonth(day) + 1
           \/ DayOfMonth(day + 1) = 1 /\ DayOfMonth(day) >= 28
<1> DEFINE FromMarch(d) == (5 * d + 2) \div 153
           MonthDay(d) == d - (153 * FromMarch(d) + 2) \div 5 + 1
           d1 == DayOfYear(day)
           d2 == DayOfYear(day + 1)
<1>1. d2 = d1 + 1 \/ (d2 = 0 /\ d1 \in {364, 365})
  BY NextYearDay
<1>2. d1 \in 0..365 /\ d2 \in 0..365
  BY CalendarDay
<1>3. DayOfMonth(day) = MonthDay(d1) /\ DayOfMonth(day + 1) = MonthDay(d2)
  BY DEF DayOfMonth, MonthFromMarch
<1> HIDE DEF d1, d2
<1>4. ASSUME NEW d \in 0..365, d + 1 \in 0..365
      PROVE  MonthDay(d + 1) = MonthDay(d) + 1 \/ (MonthDay(d + 1) = 1 /\ MonthDay(d) >= 28)
  BY <1>4, SMTT(60)
<1>5. MonthDay(0) = 1 /\ MonthDay(364) = 28 /\ MonthDay(365) = 29
  OBVIOUS
<1> HIDE DEF MonthDay
<1> QED
  BY <1>1, <1>2, <1>3, <1>4, <1>5

\* f goes up by one every day, and once it has reached top it may begin again at lo.
CountsAround(f, lo, top, hi) ==
    \A day \in Int : /\ f[day] \in lo..hi
                     /\ \/ f[day + 1] = f[day] + 1
                        \/ f[day + 1] = lo /\ f[day] >= top

\* The value comes within n days.
Comes(f, day, wanted, n) == \E j \in Int : 1 <= j /\ j <= n /\ f[day + j] = wanted

\* Such a count has no gap up to top.
LEMMA CountsUp ==
    ASSUME NEW f, NEW lo \in Int, NEW top \in Int, NEW hi \in Int,
           CountsAround(f, lo, top, hi),
           NEW day \in Int, NEW n \in Int, 0 <= n, f[day] + n <= top
    PROVE  f[day + n] = f[day] + n
<1> DEFINE m == f[day]
           Gaps == {j \in Int : 0 <= j /\ j <= n /\ f[day + j] # m + j}
           before == -1
<1>1. m \in Int
  BY DEF CountsAround
<1>2. CASE Gaps = {}
  BY <1>1, <1>2
<1>3. CASE Gaps # {}
  <2> DEFINE j == Min(Gaps)
             i == j - 1
  <2>1. Gaps \in SUBSET Int /\ before \in Int /\ \A x \in Gaps : x > before
    OBVIOUS
  <2>2. j \in Gaps /\ \A x \in Gaps : j <= x
    <3> HIDE DEF Gaps, before
    <3> QED
      BY <1>3, <2>1, LeastOf
  <2>3. j \in Int /\ 0 <= j /\ j <= n /\ f[day + j] # m + j
    BY <2>2
  <2>4. ASSUME NEW x \in Int, 0 <= x, x < j PROVE f[day + x] = m + x
    <3>1. x \notin Gaps /\ x <= n
      BY <1>1, <2>2, <2>3, <2>4
    <3> QED
      BY <2>4, <3>1
  <2> HIDE DEF j, Gaps
  <2>5. day + 0 = day /\ j # 0
    BY <1>1, <2>3
  <2>6. i \in Int /\ 0 <= i /\ i < j /\ day + i \in Int /\ (day + i) + 1 = day + j
    BY <2>3, <2>5
  <2>7. f[day + i] = m + i /\ m + i < top
    BY <1>1, <2>3, <2>4, <2>6
  <2>8. f[(day + i) + 1] = f[day + i] + 1
    BY <1>1, <2>6, <2>7 DEF CountsAround
  <2> QED
    BY <1>1, <2>3, <2>6, <2>7, <2>8
<1> QED
  BY <1>2, <1>3

\* Every value up to top comes within one turn.
LEMMA CountComes ==
    ASSUME NEW f, NEW lo \in Int, NEW top \in Int, NEW hi \in Int, top <= hi,
           CountsAround(f, lo, top, hi),
           NEW day \in Int, NEW wanted \in Int, lo <= wanted, wanted <= top
    PROVE  Comes(f, day, wanted, hi - lo + 1)
<1> DEFINE m == f[day]
<1>1. m \in lo..hi /\ m \in Int
  BY DEF CountsAround
<1>2. CASE m < wanted
  <2>1. /\ wanted - m \in Int /\ 1 <= wanted - m /\ wanted - m <= hi - lo + 1
        /\ m + (wanted - m) = wanted
    BY <1>1, <1>2
  <2>2. f[day + (wanted - m)] = wanted
    BY <1>1, <2>1, CountsUp
  <2> QED
    BY <2>1, <2>2 DEF Comes
<1>3. CASE m >= wanted
  <2> DEFINE Turns == {k \in Int : 1 <= k /\ f[day + k] # m + k}
             k == Min(Turns)
             i == k - 1
             first == day + k
             zero == 0
             bound == hi - m + 1
  <2>1. Turns \in SUBSET Int /\ zero \in Int /\ \A x \in Turns : x > zero
    OBVIOUS
  <2>2. bound \in Turns
    <3>1. bound \in Int /\ 1 <= bound /\ m + bound = hi + 1 /\ day + bound \in Int
      BY <1>1
    <3>2. f[day + bound] \in lo..hi
      BY <3>1 DEF CountsAround
    <3> QED
      BY <3>1, <3>2
  <2>3. k \in Turns /\ k <= bound /\ \A x \in Turns : k <= x
    <3> HIDE DEF Turns, zero, bound
    <3> QED
      BY <2>1, <2>2, LeastOf
  <2>4. k \in Int /\ 1 <= k /\ f[day + k] # m + k
    BY <2>3
  <2>5. f[day + i] = m + i
    <3>1. CASE k = 1
      <4>1. i = 0 /\ day + 0 = day /\ m + 0 = m
        BY <1>1, <3>1
      <4> QED
        BY <4>1
    <3>2. CASE k # 1
      <4>1. i \in Int /\ 1 <= i /\ i < k
        BY <2>4, <3>2
      <4>2. i \notin Turns
        BY <2>3, <2>4, <4>1
      <4> QED
        BY <4>1, <4>2
    <3> QED
      BY <3>1, <3>2
  <2> HIDE DEF k, Turns
  <2>6. first \in Int /\ day + i \in Int /\ (day + i) + 1 = first /\ (m + i) + 1 = m + k
    BY <1>1, <2>4
  <2>7. f[first] = lo
    BY <2>4, <2>5, <2>6 DEF CountsAround
  <2> DEFINE j == k + (wanted - lo)
  <2>8. wanted - lo \in Int /\ 0 <= wanted - lo /\ f[first] + (wanted - lo) = wanted
        /\ wanted <= top
    BY <2>7
  <2>9. f[first + (wanted - lo)] = wanted
    <3> HIDE DEF first
    <3> QED
      BY <2>6, <2>8, CountsUp
  <2>10. j \in Int /\ 1 <= j /\ j <= hi - lo + 1 /\ day + j = first + (wanted - lo)
    BY <1>1, <1>3, <2>3, <2>4
  <2> HIDE DEF j, first
  <2> QED
    BY <2>9, <2>10 DEF Comes
<1> QED
  BY <1>1, <1>2, <1>3

\* Every day of the month up to the 28th comes within 31 days.
LEMMA MonthDayComes ==
    ASSUME NEW day \in Int, NEW wanted \in 1..28
    PROVE  \E j \in 1..31 : DayOfMonth(day + j) = wanted
<1> DEFINE f == [d \in Int |-> DayOfMonth(d)]
           lo == 1
           top == 28
           hi == 31
<1>1. /\ lo \in Int /\ top \in Int /\ hi \in Int /\ top <= hi 
      /\ wanted \in Int /\ lo <= wanted /\ wanted <= top
      /\ hi - lo + 1 = 31
  OBVIOUS
<1>2. CountsAround(f, lo, top, hi)
  BY CalendarDay, NextDay DEF CountsAround
<1>3. \A d \in Int : f[d] = DayOfMonth(d)
  OBVIOUS
<1>4. Comes(f, day, wanted, hi - lo + 1)
  <2> HIDE DEF f, lo, top, hi
  <2> QED
    BY <1>1, <1>2, CountComes
<1> QED
  BY <1>1, <1>3, <1>4 DEF Comes

\* The 32 days after 31 January 2023: no 29th, 30th or 31st.
LEMMA JanuaryEnd2023 ==
    ASSUME NEW j \in 1..32
    PROVE  DayOfMonth(19388 + j) \in 1..28
  BY SMTT(60) DEF DayOfMonth, MonthFromMarch, DayOfYear, YearOfEra, DayOfEra

\* TOTAL for the monthly mode, which does not have it: a config that passes the checks
\* has a next fire at every instant exactly if one of its days is in every month.
\* Without one the sweep of 33 days (schedule.ts, nextMonthly) ends before such a day
\* after a 31 January, and the claim takes the throw for a corrupt config.
THEOREM MonthlyIsTotalUpTo28 ==
    ASSUME NEW c, IsValid(c), c.mode = "monthly"
    PROVE  (\E d \in c.days : d <= 28) <=>
               \A t \in Int : computeNextFire(c, t) \notin {Null, Thrown}
<1>1. c.days # {} /\ c.days \subseteq 1..31 /\ IsHour(c.hour) /\ IsMinute(c.minute)
  BY DEF IsValid
<1> DEFINE Days(t) == {j \in 0..32 : DayOfMonth(DayOf(t) + j) \in c.days}
<1>2. ASSUME NEW t \in Int
      PROVE  computeNextFire(c, t) =
                 FirstAfter({At(DayOf(t) + i, c.hour, c.minute) : i \in Days(t)}, t)
  BY <1>1 DEF computeNextFire, NextMonthly
<1>3. ASSUME NEW wanted \in c.days, wanted <= 28, NEW t \in Int
      PROVE  computeNextFire(c, t) \notin {Null, Thrown}
  <2> DEFINE days == Days(t)
  <2>1. wanted \in 1..28
    BY <1>1, <1>3
  <2>2. PICK i \in 1..31 : DayOfMonth(DayOf(t) + i) = wanted
    BY <2>1, MonthDayComes, DayBounds
  <2>3. i \in days /\ i >= 1 /\ days \in SUBSET Int
    BY <2>2
  <2>4. computeNextFire(c, t) = FirstAfter({At(DayOf(t) + j, c.hour, c.minute) : j \in days}, t)
    BY <1>2
  <2> HIDE DEF days
  <2> QED
    BY <1>1, <2>3, <2>4, SweepOfDaysFinds
<1>4. ASSUME \A d \in c.days : ~(d <= 28)
      PROVE  \E t \in Int : computeNextFire(c, t) = Thrown
  <2> DEFINE t == At(19388, 23, 59)
             candidates == {At(DayOf(t) + i, c.hour, c.minute) : i \in Days(t)}
  <2>1. t \in Int /\ DayOf(t) = 19388
    BY DEF At, DayOf, Day, Hour, Minute
  <2> HIDE DEF t
  <2>2. \A i \in Days(t) : i = 0
    BY <1>1, <1>4, <2>1, JanuaryEnd2023
  <2>3. At(19388 + 0, c.hour, c.minute) \in Int /\ ~(At(19388 + 0, c.hour, c.minute) > t)
    BY <1>1 DEF t, At, Day, Hour, Minute, IsHour, IsMinute
  <2>4. {x \in candidates : x > t} = {}
    BY <2>1, <2>2, <2>3
  <2>5. FirstAfter(candidates, t) = Thrown
    BY <2>4 DEF FirstAfter
  <2> QED
    BY <1>2, <2>1, <2>5
<1>5. (\E d \in c.days : d <= 28) => \A t \in Int : computeNextFire(c, t) \notin {Null, Thrown}
  BY <1>3
<1>6. ~(\E d \in c.days : d <= 28) => \E t \in Int : computeNextFire(c, t) = Thrown
  BY <1>4
<1> QED
  BY <1>5, <1>6

-----------------------------------------------------------------------------
(* Cron expressions without 29 February have a next fire too *)

\* The calendar as a count of days.
YearDays == [day \in Int |-> DayOfYear(day)]

\* A year counts its days from the first of March up to the 28th of February.
LEMMA YearCounts == CountsAround(YearDays, 0, 364, 365)
<1>1. \A day \in Int : YearDays[day] = DayOfYear(day) /\ day + 1 \in Int
  BY DEF YearDays
<1> QED
  BY <1>1, CalendarDay, NextYearDay DEF CountsAround

\* Every day of a common year comes within 366 days.
LEMMA YearDayComes ==
    ASSUME NEW day \in Int, NEW wanted \in 0..364
    PROVE  \E j \in 1..366 : DayOfYear(day + j) = wanted
<1> DEFINE lo == 0
           top == 364
           hi == 365
<1>1. /\ lo \in Int /\ top \in Int /\ hi \in Int /\ top <= hi 
      /\ wanted \in Int /\ lo <= wanted /\ wanted <= top
      /\ hi - lo + 1 = 366
  OBVIOUS
<1>2. CountsAround(YearDays, lo, top, hi)
  BY YearCounts
<1>3. Comes(YearDays, day, wanted, hi - lo + 1)
  <2> HIDE DEF lo, top, hi
  <2> QED
    BY <1>1, <1>2, CountComes
<1> QED
  BY <1>1, <1>3 DEF YearDays, Comes

\* And its successors follow it, up to the 28th of February.
LEMMA YearDayFollows ==
    ASSUME NEW day \in Int, NEW n \in Int, 0 <= n, DayOfYear(day) + n <= 364
    PROVE  DayOfYear(day + n) = DayOfYear(day) + n
<1> DEFINE lo == 0
           top == 364
           hi == 365
<1>1. lo \in Int /\ top \in Int /\ hi \in Int
  OBVIOUS
<1>2. CountsAround(YearDays, lo, top, hi)
  BY YearCounts
<1>3. YearDays[day] = DayOfYear(day) /\ YearDays[day + n] = DayOfYear(day + n)
  BY DEF YearDays
<1>4. YearDays[day] + n <= top
  BY <1>3
<1>5. YearDays[day + n] = YearDays[day] + n
  <2> HIDE DEF lo, top, hi
  <2> QED
    BY <1>1, <1>2, <1>4, CountsUp
<1> QED
  BY <1>3, <1>5

\* The day of the year, from March, that a month begins with.
FirstOfMonth(month) == (153 * ((month + 9) % 12) + 2) \div 5

\* A month has at least 28 days, none of them 29 February.
LEMMA MonthSpan ==
    ASSUME NEW month \in 1..12, NEW k \in 0..27
    PROVE  /\ FirstOfMonth(month) \in Int /\ FirstOfMonth(month) >= 0
           /\ FirstOfMonth(month) + k <= 364
           /\ \A day \in Int : DayOfYear(day) = FirstOfMonth(month) + k => Month(day) = month
<1> DEFINE m == (month + 9) % 12
           first == (153 * m + 2) \div 5
<1>1. m \in 0..11 /\ ((m + 2) % 12) + 1 = month
  OBVIOUS
<1>2. first = FirstOfMonth(month)
  BY DEF FirstOfMonth
<1> HIDE DEF m
<1>3. first \in Int /\ first >= 0 /\ first + k <= 364 /\ (5 * (first + k) + 2) \div 153 = m
  BY <1>1, SMTT(60)
<1> HIDE DEF first
<1>4. ASSUME NEW day \in Int, DayOfYear(day) = first + k PROVE Month(day) = month
  <2>1. MonthFromMarch(day) = m
    BY <1>3, <1>4 DEF MonthFromMarch
  <2> QED
    BY <1>1, <2>1 DEF Month
<1> QED
  BY <1>2, <1>3, <1>4

\* The date is a matter of the day of the year.
LEMMA SameDate ==
    ASSUME NEW d, NEW e, DayOfYear(d) = DayOfYear(e)
    PROVE  Month(d) = Month(e) /\ DayOfMonth(d) = DayOfMonth(e)
  BY DEF Month, DayOfMonth, MonthFromMarch

\* Such a weekday of the month lies within 365 days.
MonthHasAhead(day, month, weekDay) ==
    \E j \in Int : /\ 1 <= j /\ j <= 365
                  /\ Month(day + j) = month /\ DayOfWeek(day + j) = weekDay

\* Every day of the week comes in every month within 365 days: seven days in a row of
\* the month lie ahead, at its beginning or else at its end.
LEMMA WeekDayInMonth ==
    ASSUME NEW day \in Int, NEW month \in 1..12, NEW wanted \in 0..6
    PROVE  MonthHasAhead(day, month, wanted)
<1> DEFINE first == FirstOfMonth(month)
           last == first + 21
<1>1. first \in Int /\ first >= 0 /\ first + 27 <= 364 /\ first \in 0..364 /\ last \in 0..364
  <2> DEFINE k == 27
  <2>1. k \in 0..27
    OBVIOUS
  <2>2. first \in Int /\ first >= 0 /\ first + k <= 364
    <3> HIDE DEF k
    <3> QED
      BY <2>1, MonthSpan
  <2> HIDE DEF first
  <2> QED
    BY <2>2
<1>2. ASSUME NEW e \in Int, NEW y \in {first, last}, DayOfYear(e) = y, NEW n \in 0..6
      PROVE  Month(e + n) = month /\ DayOfYear(e + n) = y + n
  <2>1. DayOfYear(e + n) = y + n
    BY <1>1, <1>2, YearDayFollows
  <2>2. CASE y = first
    <3>1. n \in 0..27 /\ e + n \in Int
      OBVIOUS
    <3> QED
      BY <2>1, <2>2, <3>1, MonthSpan
  <2>3. CASE y = last
    <3> DEFINE k == 21 + n
    <3>1. k \in 0..27 /\ e + n \in Int /\ last + n = first + k
      BY <1>1
    <3> HIDE DEF k
    <3> QED
      BY <2>1, <2>3, <3>1, MonthSpan
  <2> QED
    BY <1>2, <2>2, <2>3
<1>3. PICK i \in 1..366 : DayOfYear(day + i) = first
  BY <1>1, YearDayComes
<1>4. PICK j \in 1..366 : DayOfYear(day + j) = last
  BY <1>1, YearDayComes
<1> HIDE DEF first
<1>5. i <= 359 \/ j <= 359
  <2> SUFFICES ASSUME i >= 360, j >= 360 PROVE FALSE
    OBVIOUS
  <2>1. CASE i <= j
    <3>1. j - i \in 0..6 /\ day + i \in Int /\ (day + i) + (j - i) = day + j
      BY <2>1
    <3>2. DayOfYear((day + i) + (j - i)) = first + (j - i)
      BY <1>2, <1>3, <3>1
    <3> QED
      BY <1>1, <1>4, <3>1, <3>2
  <2>2. CASE j < i
    <3>1. i - j \in 0..6 /\ day + j \in Int /\ (day + j) + (i - j) = day + i
      BY <2>2
    <3>2. DayOfYear((day + j) + (i - j)) = last + (i - j)
      BY <1>2, <1>4, <3>1
    <3> QED
      BY <1>1, <1>3, <3>1, <3>2
  <2> QED
    BY <2>1, <2>2
<1>6. ASSUME NEW x \in 1..359, NEW y \in {first, last}, DayOfYear(day + x) = y
      PROVE  MonthHasAhead(day, month, wanted)
  <2> DEFINE e == day + x
             before == e - 1
  <2>1. e \in Int /\ before \in Int
    OBVIOUS
  <2>2. PICK w \in 1..7 : DayOfWeek(before + w) = wanted
    BY <2>1, WeekDayComes
  <2>3. /\ w - 1 \in 0..6 /\ before + w = e + (w - 1)
        /\ before + w = day + (x + (w - 1)) /\ x + (w - 1) \in Int
        /\ 1 <= x + (w - 1) /\ x + (w - 1) <= 365
    OBVIOUS
  <2>4. Month(e + (w - 1)) = month
    BY <1>2, <1>6, <2>1, <2>3
  <2> HIDE DEF e, before
  <2> QED
    BY <2>2, <2>3, <2>4 DEF MonthHasAhead
<1> HIDE DEF last
<1>7. CASE i <= 359
  <2>1. i \in 1..359
    BY <1>7
  <2> QED
    BY <1>3, <1>6, <2>1
<1>8. CASE j <= 359
  <2>1. j \in 1..359
    BY <1>8
  <2> QED
    BY <1>4, <1>6, <2>1
<1> QED
  BY <1>5, <1>7, <1>8

\* The search from start on sees every minute of the 365 days after start's.
LEMMA WindowHolds ==
    ASSUME NEW start \in Int, NEW j \in Int, 1 <= j, j <= 365,
           NEW h, IsHour(h), NEW m, IsMinute(m)
    PROVE  /\ start <= At(DayOf(start) + j, h, m)
           /\ At(DayOf(start) + j, h, m) < start + 366 * Day
<1> DEFINE d == DayOf(start)
<1>1. d \in Int /\ d * Day <= start /\ start < d * Day + Day
  BY DayBounds
<1> HIDE DEF d
<1> QED
  BY <1>1 DEF d, At, Day, Hour, Minute, IsHour, IsMinute

\* And so it sees every date of a common year at every minute.
LEMMA YearDayInWindow ==
    ASSUME NEW start \in Int, NEW wanted \in 0..364,
           NEW h, IsHour(h), NEW m, IsMinute(m)
    PROVE  \E day \in Int : /\ DayOfYear(day) = wanted
                           /\ start <= At(day, h, m) /\ At(day, h, m) < start + 366 * Day
<1> DEFINE d == DayOf(start)
<1>1. d \in Int /\ d * Day <= start /\ start < d * Day + Day
  BY DayBounds
<1>2. \A e \in Int : /\ At(e, h, m) \in Int /\ At(e, h, m) < e * Day + Day
                     /\ At(e + 366, h, m) = At(e, h, m) + 366 * Day
  BY DEF At, Day, Hour, Minute, IsHour, IsMinute
<1>3. ASSUME NEW j \in Int, 1 <= j, j <= 365, DayOfYear(d + j) = wanted
      PROVE  \E day \in Int : /\ DayOfYear(day) = wanted
                             /\ start <= At(day, h, m) /\ At(day, h, m) < start + 366 * Day
  <2>1. d + j \in Int
    BY <1>1
  <2> QED
    BY <1>3, <2>1, WindowHolds
<1>4. PICK j \in 1..366 : DayOfYear(d + j) = wanted
  BY <1>1, YearDayComes
<1>5. CASE j <= 365
  BY <1>3, <1>4, <1>5
<1>6. CASE j = 366
  <2> DEFINE before == d - 1
  <2>1. before \in Int
    BY <1>1
  <2>2. PICK i \in 1..366 : DayOfYear(before + i) = wanted
    BY <2>1, YearDayComes
  <2>3. CASE i = 1
    <3>1. before + i = d /\ DayOfYear(d) = wanted
      BY <1>1, <2>2, <2>3
    <3>2. CASE start <= At(d, h, m)
      <4>1. At(d, h, m) < start + 366 * Day
        BY <1>1, <1>2 DEF Day, Hour, Minute
      <4> QED
        BY <1>1, <3>1, <3>2, <4>1
    <3>3. CASE ~(start <= At(d, h, m))
      <4>1. /\ start <= At(d + 366, h, m) /\ At(d + 366, h, m) < start + 366 * Day
            /\ d + 366 \in Int
        <5> HIDE DEF d
        <5>1. At(d + 366, h, m) = At(d, h, m) + 366 * Day /\ At(d, h, m) \in Int
              /\ At(d, h, m) >= d * Day
          BY <1>1, <1>2 DEF At, Day, Hour, Minute, IsHour, IsMinute
        <5> QED
          BY <1>1, <3>3, <5>1 DEF Day, Hour, Minute
      <4> QED
        BY <1>4, <1>6, <4>1
    <3> QED
      BY <3>2, <3>3
  <2>4. CASE i # 1
    <3> DEFINE k == i - 1
    <3>1. k \in Int /\ 1 <= k /\ k <= 365 /\ before + i = d + k
      BY <1>1, <2>4
    <3> HIDE DEF k
    <3> QED
      BY <1>3, <2>2, <3>1
  <2> QED
    BY <2>3, <2>4
<1> QED
  BY <1>4, <1>5, <1>6

\* The days of 2023, a common year.
Year2023 == 19358..19722

\* Counted from March, they are the first 365 of a year.
LEMMA CommonYear ==
    ASSUME NEW day \in Year2023
    PROVE  day \in Int /\ DayOfYear(day) \in 0..364
  BY SMTT(60) DEF Year2023, DayOfYear, YearOfEra, DayOfEra

\* A search from 1 January 2021 sees dates of 2023 only.
LEMMA YearFrom2021 ==
    ASSUME NEW day \in 18628..18994
    PROVE  \E e \in Year2023 : Month(e) = Month(day) /\ DayOfMonth(e) = DayOfMonth(day)
<1> DEFINE e == IF day <= 18992 THEN day + 730 ELSE day + 365
<1>1. e \in Year2023
  BY DEF Year2023
<1>2. DayOfYear(e) = DayOfYear(day)
  BY SMTT(60) DEF DayOfYear, YearOfEra, DayOfEra
<1> QED
  BY <1>1, <1>2, SameDate

\* TOTAL for cron expressions: one that parses has a next fire at every instant exactly
\* if it restricts the day of the week, or some day of a common year has its month and
\* its day of month. What is left is 29 February and dates that never come (schedule.ts,
\* nextCronExpression).
THEOREM CronIsTotalInCommonYears ==
    ASSUME NEW c, c.mode = "cron-expression", IsConfig(c), CronParses(c.expression)
    PROVE  LET p == ParsedCron(c.expression)
               comes == \E day \in Year2023 : /\ Month(day) \in p.months
                                             /\ DayOfMonth(day) \in p.daysOfMonth
           IN  ~(0..6 \subseteq p.daysOfWeek) \/ comes <=>
                   \A t \in Int : computeNextFire(c, t) \notin {Null, Thrown}
<1> DEFINE p == ParsedCron(c.expression)
           everyWeekDay == 0..6 \subseteq p.daysOfWeek
           comes == \E day \in Year2023 : /\ Month(day) \in p.months
                                         /\ DayOfMonth(day) \in p.daysOfMonth
           start(t) == (t \div Minute + 1) * Minute
           end(t) == start(t) + MaxMinutes * Minute
<1>1. /\ p.minutes \in SUBSET (0..59) /\ p.hours \in SUBSET (0..23)
      /\ p.daysOfMonth \in SUBSET (1..31) /\ p.daysOfWeek \in SUBSET (0..6)
      /\ p.months \in SUBSET (1..12)
      /\ p.minutes # {} /\ p.hours # {} /\ p.months # {} /\ p.daysOfWeek # {}
  BY ParsedFields, ParsedFieldsHaveValues
<1>2. PICK h \in p.hours, m \in p.minutes : IsHour(h) /\ IsMinute(m)
  <2> HIDE DEF p
  <2>1. \E h \in p.hours, m \in p.minutes : h \in 0..23 /\ m \in 0..59
    BY <1>1
  <2> QED
    BY <2>1 DEF IsHour, IsMinute
<1>3. \A t \in Int : start(t) \in Int /\ end(t) = start(t) + 366 * Day
  BY Division DEF Minute, MaxMinutes, Day, Hour
<1>4. ASSUME NEW t \in Int, NEW day \in Int, CronDay(p, day),
             start(t) <= At(day, h, m), At(day, h, m) < start(t) + 366 * Day
      PROVE  computeNextFire(c, t) \notin {Null, Thrown}
  <2> DEFINE first == start(t)
             last == end(t)
             o == At(day, h, m)
  <2>1. first = (t \div Minute + 1) * Minute /\ last = first + MaxMinutes * Minute
    OBVIOUS
  <2>2. first \in Int /\ last \in Int /\ first <= o /\ o < last /\ last = first + 366 * Day
    BY <1>3, <1>4 DEF Day, Hour, Minute
  <2>3. o \in CronInstants(p, day) /\ o \in Int /\ DayOf(o) = day
    BY <1>2, AtIsInDay DEF CronInstants
  <2> HIDE DEF first, last, o, p
  <2>4. DayOf(first) <= day /\ day <= DayOf(last) /\ DayOf(first) \in Int /\ DayOf(last) \in Int
    BY <2>2, <2>3, DayIsMonotonic, DayBounds
  <2>5. day \in DayOf(first)..DayOf(last)
    BY <2>4
  <2>6. IsFirstAfter(Occur(c), t, NextCronExpression(c, t))
    BY <1>4, <2>1, <2>2, <2>3, <2>5, CronFinds DEF p
  <2>7. computeNextFire(c, t) \in Int
    BY <2>6 DEF IsFirstAfter, computeNextFire
  <2> QED
    BY <2>7, ScheduleAssumption
<1> HIDE DEF start, end
<1>5. ASSUME ~everyWeekDay, NEW t \in Int
      PROVE  computeNextFire(c, t) \notin {Null, Thrown}
  <2>1. PICK month \in p.months, weekDay \in p.daysOfWeek : month \in 1..12 /\ weekDay \in 0..6
    <3> HIDE DEF p
    <3> QED
      BY <1>1
  <2> DEFINE d == DayOf(start(t))
  <2>2. d \in Int
    BY <1>3, DayBounds
  <2> HIDE DEF d, p
  <2>3. PICK j \in Int : /\ 1 <= j /\ j <= 365
                         /\ Month(d + j) = month /\ DayOfWeek(d + j) = weekDay
    <3>1. MonthHasAhead(d, month, weekDay)
      BY <2>1, <2>2, WeekDayInMonth
    <3> QED
      BY <3>1 DEF MonthHasAhead
  <2>4. d + j \in Int /\ DayOfMonth(d + j) \in 1..31
    BY <2>2, CalendarDay
  <2>5. start(t) <= At(d + j, h, m) /\ At(d + j, h, m) < start(t) + 366 * Day
    BY <1>2, <1>3, <2>3, WindowHolds DEF d
  <2>6. CronDay(p, d + j)
    BY <1>5, <2>1, <2>3, <2>4, CronDayReads DEF p
  <2> QED
    BY <1>4, <2>4, <2>5, <2>6
<1>6. ASSUME everyWeekDay, comes, NEW t \in Int
      PROVE  computeNextFire(c, t) \notin {Null, Thrown}
  <2>1. PICK date \in Year2023 : Month(date) \in p.months /\ DayOfMonth(date) \in p.daysOfMonth
    BY <1>6
  <2>2. DayOfYear(date) \in 0..364 /\ start(t) \in Int
    BY <1>3, CommonYear
  <2>3. PICK day \in Int : /\ DayOfYear(day) = DayOfYear(date)
                          /\ start(t) <= At(day, h, m)
                          /\ At(day, h, m) < start(t) + 366 * Day
    BY <1>2, <2>2, YearDayInWindow
  <2>4. Month(day) \in p.months /\ DayOfMonth(day) \in p.daysOfMonth
    BY <2>1, <2>3, SameDate
  <2>5. DayOfWeek(day) \in p.daysOfWeek
    <3>1. DayOfWeek(day) \in 0..6
      BY DEF DayOfWeek
    <3> QED
      BY <1>6, <3>1
  <2>6. CronDay(p, day)
    BY <1>6, <2>4, <2>5, CronDayReads
  <2> QED
    BY <1>4, <2>3, <2>6
<1>7. ASSUME everyWeekDay, ~comes
      PROVE  \E t \in Int : computeNextFire(c, t) = Thrown
  <2> DEFINE t == At(18628, 0, 0)
             first == (t \div Minute + 1) * Minute
             last == first + MaxMinutes * Minute
  <2>1. t \in Int /\ DayOf(first) = 18628 /\ DayOf(last) = 18994
    BY DEF At, DayOf, MaxMinutes, Day, Hour, Minute
  <2>2. \A day \in 18628..18994 : ~CronDay(p, day)
    <3> SUFFICES ASSUME NEW day \in 18628..18994, CronDay(p, day) PROVE FALSE
      OBVIOUS
    <3>1. day \in Int
      OBVIOUS
    <3>2. Month(day) \in p.months /\ DayOfMonth(day) \in p.daysOfMonth
      BY <1>7, <3>1, CronDayReads
    <3> QED
      BY <1>7, <3>2, YearFrom2021
  <2> HIDE DEF t
  <2>3. ~\E day \in DayOf(first)..DayOf(last) : CronDay(p, day)
    BY <2>1, <2>2
  <2>4. NextCronExpression(c, t) = Thrown
    BY <2>3 DEF NextCronExpression
  <2> QED
    BY <2>1, <2>4 DEF computeNextFire
<1>8. ~everyWeekDay \/ comes => \A t \in Int : computeNextFire(c, t) \notin {Null, Thrown}
  BY <1>5, <1>6
<1>9. ~(~everyWeekDay \/ comes) => \E t \in Int : computeNextFire(c, t) \in {Null, Thrown}
  BY <1>7
<1> QED
  BY <1>8, <1>9

-----------------------------------------------------------------------------
(* The tick *)

\* Between the hooks the row is due, handed over and to be advanced.
RowIsHandedOver ==
    /\ pc = "enqueued" <=> row # Null
    /\ row # Null => /\ row \in Due
                     /\ <<row, next[row]>> \in enqueued
                     /\ Following(row) \in Int /\ Following(row) > now

TodoIsDue == todo \subseteq Due /\ row \notin todo

\* Without a failure only the row between the hooks may wait for an instant that
\* has been handed over.
NotAgain ==
    failures = 0 =>
        \A id \in Ids, t \in Int : <<id, t>> \in enqueued =>
            \/ id = row /\ t <= next[id]
            \/ next[id] = Null
            \/ t < next[id]

IInv == TypeOK /\ RowIsHandedOver /\ TodoIsDue /\ NotAgain

LEMMA FollowingIsAhead ==
    ASSUME TypeOK, NEW id \in Ids
    PROVE  IsAhead(Following(id), now)
<1>1. IsConfig(config[id]) /\ now \in Int
  BY RootTickAssumption DEF TypeOK
<1> QED
  BY <1>1, NextFiresAreAhead DEF Following

LEMMA InitEstablishes == Init => IInv
<1> SUFFICES ASSUME Init PROVE IInv
  OBVIOUS
<1>1. now \in Int /\ config \in [Ids -> Configs]
  BY RootTickAssumption DEF Init
<1>2. next \in [Ids -> Int \cup {Null}]
  <2>1. ASSUME NEW id \in Ids PROVE IsAhead(computeNextFire(config[id], now), now)
    <3>1. IsConfig(config[id])
      BY <1>1, RootTickAssumption
    <3> QED
      BY <1>1, <3>1, NextFiresAreAhead
  <2> QED
    BY <2>1 DEF Init, IsAhead
<1>3. TypeOK
  BY <1>1, <1>2, RootTickAssumption DEF Init, TypeOK
<1> QED
  BY <1>3 DEF Init, IInv, RowIsHandedOver, TodoIsDue, NotAgain

LEMMA StepPreserves == IInv /\ [Next]_vars => IInv'
<1> SUFFICES ASSUME IInv, [Next]_vars PROVE IInv'
  OBVIOUS
<1> USE RootTickAssumption DEF IInv
<1>1. CASE Tick
  <2>1. TypeOK'
    BY <1>1 DEF Tick, TypeOK, Due
  <2>2. TodoIsDue'
    BY <1>1 DEF Tick, TypeOK, TodoIsDue, RowIsHandedOver, Due
  <2>3. RowIsHandedOver' /\ NotAgain'
    BY <1>1 DEF Tick, RowIsHandedOver, NotAgain, Due, Following
  <2> QED
    BY <2>1, <2>2, <2>3
<1>2. ASSUME NEW id \in Ids, Skip(id) PROVE IInv'
  <2>1. TypeOK'
    BY <1>2 DEF Skip, TypeOK
  <2>2. RowIsHandedOver' /\ TodoIsDue' /\ NotAgain'
    BY <1>2 DEF Skip, RowIsHandedOver, TodoIsDue, NotAgain, Due, Following
  <2> QED
    BY <2>1, <2>2
<1>3. ASSUME NEW id \in Ids, Enqueue(id) PROVE IInv'
  <2>1. id \in Due /\ next[id] \in Int /\ next[id] <= now
    BY <1>3 DEF Enqueue, TodoIsDue, Due, TypeOK
  <2>2. TypeOK'
    BY <1>3, <2>1 DEF Enqueue, TypeOK
  <2>3. RowIsHandedOver'
    <3>1. Following(id) \in Int /\ Following(id) > now
      BY <1>3, FollowingIsAhead DEF Enqueue, Ready, IsAhead
    <3> QED
      BY <1>3, <2>1, <3>1 DEF Enqueue, RowIsHandedOver, Due, Following
  <2>4. TodoIsDue'
    BY <1>3 DEF Enqueue, TodoIsDue, Due
  <2>5. NotAgain'
    <3> SUFFICES ASSUME failures' = 0, NEW i \in Ids, NEW t \in Int, <<i, t>> \in enqueued'
                 PROVE  (i = row' /\ t <= next'[i]) \/ next'[i] = Null \/ t < next'[i]
      BY DEF NotAgain
    <3>1. row = Null /\ failures = 0 /\ next' = next /\ row' = id
      BY <1>3 DEF Enqueue, RowIsHandedOver
    <3>2. CASE <<i, t>> \in enqueued
      BY <3>1, <3>2 DEF NotAgain
    <3>3. CASE <<i, t>> = <<id, next[id]>>
      BY <2>1, <3>1, <3>3
    <3> QED
      BY <1>3, <3>2, <3>3 DEF Enqueue
  <2> QED
    BY <2>2, <2>3, <2>4, <2>5
<1>4. ASSUME NEW id \in Ids, EnqueueThrows(id) PROVE IInv'
  <2>1. failures' = failures + 1 /\ failures' \in 1..MaxFailures
    BY <1>4 DEF EnqueueThrows, Fails, TypeOK
  <2>2. TypeOK'
    BY <1>4, <2>1 DEF EnqueueThrows, AfterThrow, TypeOK
  <2>3. RowIsHandedOver' /\ TodoIsDue'
    BY <1>4 DEF EnqueueThrows, AfterThrow, RowIsHandedOver, TodoIsDue, Due, Following
  <2> QED
    BY <2>1, <2>2, <2>3 DEF NotAgain
<1>5. CASE Persist
  <2>1. /\ row \in Ids /\ next[row] \in Int /\ next[row] <= now /\ now \in Int
        /\ Following(row) \in Int /\ Following(row) > now
    BY <1>5 DEF Persist, RowIsHandedOver, TypeOK, Due
  <2>2. TypeOK'
    BY <1>5, <2>1 DEF Persist, TypeOK
  <2>3. RowIsHandedOver' /\ TodoIsDue'
    BY <1>5, <2>1 DEF Persist, RowIsHandedOver, TodoIsDue, Due, TypeOK
  <2>4. NotAgain'
    <3> SUFFICES ASSUME failures = 0, NEW i \in Ids, NEW t \in Int, <<i, t>> \in enqueued
                 PROVE  next'[i] = Null \/ t < next'[i]
      BY <1>5 DEF NotAgain, Persist
    <3>1. (i = row /\ t <= next[i]) \/ next[i] = Null \/ t < next[i]
      BY DEF NotAgain
    <3>2. CASE i = row
      <4>1. next'[i] = Following(row)
        BY <1>5, <2>1, <3>2 DEF Persist, TypeOK
      <4>2. t <= next[row]
        BY <2>1, <3>1, <3>2, ScheduleAssumption
      <4>3. t < Following(row)
        BY <2>1, <4>2
      <4> QED
        BY <4>1, <4>3
    <3>3. CASE i # row
      <4>1. next'[i] = next[i]
        BY <1>5, <3>3 DEF Persist, TypeOK
      <4> QED
        BY <3>1, <3>3, <4>1
    <3> QED
      BY <3>2, <3>3
  <2> QED
    BY <2>2, <2>3, <2>4
<1>6. CASE PersistThrows
  <2>1. failures' = failures + 1 /\ failures' \in 1..MaxFailures /\ row \in Ids
    BY <1>6 DEF PersistThrows, Fails, TypeOK, RowIsHandedOver
  <2>2. TypeOK'
    BY <1>6, <2>1 DEF PersistThrows, TypeOK
  <2>3. RowIsHandedOver' /\ TodoIsDue'
    BY <1>6 DEF PersistThrows, RowIsHandedOver, TodoIsDue, Due, TypeOK
  <2> QED
    BY <2>1, <2>2, <2>3 DEF NotAgain
<1>7. CASE Answer \/ Again
  <2>1. TypeOK'
    BY <1>7 DEF Answer, Again, TypeOK
  <2>2. RowIsHandedOver' /\ TodoIsDue' /\ NotAgain'
    BY <1>7 DEF Answer, Again, RowIsHandedOver, TodoIsDue, NotAgain, Due, Following
  <2> QED
    BY <2>1, <2>2
<1>8. CASE Crash
  <2>1. failures' = failures + 1 /\ failures' \in 1..MaxFailures
    BY <1>8 DEF Crash, Fails, TypeOK
  <2>2. TypeOK'
    BY <1>8, <2>1 DEF Crash, TypeOK
  <2>3. RowIsHandedOver' /\ TodoIsDue'
    BY <1>8 DEF Crash, RowIsHandedOver, TodoIsDue
  <2> QED
    BY <2>1, <2>2, <2>3 DEF NotAgain
<1>9. CASE Sleep
  <2>1. now' \in Int /\ now' > now
    BY <1>9 DEF Sleep, TypeOK
  <2>2. TypeOK'
    BY <1>9, <2>1 DEF Sleep, TypeOK
  <2>3. TodoIsDue'
    <3>1. now \in Int /\ next \in [Ids -> Int \cup {Null}]
      BY DEF TypeOK
    <3> QED
      BY <1>9, <2>1, <3>1 DEF Sleep, TodoIsDue, Due
  <2>4. RowIsHandedOver' /\ NotAgain'
    BY <1>9 DEF Sleep, RowIsHandedOver, NotAgain
  <2> QED
    BY <2>2, <2>3, <2>4
<1>10. CASE UNCHANGED vars
  BY <1>10 DEF vars, TypeOK, RowIsHandedOver, TodoIsDue, NotAgain, Due, Following
<1> QED
  BY <1>1, <1>2, <1>3, <1>4, <1>5, <1>6, <1>7, <1>8, <1>9, <1>10 DEF Next, TickStep

LEMMA TickInvariant == Spec => []IInv
<1> QED
  BY InitEstablishes, StepPreserves, PTL DEF Spec

\* Type correctness: a schedule that the engine rejects never reaches a row's
\* next fire, and only due rows are ticked.
THEOREM RootTypes == Spec => []TypeOK
<1>1. IInv => TypeOK
  BY DEF IInv
<1> QED
  BY <1>1, TickInvariant, PTL

\* tick.ts: the advance is persisted after the enqueue, so whatever throws or
\* dies no fire is lost.
THEOREM NoFireIsLost == Spec => AdvancedOnlyWhenEnqueued
<1> DEFINE Kept == \A id \in Ids : next'[id] # next[id] => <<id, next[id]>> \in enqueued
<1>1. IInv /\ [Next]_vars => [Kept]_vars
  <2> SUFFICES ASSUME IInv, Next PROVE Kept
    BY DEF vars
  <2>1. CASE Persist
    <3>1. row \in Ids /\ <<row, next[row]>> \in enqueued
      BY <2>1 DEF Persist, IInv, RowIsHandedOver, Due
    <3>2. \A id \in Ids : id # row => next'[id] = next[id]
      BY <2>1 DEF Persist, IInv, TypeOK
    <3> QED
      BY <3>1, <3>2
  <2>2. CASE ~Persist
    <3>1. next' = next
      BY <2>2 DEF Next, TickStep, Tick, PersistThrows, Answer, Again, Skip, Enqueue,
                  EnqueueThrows, AfterThrow, Crash, Sleep
    <3> QED
      BY <3>1
  <2> QED
    BY <2>1, <2>2
<1> QED
  BY <1>1, TickInvariant, PTL DEF Spec, AdvancedOnlyWhenEnqueued

\* An instant that has been handed over is not handed over again, unless a hook
\* has thrown or the process has died: the advance is strictly ahead of the clock.
THEOREM FiresOnceUnlessFailed == Spec => OnceUnlessFailed
<1> DEFINE Once == \A id \in Ids :
               row' = id /\ row # id => failures > 0 \/ <<id, next[id]>> \notin enqueued
<1>1. IInv /\ [Next]_vars => [Once]_vars
  <2> SUFFICES ASSUME IInv, Next, NEW id \in Ids, row' = id, row # id
               PROVE  failures > 0 \/ <<id, next[id]>> \notin enqueued
    BY DEF vars
  <2>1. Enqueue(id)
    <3>1. row' # row /\ row' # Null
      BY RootTickAssumption
    <3>2. ~Tick /\ ~Answer /\ ~Again /\ ~Sleep /\ ~(\E i \in Ids : Skip(i) \/ EnqueueThrows(i))
      BY <3>1 DEF Tick, Answer, Again, Sleep, Skip, EnqueueThrows
    <3>3. ~Persist /\ ~PersistThrows /\ ~Crash
      BY <3>1 DEF Persist, PersistThrows, Crash
    <3>4. PICK i \in Ids : Enqueue(i)
      BY <3>2, <3>3 DEF Next, TickStep
    <3> QED
      BY <3>4 DEF Enqueue
  <2>2. next[id] \in Int /\ failures \in Nat
    BY <2>1, RootTickAssumption DEF Enqueue, IInv, TypeOK, TodoIsDue, Due
  <2>3. failures = 0 => <<id, next[id]>> \notin enqueued
    <3>1. row = Null
      BY <2>1 DEF Enqueue, IInv, RowIsHandedOver
    <3>2. ~(id = row) /\ next[id] # Null /\ ~(next[id] < next[id])
      BY <2>2, <3>1, RootTickAssumption, ScheduleAssumption
    <3> QED
      BY <2>2, <3>2 DEF IInv, NotAgain
  <2>4. failures = 0 \/ failures > 0
    BY <2>2
  <2> QED
    BY <2>3, <2>4
<1> QED
  BY <1>1, TickInvariant, PTL DEF Spec, OnceUnlessFailed

\* The next fire that the host keeps is the engine's answer for the instant it was
\* computed at.
Computed ==
    \A id \in Ids : next[id] # Null => next[id] = computeNextFire(config[id], since[id])

LEMMA ComputedIsInvariant == Spec => []Computed
<1>1. Init => Computed
  BY DEF Init, Computed
<1>2. IInv /\ Computed /\ [Next]_vars => Computed'
  <2> SUFFICES ASSUME IInv, Computed, [Next]_vars PROVE Computed'
    OBVIOUS
  <2>1. CASE Persist
    <3>1. next \in [Ids -> Int \cup {Null}] /\ since \in [Ids -> Int] /\ config' = config
      BY <2>1 DEF IInv, TypeOK, Persist
    <3>2. row \in Ids
      BY <2>1 DEF Persist, IInv, RowIsHandedOver, Due
    <3>3. /\ next' = [next EXCEPT ![row] = computeNextFire(config[row], now)]
          /\ since' = [since EXCEPT ![row] = now]
      BY <2>1 DEF Persist, Following
    <3> QED
      BY <3>1, <3>2, <3>3 DEF Computed
  <2>2. CASE ~Persist
    <3>1. next' = next /\ since' = since /\ config' = config
      BY <2>2 DEF Next, TickStep, Tick, PersistThrows, Answer, Again, Skip, Enqueue,
                  EnqueueThrows, AfterThrow, Crash, Sleep, vars
    <3> QED
      BY <3>1 DEF Computed
  <2> QED
    BY <2>1, <2>2
<1> QED
  BY <1>1, <1>2, TickInvariant, PTL DEF Spec

\* The ticks of a host never wait for anything but the first occurrence after the
\* instant they computed it at: what happens between, a throwing hook, a crash, a late
\* tick, moves that instant but leaves no gap.
THEOREM NoOccurrenceIsMissed == Spec => []NoOccurrenceMissed
<1>1. IInv /\ Computed => NoOccurrenceMissed
  <2> SUFFICES ASSUME IInv, Computed, NEW id \in Ids, next[id] # Null
               PROVE  LET n == next[id] IN
                      /\ n > since[id]
                      /\ n \in Occurrences(config[id], DayOf(n))
                      /\ \A day \in DayOf(since[id])..DayOf(n) :
                            \A o \in Occurrences(config[id], day) : o <= since[id] \/ o >= n
    BY DEF NoOccurrenceMissed
  <2> DEFINE n == next[id]
             c == config[id]
             t == since[id]
  <2>1. IsConfig(c) /\ t \in Int /\ n \in Int
    BY RootTickAssumption DEF IInv, TypeOK
  <2>2. n = computeNextFire(c, t) /\ n \notin {Null, Thrown}
    BY <2>1, ScheduleAssumption DEF Computed
  <2> HIDE DEF n, c, t
  <2>3. IsFirstAfter(Occur(c), t, n)
    BY <2>1, <2>2, NextFireIsNextOccurrence DEF IsNext
  <2>4. \A day \in Int : Occur(c)[day] = Occurrences(c, day)
    BY DEF Occur
  <2>5. DayOf(t) \in Int /\ DayOf(n) \in Int
    BY <2>1, DayBounds
  <2>6. /\ n > t /\ n \in Occurrences(c, DayOf(n))
        /\ \A day \in DayOf(t)..DayOf(n) : \A o \in Occurrences(c, day) : o <= t \/ o >= n
    BY <2>3, <2>4, <2>5 DEF IsFirstAfter
  <2> QED
    BY <2>6 DEF n, c, t
<1> QED
  BY <1>1, TickInvariant, ComputedIsInvariant, PTL
=============================================================================
