------------------------------ MODULE Schedule ------------------------------
(***************************************************************************)
(* computeNextFire of packages/khronoton-core/src/schedule.ts, for all     *)
(* seven modes, on an integer clock that counts half minutes from the Unix *)
(* epoch: fires lie on whole minutes, `now` need not.                      *)
(*                                                                         *)
(* Null is the answer of a spent one-time schedule, Thrown stands for the  *)
(* InvalidScheduleConfigError of a malformed config and of a sweep that    *)
(* finds nothing.                                                          *)
(***************************************************************************)
EXTENDS Integers, FiniteSetsExt

CONSTANTS Null, Thrown

ASSUME ScheduleAssumption == Null \notin Int /\ Thrown \notin Int \cup {Null}

Minute == 2
Hour == 60 * Minute
Day == 24 * Hour

-----------------------------------------------------------------------------
(* The UTC calendar (JavaScript's Date) *)

DayOf(t) == t \div Day

\* Date.UTC of a day of the epoch, an hour and a minute.
At(day, hour, minute) == day * Day + hour * Hour + minute * Minute

\* 0 is Sunday; the epoch began on a Thursday.
DayOfWeek(day) == (day + 4) % 7

\* The day within its 400-year era, counted from a first of March.
DayOfEra(day) == (day + 719468) % 146097
YearOfEra(day) ==
    LET d == DayOfEra(day)
    IN  (d - d \div 1460 + d \div 36524 - d \div 146096) \div 365
DayOfYear(day) ==
    LET y == YearOfEra(day) IN DayOfEra(day) - (365 * y + y \div 4 - y \div 100)
MonthFromMarch(day) == (5 * DayOfYear(day) + 2) \div 153

DayOfMonth(day) ==
    DayOfYear(day) - (153 * MonthFromMarch(day) + 2) \div 5 + 1

Month(day) == ((MonthFromMarch(day) + 2) % 12) + 1

-----------------------------------------------------------------------------
(* The modes *)

IsHour(h) == h \in 0..23
IsMinute(m) == m \in 0..59

\* The sweeps probe their candidates in ascending order and return the first
\* one after now.
FirstAfter(candidates, now) ==
    LET later == {c \in candidates : c > now}
    IN  IF later = {} THEN Thrown ELSE Min(later)

\* A fireAt that does not parse is Null.
NextOneTime(c, now) ==
    CASE c.fireAt = Null -> Thrown
      [] c.fireAt # Null /\ c.fireAt <= now -> Null
      [] OTHER -> c.fireAt

NextSeveralTimesPerDay(c, now) ==
    IF c.times = {} \/ \E x \in c.times : ~IsHour(x.hour) \/ ~IsMinute(x.minute)
    THEN Thrown
    ELSE FirstAfter({At(DayOf(now) + i, x.hour, x.minute) : i \in 0..1, x \in c.times}, now)

NextDailyAtUtc(c, now) ==
    IF c.hours = {} \/ (\E h \in c.hours : ~IsHour(h)) \/ ~IsMinute(c.minute)
    THEN Thrown
    ELSE FirstAfter({At(DayOf(now) + i, h, c.minute) : i \in 0..1, h \in c.hours}, now)

\* Fault variant of NextEveryNMinutes: rounds up, so a fire instant yields itself.
NextEveryNMinutesCeiling(c, now) ==
    IF now < c.start THEN c.start
    ELSE LET n == c.interval * Minute
         IN  c.start + ((now - c.start + n - 1) \div n) * n

NextEveryNMinutes(c, now) ==
    CASE c.interval <= 0 \/ c.start = Null -> Thrown
      [] c.interval > 0 /\ c.start # Null /\ now < c.start -> c.start
      [] OTHER -> LET n == c.interval * Minute
                  IN  c.start + ((now - c.start) \div n + 1) * n

NextWeekly(c, now) ==
    IF \/ c.days = {} \/ ~(c.days \subseteq 0..6)
       \/ ~IsHour(c.hour) \/ ~IsMinute(c.minute)
    THEN Thrown
    ELSE FirstAfter({At(DayOf(now) + i, c.hour, c.minute) :
                        i \in {j \in 0..7 : DayOfWeek(DayOf(now) + j) \in c.days}}, now)

\* Fault variant of NextMonthly: the sweep begins tomorrow.
NextMonthlyFromTomorrow(c, now) ==
    FirstAfter({At(DayOf(now) + i, c.hour, c.minute) :
                   i \in {j \in 1..32 : DayOfMonth(DayOf(now) + j) \in c.days}}, now)

NextMonthly(c, now) ==
    IF \/ c.days = {} \/ ~(c.days \subseteq 1..31)
       \/ ~IsHour(c.hour) \/ ~IsMinute(c.minute)
    THEN Thrown
    ELSE FirstAfter({At(DayOf(now) + i, c.hour, c.minute) :
                        i \in {j \in 0..32 : DayOfMonth(DayOf(now) + j) \in c.days}}, now)

-----------------------------------------------------------------------------
(* Cron: a field is a set of pieces, each `*`, a literal or a range, with or  *)
(* without a step                                                             *)

PieceRange(p, hi, lo) ==
    CASE p.base = "any" -> lo..hi
      [] p.base = "range" -> p.from..p.to
      [] p.base = "value" /\ p.step = Null -> p.from..p.from
      [] OTHER -> p.from..hi

PieceIsValid(p, lo, hi) ==
    /\ p.step = Null \/ p.step > 0
    /\ p.base # "any" => p.from >= lo
    /\ p.base = "value" => p.from <= hi
    /\ p.base = "range" => p.from <= p.to /\ p.to <= hi

PieceValues(p, lo, hi) ==
    LET from == IF p.base = "any" THEN lo ELSE p.from
    IN  {v \in PieceRange(p, hi, lo) : p.step = Null \/ (v - from) % p.step = 0}

\* parseCronField: the values of a field, or Thrown.
FieldValues(pieces, lo, hi) ==
    IF pieces = {} \/ \E p \in pieces : ~PieceIsValid(p, lo, hi)
    THEN Thrown
    ELSE UNION {PieceValues(p, lo, hi) : p \in pieces}

\* An expression without five fields is Null.
ParsedCron(expression) ==
    [minutes |-> FieldValues(expression.minute, 0, 59),
     hours |-> FieldValues(expression.hour, 0, 23),
     daysOfMonth |-> FieldValues(expression.dayOfMonth, 1, 31),
     months |-> FieldValues(expression.month, 1, 12),
     daysOfWeek |-> FieldValues(expression.dayOfWeek, 0, 6)]

CronParses(expression) ==
    /\ expression # Null
    /\ LET p == ParsedCron(expression)
       IN  Thrown \notin {p.minutes, p.hours, p.daysOfMonth, p.months, p.daysOfWeek}

\* Two restricted day fields are alternatives; a full set counts as `*`.
CronDay(p, day) ==
    LET domAny == Cardinality(p.daysOfMonth) = 31
        dowAny == Cardinality(p.daysOfWeek) = 7
    IN  /\ Month(day) \in p.months
        /\ IF domAny \/ dowAny
           THEN /\ domAny \/ DayOfMonth(day) \in p.daysOfMonth
                /\ dowAny \/ DayOfWeek(day) \in p.daysOfWeek
           ELSE \/ DayOfMonth(day) \in p.daysOfMonth
                \/ DayOfWeek(day) \in p.daysOfWeek

CronInstants(p, day) == {At(day, h, m) : h \in p.hours, m \in p.minutes}

MaxMinutes == 366 * 24 * 60

\* The minute-by-minute search, from the minute after now, one day at a time.
NextCronExpression(c, now) ==
    IF ~CronParses(c.expression) THEN Thrown
    ELSE LET p == ParsedCron(c.expression)
             start == (now \div Minute + 1) * Minute
             end == start + MaxMinutes * Minute
             Found(day) == {t \in CronInstants(p, day) : start <= t /\ t < end}
             Matches(day) == CronDay(p, day) /\ Found(day) # {}
             days == DayOf(start)..DayOf(end)
             first == CHOOSE d \in days :
                         Matches(d) /\ \A e \in DayOf(start)..d - 1 : ~Matches(e)
         IN  IF \E d \in days : Matches(d) THEN Min(Found(first)) ELSE Thrown

-----------------------------------------------------------------------------
(* Configs *)

IsPiece(p) ==
    /\ p.base \in {"any", "range", "value"} /\ p.step \in Int \cup {Null}
    /\ p.base # "any" => p.from \in Int
    /\ p.base = "range" => p.to \in Int

\* A config of its mode: a text that does not parse is Null, and numbers need not
\* be in range.
IsConfig(c) ==
    /\ c.mode = "one-time" => c.fireAt \in Int \cup {Null}
    /\ c.mode = "every-n-minutes" => c.interval \in Int /\ c.start \in Int \cup {Null}
    /\ c.mode = "cron-expression" /\ c.expression # Null =>
          \A p \in c.expression.minute \cup c.expression.hour
                  \cup c.expression.dayOfMonth \cup c.expression.month
                  \cup c.expression.dayOfWeek : IsPiece(p)

Recurring == {"daily-at-utc", "every-n-minutes", "weekly", "monthly",
              "cron-expression", "several-times-per-day"}

computeNextFire(c, now) ==
    CASE c.mode = "daily-at-utc" -> NextDailyAtUtc(c, now)
      [] c.mode = "every-n-minutes" -> NextEveryNMinutes(c, now)
      [] c.mode = "weekly" -> NextWeekly(c, now)
      [] c.mode = "monthly" -> NextMonthly(c, now)
      [] c.mode = "cron-expression" -> NextCronExpression(c, now)
      [] c.mode = "one-time" -> NextOneTime(c, now)
      [] c.mode = "several-times-per-day" -> NextSeveralTimesPerDay(c, now)
      [] OTHER -> Thrown
=============================================================================
