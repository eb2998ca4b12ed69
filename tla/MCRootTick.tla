----------------------------- MODULE MCRootTick -----------------------------
(* Rows of every mode around a year's end, a leap day and the end of January. *)
EXTENDS RootTick

Any == [base |-> "any", step |-> Null]
Value(n) == [base |-> "value", from |-> n, step |-> Null]
RangeBy(a, b, s) == [base |-> "range", from |-> a, to |-> b, step |-> s]
AnyBy(s) == [base |-> "any", step |-> s]
ValueBy(a, s) == [base |-> "value", from |-> a, step |-> s]

Cron(minute, hour, dayOfMonth, month, dayOfWeek) ==
    [mode |-> "cron-expression",
     expression |-> [minute |-> minute, hour |-> hour, dayOfMonth |-> dayOfMonth,
                     month |-> month, dayOfWeek |-> dayOfWeek]]

Weekly(days, h, m) == [mode |-> "weekly", days |-> days, hour |-> h, minute |-> m]
Monthly(days, h, m) == [mode |-> "monthly", days |-> days, hour |-> h, minute |-> m]
Every(start, n) == [mode |-> "every-n-minutes", start |-> start, interval |-> n]
Once(t) == [mode |-> "one-time", fireAt |-> t]

\* 2023-12-31, 2024-01-31, 2024-02-28 and 2025-02-28, as days of the epoch.
NewYearsEve == 19722
JanuaryEnd == 19753
LeapEve == 19781
PlainFebruaryEnd == 20147

ASSUME CalendarAssumption ==
    /\ [d \in {NewYearsEve, JanuaryEnd, LeapEve, PlainFebruaryEnd} |-> <<Month(d), DayOfMonth(d)>>]
          = [d \in {NewYearsEve, JanuaryEnd, LeapEve, PlainFebruaryEnd} |->
                CASE d = NewYearsEve -> <<12, 31>> [] d = JanuaryEnd -> <<1, 31>>
                  [] OTHER -> <<2, 28>>]
    /\ Month(LeapEve + 1) = 2 /\ Month(PlainFebruaryEnd + 1) = 3
    /\ DayOfWeek(NewYearsEve) = 0

MCStarts ==
    {At(NewYearsEve, 23, 59) + 1, At(JanuaryEnd, 1, 0), At(LeapEve, 12, 30),
     At(PlainFebruaryEnd, 9, 0)}

MCDelays == {0, 1, 3 * Day + 7 * Hour}

Schedules ==
    {[mode |-> "daily-at-utc", hours |-> {1, 12}, minute |-> 30],
     [mode |-> "several-times-per-day",
      times |-> {[hour |-> 0, minute |-> 0], [hour |-> 23, minute |-> 59]}],
     Weekly({3}, 1, 0), Weekly({0, 5}, 9, 0),
     Monthly({1, 28}, 12, 30), Monthly({29, 31}, 0, 0),
     Every(At(NewYearsEve, 0, 7), 725), Every(At(LeapEve, 12, 31), 7 * 24 * 60),
     Cron({AnyBy(15)}, {RangeBy(9, 17, 4)}, {Value(1), Value(28)}, {Any}, {Value(1)}),
     Cron({Value(0)}, {Value(12)}, {Any}, {ValueBy(2, 3)}, {RangeBy(1, 5, Null)}),
     Cron({Value(0)}, {Value(0)}, {Value(29)}, {Value(2)}, {Any}),
     Cron({Value(0)}, {Value(12)}, {RangeBy(1, 31, Null)}, {Any}, {Value(1)}),
     Once(At(LeapEve, 12, 31)),
     Weekly({7}, 1, 0)}

\* Every schedule in a row of its own, beside a row that is due every day.
MCPlans ==
    {[id \in {"a", "b"} |->
        IF id = "a" THEN c ELSE [mode |-> "daily-at-utc", hours |-> {1, 12}, minute |-> 30]] :
     c \in Schedules}

\* A row of the 31st, committed on New Year's Eve 2023.
MCYearEnd == {At(NewYearsEve, 23, 59) + 1}
MCMonthEnd == {[id \in {"a"} |-> Monthly({31}, 0, 0)]}
=============================================================================
