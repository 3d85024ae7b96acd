-------------------------------- MODULE PtpDate --------------------------------
(***************************************************************************)
(* The date of a PTP time (_nx_ptp_client_utility_convert_time_to_date): in *)
(* which year, month and day so many seconds from the first of January 1970 *)
(* fall.  The seconds of a day are a parameter, and hours and minutes stay  *)
(* one number; time passes second by second.                                *)
(* A suffixed name is a seeded fault.                                       *)
(***************************************************************************)
EXTENDS PtpTime, Sequences

CONSTANTS
    SecsPerDay,     \* SECS_PER_DAY; a year of them must fit a ULONG
    FirstDays, Span,\* bound: the days since the epoch from which time passes,
                    \* and the days that pass
    Offsets         \* seconds from UTC

VARIABLES day, second, utc   \* a time, and the offset asked for

dateVars == <<day, second, utc>>

Init == day \in FirstDays /\ second = 0 /\ utc \in Offsets
Next ==
    /\ second' = (second + 1) % SecsPerDay
    /\ day' = IF second' = 0 THEN day + 1 ELSE day
    /\ \E first \in FirstDays : day' \in first .. first + Span
    /\ UNCHANGED utc
Spec == Init /\ [][Next]_dateVars

-------------------------------------------------------------------------------
IS_LEAP_EveryFourth(y) == y % 4 = 0

IS_LEAP(y) == y % 4 = 0 /\ (y % 100 # 0 \/ y % 400 = 0)
DaysOfYear(y) == IF IS_LEAP(y) THEN 366 ELSE 365
DaysOfMonth(m, y) ==
    CASE m = 2 -> IF IS_LEAP(y) THEN 29 ELSE 28
      [] m \in {4, 6, 9, 11} -> 30
      [] OTHER -> 31

\* The first loop: year by year, with a borrow from the high half.
SecsOfYear(y) == DaysOfYear(y) * SecsPerDay
YearEnds(t) == t.secs.high > 0 \/ t.secs.low >= SecsOfYear(t.year)
NextYear(t) ==
    LET n == SecsOfYear(t.year)
    IN  [year |-> t.year + 1,
         secs |-> Seconds(t.secs.high - Carry(t.secs.low < n), t.secs.low - n),
         weekday |-> t.weekday + DaysOfYear(t.year)]
Halves == [high : -(Word \div 2) .. Word \div 2 - 1, low : 0 .. Word - 1]
YearFrom[t \in [year : Nat, secs : Halves, weekday : Nat]] ==
    IF YearEnds(t) THEN YearFrom[NextYear(t)] ELSE t

YearOf(secs, weekday) ==
    LET t == YearFrom[[year |-> 1970, secs |-> secs, weekday |-> weekday]]
    IN  [year |-> t.year, secs |-> t.secs.low,
         weekday |-> (t.weekday + t.secs.low \div SecsPerDay) % 7]

\* The second loop: month by month.
MonthEnds(t) == t.secs >= DaysOfMonth(t.month, t.year) * SecsPerDay
NextMonth(t) ==
    [year |-> t.year, month |-> t.month + 1,
     secs |-> t.secs - DaysOfMonth(t.month, t.year) * SecsPerDay]
MonthFrom[t \in [year : Nat, month : Nat, secs : Nat]] ==
    IF MonthEnds(t) THEN MonthFrom[NextMonth(t)] ELSE t

MonthOf(secs, year) == MonthFrom[[year |-> year, month |-> 1, secs |-> secs]]

\* NX_PTP_PARAM_ERROR of a time before the epoch is the empty sequence.
convert_time_to_date(sec, offset) ==
    LET local == IF offset = 0 THEN sec ELSE add64(sec, Seconds(-Carry(offset < 0), offset))
        y == YearOf(local, 4)
        m == MonthOf(y.secs, y.year)
    IN  IF local.high < 0 THEN <<>>
        ELSE <<y.year, m.month, m.secs \div SecsPerDay + 1, m.secs % SecsPerDay, y.weekday>>

\* The seconds since the epoch, in their two halves.
Since(d, s) == LET v == d * SecsPerDay + s IN Seconds(v \div Word, v)

-------------------------------------------------------------------------------
\* What the calendar says comes after a date.
Knuckles == <<31, 28, 31, 30, 31, 30, 31, 31, 30, 31, 30, 31>>
LeapDay(y) == (y % 400 = 0) \/ (y % 4 = 0 /\ y % 100 # 0)
Length(y, m) == Knuckles[m] + Carry(m = 2 /\ LeapDay(y))
Following(date) ==
    LET y == date[1]  m == date[2]  d == date[3]  s == date[4]  w == date[5]
    IN  CASE s < SecsPerDay - 1 -> <<y, m, d, s + 1, w>>
          [] s = SecsPerDay - 1 /\ d < Length(y, m) -> <<y, m, d + 1, 0, (w + 1) % 7>>
          [] s = SecsPerDay - 1 /\ d = Length(y, m) /\ m < 12 -> <<y, m + 1, 1, 0, (w + 1) % 7>>
          [] OTHER -> <<y + 1, 1, 1, 0, (w + 1) % 7>>

\* The epoch is Thursday, the first of January 1970; a time before it has no
\* date; and a second later is the date that follows in the calendar, over
\* the ends of days, months and years, also where the seconds no longer fit
\* one ULONG, and for every offset from UTC.
DatesFollow ==
    LET date == convert_time_to_date(Since(day, second), utc)
        next == convert_time_to_date(Since(day, second + 1), utc)
        elapsed == day * SecsPerDay + second + utc
    IN  /\ elapsed = 0 => date = <<1970, 1, 1, 0, 4>>
        /\ elapsed < 0 => date = <<>>
        /\ elapsed >= 0 => next = Following(date)
================================================================================
