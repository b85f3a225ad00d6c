-------------------------------- MODULE Calendar --------------------------------
(***************************************************************************)
(* Dates.  A date is its ISO text read as a number, 31 January 2023 being   *)
(* 20230131, so that dates compare as the ISO texts of the tables do.  The  *)
(* months have their real lengths, leap years included.                     *)
(***************************************************************************)
EXTENDS Integers, FiniteSetsExt

date(y, m, d) == 10000 * y + 100 * m + d
year(d)  == d \div 10000
month(d) == (d \div 100) % 100
day(d)   == d % 100

Leap(y) == y % 4 = 0 /\ (y % 100 # 0 \/ y % 400 = 0)

\* calendar.monthrange(year, month)[1]
monthrange(y, m) ==
    CASE m = 2                -> IF Leap(y) THEN 29 ELSE 28
      [] m \in {4, 6, 9, 11}  -> 30
      [] OTHER                -> 31

\* A number that is a date.
IsDate(d) == d \in Int /\ month(d) \in 1..12 /\ day(d) \in 1..monthrange(year(d), month(d))

\* The days since 1 January of year 1, and the date so many days after it.
DaysBeforeYear(y) == 365 * (y - 1) + (y - 1) \div 4 - (y - 1) \div 100 + (y - 1) \div 400
DaysBeforeMonth(y, m) ==
    <<0, 31, 59, 90, 120, 151, 181, 212, 243, 273, 304, 334>>[m]
        + (IF m > 2 /\ Leap(y) THEN 1 ELSE 0)

ordinal(d) == DaysBeforeYear(year(d)) + DaysBeforeMonth(year(d), month(d)) + day(d) - 1

OfYear(y, n) ==     \* the date n days after 1 January of y
    LET m == Max({k \in 1..12 : DaysBeforeMonth(y, k) <= n})
    IN date(y, m, n - DaysBeforeMonth(y, m) + 1)
OfOrdinal(n, years) ==  \* years: some years, that of the date among them
    LET y == Max({k \in years : DaysBeforeYear(k) <= n})
    IN OfYear(y, n - DaysBeforeYear(y))

\* timedelta(days = n), and the days between two dates.
plus_days(d, n) ==
    OfOrdinal(ordinal(d) + n, IF n < 0 THEN (year(d) + n \div 365 - 1)..year(d)
                              ELSE year(d)..(year(d) + n \div 365 + 1))
days_between(d, e) == ordinal(e) - ordinal(d)

\* The first and last day of a month, and the month before it.
month_bounds(ym) == <<date(ym[1], ym[2], 1), date(ym[1], ym[2], monthrange(ym[1], ym[2]))>>
prev_month(ym) == IF ym[2] = 1 THEN <<ym[1] - 1, 12>> ELSE <<ym[1], ym[2] - 1>>

\* The n months that end with ym, newest first: prev_month, again and again.
MonthsBack(ym, n) ==
    [k \in 1..n |-> <<(12 * ym[1] + ym[2] - k) \div 12, ((12 * ym[1] + ym[2] - k) % 12) + 1>>]

\* d plus some months: the aimed-at day (0: d's own) clamped to the month.
InMonth(y, m, aim) == date(y, m, Min({aim, monthrange(y, m)}))
add_months(d, months, aim) ==
    LET total == month(d) - 1 + months
    IN InMonth(year(d) + total \div 12, (total % 12) + 1, IF aim = 0 THEN day(d) ELSE aim)
=============================================================================
