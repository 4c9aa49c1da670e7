------------------------------ MODULE Calendar ------------------------------
(***************************************************************************)
(* The arithmetic of dates and money the figures rest on.  A date is the   *)
(* number of days since some first of January, a month the number of       *)
(* months since then; years have 365 days.  Money is a whole number of     *)
(* cents or of a fraction of a cent that the definition names.             *)
(***************************************************************************)
EXTENDS Integers, FiniteSets

DaysBefore == <<0, 31, 59, 90, 120, 151, 181, 212, 243, 273, 304, 334>>

MonthStart(m) == 365 * (m \div 12) + DaysBefore[(m % 12) + 1]
MonthOf(d) ==
    12 * (d \div 365) + Cardinality({i \in DOMAIN DaysBefore : DaysBefore[i] <= d % 365}) - 1
MonthEnd(m) == MonthStart(m + 1) - 1

\* time.AddDate: the day of the month is kept, and one the month does not have
\* runs over into the month after.
AddMonths(d, n) == MonthStart(MonthOf(d) + n) + (d - MonthStart(MonthOf(d)))

Magnitude(n) == IF n < 0 THEN -n ELSE n

\* decimal.Round: to the nearest, halves away from zero (b > 0).
RoundDiv(a, b) ==
    LET up == (2 * Magnitude(a) + b) \div (2 * b)
    IN  IF a < 0 THEN -up ELSE up
=============================================================================
