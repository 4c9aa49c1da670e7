-------------------------- MODULE BaselineFigures ---------------------------
(***************************************************************************)
(* finance/baseline.go and period.go: the five numbers of a baseline from  *)
(* the recurring series and the expenses of a period, and the period.  A   *)
(* series is [interval, income, status, amount], amount in cents.          *)
(***************************************************************************)
EXTENDS Calendar, Sequences, FiniteSetsExt, Functions

\* The last twelve whole months if the bookings reach the last of them or if
\* there are none (latest = NoBooking), otherwise 90 days up to the latest.
NoBooking == -1
DefaultPeriod(latest, now) ==
    LET month == MonthOf(now) - 1
    IN  IF latest = NoBooking \/ latest >= MonthStart(month)
        THEN [from |-> MonthStart(month - 11), to |-> MonthEnd(month)]
        ELSE [from |-> latest - 89, to |-> latest]

\* In hundredths of a month: whole calendar months count as such, any other
\* period by its days, and every period at least as one month.
inclusiveMonthSpan(from, to) ==
    LET months == MonthOf(to) - MonthOf(from) + 1
    IN  IF to < from THEN 100
        ELSE IF from = MonthStart(MonthOf(from)) /\ to = MonthEnd(MonthOf(to)) THEN 100 * months
        ELSE Max({100, RoundDiv(10000 * (to - from + 1), 3044)})

\* Bug: a quarter has four months.
FourMonths(s) ==
    CASE s.interval = "quarterly" -> RoundDiv(100 * Magnitude(s.amount), 4)
      [] s.interval = "yearly"    -> RoundDiv(100 * Magnitude(s.amount), 12)
      [] OTHER                    -> 100 * Magnitude(s.amount)
\* In hundredths of a cent.
monthlyEquivalent(s) ==
    CASE s.interval = "quarterly" -> RoundDiv(100 * Magnitude(s.amount), 3)
      [] s.interval = "yearly"    -> RoundDiv(100 * Magnitude(s.amount), 12)
      [] OTHER                    -> 100 * Magnitude(s.amount)

overallConfidence(included) ==
    IF included = {} THEN "low"
    ELSE IF \E s \in included : s.status = "uncertain" THEN "medium" ELSE "high"

\* The expenses the series do not cover are the variable spend; it is never
\* negative.  Products with the span are in millionths of the unit.
Compute(from, to, series, expense) ==
    LET months    == inclusiveMonthSpan(from, to)
        included  == {s \in series : s.status # "ended" /\ monthlyEquivalent(s) # 0}
        costs     == {s \in included : ~s.income}
        yearly    == {s \in costs : s.interval \in {"quarterly", "yearly"}}
        Total(S)  == SumFunction([s \in S |-> monthlyEquivalent(s)])
        income    == Total(included \ costs)
        fixed     == Total(costs \ yearly)
        irregular == Total(yearly)
        uncovered == Max({0, 10000 * Magnitude(expense) - (fixed + irregular) * months})
        variable  == RoundDiv(uncovered, 100 * months)
    IN  [income     |-> RoundDiv(income, 100),
         fixed      |-> RoundDiv(fixed, 100),
         irregular  |-> RoundDiv(irregular, 100),
         variable   |-> variable,
         free       |-> RoundDiv(income - fixed - irregular - 100 * variable, 100),
         months     |-> months,
         confidence |-> overallConfidence(included)]
=============================================================================
