--------------------------- MODULE SeriesReports ----------------------------
(***************************************************************************)
(* What the baseline, the forecast and the scenarios of a household say of *)
(* any recurring series: the state is the series and the days on which     *)
(* they are asked for, a step adds one.                                    *)
(***************************************************************************)
EXTENDS Tools

CONSTANTS
    AllSeries,      \* the recurring series there may be
    Todays,         \* days on which they may be asked for
    Latests,        \* days of the latest booking, or NoBooking
    Others,         \* what is spent in a period besides the series
    Requests,       \* what a forecast may be asked for
    Variables,      \* what the baseline of a forecast may say of variable spend
    Sums,           \* amounts of a scenario
    ScenarioDays,   \* dates a scenario names
    Gaps,           \* months an income gap may last
    SeriesBefore    \* what the series may have been when a forecast was made

Period == [monthly |-> 1, quarterly |-> 3, yearly |-> 12]

ASSUME SeriesAssumption ==
    /\ \A s \in AllSeries :
          /\ s \in [id : Nat \ {0}, interval : DOMAIN Period, income : BOOLEAN,
                    status : {"active", "uncertain", "ended"}, amount : Int,
                    next : Nat \cup {NoDate}, changed : BOOLEAN, doubtful : BOOLEAN]
          /\ ~s.income => s.amount <= 0
    /\ Todays \subseteq Nat /\ Latests \subseteq Nat \cup {NoBooking} /\ Others \subseteq Nat
    /\ Requests \subseteq [balance : Int, horizon : Int, disabled : SUBSET (Nat \ {0}),
                           includeVariable : BOOLEAN, includeUncertain : BOOLEAN]
    /\ Variables \subseteq Int /\ Sums \subseteq Int /\ ScenarioDays \subseteq Nat /\ Gaps \subseteq Nat \ {0}
    /\ SeriesBefore \subseteq SUBSET AllSeries

VARIABLES
    plan,           \* recurring series
    askedOn         \* days on which the figures are asked for

figures == <<plan, askedOn>>

PlanInit == plan = {} /\ askedOn = {}
AddSeries == /\ \E s \in AllSeries : /\ \A r \in plan : r.id # s.id
                                  /\ plan' = plan \cup {s}
             /\ UNCHANGED askedOn
Ask == /\ \E today \in Todays : askedOn' = askedOn \cup {today}
       /\ UNCHANGED plan
PlanSpec == PlanInit /\ [][AddSeries \/ Ask]_figures

-----------------------------------------------------------------------------
(* Baselines                                                               *)

\* The costs among the series; what the chat tells of them; what they come to in
\* twelve months.
Costs == {s \in plan : s.status # "ended" /\ ~s.income}
CostsTold == runRecurringCosts(Scanned(plan), NoDates)
PaidInYear == SumFunction([s \in Costs |-> (12 \div Period[s.interval]) * Magnitude(s.amount)])

\* The numbers of a baseline explain the expenses of its period: costs and
\* variable spend, over its months, are the expenses, but for the rounding, or
\* the costs exceed them and the variable spend is none.  When every series
\* was paid as often as it was due in twelve whole months, the variable spend
\* is what was spent besides.  The recurring costs the chat adds up are those of
\* the baseline, but for the sign.  The free cashflow is what the four numbers
\* shown leave of the income.  The rounding is of half a cent for each number
\* shown, and in the sums of series half a hundredth of one for each of them.
\* (finance/baseline.go)
Explains(period, other, paid, b) ==
    LET months == b.months
        whole  == \E m \in {MonthOf(period.to)} : period = [from |-> MonthStart(m - 11), to |-> MonthEnd(m)]
        Off(n, most) == Magnitude(n) <= most
    IN  /\ whole => Off(1200 * b.variable - 100 * other, 600 + 6 * Cardinality(Costs))
        /\ \/ Off(months * (b.fixed + b.irregular + b.variable) - 100 * paid, 2 * months)
           \/ b.variable = 0 /\ months * (b.fixed + b.irregular + 1) > 100 * paid
        /\ Off(b.income - b.fixed - b.irregular - b.variable - b.free, 2)
        /\ b.confidence = "high" =>
              plan # {} /\ \A s \in plan : s.status = "uncertain" => s.amount = 0
        /\ CostsTold.series = Costs
        /\ Off(100 * CostsTold.total + 1200 * (b.fixed + b.irregular),
               1200 + 6 * Cardinality(Costs))
BaselineExplains ==
    \A latest \in Latests, now \in askedOn, other \in Others :
        LET period == DefaultPeriod(latest, now)
            paid   == other + PaidInYear
        IN  /\ period.from < period.to /\ period.to < now
            /\ Explains(period, other, paid, Compute(period.from, period.to, plan, paid))

-----------------------------------------------------------------------------
(* Forecasts                                                               *)

\* The dates a series is due on after the start and no later than a day, the
\* first being next, or an interval from the start if none is known; no month
\* has less than 28 days.
FirstDue(next, interval, start) == IF next = NoDate THEN start + cadenceDays[interval] ELSE next
DueUntil(next, interval, start, day) ==
    LET first == FirstDue(next, interval, start)
        most  == (day - first) \div 28
        Kth[k \in 0 .. most] == IF k = 0 THEN first ELSE AddMonths(Kth[k - 1], Period[interval])
    IN  {d \in {Kth[k] : k \in 0 .. most} : start < d /\ d <= day}
TimesDue(next, interval, start, day) == Cardinality(DueUntil(next, interval, start, day))

Counted(request) ==
    {s \in plan : /\ s.id \notin request.disabled /\ s.status # "ended"
                  /\ s.status = "uncertain" => request.includeUncertain}
Flow(request, start, day) ==
    SumFunction([s \in Counted(request) |-> Delta(s) * TimesDue(s.next, s.interval, start, start + day)])

\* The variable spend of a month that a forecast counts.  If it is a whole number
\* of cents a day nothing is rounded, otherwise half a cent a day at most (and
\* what the daily spend is rounded by); 3044ths of a cent are exact.
Monthly(request, variable) == IF request.includeVariable THEN Magnitude(variable) ELSE 0
Slack(spend, day) == IF spend % 3044 = 0 THEN 0 ELSE 1523 * day

\* A forecast's balance of any day kept is the start, less the variable spend
\* so far, and each series as often as it was due since: nothing is counted on
\* the first day, nothing is lost at the last.  A day is kept every week, and
\* the last.  The lowest balance is the lowest of all days, not of those kept.
\* (forecast/project.go)
AddsUp(request, variable, start, r) ==
    LET spend == Monthly(request, variable)
        Exact(day)   == 3044 * (request.balance + Flow(request, start, day)) - 100 * spend * day
        Near(n, day) == Magnitude(3044 * n - Exact(day)) <= Slack(spend, day)
    IN  /\ r.horizon = (IF request.horizon <= 0 THEN DefaultHorizonDays ELSE request.horizon)
        /\ {0, r.horizon} \subseteq DOMAIN r.points /\ DOMAIN r.points \subseteq 0 .. r.horizon
        /\ r.points[r.horizon] = r.ending
        /\ \A day \in DOMAIN r.points : Near(r.points[day], day)
        /\ \A day \in 0 .. r.horizon - 6 : DOMAIN r.points \cap day .. day + 6 # {}
        /\ \E day \in 0 .. r.horizon : Near(r.min, day)
        /\ \A day \in 0 .. r.horizon : 3044 * r.min <= Exact(day) + Slack(spend, day)

\* Over a year the forecast the chat shows moves the balance by twelve times the
\* free cashflow of the baseline it shows, if each series is due in it as often
\* as its interval says, but for the days a year of 365 is short of 12 times
\* 30.44, half a cent of rounding a day and what a baseline is rounded by.
Yearly(balance) == [balance |-> balance, horizon |-> 365, disabled |-> {},
                    includeVariable |-> TRUE, includeUncertain |-> TRUE]
DueAsOften(S, start) ==
    \A s \in S : TimesDue(s.next, s.interval, start, start + 365) = 12 \div Period[s.interval]
Follows(f, b) ==
    100 * (Magnitude(f.ending - f.starting - 12 * b.free) - 190) <= 6 * Cardinality(plan) + b.variable
FollowsBaseline(start, other, balance) ==
    LET period == DefaultPeriod(NoBooking, start)
        b == runGetBaseline({Compute(period.from, period.to, plan, other + PaidInYear)})
        f == runGetForecast({CreateForecast(Yearly(balance), b.variable, plan, start)})
    IN  DueAsOften(Counted(Yearly(balance)), start) => Follows(f, b)

ProjectionAddsUp ==
    /\ \A request \in Requests, variable \in Variables, start \in askedOn :
          AddsUp(request, variable, start, CreateForecast(request, variable, plan, start))
    /\ \A start \in askedOn, other \in Others, balance \in Sums : FollowsBaseline(start, other, balance)

-----------------------------------------------------------------------------
(* Scenarios                                                               *)

Close(n, m, spend, day) == 3044 * Magnitude(n - m) <= 2 * Slack(spend, day)

\* The balances of a scenario are those of a path, each moved by an amount from
\* least[day] to most[day]: the last is, the lowest is no higher than any and no
\* lower than all, and what it is compared with is the lowest of the path.
Moved(r, path, least, most, spend, last) ==
    LET Above(n, day) == 3044 * (path[day + 1] + least[day]) <= 3044 * n + 2 * Slack(spend, day)
        Below(n, day) == 3044 * n <= 3044 * (path[day + 1] + most[day]) + 2 * Slack(spend, day)
    IN  /\ Above(r.ending, last) /\ Below(r.ending, last)
        /\ \E day \in 0 .. last : Above(r.min, day)
        /\ \A day \in 0 .. last : Below(r.min, day)
        /\ r.baselineMin = Min(ToSet(path))

\* A new obligation takes its amount every month it is due from the start date on.
ObligationCosts(was, path, variable, start, spend, sum, from) ==
    LET last == was.horizon
        due  == DueUntil(from, "monthly", start, start + last)
        cost == [day \in 0 .. last |-> (-Magnitude(sum)) * Cardinality({d \in due : d <= start + day})]
    IN  \A r \in {RunScenario(was, variable, plan, "new_monthly_obligation",
                              [monthly_amount |-> sum, start_date |-> from])} :
           Moved(r, path, cost, cost, spend, last)

\* An income gap moves a balance by its amount for every month of it that has
\* begun by then, the month of the forecast's first day at most, the later ones
\* without exception: what the code says of the first, and of forecasts of a year
\* and more, it does not do (GapAsTold).
Begun(start, months, day) == Cardinality({i \in 0 .. months - 1 : AddMonths(start, i) <= start + day})
GapCosts(was, path, variable, start, spend, sum, months) ==
    LET last == was.horizon
        Times(n) == [day \in 0 .. last |-> sum * (Begun(start, months, day) - n)]
    IN  \A r \in {RunScenario(was, variable, plan, "income_gap",
                              [monthly_income_delta |-> sum, months |-> months])} :
           IF last < 365
           THEN Moved(r, path, Times(IF sum < 0 THEN 0 ELSE 1), Times(IF sum < 0 THEN 1 ELSE 0), spend, last)
           ELSE r.baselineMin = Min(ToSet(path))

\* A one-off takes its amount from the first day on; the balance of the day asked
\* for is the one of that day, or of the last, and decides whether the goal is met.
OneOffCosts(was, path, variable, start, spend, sum, goal, by) ==
    LET last == was.horizon
        cost == [day \in 0 .. last |-> -Magnitude(sum)]
        day  == Min({by - start, last})
    IN  \A r \in {RunScenario(was, variable, plan, "one_off_plus_goal",
                              [one_off_amount |-> sum, goal_amount |-> goal, by_date |-> by])} :
           /\ Moved(r, path, cost, cost, spend, last)
           /\ Close(r.projected_at_by_date, path[day + 1] - Magnitude(sum), spend, day)
           /\ r.goal_feasible <=> r.projected_at_by_date >= Magnitude(goal)

Overlays(was, path, variable, start, spend) ==
    \A sum \in Sums :
        /\ \A from \in ScenarioDays : ObligationCosts(was, path, variable, start, spend, sum, from)
        /\ \A months \in Gaps : GapCosts(was, path, variable, start, spend, sum, months)
        /\ \A goal \in Sums, by \in {d \in ScenarioDays : d > start} :
              OneOffCosts(was, path, variable, start, spend, sum, goal, by)

\* A scenario sets one thing against the path that the series of today have from
\* the balance and the day of the stored forecast, whatever the series were when
\* the forecast was made; while they are the same, that path is the forecast's.
\* (service/forecast.go, forecast/project.go)
ScenarioAddsUp ==
    \A request \in Requests, variable \in Variables, start \in askedOn, old \in SeriesBefore \cup {plan} :
    \A was \in {CreateForecast(request, variable, old, start)} :
    \A path \in {BalancePath(ForecastInput(was, variable, plan))} :
        /\ old = plan => was.min = Min(ToSet(path)) /\ was.ending = path[was.horizon + 1]
        /\ Overlays(was, path, variable, start, Monthly(request, variable))
=============================================================================
