----------------------------- MODULE Projection -----------------------------
(***************************************************************************)
(* forecast/project.go: the balance path of a forecast and the scenarios   *)
(* that overlay it.  An input is a record                                  *)
(*   balance, start, horizon    cents, a date, a number of days            *)
(*   series                     a set of recurring series                  *)
(*   variable                   the variable spend per month, in cents     *)
(*   disabled, includeVariable, includeUncertain    the assumptions        *)
(* and a series [id, interval, income, status, amount, next], next being   *)
(* the date expected or NoDate.                                            *)
(***************************************************************************)
EXTENDS Calendar, Sequences, FiniteSetsExt, SequencesExt

DefaultHorizonDays == 90
NoDate == -1

cadenceDays == [monthly |-> 30, quarterly |-> 91, yearly |-> 365]
\* Bug: months are taken as days.
AdvanceDays(d, interval) == d + cadenceDays[interval]
advance(d, interval) ==
    AddMonths(d, CASE interval = "quarterly" -> 3 [] interval = "yearly" -> 12 [] OTHER -> 1)

Applies(s, in) ==
    /\ s.id \notin in.disabled
    /\ s.status # "ended"
    /\ s.status = "uncertain" => in.includeUncertain
    /\ s.amount # 0
Delta(s) == IF s.income THEN Magnitude(s.amount) ELSE -Magnitude(s.amount)

\* The dates of a series from start to end, both included.  A next date in
\* the past is advanced to the start, one date at a time.
scheduledOn(s, start, end) ==
    LET first == IF s.next = NoDate THEN start + cadenceDays[s.interval] ELSE s.next
        From[d \in Int] == IF d > end THEN {} ELSE {d} \cup From[advance(d, s.interval)]
    IN  {d \in From[first] : d >= start}

Horizon(in) == IF in.horizon <= 0 THEN DefaultHorizonDays ELSE in.horizon

\* A day costs a 30.44th of the month, rounded to millionths of the unit, of
\* which a cent has 10000 (variable * 250000 / 761 is variable * 10^6 / 3044).
DailyVariable(in) ==
    IF in.includeVariable THEN RoundDiv(Magnitude(in.variable) * 250000, 761) ELSE 0

\* The balances of day 0 .. horizon.  The start has only the balance given:
\* what is due on that day is not applied.  After is a turn of the loop; Turns
\* takes the turns of from + 1 .. to in halves, which keeps the recursion flat.
BalancePath(in) ==
    LET daily  == DailyVariable(in)
        Dates(s) == scheduledOn(s, in.start, in.start + Horizon(in))
        events == UNION {{<<d, s>> : d \in Dates(s)} : s \in {r \in in.series : Applies(r, in)}}
        OnDay(t) == SumFunction([e \in {f \in events : f[1] = in.start + t} |-> Delta(e[2])])
        After(balance, t) == RoundDiv(10000 * (balance + OnDay(t)) - daily, 10000)
        Turns[span \in Nat \X Nat \X Int] ==
            LET from == span[1]
                to   == span[2]
                half == (from + to) \div 2
                path == Turns[<<from, half, span[3]>>]
            IN  IF to <= from THEN <<span[3]>>
                ELSE IF to = from + 1 THEN <<span[3], After(span[3], to)>>
                ELSE path \o Tail(Turns[<<half, to, path[Len(path)]>>])
    IN  Turns[<<0, Horizon(in), in.balance>>]

\* The result keeps a balance a week, and the one of the last day.
Project(in) ==
    LET path == BalancePath(in)
        last == Horizon(in)
    IN  [horizon |-> last,
         min     |-> Min(ToSet(path)),
         ending  |-> path[last + 1],
         points  |-> [t \in {n \in 0 .. last : n % 7 = 0 \/ n = last} |-> path[t + 1]]]

-----------------------------------------------------------------------------
(* Scenarios                                                               *)

\* The series have ids from 1 on.
Overlay(id, interval, income, amount, next) ==
    [id |-> id, interval |-> interval, income |-> income, status |-> "active",
     amount |-> Magnitude(amount), next |-> next]

\* Bug: a target behind the forecast is projected all the same.
BalanceBeyond(in, target) ==
    Project([in EXCEPT !.horizon = Max({0, target - in.start})]).ending
\* The balance of the target day.  A target out of the forecast is taken to
\* its first or last day; the first one, zero days ahead, projects the default
\* horizon.
balanceOnOrAfter(in, target) ==
    LET days == Max({0, Min({target - in.start, Horizon(in)})})
    IN  Project([in EXCEPT !.horizon = days]).ending

Result(base, modified, delta) ==
    LET changed == Project(modified)
    IN  [min         |-> changed.min,
         ending      |-> changed.ending,
         delta       |-> delta,
         baselineMin |-> Project(base).min]

Obligation(base, p) ==
    LET cost == Overlay(0, "monthly", FALSE, p.monthly_amount, p.start_date)
    IN  Result(base, [base EXCEPT !.series = @ \cup {cost}], -Magnitude(p.monthly_amount))

\* One yearly series for each month, from the start of the forecast.
IncomeGap(base, p) ==
    LET Gap(i) == Overlay(-i, "yearly", p.monthly_income_delta >= 0, p.monthly_income_delta,
                          AddMonths(base.start, i))
    IN  Result(base, [base EXCEPT !.series = @ \cup {Gap(i) : i \in 0 .. p.months - 1}],
               p.monthly_income_delta)

OneOffPlusGoal(base, p) ==
    LET modified == [base EXCEPT !.balance = @ - Magnitude(p.one_off_amount)]
        atBy     == balanceOnOrAfter(modified, p.by_date)
        result   == Result(base, modified, 0)
    IN  [min |-> result.min, ending |-> result.ending, delta |-> 0, baselineMin |-> result.baselineMin,
         projected_at_by_date |-> atBy, goal_feasible |-> atBy >= Magnitude(p.goal_amount)]

\* The parameters a kind needs; a scenario that lacks one is refused, and so is
\* a gap of no months and a kind that is not known.
Needed == [new_monthly_obligation |-> {"monthly_amount", "start_date"},
           income_gap             |-> {"monthly_income_delta", "months"},
           one_off_plus_goal      |-> {"one_off_amount", "goal_amount", "by_date"}]
Valid(kind, p) ==
    /\ kind \in DOMAIN Needed
    /\ Needed[kind] \subseteq DOMAIN p
    /\ kind = "income_gap" => p.months > 0
Refused == <<>>
ApplyScenario(base, kind, p) ==
    IF ~Valid(kind, p) THEN Refused
    ELSE CASE kind = "new_monthly_obligation" -> Obligation(base, p)
           [] kind = "income_gap"             -> IncomeGap(base, p)
           [] kind = "one_off_plus_goal"      -> OneOffPlusGoal(base, p)
=============================================================================
