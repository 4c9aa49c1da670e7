------------------------------ MODULE MCSeries ------------------------------
(***************************************************************************)
(* Baselines, forecasts and scenarios of at most two recurring series: the *)
(* first is due on the 15th, on the last of January, in the past, on the   *)
(* first day of a forecast, or at a date not known.                        *)
(***************************************************************************)
EXTENDS SeriesReports

Today == 389                        \* 25 January

Drawn(S) == {s \in S : s.income <=> s.amount > 0}
FirstSeries ==
    [id : {1}, interval : DOMAIN Period, income : BOOLEAN, status : {"active", "uncertain", "ended"},
     amount : {-900, 900}, next : {NoDate, 379, Today, 395, 410},
     changed : {FALSE}, doubtful : {FALSE}]
SecondSeries ==
    [id : {2}, interval : {"monthly", "yearly"}, income : BOOLEAN, status : {"active"},
     amount : {-1801, 1801}, next : {395}, changed : {FALSE}, doubtful : {FALSE}]
MCSeriesSet == Drawn(FirstSeries \cup {s \in SecondSeries : s.interval = "yearly" <=> s.income})

\* Series have the numbers from 1 on, and the household asks when it has them.
FiguresNext ==
    \/ AddSeries /\ askedOn = {} /\ {s.id : s \in plan'} = 1 .. Cardinality(plan')
    \/ Ask /\ askedOn = {}

MCLatests == {NoBooking, 300, 340}
RequestFor(horizon) ==
    [balance |-> 50000, horizon |-> horizon, disabled |-> {},
     includeVariable |-> TRUE, includeUncertain |-> FALSE]
MCRequests == {RequestFor(0), RequestFor(30),
               [RequestFor(6) EXCEPT !.disabled = {1}, !.includeVariable = FALSE, !.includeUncertain = TRUE]}

\* Since the forecast a series has changed its amount and day, or come or gone.
MCSeriesBefore ==
    {{[id |-> 1, interval |-> "monthly", income |-> TRUE, status |-> "active", amount |-> 900,
       next |-> 379, changed |-> FALSE, doubtful |-> FALSE]}}
MCTodays == {Today}
MCSums == {-700, 4000}

-----------------------------------------------------------------------------
(* What the code says of income gaps                                       *)

\* An income gap of some months, all of which begin within the forecast, moves
\* the last balance by its amount for each of them ("Income change %s/month for
\* %d months", forecast/project.go:312).
GapAsTold ==
    \A request \in Requests, variable \in Variables, start \in askedOn, sum \in Sums, months \in Gaps :
        LET was == CreateForecast(request, variable, plan, start)
            r   == RunScenario(was, variable, plan, "income_gap",
                               [monthly_income_delta |-> sum, months |-> months])
        IN  AddMonths(start, months - 1) <= start + was.horizon =>
                Close(r.ending, was.ending + sum * months, Monthly(request, variable), was.horizon)
=============================================================================
