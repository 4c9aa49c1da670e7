-------------------------- MODULE HouseholdFigures --------------------------
(***************************************************************************)
(* What the services compose of the reports, the baseline and the          *)
(* projection: a baseline rests on the expenses of the reports, a forecast *)
(* on the baseline and the recurring series, a scenario on the stored      *)
(* forecast, the baseline it names and, once more, the series.             *)
(***************************************************************************)
EXTENDS Reports, BaselineFigures, Projection

\* BaselineService.compute: period is [from, to], or {} for the default one.
ComputeBaseline(txs, pairs, h, series, period, now) ==
    LET booked == GetLatestBookingDate(txs, h)
        latest == IF booked = {} THEN NoBooking ELSE Max(booked)
        p      == IF period = {} THEN DefaultPeriod(latest, now) ELSE CHOOSE q \in period : TRUE
    IN  Compute(p.from, p.to, series, GetCashflowV2(txs, pairs, h, p.from, p.to).expenses)

\* What is projected for a forecast: what is stored of it, the variable spend
\* of its baseline and the series as they are.
ForecastInput(artifact, variable, series) ==
    [balance |-> artifact.balance, start |-> artifact.created, horizon |-> artifact.horizon,
     series |-> series, variable |-> variable, disabled |-> artifact.disabled,
     includeVariable |-> artifact.includeVariable, includeUncertain |-> artifact.includeUncertain]

\* ForecastService.Create: the stored forecast, with the series it offers to
\* switch off.
CreateForecast(request, variable, series, now) ==
    LET asked == Joined([created |-> now,
                         horizon |-> IF request.horizon <= 0 THEN DefaultHorizonDays ELSE request.horizon],
                        request)
        options == {[id |-> s.id, enabled |-> s.id \notin request.disabled] :
                       s \in {r \in series : r.status # "ended"}}
    IN  Joined(Joined(Project(ForecastInput(asked, variable, series)), asked), [options |-> options])

\* ForecastService.RunScenario: the forecast is computed anew from what it
\* stores and from the series as they are now; a stored baseline never changes.
RunScenario(artifact, variable, series, kind, p) ==
    ApplyScenario(ForecastInput(artifact, variable, series), kind, p)
=============================================================================
