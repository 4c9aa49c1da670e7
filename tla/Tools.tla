------------------------------- MODULE Tools --------------------------------
(***************************************************************************)
(* What the tools of the chat answer (internal/chat/tools) and what a      *)
(* money review finds (internal/review, service/money_review.go).  The     *)
(* arguments of a call are what the model wrote: a date or a month is a    *)
(* number, NotGiven or Malformed, a limit [form, n] of some JSON form.  A  *)
(* call that is refused answers [ok |-> FALSE].                            *)
(*                                                                         *)
(* Series have the fields of a projection's and changed, whether the last  *)
(* amount differs from the typical one, and doubtful, whether the          *)
(* detection was highly uncertain; their ids are in the order of names.    *)
(***************************************************************************)
EXTENDS HouseholdFigures

CONSTANTS
    LargeLimit,         \* bookings looked through for large ones, 20 in the code
    LargeMinimum,       \* what counts as large at least, 100 euro in the code
    MaxFindings         \* findings of a review, 3 in the code

Malformed == -2
Refusal == [ok |-> FALSE]

-----------------------------------------------------------------------------
(* Arguments                                                               *)

\* parseDateRange takes two dates in order.
ValidRange(a) == a.from >= 0 /\ a.from <= a.to

\* A whole number, a float that is whole and a text that holds a number are
\* taken; 0 is as bad as what is refused.
decodeLimitJSON(limit) == IF limit.form \in {"number", "float", "text"} THEN limit.n ELSE 0
parseOptionalLimit(limit, default) == IF limit.form = "none" THEN default ELSE decodeLimitJSON(limit)

\* The month a period is, if it is one: the tools link to its page.
yyyyMMIfCalendarMonth(from, to) == {m \in {MonthOf(from)} : from = MonthStart(m) /\ to = MonthEnd(m)}

calendarMonthBounds(m) == [from |-> MonthStart(m), to |-> MonthEnd(m)]
parseMonthOrRange(a) ==
    IF a.month # NotGiven
    THEN IF a.month = Malformed THEN Refusal
         ELSE Joined(calendarMonthBounds(a.month), [ok |-> TRUE, link |-> {a.month}])
    ELSE IF ~ValidRange(a) THEN Refusal
         ELSE [ok |-> TRUE, from |-> a.from, to |-> a.to, link |-> yyyyMMIfCalendarMonth(a.from, a.to)]

\* What a page of the console says of itself to the chat is checked like this.
ValidatePageContext(page) ==
    /\ Malformed \notin {page.month, page.from, page.to}
    /\ NotGiven \in {page.from, page.to} \/ page.from <= page.to

-----------------------------------------------------------------------------
(* Reports                                                                 *)

runCashflow(txs, h, a) ==
    IF ~ValidRange(a) THEN Refusal ELSE Joined(GetCashflow(txs, h, a.from, a.to), [ok |-> TRUE])

runCashflowV2(txs, pairs, h, a) ==
    IF ~ValidRange(a) THEN Refusal
    ELSE Joined(GetCashflowV2Evidence(txs, pairs, h, a.from, a.to), [ok |-> TRUE])

runMonthCashflow(txs, pairs, h, a) ==
    LET p == parseMonthOrRange(a)
    IN  IF ~p.ok THEN Refusal ELSE Joined(GetCashflowV2Evidence(txs, pairs, h, p.from, p.to), p)

runCounterparties(txs, h, a) ==
    LET limit == parseOptionalLimit(a.limit, 5)
    IN  IF ~ValidRange(a) \/ limit \notin 1 .. 20 THEN Refusal
        ELSE [ok |-> TRUE, counterparties |-> GetTopCounterparties(txs, h, a.from, a.to, limit)]

\* This limit is read as a JSON number and left to the repository to clamp.
runCategorySpend(txs, pairs, h, a) ==
    LET limit == IF a.limit.form = "none" THEN 8 ELSE a.limit.n
    IN  IF ~ValidRange(a) \/ a.limit.form \notin {"none", "number"} THEN Refusal
        ELSE [ok |-> TRUE, link |-> yyyyMMIfCalendarMonth(a.from, a.to),
              items |-> ListCategorySpend(txs, pairs, h, a.from, a.to, limit)]

runOneOffImpact(txs, h, a) ==
    IF ~ValidRange(a) THEN Refusal
    ELSE Joined(GetOneOffExpenseImpact(txs, h, a.from, a.to),
                [ok |-> TRUE, link |-> yyyyMMIfCalendarMonth(a.from, a.to)])

\* The text asked for is given by the counterparties it matches; the dates may
\* be left out.  The latest bookings come first.
runSearch(txs, h, a, tie) ==
    LET limit == parseOptionalLimit(a.limit, 10)
        from  == IF a.from = NotGiven THEN 0 ELSE a.from
        to    == IF a.to = NotGiven THEN 1000000 ELSE a.to
        filter == [Everything(from, to) EXCEPT !.matching = a.matching]
    IN  IF ~a.asked \/ limit \notin 1 .. 50 \/ Malformed \in {a.from, a.to} \/ from > to THEN Refusal
        ELSE Joined(List(txs, h, filter, "day", FALSE, tie, limit, 0), [ok |-> TRUE])

\* A period and the one of the same length before it.
runSpendingChanges(txs, pairs, h, a) ==
    LET from     == a.from
        to       == a.to
        before   == [from |-> from - (to - from + 1), to |-> from - 1]
        current  == GetCashflowV2(txs, pairs, h, from, to).expenses
        previous == GetCashflowV2(txs, pairs, h, before.from, before.to).expenses
        Earlier(name) ==
            LET rows == {r \in ToSet(GetTopCounterparties(txs, h, before.from, before.to, 10)) : r.name = name}
            IN  IF rows = {} THEN 0 ELSE (CHOOSE r \in rows : TRUE).total
    IN  IF ~ValidRange(a) THEN Refusal
        ELSE
        [ok |-> TRUE, period |-> before, current |-> current, previous |-> previous,
         delta |-> current - previous,
         movers |-> {[name |-> r.name, previous |-> Earlier(r.name), current |-> r.total] :
                        r \in {q \in ToSet(GetTopCounterparties(txs, h, from, to, 10)) :
                                  q.total # Earlier(q.name)}}]

-----------------------------------------------------------------------------
(* Recurring costs                                                         *)

\* The amount of a month in twelfths of a cent, with the sign of the booking.
MonthlyAmount(s) == CASE s.interval = "quarterly" -> 4 * s.amount
                      [] s.interval = "yearly"    -> s.amount
                      [] OTHER                    -> 12 * s.amount

\* The tools that tell of series scan for them first: what the scan leaves and
\* the listing after it shows, unless one of them fails.
Scanned(series) == [ok |-> TRUE, series |-> series]
ScanFailed == [ok |-> FALSE, series |-> {}]

\* The dates may be left out.
NoDates == [from |-> NotGiven, to |-> NotGiven]
runRecurringCosts(scan, a) ==
    LET costs == {s \in scan.series : s.status # "ended" /\ ~s.income}
        from  == IF a.from = NotGiven THEN 0 ELSE a.from
        to    == IF a.to = NotGiven THEN 1000000 ELSE a.to
    IN  IF ~ValidRange([from |-> from, to |-> to]) \/ ~scan.ok THEN Refusal ELSE
        [ok         |-> TRUE,
         series     |-> costs,
         total      |-> SumFunction([s \in costs |-> MonthlyAmount(s)]),
         confidence |-> IF \E s \in costs : s.status = "uncertain" \/ s.doubtful THEN "medium" ELSE "high"]

-----------------------------------------------------------------------------
(* Anomalies and money reviews                                             *)

\* Both look through the lowest amounts of the period.
Lowest(txs, h, from, to) ==
    ListTransactions(txs, h, Everything(from, to), "amount", TRUE, ById(txs), LargeLimit, 0)

\* In hundredths of a cent: 35 percent of the expenses, at least the minimum.
LargeExpenseThreshold(expenses) == Max({100 * LargeMinimum, 35 * Magnitude(expenses)})
IsLarge(t, expenses) == t.amount < 0 /\ -100 * t.amount >= LargeExpenseThreshold(expenses)

Finding(type, id) == [type |-> type, id |-> id]
Found(type, rows) == [i \in DOMAIN rows |-> Finding(type, rows[i].id)]

\* get_anomalies lists what it finds by the name of its type.  It finds nothing in
\* series if the scan fails, and no large expense if the bookings are not listed.
runAnomalies(txs, pairs, h, scan, listed, a) ==
    LET evidence == GetCashflowV2Evidence(txs, pairs, h, a.from, a.to)
        series   == IF scan.ok THEN scan.series ELSE {}
        live     == SelectSeq(Sorted(series, LAMBDA r, s : r.id < s.id), LAMBDA s : s.status # "ended")
        large    == SelectSeq(IF listed THEN Lowest(txs, h, a.from, a.to) ELSE <<>>,
                              LAMBDA t : evidence.expenses # 0 /\ IsLarge(t, evidence.expenses))
    IN  IF ~ValidRange(a) THEN Refusal
        ELSE [ok       |-> TRUE,
              findings |-> Found("large_expense", large)
                           \o Found("recurring_amount_change", SelectSeq(live, LAMBDA s : s.changed))
                           \o Found("uncertain_recurring", SelectSeq(live, LAMBDA s : s.status = "uncertain"))]

\* The review passes over the one-offs.
largeExpenses(txs, h, from, to, expenses) ==
    {t \in ToSet(Lowest(txs, h, from, to)) : ~t.oneOff /\ IsLarge(t, expenses)}

Priority == [free_cashflow_pressure |-> 1, recurring_amount_change |-> 2, large_expense |-> 3,
             uncertain_recurring |-> 4, needs_review_residue |-> 5]

Candidates(in) ==
    LET live == {s \in in.series : s.status # "ended"}
        About(type, S) == {Finding(type, x.id) : x \in S}
    IN  {f \in {Finding("free_cashflow_pressure", 0)} : in.free < 0}
        \cup About("recurring_amount_change", {s \in live : s.changed})
        \cup About("uncertain_recurring", {s \in live : s.status = "uncertain"})
        \cup About("large_expense", in.large)
        \cup {f \in {Finding("needs_review_residue", 0)} : in.waiting > 0}

\* Bug: the least pressing first.
LessPressing(f, g) == Priority[f.type] > Priority[g.type]
MorePressing(f, g) == Priority[f.type] < Priority[g.type]
\* The most pressing findings, those of one priority by their titles, whose
\* order as texts is given by the rank of what they are about.
Generate(in, title) ==
    LET Before(f, g) == MorePressing(f, g) \/ (f.type = g.type /\ title[f.id] < title[g.id])
    IN  TopOf(Candidates(in), Before, MaxFindings)

\* What waits for the household: suggested transfers, queued classifications,
\* uncertain series.
Uncertain(series) == {s \in series : s.status = "uncertain"}
Suggested(pairs, h) == {p \in pairs : p.household = h /\ p.status = "suggested"}
needsReviewCount(pairs, h, queue, series) ==
    Cardinality(Suggested(pairs, h)) + Cardinality(queue) + Cardinality(Uncertain(series))

\* get_needs_review_summary counts the same, after a scan.
runNeedsReviewSummary(pairs, h, queue, scan) ==
    LET total == Cardinality(Suggested(pairs, h)) + Cardinality(queue) + Cardinality(Uncertain(scan.series))
    IN  IF ~scan.ok THEN Refusal ELSE [ok |-> TRUE, total |-> total, empty |-> total = 0]

\* MoneyReviewService.Create for a baseline of a period, with the series stored:
\* a review does not scan.
CreateMoneyReview(baseline, txs, pairs, h, series, queue, title) ==
    LET evidence == GetCashflowV2Evidence(txs, pairs, h, baseline.from, baseline.to)
        in == [free    |-> baseline.free,
               series  |-> series,
               large   |-> largeExpenses(txs, h, baseline.from, baseline.to, evidence.expenses),
               waiting |-> needsReviewCount(pairs, h, queue, series)]
    IN  [from |-> baseline.from, to |-> baseline.to, status |-> "needs_confirmation",
         findings |-> Generate(in, title), freshness |-> evidence.freshness]

-----------------------------------------------------------------------------
(* What was stored before                                                  *)

\* A tool tells of the current baseline, the latest review (the last of the
\* list) and the latest forecast, or that there is none.
Shown(found) == IF found = {} THEN [ok |-> TRUE, available |-> FALSE]
                ELSE Joined(CHOOSE x \in found : TRUE, [ok |-> TRUE, available |-> TRUE])
runGetBaseline(current) == Shown(current)
runGetMoneyReview(reviews) == Shown(IF reviews = <<>> THEN {} ELSE {Last(reviews)})
runGetForecast(latest) ==
    Shown({[starting |-> f.balance, min |-> f.min, ending |-> f.ending, horizon |-> f.horizon,
            variable |-> f.includeVariable, uncertain |-> f.includeUncertain,
            disabled |-> Cardinality(f.disabled)] : f \in latest})
=============================================================================
