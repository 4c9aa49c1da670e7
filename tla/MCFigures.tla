----------------------------- MODULE MCFigures ------------------------------
(***************************************************************************)
(* The reports over ledgers of at most MaxLedger bookings of two           *)
(* households with at most one transfer pair: each is checked against the  *)
(* others, and so are the tools of the chat and a money review.            *)
(***************************************************************************)
EXTENDS BookingReports

CONSTANTS MaxLedger

BookingDays == {30, 31}         \* the last of January and the first of February
BookingAmounts == {-120, -40, 120}
Counterparties == {0, 1}
Categories == {0, 1}

\* The first booking may lack a counterparty, the first two a category, or be one-offs.
Booking(id) ==
    [id : {id}, household : {1}, day : BookingDays, amount : IF id < 3 THEN BookingAmounts ELSE {-120, 120},
     oneOff : IF id < 3 THEN BOOLEAN ELSE {FALSE},
     counterparty : IF id = 1 THEN Counterparties ELSE {1},
     category : IF id < 3 THEN Categories ELSE {1}, account : {"giro"}]
Foreign(id) ==
    [id |-> id, household |-> 2, day |-> 30, amount |-> -120, oneOff |-> FALSE,
     counterparty |-> 1, category |-> 1, account |-> "bank"]
MCEntries == UNION {Booking(id) \cup {Foreign(id)} : id \in 1 .. MaxLedger}
MCPairs == [out : 1 .. MaxLedger, in : 1 .. MaxLedger, household : {1}, status : {"suggested", "confirmed"}]

\* Two orders of bookings that have the same rank otherwise.
Up == [id \in 0 .. MaxLedger |-> id]
Down == [id \in DOMAIN Up |-> -id]
MCTies == [k \in 0 .. MaxLedger |-> IF k % 2 = 0 THEN Up ELSE Down]

\* Bookings have the numbers from 1 on, in the order of their days and amounts;
\* the legs of the pair are an expense and an income of one amount.
Numbered == {t.id : t \in ledger} = 1 .. Cardinality(ledger)
Ordered ==
    \A t, u \in ledger : t.id < u.id => t.day < u.day \/ (t.day = u.day /\ t.amount <= u.amount)
Paired ==
    \A p \in pairs : \E out, in \in ledger :
        /\ p.out = out.id /\ p.in = in.id
        /\ out.household = 1 /\ in.household = 1 /\ out.amount = -in.amount /\ out.amount < 0

NextBooking ==
    /\ pairs = {} /\ Cardinality(ledger) < MaxLedger
    /\ AddBooking /\ Numbered' /\ Ordered'
NextPair ==
    /\ pairs = {}
    /\ AddPair /\ Paired'
ReportsNext == NextBooking \/ NextPair

-----------------------------------------------------------------------------
(* The chat's tools and the money review                                   *)

\* At most a cost of any status and an income, with what the detection may have
\* found of them.
Cost(status, changed) ==
    [id |-> 1, interval |-> "monthly", income |-> FALSE, status |-> status, amount |-> -90,
     next |-> 40, changed |-> changed, doubtful |-> FALSE]
Flagged == {Cost("active", TRUE), Cost("uncertain", TRUE), Cost("uncertain", FALSE), Cost("ended", TRUE)}
Income == [id |-> 2, interval |-> "yearly", income |-> TRUE, status |-> "uncertain", amount |-> 600,
           next |-> 40, changed |-> TRUE, doubtful |-> FALSE]
Lists == {{}, {Income}} \cup UNION {{{s}, {s, Income}} : s \in Flagged}
Asked(from, to) == [month |-> NotGiven, from |-> from, to |-> to, limit |-> [form |-> "none"]]

\* What a review may find stored while a scan leaves a list: the scan adds series,
\* ends or questions them, or changes nothing; if it fails, what was stored is.
StoredBefore(scan) ==
    IF scan.ok THEN {{}, scan.series, {[s EXCEPT !.status = "active"] : s \in scan.series}}
               ELSE {{}, {Cost("uncertain", TRUE), Income}}

\* A review names what the chat's get_anomalies finds in the period of its
\* baseline ("LargeExpenseThreshold matches chat get_anomalies",
\* review/findings.go), but for one-offs, and leaves a finding out only if it is
\* full of findings at least as pressing; what waits for the household is told of
\* or crowded out in the same way.  The chat scans first (chat/tools/anomalies.go)
\* and a review does not (service/money_review.go): they differ in nothing but the
\* series that the scan has changed.
ReviewMatchesChat(from, to) ==
    \A scan \in {Scanned(list) : list \in Lists} \cup {ScanFailed}, queue \in {{}, {1}} :
    \A stored \in StoredBefore(scan) :
        LET baseline == [from |-> from, to |-> to] @@
                        ComputeBaseline(ledger, pairs, 1, stored, {[from |-> from, to |-> to]}, 60)
            review   == CreateMoneyReview(baseline, ledger, pairs, 1, stored, queue, Up)
            shown    == ToSet(runGetMoneyReview(<<review>>).findings)
            oneOffs  == {Finding("large_expense", t.id) : t \in {u \in ledger : u.oneOff}}
            found    == ToSet(runAnomalies(ledger, pairs, 1, scan, TRUE, Asked(from, to)).findings) \ oneOffs
            summary  == runNeedsReviewSummary(pairs, 1, queue, scan)
            waiting  == {f \in {Finding("needs_review_residue", 0)} : summary.ok /\ ~summary.empty}
            pressure == {f \in {Finding("free_cashflow_pressure", 0)} : baseline.free < 0}
            changed  == (scan.series \ stored) \cup (stored \ scan.series)
            ofScan   == {Finding(type, s.id) : type \in {"recurring_amount_change", "uncertain_recurring"},
                                               s \in changed}
                        \cup {f \in {Finding("needs_review_residue", 0)} :
                                 ~scan.ok \/ Uncertain(scan.series) # Uncertain(stored)}
            all      == (found \cup waiting \cup pressure) \ ofScan
        IN  GetCashflowV2(ledger, pairs, 1, from, to).expenses # 0 =>
                /\ shown \ ofScan \subseteq all
                /\ Cardinality(shown) <= MaxFindings
                /\ \A f \in all \ shown : /\ Cardinality(shown) = MaxFindings
                                         /\ \A g \in shown : Priority[g.type] <= Priority[f.type]

\* The tools of the chat agree with each other: a month named, and the range it
\* is, have one answer, and only such a range links to the page of the month; a
\* search counts what it finds and shows the latest of it; the categories and the
\* one-offs of a period are none of the other; nothing is answered for a period
\* that ends before it begins, or a limit out of range, nor may a page ask for it.
ToolsAgree ==
    Cardinality(ledger) \in {1, 2} => \A from \in {0, 30, 31}, to \in {30, 58} :
        LET a      == Asked(from, to)
            v2     == runCashflowV2(ledger, pairs, 1, a)
            month  == runMonthCashflow(ledger, pairs, 1, a)
            spend  == runCategorySpend(ledger, pairs, 1, a)
            oneOff == runOneOffImpact(ledger, 1, a)
            Search(n) == runSearch(ledger, 1, [a EXCEPT !.limit = [form |-> "text", n |-> n]] @@
                                              [asked |-> TRUE, matching |-> {1}], Up)
        IN  /\ ValidatePageContext(a) => v2.ok
            /\ <<v2.ok, month.ok, spend.ok, oneOff.ok, Search(1).ok>> = [i \in 1 .. 5 |-> from <= to]
            /\ from <= to =>
                  /\ month.net = v2.net
                  /\ month.link # {} <=> from \in {0, 31} /\ to = (IF from = 0 THEN 30 ELSE 58)
                  /\ spend.link = month.link /\ oneOff.link = month.link
                  /\ \A m \in month.link :
                        runMonthCashflow(ledger, pairs, 1, [a EXCEPT !.month = m]).expenses = v2.expenses
                  /\ MapThenSumSet(LAMBDA c : c.total, ToSet(spend.items)) <= v2.expenses
                  /\ runCashflow(ledger, 1, a).expenses >= v2.expenses + oneOff.total
                  /\ ~Search(0).ok /\ Len(Search(1).transactions) = Min({1, Search(50).total})
                  /\ Len(Search(50).transactions) = Search(50).total
                  /\ from = 30 /\ to = 58 => ReviewMatchesChat(from, to)

-----------------------------------------------------------------------------
(* What the code says of the large expenses                                *)

\* A confirmed transfer is no large expense of the period ("Confirmed internal
\* transfers are excluded from the large-expense pool where cashflow v2
\* evidence is used", chat/tools/anomalies.go).
LargeExpensesAreSpending ==
    \A from \in BookingDays, to \in BookingDays :
        from <= to =>
            \A f \in ToSet(runAnomalies(ledger, pairs, 1, Scanned({}), TRUE, Asked(from, to)).findings) :
                \E t \in ledger : t.id = f.id /\ ~IsTransfer(t, pairs, 1)
=============================================================================
