------------------------------ MODULE Reports -------------------------------
(***************************************************************************)
(* What the household is told of its bookings: the queries of reports.sql  *)
(* and transactions.sql, with the repository, the services and the         *)
(* listing's handler that call them.  A booking is a                       *)
(* record [id, household, day, amount, oneOff, counterparty, category,     *)
(* account], amounts in cents; counterparties and categories are numbered  *)
(* in the order of their names, 0 being none.  A transfer pair is          *)
(* [out, in, household, status], out and in being ids.                     *)
(*                                                                         *)
(* Each query has its own copy of the conditions in the source, so it has  *)
(* one here.  What a query orders is a sequence.                           *)
(***************************************************************************)
EXTENDS Calendar, Sequences, FiniteSetsExt, SequencesExt

CONSTANT EvidenceLimit      \* bookings an evidence lists, 50 in the code

\* The rows of one household in a period, both ends included.
InPeriod(txs, h, from, to) == {t \in txs : t.household = h /\ from <= t.day /\ t.day <= to}

\* Whether a booking is a leg of a confirmed pair of the household.
IsTransfer(t, pairs, h) ==
    \E p \in pairs : p.status = "confirmed" /\ p.household = h /\ t.id \in {p.out, p.in}

SumOf(S) == SumFunction([t \in S |-> t.amount])
Spent(S) == -SumOf(S)
Totals(S) == [income   |-> SumOf({t \in S : t.amount > 0}),
              expenses |-> Spent({t \in S : t.amount < 0}),
              net      |-> SumOf(S)]

\* S in an order, a set of pairs, one element after the other (SetToSortSeq sorts
\* through all sequences of S); in the order of Before; the first n of it; the
\* spending of S by a field.
Ranked(S, order) ==
    LET From[T \in SUBSET S] ==
            IF T = {} THEN <<>>
            ELSE LET first == CHOOSE x \in T : \A y \in T : <<y, x>> \notin order
                 IN  <<first>> \o From[T \ {first}]
    IN  From[S]
Sorted(S, Before(_, _)) == Ranked(S, {e \in S \X S : e[1] # e[2] /\ Before(e[1], e[2])})
TopOf(S, Before(_, _), n) == LET all == Sorted(S, Before)
                             IN  SubSeq(all, 1, Min({n, Len(all)}))
Most(a, b) == a.total > b.total \/ (a.total = b.total /\ a.name < b.name)
Grouped(S, field) ==
    LET Of(k) == {t \in S : t[field] = k}
    IN  {[name |-> k, total |-> Spent(Of(k)), count |-> Cardinality(Of(k))] : k \in {t[field] : t \in S}}

\* A record with the fields of two (the @@ of TLC, which tlapm does not unfold).
Joined(r, s) == [x \in (DOMAIN r) \cup (DOMAIN s) |-> IF x \in DOMAIN r THEN r[x] ELSE s[x]]

-----------------------------------------------------------------------------
(* Cashflow                                                                *)

GetCashflow(txs, h, from, to) == Totals(InPeriod(txs, h, from, to))

GetCashflowV2(txs, pairs, h, from, to) ==
    Totals({t \in InPeriod(txs, h, from, to) : ~t.oneOff /\ ~IsTransfer(t, pairs, h)})

ListAccountsInPeriod(txs, h, from, to) == {t.account : t \in InPeriod(txs, h, from, to)}

\* A pair is listed if one of its legs is in the period.
ListConfirmedTransferIDsInPeriod(txs, pairs, h, from, to) ==
    {p \in pairs : /\ p.household = h /\ p.status = "confirmed"
                   /\ \E t \in txs : t.id \in {p.out, p.in} /\ from <= t.day /\ t.day <= to}

ByDay(a, b) == a.day < b.day \/ (a.day = b.day /\ a.id < b.id)
ListCashflowV2TransactionIDs(txs, pairs, h, from, to, limit) ==
    TopOf({t \in InPeriod(txs, h, from, to) : ~t.oneOff /\ ~IsTransfer(t, pairs, h)}, ByDay, limit)

\* The set of the latest day, empty if there is no booking.
GetLatestBookingDate(txs, h) ==
    LET days == {t.day : t \in {u \in txs : u.household = h}}
    IN  {d \in days : \A e \in days : e <= d}

GetCashflowV2Evidence(txs, pairs, h, from, to) ==
    LET report == GetCashflowV2(txs, pairs, h, from, to)
    IN  Joined(report,
        [accounts   |-> ListAccountsInPeriod(txs, h, from, to),
         confidence |-> IF report.income = 0 /\ report.expenses = 0 THEN "medium" ELSE "high",
         freshness  |-> GetLatestBookingDate(txs, h),
         transfers  |-> ListConfirmedTransferIDsInPeriod(txs, pairs, h, from, to),
         bookings   |-> ListCashflowV2TransactionIDs(txs, pairs, h, from, to, EvidenceLimit)])

\* A row for each month with a booking that counts.
ListMonthlyCashflowV2(txs, pairs, h, from, to) ==
    LET rows == {t \in InPeriod(txs, h, from, to) : ~t.oneOff /\ ~IsTransfer(t, pairs, h)}
    IN  [m \in {MonthOf(t.day) : t \in rows} |-> Totals({t \in rows : MonthOf(t.day) = m})]

\* The months up to the one of the latest booking, 6 if the number makes no
\* sense and 12 at most.
MonthlyCashflow(txs, pairs, h, months) ==
    LET count == IF months < 2 THEN 6 ELSE Min({months, 12})
        Months(day) ==
            ListMonthlyCashflowV2(txs, pairs, h, MonthStart(MonthOf(day) - count + 1), day)
        latest == GetLatestBookingDate(txs, h)
    IN  IF latest = {} THEN <<>> ELSE Months(CHOOSE day \in latest : TRUE)

GetOneOffExpenseImpact(txs, h, from, to) ==
    LET rows == {t \in InPeriod(txs, h, from, to) : t.oneOff /\ t.amount < 0}
    IN  [count |-> Cardinality(rows), total |-> Spent(rows)]

\* The days of a period with spending; one-offs are part of the pace.
ListDailyExpensePace(txs, pairs, h, from, to) ==
    LET rows == {t \in InPeriod(txs, h, from, to) : t.amount < 0 /\ ~IsTransfer(t, pairs, h)}
    IN  [d \in {t.day : t \in rows} |->
            LET S == {t \in rows : t.day = d} IN [expenses |-> Spent(S), count |-> Cardinality(S)]]

-----------------------------------------------------------------------------
(* Spending by counterparty and category                                   *)

\* Neither transfers nor one-offs are left out here.
GetTopCounterparties(txs, h, from, to, limit) ==
    TopOf(Grouped({t \in InPeriod(txs, h, from, to) : t.amount < 0 /\ t.counterparty # 0}, "counterparty"),
          Most, limit)

\* Bug: the transfers are left out everywhere but in this query.
SpendWithTransfers(txs, pairs, h, from, to, limit) ==
    TopOf(Grouped({t \in InPeriod(txs, h, from, to) :
                      t.category # 0 /\ t.amount < 0 /\ ~t.oneOff}, "category"), Most, limit)
ListCategorySpendInPeriod(txs, pairs, h, from, to, limit) ==
    TopOf(Grouped({t \in InPeriod(txs, h, from, to) :
                      /\ t.category # 0 /\ t.amount < 0
                      /\ ~t.oneOff /\ ~IsTransfer(t, pairs, h)}, "category"), Most, limit)

ListMerchantSpendInCategoryPeriod(txs, pairs, h, from, to, category, limit) ==
    TopOf(Grouped({t \in InPeriod(txs, h, from, to) :
                      /\ t.category = category /\ t.amount < 0
                      /\ ~t.oneOff /\ ~IsTransfer(t, pairs, h)}, "counterparty"), Most, limit)

\* The categories that lead the period, month by month.
ListMonthlyCategorySpendInPeriod(txs, pairs, h, from, to, limit) ==
    LET rows == {t \in InPeriod(txs, h, from, to) :
                    /\ t.category # 0 /\ t.amount < 0
                    /\ ~t.oneOff /\ ~IsTransfer(t, pairs, h)}
        top  == {c.name : c \in ToSet(TopOf(Grouped(rows, "category"), Most, limit))}
    IN  Grouped({[t EXCEPT !.category = <<MonthOf(t.day), @>>] : t \in {r \in rows : r.category \in top}},
                "category")

\* The repository replaces a limit that is not given or too large.
Clamp(limit, default, most) == IF limit < 1 THEN default ELSE Min({limit, most})
ListCategorySpend(txs, pairs, h, from, to, limit) ==
    ListCategorySpendInPeriod(txs, pairs, h, from, to, Clamp(limit, 8, 50))
ListMerchantSpendInCategory(txs, pairs, h, from, to, category, limit) ==
    ListMerchantSpendInCategoryPeriod(txs, pairs, h, from, to, category, Clamp(limit, 8, 20))
ListMonthlyCategorySpend(txs, pairs, h, from, to, limit) ==
    ListMonthlyCategorySpendInPeriod(txs, pairs, h, from, to, Clamp(limit, 5, 12))

-----------------------------------------------------------------------------
(* Listings                                                                *)

\* A filter is a period, a range of amounts and the counterparties that the
\* prefix or the search text matches.
CountTransactionsFiltered(txs, h, f) ==
    Cardinality({t \in InPeriod(txs, h, f.from, f.to) :
                    t.counterparty \in f.matching /\ f.least <= t.amount /\ t.amount <= f.most})

\* Bookings that are equal in the field sorted by come in an order that the
\* database is free to choose for each query: tie ranks the ids.
ListTransactions(txs, h, f, sort, asc, tie, limit, offset) ==
    LET rows == {t \in InPeriod(txs, h, f.from, f.to) :
                    t.counterparty \in f.matching /\ f.least <= t.amount /\ t.amount <= f.most}
        Before(a, b) == IF a[sort] = b[sort] THEN tie[a.id] < tie[b.id]
                        ELSE IF asc THEN a[sort] < b[sort] ELSE a[sort] > b[sort]
        all  == Sorted(rows, Before)
    IN  SubSeq(all, offset + 1, Min({offset + limit, Len(all)}))

\* The total is counted by a query of its own.
List(txs, h, f, sort, asc, tie, limit, offset) ==
    [total        |-> CountTransactionsFiltered(txs, h, f),
     transactions |-> ListTransactions(txs, h, f, sort, asc, tie, limit, offset)]

\* GET /transactions: a request leaves numbers out (NotGiven) or has a limit, an
\* offset, a sort field; it is refused if one of them makes no sense.
NotGiven == -1
DefaultListLimit == 50
MaxListLimit == 200
\* Bug: the offset is taken for the number of the first row.
OffsetFromOne(p) ==
    [p EXCEPT !.limit = IF @ = NotGiven THEN 0 ELSE @, !.offset = IF @ = NotGiven THEN 0 ELSE @ - 1,
              !.sort = IF @ = "" THEN "day" ELSE @]
toListParams(p) ==
    [p EXCEPT !.limit = IF @ = NotGiven THEN 0 ELSE @, !.offset = IF @ = NotGiven THEN 0 ELSE @,
              !.sort = IF @ = "" THEN "day" ELSE @]
ValidListing(p) ==
    /\ p.limit <= MaxListLimit /\ p.offset >= 0
    /\ p.sort \in {"day", "amount", "counterparty"}
    /\ p.filter.least <= p.filter.most
GetTransactions(txs, h, request, tie) ==
    LET p     == toListParams(request)
        limit == IF p.limit <= 0 THEN DefaultListLimit ELSE p.limit
    IN  IF request.limit = 0 \/ ~ValidListing(p) THEN [ok |-> FALSE]
        ELSE Joined(List(txs, h, p.filter, p.sort, p.asc, tie, limit, p.offset),
                    [ok |-> TRUE, limit |-> limit, offset |-> p.offset])

\* What a filter leaves open is as wide as any booking.
Everything(from, to) == [from |-> from, to |-> to, matching |-> Nat, least |-> -1000000, most |-> 1000000]

\* Where equal rows may come in any order and none is asked for, that of the ids.
ById(rows) == [id \in {t.id : t \in rows} |-> id]

SetOneOff(txs, h, id, oneOff) ==
    {IF t.id = id /\ t.household = h THEN [t EXCEPT !.oneOff = oneOff] ELSE t : t \in txs}

=============================================================================
