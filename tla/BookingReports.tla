--------------------------- MODULE BookingReports ---------------------------
(***************************************************************************)
(* What the reports say of any bookings: the state is the bookings of some *)
(* households and the transfer pairs among them, and a step adds one of    *)
(* either.  What one household reads in one report is checked against what *)
(* it reads in the others.                                                 *)
(***************************************************************************)
EXTENDS Tools

CONSTANTS
    Entries,        \* the bookings there may be
    Pairs,          \* the transfer pairs there may be
    Reader,         \* the household whose reports are read
    ReportDays,     \* first and last days of periods
    PageLength,     \* bookings on a page of a listing
    Ties            \* Ties[k]: the order of equal rows when page k is read

ASSUME BookingAssumption ==
    /\ \A t \in Entries :
          t \in [id : Nat, household : Nat, day : Nat, amount : Int, oneOff : BOOLEAN,
                 counterparty : Nat, category : Nat, account : {t.account}]
    /\ ReportDays \subseteq Nat
    /\ EvidenceLimit \in Nat
    /\ PageLength \in 1 .. MaxListLimit

VARIABLES ledger, pairs      \* bookings and transfer pairs

books == <<ledger, pairs>>

BooksInit == ledger = {} /\ pairs = {}

AddBooking ==
    /\ \E t \in Entries : /\ \A u \in ledger : u.id # t.id
                          /\ ledger' = ledger \cup {t}
    /\ UNCHANGED pairs
AddPair ==
    /\ \E p \in Pairs : pairs' = pairs \cup {p}
    /\ UNCHANGED ledger

BooksNext == AddBooking \/ AddPair
BooksSpec == BooksInit /\ [][BooksNext]_books

-----------------------------------------------------------------------------
(* Properties                                                              *)

Mine(from, to) == InPeriod(ledger, Reader, from, to)
Cashflow(from, to) == GetCashflowV2Evidence(ledger, pairs, Reader, from, to)

\* The bookings of the transfers an evidence names; the spending of the cashflow.
Legs(from, to) ==
    {t \in Mine(from, to) : \E p \in Cashflow(from, to).transfers : t.id \in {p.out, p.in}}
Spending(from, to) == {t \in Mine(from, to) \ Legs(from, to) : t.amount < 0 /\ ~t.oneOff}

\* What the rows of a list, or of a set, come to.
TotalOf(rows) == SumFunction([i \in DOMAIN rows |-> rows[i].total])
TotalIn(S) == SumFunction([r \in S |-> r.total])
Names(rows) == {rows[i].name : i \in DOMAIN rows}

\* The months and the two halves of a period add up to its cashflow, the
\* bookings an evidence lists to its net, the cashflow and what it excludes,
\* one-offs and the transfers the evidence names, to the plain cashflow, the
\* days of the pace to the expenses and the one-offs.
CashflowAddsUp(from, to) ==
    LET mine   == Mine(from, to)
        legs   == Legs(from, to)
        v1     == GetCashflow(ledger, Reader, from, to)
        v2     == Cashflow(from, to)
        months == ListMonthlyCashflowV2(ledger, pairs, Reader, from, to)
        oneOff == GetOneOffExpenseImpact(ledger, Reader, from, to)
        pace   == ListDailyExpensePace(ledger, pairs, Reader, from, to)
    IN  /\ \A field \in {"income", "expenses", "net"} :
              /\ v2[field] = SumFunction([m \in DOMAIN months |-> months[m][field]])
              /\ \A day \in from .. to - 1 :
                    v2[field] = GetCashflowV2(ledger, pairs, Reader, from, day)[field]
                                + GetCashflowV2(ledger, pairs, Reader, day + 1, to)[field]
        /\ v2.net = v2.income - v2.expenses
        /\ Len(v2.bookings) < EvidenceLimit => v2.net = SumOf(ToSet(v2.bookings))
        /\ v1.net = v2.net + SumOf(legs \cup {t \in mine : t.oneOff})
        /\ v1.expenses = v2.expenses + oneOff.total + Spent({t \in legs : t.amount < 0 /\ ~t.oneOff})
        /\ SumFunction([d \in DOMAIN pace |-> pace[d].expenses])
              = v2.expenses + Spent({t \in mine \ legs : t.amount < 0 /\ t.oneOff})

\* The categories listed and what has none of them add up to the expenses, the
\* merchants listed of a category and what has none of them to the category; the
\* chart of the months shows the first five categories, each with all it has.
SpendingAddsUp(from, to) ==
    LET spending == Spending(from, to)
        spend    == ListCategorySpend(ledger, pairs, Reader, from, to, 0)
        inMonths == ListMonthlyCategorySpend(ledger, pairs, Reader, from, to, 0)
        Merchants(c) == ListMerchantSpendInCategory(ledger, pairs, Reader, from, to, c.name, 0)
    IN  /\ TotalOf(spend) + Spent({t \in spending : t.category \notin Names(spend)})
              = Cashflow(from, to).expenses
        /\ \A i \in DOMAIN spend :
              spend[i].total = TotalOf(Merchants(spend[i]))
                  + Spent({t \in spending : /\ t.category = spend[i].name
                                            /\ t.counterparty \notin Names(Merchants(spend[i]))})
        /\ {r.name[2] : r \in inMonths} = {spend[i].name : i \in 1 .. Min({5, Len(spend)})}
        /\ \A i \in 1 .. Min({5, Len(spend)}) :
              spend[i].total = TotalIn({r \in inMonths : r.name[2] = spend[i].name})

\* The period a change is told of and the one before it are as long and their
\* expenses add up to those of both; a booking marked as a one-off leaves the
\* net by exactly its amount; the expenses of a month are the variable spend of
\* a baseline without series.
SameExpenses(from, to) ==
    LET v2      == Cashflow(from, to)
        changes == runSpendingChanges(ledger, pairs, Reader, [from |-> from, to |-> to])
    IN  /\ changes.period.to - changes.period.from = to - from
        /\ changes.current = v2.expenses
        /\ changes.current + changes.previous
              = GetCashflowV2(ledger, pairs, Reader, changes.period.from, to).expenses
        /\ \A t \in Mine(from, to) :
              LET marked == SetOneOff(ledger, Reader, t.id, ~t.oneOff)
                  change == IF IsTransfer(t, pairs, Reader) THEN 0
                            ELSE IF t.oneOff THEN t.amount ELSE -t.amount
              IN  GetCashflowV2(marked, pairs, Reader, from, to).net = v2.net + change
        /\ inclusiveMonthSpan(from, to) = 100 =>
              ComputeBaseline(ledger, pairs, Reader, {}, {[from |-> from, to |-> to]}, 60).variable
                  = v2.expenses

\* A month is the same in the chart of the months and in the chat.
MonthsAgree ==
    LET rows == MonthlyCashflow(ledger, pairs, Reader, 0)
    IN  \A m \in DOMAIN rows : \A field \in {"income", "expenses", "net"} :
           rows[m][field] = runMonthCashflow(ledger, pairs, Reader, [month |-> m])[field]

\* Page k of a listing by amount, counted from 0.
Page(from, to, k) ==
    GetTransactions(ledger, Reader,
        [filter |-> Everything(from, to), sort |-> "amount", asc |-> FALSE, limit |-> PageLength,
         offset |-> IF k = 0 THEN NotGiven ELSE PageLength * k], Ties[k])

\* Pages that hold each of the bookings once, are no longer than asked for, and
\* each count them all.
PagesCover(pages, mine) ==
    LET Row(at) == pages[at[1]].transactions[at[2]]
        Places == {at \in (DOMAIN pages) \X (1 .. PageLength) : at[2] \in DOMAIN pages[at[1]].transactions}
    IN  /\ {Row(at) : at \in Places} = mine
        /\ \A a, b \in Places : Row(a) = Row(b) => a = b
        /\ \A k \in DOMAIN pages : /\ Len(pages[k].transactions) <= PageLength
                                   /\ pages[k].total = Cardinality(mine)

\* The pages of a listing, each sorted anew, hold every booking once, on the
\* page and at the place it has, if no two have the same amount.
ListingsCover ==
    \A from \in ReportDays, to \in ReportDays :
        LET mine == Mine(from, to)
        IN  (\A t, u \in mine : Magnitude(t.amount) <= 1000000 /\ (t.amount = u.amount => t = u))
            => PagesCover([k \in 0 .. Cardinality(mine) |-> Page(from, to, k)], mine)

\* The parts of a report add up to the whole, and the reports to each other, for
\* every period, and the pages of a listing to what is listed.  The conditions are
\* copied from query to query (reports.sql.go, transactions.sql.go); one that
\* differs makes two pages disagree.
ReportsAgree ==
    /\ \A from \in ReportDays, to \in ReportDays :
          from <= to => CashflowAddsUp(from, to) /\ SpendingAddsUp(from, to) /\ SameExpenses(from, to)
    /\ MonthsAgree
    /\ ListingsCover
=============================================================================
