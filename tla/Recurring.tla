----------------------------- MODULE Recurring -----------------------------
(***************************************************************************)
(* The recurring series of the households (internal/service/recurring.go)  *)
(* while imports add transactions, rollbacks remove them and users decide. *)
(*                                                                         *)
(* Scan reads transactions, members and transfer legs, detects candidates  *)
(* and stores each with statements of its own, outside a transaction.      *)
(* ListUncertain, the review inbox, scans first.  A series is known by its *)
(* fingerprint, pattern, sign and interval, and the unique index on it     *)
(* (migrations/00010) spans all households.                                *)
(***************************************************************************)
EXTENDS RecurringDetection

CONSTANTS
    Scanner,        \* concurrent calls of Scan or ListUncertain
    Household,
    Payment,        \* transactions that may be imported: [id, group, day,
                    \* household, file, transfer], transfer: may become a leg
    FirstDay,
    MaxDay          \* bounds of the calendar

ASSUME RecurringAssumption ==
    /\ FirstDay \in Nat /\ MaxDay \in Nat /\ FirstDay <= MaxDay
    /\ IsFiniteSet(Payment) /\ \A t \in Payment : t.id \in Nat /\ t.day \in Nat
    /\ \A s, t \in Payment : s.id = t.id => s = t

Fingerprint == Group \X {Specs[i].name : i \in DOMAIN Specs}

VARIABLES
    today,
    ledger,     \* the payments stored
    legs,       \* ids of those in a transfer pair
    series,     \* series[f]: the row with fingerprint f, or Unknown
    decided,    \* fingerprints a user confirmed or rejected
    scan        \* scan[p]: where the call is

vars == <<today, ledger, legs, series, decided, scan>>

Unknown == [status |-> "unknown"]
Idle == [at |-> "idle"]

Known(f) == series[f].status # "unknown"
\* The bookings of a series, as its page lists them.
Members(f) == IF Known(f) THEN series[f].members ELSE {}
Ids(txs) == {t.id : t \in txs}
StoredIds == Ids(ledger)

Init ==
    /\ today = FirstDay
    /\ ledger = {}
    /\ legs = {}
    /\ series = [f \in Fingerprint |-> Unknown]
    /\ decided = {}
    /\ scan = [p \in Scanner |-> Idle]

-----------------------------------------------------------------------------
(* The surroundings: the calendar, imports, rollbacks, transfer scans.     *)

NextDay ==
    /\ today < MaxDay
    /\ today' = today + 1
    /\ UNCHANGED <<ledger, legs, series, decided, scan>>

\* The payments of a file are stored, and rolled back, together.
InFile(n) == {t \in Payment : t.file = n}
Files == {t.file : t \in Payment}

CommitImport ==
    /\ \E n \in Files :
          /\ \A t \in InFile(n) : t.day <= today
          /\ InFile(n) \cap ledger = {}
          /\ ledger' = ledger \cup InFile(n)
    /\ UNCHANGED <<today, legs, series, decided, scan>>

\* Deleting a transaction cascades to its membership and its transfer pair.
Cascade(ids) ==
    [f \in Fingerprint |->
        IF Known(f) THEN [series[f] EXCEPT !.members = @ \ ids]
        ELSE series[f]]
CommitRollback ==
    /\ \E n \in Files :
          /\ InFile(n) \subseteq ledger
          /\ ledger' = ledger \ InFile(n)
          /\ legs' = legs \ Ids(InFile(n))
          /\ series' = Cascade(Ids(InFile(n)))
    /\ UNCHANGED <<today, decided, scan>>

PairPayment ==
    /\ \E t \in ledger : t.transfer /\ legs' = legs \cup {t.id}
    /\ UNCHANGED <<today, ledger, series, decided, scan>>

-----------------------------------------------------------------------------
(* Scan                                                                    *)

ListTransactionsForRecurringScan(h) == {t \in ledger : t.household = h}

ReadTransactions(p) ==
    /\ scan[p] = Idle
    /\ \E h \in Household :
          scan' = [scan EXCEPT ![p] =
            [at |-> "members", household |-> h,
             txs |-> ListTransactionsForRecurringScan(h)]]
    /\ UNCHANGED <<today, ledger, legs, series, decided>>

\* ListRecurringMemberTransactionIDs, of the household's series.
MembersOf(h) ==
    UNION {Members(f) : f \in {g \in Fingerprint :
                                  Known(g) /\ series[g].household = h}}

ReadMembers(p) ==
    /\ scan[p].at = "members"
    /\ scan' = [scan EXCEPT ![p] =
          [at |-> "legs", household |-> scan[p].household, txs |-> scan[p].txs,
           existing |-> MembersOf(scan[p].household)]]
    /\ UNCHANGED <<today, ledger, legs, series, decided>>

\* Fingerprints of the candidates that need a human look.
Offered(found) ==
    {found[i].fingerprint : i \in {j \in DOMAIN found :
                                      found[j].status = "uncertain"}}

\* The legs are read, which the detection skips like the members, and the
\* candidates are computed; todo holds those not stored yet, left the members
\* to add to the series of the last one stored; offered records what belongs
\* in the inbox.
DetectCandidates(p) ==
    /\ scan[p].at = "legs"
    /\ LET h     == scan[p].household
           found == DetectRecurringSeries(scan[p].txs, scan[p].existing \cup legs, today)
       IN  scan' = [scan EXCEPT ![p] =
             [at |-> "store", household |-> h, todo |-> found,
              into |-> <<>>, left |-> <<>>, offered |-> Offered(found)]]
    /\ UNCHANGED <<today, ledger, legs, series, decided>>

\* The row of a new series; its members follow one by one.
NewRow(c, h) ==
    [status |-> c.status, household |-> h, count |-> c.count, members |-> {}]
\* Bug: ON CONFLICT (fingerprint) DO UPDATE SET status.
UpsertSeries(c, h) ==
    IF Known(c.fingerprint) THEN [series[c.fingerprint] EXCEPT !.status = c.status]
    ELSE NewRow(c, h)
\* InsertRecurringSeries ... ON CONFLICT (fingerprint) DO NOTHING: a known
\* fingerprint ends with the candidate, its members unassigned.
StoredSeries(c, h) ==
    IF Known(c.fingerprint) THEN series[c.fingerprint] ELSE NewRow(c, h)
\* Bug: the row on which the insert conflicts is taken for the new one.
IntoAnySeries(c) == TRUE
Inserted(c) == ~Known(c.fingerprint)

\* Bug: the scan returns when a candidate is known.
StopAtKnown(todo, c) == IF Known(c.fingerprint) THEN <<>> ELSE Tail(todo)
Remaining(todo, c) == Tail(todo)

InsertSeries(p) ==
    /\ scan[p].at = "store"
    /\ scan[p].left = <<>> /\ scan[p].todo # <<>>
    /\ LET c == Head(scan[p].todo) IN
          /\ series' = [series EXCEPT ![c.fingerprint] =
                          StoredSeries(c, scan[p].household)]
          /\ scan' = [scan EXCEPT
                ![p].todo = Remaining(@, c),
                ![p].into = c.fingerprint,
                ![p].left = IF Inserted(c) THEN c.members ELSE <<>>]
    /\ UNCHANGED <<today, ledger, legs, decided>>

Assigned(id) == \E f \in Fingerprint : id \in Members(f)

\* Bug: ON CONFLICT (transaction_id) DO UPDATE SET series_id.
MoveMember(f, id) ==
    [g \in Fingerprint |->
        IF ~Known(g) THEN series[g]
        ELSE [series[g] EXCEPT
                !.members = IF g = f THEN @ \cup {id} ELSE @ \ {id}]]
\* Bug: a booking is unique within its series only.
AddAnyway(f, id) == [series EXCEPT ![f].members = @ \cup {id}]
\* InsertRecurringSeriesMember ... ON CONFLICT (transaction_id) DO NOTHING.
AddMember(f, id) ==
    IF Assigned(id) THEN series
    ELSE [series EXCEPT ![f].members = @ \cup {id}]

InsertMember(p) ==
    /\ scan[p].at = "store" /\ scan[p].left # <<>>
    /\ LET t == Head(scan[p].left) IN
          IF t.id \in StoredIds
          THEN /\ series' = AddMember(scan[p].into, t.id)
               /\ scan' = [scan EXCEPT ![p].left = Tail(@)]
          ELSE \* rolled back meanwhile: the foreign key fails, Scan returns
               /\ scan' = [scan EXCEPT ![p] = Idle]
               /\ UNCHANGED series
    /\ UNCHANGED <<today, ledger, legs, decided>>

EndScan(p) ==
    /\ scan[p].at = "store"
    /\ scan[p].left = <<>> /\ scan[p].todo = <<>>
    /\ scan' = [scan EXCEPT ![p] = Idle]
    /\ UNCHANGED <<today, ledger, legs, series, decided>>

\* A cancelled request or a crash between two statements.
AbandonScan(p) ==
    /\ scan[p] # Idle
    /\ scan' = [scan EXCEPT ![p] = Idle]
    /\ UNCHANGED <<today, ledger, legs, series, decided>>

-----------------------------------------------------------------------------
(* Confirm and Reject: one guarded UPDATE each.                            *)

\* Bug: the status is not in the WHERE clause.
AnyKnown(f) == Known(f)
Undecided(f) == series[f].status = "uncertain"
ConfirmRecurringSeries(f) == [series EXCEPT ![f].status = "active"]
RejectRecurringSeries(f) == [series EXCEPT ![f].status = "ended"]
Decide(f) ==
    /\ Undecided(f)
    /\ series' \in {ConfirmRecurringSeries(f), RejectRecurringSeries(f)}
    /\ decided' = decided \cup {f}
    /\ UNCHANGED <<today, ledger, legs, scan>>

ScanStep(p) ==
    \/ ReadTransactions(p) \/ ReadMembers(p) \/ DetectCandidates(p) \/ InsertSeries(p)
    \/ InsertMember(p) \/ EndScan(p) \/ AbandonScan(p)

Next ==
    \/ NextDay \/ CommitImport \/ CommitRollback \/ PairPayment
    \/ \E p \in Scanner : ScanStep(p)
    \/ \E f \in Fingerprint : Decide(f)

Spec == Init /\ [][Next]_vars

-----------------------------------------------------------------------------
(* Properties                                                              *)

\* Whoever scans and whatever the imports do meanwhile, a series only has
\* bookings that are stored, of its own pattern and of its own household,
\* and no booking is in two series.
MembersBelong ==
    \A f \in Fingerprint : \A id \in Members(f) :
        /\ \E t \in ledger : /\ t.id = id /\ t.group = f[1]
                             /\ t.household = series[f].household
        /\ \A g \in Fingerprint \ {f} : id \notin Members(g)

\* What a user decided about a series stands: no later scan puts it back in
\* the inbox, no other request overturns it.
VerdictStands ==
    [][\A f \in decided : series'[f].status = series[f].status]_vars

\* A booking stays in the series it is in until it is rolled back.
MembershipKept ==
    [][\A f \in Fingerprint : \A id \in Members(f) :
          id \in StoredIds' => id \in Members(f)']_vars

\* "Keep the inbox populated after imports without a separate scan step"
\* (recurring.go:154): once ListUncertain has scanned, every candidate it
\* found that needs a look is a series of the household and still uncertain,
\* unless a user decided about it.  (True for one household whose payments
\* do not lapse; a run of its own shows what a second household does to it.)
InboxPopulated ==
    [][\A p \in Scanner :
          /\ scan[p].at = "store" /\ scan[p].todo = <<>>
          /\ scan[p].left = <<>> /\ scan'[p] = Idle
          => \A f \in scan[p].offered :
                /\ Known(f) /\ series[f].household = scan[p].household
                /\ series[f].status = "uncertain" \/ f \in decided]_vars
=============================================================================
