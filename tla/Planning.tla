------------------------------ MODULE Planning ------------------------------
(***************************************************************************)
(* The versioned artifacts of one household: financial baselines           *)
(* (internal/service/baseline.go) and the money reviews pinned to them     *)
(* (internal/service/money_review.go).                                     *)
(*                                                                         *)
(* Both tables keep every version as a row.  A new version is written by a *)
(* transaction of two statements: supersede every open row, insert the new *)
(* one.  No constraint says that at most one row is open, and PostgreSQL   *)
(* runs the transaction READ COMMITTED, so what the UPDATE reaches is      *)
(* fixed by its snapshot while it waits for the rows it wants to lock.     *)
(*                                                                         *)
(* A row is identified by the rank of its transaction's start, which is    *)
(* what the column created_at holds (now() is the time of BEGIN).          *)
(***************************************************************************)
EXTENDS Naturals, FiniteSetsExt

CONSTANTS
    Request,        \* concurrent requests (HTTP handlers, CLI, chat tools)
    Metric,         \* the metrics Adjust can correct
    Derived,        \* the one computed from the others (free cashflow)
    MaxVersions     \* bound: transactions started on each table

ASSUME PlanningAssumption ==
    /\ MaxVersions \in Nat \ {0}
    /\ Request # {}
    /\ Derived \in Metric

Table == {"baseline", "review"}
Version == 1 .. MaxVersions

Status == {"draft", "needs_confirmation", "confirmed", "superseded"}

\* The status the INSERT of a version stores it with.
InsertFinancialBaseline == "draft"
InsertMoneyReview == "needs_confirmation"
FirstStatus(t) ==
    IF t = "baseline" THEN InsertFinancialBaseline ELSE InsertMoneyReview
\* Bug: Confirm without the guard on the status.
ConfirmAnyStatus(t) == Status
\* The statuses the UPDATE of Confirm accepts.
ConfirmFinancialBaseline == {"draft"}
ConfirmMoneyReview == {"draft", "needs_confirmation"}
Confirmable(t) ==
    IF t = "baseline" THEN ConfirmFinancialBaseline ELSE ConfirmMoneyReview
\* Bug: the supersede statement forgets confirmed rows.
OpenUnconfirmed(t) == Confirmable(t)
\* The statuses it supersedes.
OpenStatus(t) == Confirmable(t) \cup {"confirmed"}

Absent == "absent"      \* not committed: no other transaction sees the row

VARIABLES
    status,      \* status[t][v] of the committed rows
    corrected,   \* corrected[b]: the metrics a user's correction stands in
    started,     \* started[t]: transactions begun on t
    call         \* call[p]: what request p has read and done

vars == <<status, corrected, started, call>>

Idle == [at |-> "idle"]
\* What is to be written: the metrics corrected in it, and the baseline it
\* was derived from (0: none).
Ready(t, metrics, base) ==
    [at |-> "ready", table |-> t, metrics |-> metrics, base |-> base]
\* seen: the rows the UPDATE's snapshot matched; held: those it has locked
\* and superseded so far.
InTx(c, at, v, rows) ==
    [at |-> at, table |-> c.table, metrics |-> c.metrics, base |-> c.base,
     version |-> v, seen |-> rows, held |-> {}]

InTransaction(p) == call[p].at \in {"open", "updating"}
Stored(t) == {v \in Version : status[t][v] # Absent}
OpenRows(t) == {v \in Version : status[t][v] \in OpenStatus(t)}

\* The row the transaction of p has updated, hence locks until it ends.
Locks(p, t, v) ==
    /\ call[p].at = "updating"
    /\ call[p].table = t
    /\ v \in call[p].held
Locked(t, v) == \E p \in Request : Locks(p, t, v)

\* Bug: no preference for a confirmed row.
NewestFirst(rows, best) == rows
\* GetCurrentFinancialBaseline: confirmed before draft, newest first; 0 when
\* no baseline is open.
Preferred(rows, best) == IF rows \cap best # {} THEN rows \cap best ELSE rows
Current ==
    LET confirmed == {v \in Version : status["baseline"][v] = "confirmed"}
    IN  IF OpenRows("baseline") = {} THEN 0
        ELSE Max(Preferred(OpenRows("baseline"), confirmed))

Init ==
    /\ status = [t \in Table |-> [v \in Version |-> Absent]]
    /\ corrected = [v \in Version |-> {}]
    /\ started = [t \in Table |-> 0]
    /\ call = [p \in Request |-> Idle]

-----------------------------------------------------------------------------
(* What a request reads before it opens its transaction.                   *)

\* RecomputeAndSave: computed from the ledger, no correction survives.
Compute(p) ==
    /\ call[p] = Idle
    /\ call' = [call EXCEPT ![p] = Ready("baseline", {}, 0)]
    /\ UNCHANGED <<status, corrected, started>>

\* applyMetricAdjustment: correcting any other metric recomputes the derived
\* one, and with that drops a correction made to it.
CorrectedAfter(metrics, m) ==
    IF m = Derived THEN metrics \cup {m} ELSE (metrics \ {Derived}) \cup {m}

\* Bug: any version may be adjusted, superseded ones included.
AdjustAnyVersion(b) == TRUE
\* Adjust: reads the version it corrects, refuses one that is not open.
Adjustable(b) == status["baseline"][b] \in {"draft", "confirmed"}
ReadForAdjust(p) ==
    /\ call[p] = Idle
    /\ \E b \in Stored("baseline"), m \in Metric :
          /\ Adjustable(b)
          /\ call' = [call EXCEPT ![p] =
                  Ready("baseline", CorrectedAfter(corrected[b], m), b)]
    /\ UNCHANGED <<status, corrected, started>>

\* MoneyReviewService.Create: generated from the baseline named, which may
\* have any status, or from the current one; refused without a baseline.
ReadForReview(p) ==
    /\ call[p] = Idle
    /\ \E b \in Stored("baseline") :
          call' = [call EXCEPT ![p] = Ready("review", {}, b)]
    /\ UNCHANGED <<status, corrected, started>>

-----------------------------------------------------------------------------
(* The transaction: BEGIN; supersede open rows; insert; COMMIT.            *)

Begin(p) ==
    /\ call[p].at = "ready"
    /\ LET t == call[p].table IN
          /\ started[t] < MaxVersions
          /\ started' = [started EXCEPT ![t] = @ + 1]
          /\ call' = [call EXCEPT ![p] = InTx(@, "open", started[t] + 1, {})]
    /\ UNCHANGED <<status, corrected>>

\* The UPDATE takes its snapshot: the committed rows that match.
Snapshot(p) ==
    /\ call[p].at = "open"
    /\ LET c == call[p] IN
          call' = [call EXCEPT ![p] =
                     InTx(c, "updating", c.version, OpenRows(c.table))]
    /\ UNCHANGED <<status, corrected, started>>

\* A row of the snapshot that somebody else changed meanwhile is tested
\* again before it is updated.
StillMatches(t, v) == status[t][v] \in OpenStatus(t)

\* One row of the UPDATE: waits for the row's lock, then supersedes it.
SupersedeRow(p) ==
    /\ call[p].at = "updating"
    /\ \E v \in call[p].seen :
          /\ ~Locked(call[p].table, v)
          /\ call' = [call EXCEPT
                ![p].seen = @ \ {v},
                ![p].held = IF StillMatches(call[p].table, v)
                            THEN @ \cup {v} ELSE @]
    /\ UNCHANGED <<status, corrected, started>>

\* Bug: the supersede statement commits on its own, and the insert of an
\* adjusted version then fails.
SupersedeAutocommits(c) ==
    [v \in Version |->
        IF v = c.version /\ c.metrics = {} THEN FirstStatus(c.table)
        ELSE IF v \in c.held THEN "superseded"
        ELSE status[c.table][v]]
\* The rows a commit writes: everything superseded, and the new version.
Written(c) ==
    [v \in Version |-> IF v = c.version THEN FirstStatus(c.table)
                       ELSE IF v \in c.held THEN "superseded"
                       ELSE status[c.table][v]]

\* The correction is recorded with the new baseline, whose metrics also carry
\* those of the version it was computed from.
InsertBaselineAdjustment(c) ==
    IF c.table = "baseline"
    THEN [corrected EXCEPT ![c.version] = c.metrics] ELSE corrected

InsertAndCommit(p) ==
    /\ call[p].at = "updating"
    /\ call[p].seen = {}
    /\ LET c == call[p] IN
          /\ status' = [status EXCEPT ![c.table] = Written(c)]
          /\ corrected' = InsertBaselineAdjustment(c)
    /\ call' = [call EXCEPT ![p] = Idle]
    /\ UNCHANGED started

\* The request is cancelled, the process dies or PostgreSQL picks the
\* transaction as a deadlock victim: the deferred Rollback undoes it.
Abort(p) ==
    /\ InTransaction(p)
    /\ call' = [call EXCEPT ![p] = Idle]
    /\ UNCHANGED <<status, corrected, started>>

\* Confirm: one guarded UPDATE, waiting for the row's lock.  A confirmed or
\* superseded row is left alone (answered idempotently, or refused).
Confirm(t, v) ==
    /\ ~Locked(t, v)
    /\ status[t][v] \in Confirmable(t)
    /\ status' = [status EXCEPT ![t][v] = "confirmed"]
    /\ UNCHANGED <<corrected, started, call>>

RequestStep(p) ==
    \/ Compute(p) \/ ReadForAdjust(p) \/ ReadForReview(p)
    \/ Begin(p) \/ Snapshot(p) \/ SupersedeRow(p)
    \/ InsertAndCommit(p) \/ Abort(p)

Next ==
    \/ \E p \in Request : RequestStep(p)
    \/ \E t \in Table, v \in Version : Confirm(t, v)

Spec == Init /\ [][Next]_vars

-----------------------------------------------------------------------------
(* Type invariant                                                          *)

ReadyCall ==
    [at : {"ready"}, table : Table, metrics : SUBSET Metric,
     base : 0 .. MaxVersions]
TransactionCall ==
    [at : {"open", "updating"}, table : Table, metrics : SUBSET Metric,
     base : 0 .. MaxVersions, version : Version,
     seen : SUBSET Version, held : SUBSET Version]

\* Every column holds a value its check constraint admits.
TypeOK ==
    /\ status \in [Table -> [Version -> Status \cup {Absent}]]
    /\ corrected \in [Version -> SUBSET Metric]
    /\ started \in [Table -> 0 .. MaxVersions]
    /\ call \in [Request -> {Idle} \cup ReadyCall \cup TransactionCall]

-----------------------------------------------------------------------------
(* What holds whatever the interleaving                                    *)

\* Once a version exists, some version is always open: superseding and
\* inserting commit together, so the household never loses its baseline (or
\* its review) to a request that fails half way.
NeverWithoutOpen ==
    \A t \in Table : Stored(t) # {} => OpenRows(t) # {}

\* A row is written by one transaction at a time: nobody changes a row that
\* another transaction has superseded and not yet committed.
RowsHeldOnce ==
    \A p, q \in Request, t \in Table, v \in Version :
        /\ Locks(p, t, v) => status[t][v] \in OpenStatus(t)
        /\ Locks(p, t, v) /\ Locks(q, t, v) => p = q

\* Superseded is final: no confirm, late or repeated, and no new version
\* reopens an old one.
SupersededIsFinal ==
    [][\A t \in Table, v \in Version :
          status[t][v] = "superseded" => status'[t][v] = "superseded"]_vars

\* A confirmation is withdrawn only by a version that replaces it: the step
\* that supersedes a confirmed row leaves a new, unconfirmed one.
ConfirmedUntilReplaced ==
    [][\A t \in Table, v \in Version :
          status[t][v] = "confirmed" /\ status'[t][v] # "confirmed"
             => \E w \in Version : /\ status[t][w] = Absent
                                   /\ status'[t][w] \in Confirmable(t)]_vars

\* Current prefers what the user confirmed: a confirmed current baseline
\* that stays confirmed gives way only to a newer one being confirmed, never
\* to a draft, however many drafts overlapping requests leave open.
DraftNeverHidesConfirmed ==
    [][Current # 0
         => \/ status["baseline"][Current] # "confirmed"
            \/ status'["baseline"][Current] # "confirmed"
            \/ Current' = Current
            \/ /\ Current' > Current
               /\ status["baseline"][Current'] = "draft"
               /\ status'["baseline"][Current'] = "confirmed"]_vars

\* RecomputeAndSave "supersedes prior open rows": when the household's
\* requests do not overlap, at most one version of each artifact is open.
\* (baseline.go:78.  Two that overlap leave two: the UPDATE of the later one
\* does not reach the row the earlier one has not committed yet.)
OneOpenVersion ==
    \A t \in Table :
        \A v, w \in Stored(t) :
            status[t][v] # "superseded" /\ status[t][w] # "superseded" => v = w

\* An adjustment builds on the version it supersedes: the corrections a
\* household made to its open baseline, the derived metric's aside, are all
\* in the version that an adjustment replaces it with (baseline.go:136, "a
\* new draft baseline with one corrected metric").
CarriesCorrections ==
    \A p \in Request :
        /\ call[p].at = "updating" /\ call'[p] = Idle
        /\ status' # status
        /\ call[p].table = "baseline" /\ call[p].base # 0
        => \A b \in call[p].held :
              corrected[b] \ {Derived} \subseteq corrected'[call[p].version]

=============================================================================
