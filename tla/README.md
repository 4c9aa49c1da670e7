# A verification model of assetagent

assetagent is a personal-finance server. Households import the CSV statements of
their bank; the server stores the bookings, pairs transfers between own accounts,
groups regular payments, computes a financial baseline and a review from them,
projects the balance, and keeps the decisions the user takes. A browser console, a
command line and a chat whose tools call the same services are its clients. The
services are Go code over one PostgreSQL database; a request runs in a goroutine of
its own and the database is the only state requests share.

The modules here model those services as they interleave on that database: what is
one SQL transaction and what is several statements, what is read before and used
after, which `WHERE` clause guards an update and which does not, which unique index
stops a second writer. TLC checks them on small instances; TLAPS proves the central
results for every value of the constants.

Run a check with `tlc -config MCImport.cfg MCImport.tla`, a proof with
`tlapm ImportProofs.tla`.

## 1 The system

Paths are relative to the repository. "Statements" means that each SQL statement
commits on its own.

| Component | State it keeps | Operations | Granularity |
|---|---|---|---|
| Import service, `internal/service/import.go` | `accounts`, `import_runs`, `transactions` | ImportBytes, Rollback (PreviewBytes and lists read) | one transaction per call; Rollback reads the run before it |
| Transfers, `service/transfers.go`, `classify/transfers.go` | `transfer_pairs` | Scan, Confirm, Reject | statements |
| Recurring, `service/recurring.go`, `classify/recurring.go` | `recurring_series`, `recurring_series_members` | Scan, ListUncertain (scans first), Confirm, Reject | statements |
| Baselines, `service/baseline.go`, `finance/` | `financial_baselines`, `baseline_adjustments` | RecomputeAndSave, Adjust, Confirm, Current | one transaction per write; Adjust reads before it |
| Money reviews, `service/money_review.go`, `review/` | `money_reviews` | Create, Confirm | one transaction per write |
| Forecasts, scenarios, `service/forecast.go`, `forecast/` | `forecasts`, `scenarios` | Create, RunScenario | statements |
| Decisions, `service/decision.go`, `decisions/` | `decisions`, `actions` | Create, UpdateActionStatus | Create one transaction; the update a read and a statement |
| Merchants, `service/merchants.go` | `merchants`, `merchant_aliases` | Rebuild | statements |
| Classification, `service/classify.go`, `classify/pipeline.go` | `transaction_classifications`, `classification_rules` | Run, Correct, ApplySuggestions, rule import | statements |
| Login, `service/google_auth.go` | `users`, `auth_identities`, `households`, `household_memberships`, `oauth_login_states` | Start, Complete | statements |
| Sessions, `service/session.go` | `sessions` | Issue, Resolve (touch), Revoke | statements |
| Chat, `internal/chat`, `chat/tools`, `llm` | none between requests | a turn loop of LLM calls and tool calls, plain or streamed | in memory |
| Reports and listings, `repository/reports.go`, `service/list.go` | `transactions.is_one_off` | cashflows, spending, pace, listings; SetOneOff | one query each |
| Parser, HTTP handlers, CLI, console, telemetry | none | translation, presentation | |

How they meet:

- *Import → everything.* A rollback deletes transactions; `ON DELETE CASCADE` takes
  their transfer pairs, series memberships and classifications along. A scan that
  runs at that moment holds transactions which are gone, and its next insert meets a
  foreign key.
- *Transfers → recurring, reports.* Legs of pairs are left out of the recurring
  scan, confirmed pairs out of the cashflow.
- *Classification, recurring, transfers → baseline → review, forecast → decisions.*
  Each artifact is computed from the committed state of the one before and pinned to
  it by id; a baseline and a review have versions of which one is meant to be open.
- *Users against machinery.* Confirm and reject race scans and recomputations.

Hard behaviours, and the properties that make each component correct:

- **Import.** Files overlap, so two imports take the same unique-index entries in
  different orders (waits, deadlocks); a rollback commits between two rows of an
  import; a crash comes anywhere. Correct: counts and rows of a run agree, rows and
  their run appear and leave together, a run is rolled back once, no booking is
  dropped that nobody stored, everything that began ends.
- **Transfers.** Scans work on old snapshots, and nothing keeps two apart. Correct: pairs
  are real transfers, decisions stand, a scan that ends leaves no candidate; two pairs
  share a transaction, and excluding confirmed pairs moves the net, only where the scans
  that suggested them did not know of each other's pair.
- **Recurring.** The same, and a fingerprint that decides what is "known". Correct: a
  series holds stored bookings of its own household and pattern, verdicts and
  memberships stay, what needs a look reaches the inbox.
- **Baselines and reviews.** Supersede-then-insert under READ COMMITTED. Correct: never
  none open once there was one, one open and all corrections kept while requests do
  not overlap, superseded is final, confirmations are replaced and never lost.
- **Decisions.** Read-judge-update by id. Correct: `verified_at` agrees with the
  status, and a terminal status or a note is overwritten only by a request that did
  not see it.
- **Merchants, classification.** Multi-statement runs over a snapshot that stop in the
  middle. Correct: a correction is never overwritten by a run, merchants stay in
  their household, a run that ends has covered what it read.
- **Login, sessions.** Four inserts of a first login; touch against revoke. Correct:
  existing data is claimed by one user, an identity keeps its user, who has a session
  has a household, a revoked session stays revoked, no request moves the expiry of a
  session past its absolute end.
- **Chat.** A bounded loop of unreliable calls. Correct: it ends, with an answer or one
  error; every call has its result before the model is asked again; the calls run are
  those the model meant; what the catalog offers, its default among it, is served.
- **Reports, figures, tools.** Conditions copied from query to query, dates at the ends
  of months, rounding. Correct: what one page says, another one says too; a forecast
  counts what is due once and moves by its baseline's free cashflow.

`PROJECT.json` lists each hazard at its line, with the properties that cover it.

## 2 The modules

| Module | Models | Extends / uses |
|---|---|---|
| `Import` | the import service over several households | refines `Ledger` |
| `Ledger` | abstract: a file is posted, or a run reversed, in one step | |
| `TransferDetection` | `DetectTransferCandidates`, a pure algorithm | |
| `TransferList` | every list it may be given, a transaction per step, and what is to be found in it | `TransferDetection` |
| `Transfers` | scans and verdicts on transfer pairs, with imports and rollbacks | `TransferDetection` |
| `TransfersOverlap` | what each scan knows of the pairs on file, and what holds however many scans overlap | `Transfers` |
| `RecurringDetection` | `DetectRecurringSeries`, a pure algorithm | |
| `PaymentHistory` | every history of payments of one group, a payment per step, and what is to be found in it | `RecurringDetection` |
| `Recurring` | scans and verdicts on series of several households, with imports, rollbacks and transfer pairs | `RecurringDetection` |
| `Classification` | merchants, rules, runs, the inbox, corrections, suggestions of several households, with imports, rollbacks and transfer pairs | |
| `Planning` | the versions of baselines and reviews of one household | |
| `PlanningOverlap` | whether two requests have overlapped yet, and what holds until they do | `Planning` |
| `Decisions` | decisions and their actions | |
| `Access` | logins, households and sessions | |
| `Providers` | which provider and model serve a chat, which are offered | |
| `Chat` | one chat request, as a document or as a stream | `Providers` |
| `Calendar` | dates and rounding | |
| `BaselineFigures`, `Projection` | the numbers of a baseline; balance paths and scenarios | `Calendar` |
| `Reports` | the reports' queries and the listing | `Calendar` |
| `HouseholdFigures` | what the services compose of reports, baseline and projection | `Reports`, `BaselineFigures`, `Projection` |
| `Tools` | the chat's tools and the findings of a review | `HouseholdFigures` |
| `BookingReports` | any bookings and transfer pairs, one more per step, and what the reports are to say of them | `Tools` |
| `SeriesReports` | any recurring series, one more per step, and what baselines, forecasts and scenarios are to say of them | `Tools` |
| `ImportProofs`, `TransfersProofs`, `RecurringProofs`, `ClassificationProofs`, `PlanningProofs`, `HouseholdProofs`, `AccessProofs`, `ChatProofs` | theorems | the module they are named after (`PlanningProofs`: `PlanningOverlap`; `HouseholdProofs`: `BookingReports`, `SeriesReports` and `Decisions`; `TransfersProofs`: `TransfersOverlap` and `TransferList`; `RecurringProofs` also `PaymentHistory`) |
| `MCImport`, `MCTransfers`, `MCRecurring`, `MCClassification`, `MCPlanning`, `MCAccess`, `MCChat` | small instances | |
| `MCDetection`, `MCFigures`, `MCSeries`, `MCAlgorithms` | small instances of the detections, of the reports with the chat's tools, of the series, and the three together with the decisions | `TransferList`, `PaymentHistory`, `BookingReports`, `SeriesReports`, `Decisions` |

Definitions whose comment begins with *Bug:*, and operators that stand directly
before the definition they deviate from, are faults a change of the code could
introduce. Nothing refers to them; with one of them in the place of the definition
after it, a property fails. They show that each property depends on the code.

### Import

`account` maps order accounts to their owner, `status` is the column of
`import_runs`, `ledger` maps a fingerprint to the run whose row holds it: these three
are committed data. `stage` is the statement a call executes next. What an open
transaction has written and nobody else can see is `touched` (rows it inserted or
deleted) and `claim` (the account it created).

| Action | Code |
|---|---|
| BeginImport, RefuseImport | ImportBytes up to the transaction: empty file, preview hash, strict parse |
| LookupAccount | `GetAccountByID` or `GetAccountByOrderAccount` of the household |
| CreateAccount | `ensureAccount`: the insert under `accounts_order_account_unique`, waits for another creator, fails if that one commits |
| InsertTransactionIfNew | one row of the loop: waits for an uncommitted row of the fingerprint, then inserts or counts a duplicate |
| CommitImport | `UpdateImportRunCounts` and the commit |
| ReadRun | the read of the run outside the transaction of Rollback |
| DeleteRows, MarkRolledBack, CommitRollback | its delete, its guarded update of the status, its commit |
| Abort | cancelled request, lost connection, crash: the deferred `tx.Rollback` |
| DeadlockVictim | an Abort in a cycle of waits, named to state fairness |

An upload creates one run at most, so both share a name. A booking is its
fingerprint: what the parser makes of the text of a row is outside, except that a
file may be unreadable and that the order account of a row may be empty.

### Transfers and recurring series

Each statement of a scan is an action: read the transactions, read the legs (for series
the members first, then the legs) and detect, then one insert at a time. A foreign key
that fails ends the scan and leaves what it inserted. Confirm and Reject of a pair are a
read and a guarded update; those of a series are a single guarded update. `CommitImport`
and `CommitRollback` stand for the import service; the rollback cascades as the schema
says. `AbandonScan` is a cancelled request or a crash. `TransfersOverlap` adds two
history variables: `known`, the pairs that were on file when a scan read the legs and
those it inserted since, and `knew`, what the scan that suggested a pair knew of then.

The detections are operators with the loops of the code, each a function of the number
of turns taken: `Turns` is the outer loop of the pairing and `Consider` one turn of it,
`ChainFrom` the inner loop of `extractIntervalChain` with its running expectation.
`Listed` stands for the sorts. A transaction is reduced to what they look at: account,
day, amount and whether its texts sound like a transfer; or group (normalised label
and sign) and day.

### Classification

`ledger` holds the stored bookings, `alias` maps a merchant label to the household
whose merchant owns it, `rule` and `default` a merchant's rule and default category,
`patterns` a pattern to its rule, `class` is `transaction_classifications`. The text of
a booking is its label and the patterns it contains.

| Action | Code |
|---|---|
| StartRun, CreateMerchant, CreateMerchantAlias, Rebuilt | `Merchants.Rebuild`, with which every run begins: a merchant and its alias are two statements, an alias somebody else has ends the call |
| ReadRules, ReadTransfers, ReadTransactions, ClassifyNext | `Classifier.Run`: three readings, then one guarded upsert per booking, none over a `user_rule` row; a booking that was rolled back ends the run by its foreign key |
| ListQueue, SuggestCategories, ApplySuggestion | the inbox, which leaves one-offs out and shows `QueueLimit` rows, the largest first (100 in the code); the suggestions, with rules read anew; one upsert per suggestion, which asks nothing of the row |
| StartCorrection, FindLabels, ForceUpsert, FindRule, WriteRule, SetDefault | `Correct`: the booking, its siblings of the merchant when asked, the rule (ended by its foreign key if the booking was rolled back meanwhile) and the merchant's default, each on its own |
| ImportPatternRule | a row of a rule file |
| CommitImport, CommitRollback, ConfirmTransfer, SetOneOff | the other services |
| Abandon | a cancelled request or a crash between two statements |

### Access

`states`, `identity`, `households`, `members`, `sessions` are the tables, `users` counts
the users; `now` is the clock. A callback is redeemed, exchanged and either finds its
identity or makes a user, an identity (`ON CONFLICT` the user who is there is left), a
household (claimed if the data of before is unclaimed, else new) and a membership
before its session: `Redeem`, `Exchange`, `FindIdentity`, `CreateUser`,
`UpsertAuthIdentity`, `FindSeed`, `ClaimHousehold` (guarded), `CreateHousehold`,
`CreateMembership`, `IssueSession`. A request reads its session, judges it, moves its
expiry with an update guarded by `revoked_at IS NULL` alone and loads the household:
`ReadSession`, `JudgeSession`, `TouchSession`, `LoadUserHousehold`, `Logout`,
`DeleteExpiredSessions`. `CutOff` fails a call at any statement.

### Chat

`Open` resolves provider and model, `Ask` begins a turn, `ReadDelta`, `ReadPiece`,
`EndOpenRouter`, `EndOllama`, `SendEarly` are what a stream may bring, `Complete` a whole
answer; `StartTool`, `Execute`, `ShowResult` run one call; `BreakOff` is an error or the
HTTP client's time-out, `Leave` the client's going away, `ExceedTurns` the end of the
permitted turns. The pieces of several calls come mixed; a provider may cut them
short. A text is a count of deltas, JSON an object, another value or broken.

### Figures

`Reports`, `BaselineFigures`, `Projection`, `HouseholdFigures` and `Tools` are
operators: each query has its own copy of its conditions, as in `queries/reports.sql`.
Money is counted in cents or a fraction of one that the definition names, and rounded
where the code rounds; a year has 365 days; a counterparty or a category is the rank of
its name; where the database is free to order equal rows, or texts decide, the order is
an argument. A tool refuses a range or a failed scan where the code does; the chat's
tools have the series after a scan, the review the stored ones. `BookingReports` adds a
booking or a transfer pair per step, as `TransferList` and `PaymentHistory` do for the
detections, and states what the reports are to say of any of them; `SeriesReports` adds
a recurring series per step, or a day on which the household asks, and states what a
baseline, a forecast and a scenario are to say of any of those. `MCFigures` and
`MCSeries` bound them.

### Planning

One table of versions stands for `financial_baselines`, one for `money_reviews`;
a version is the rank of its transaction's start, which is what `created_at` holds.
A request reads (`Compute`, `ReadForAdjust`, `ReadForReview`), begins, takes the
snapshot of its UPDATE (`Snapshot`), locks and rechecks the rows one by one
(`SupersedeRow`, waiting where another transaction holds the row) and inserts and
commits (`InsertAndCommit`). Snapshot and recheck are separate because READ COMMITTED
separates them: a row committed between the two is out of the UPDATE's reach.
`corrected` remembers which metrics of a version a user corrected. `PlanningOverlap`
adds the history variable `alone`: no two requests have overlapped so far.

### Decisions

`GetAction` reads the row and judges the transition, `UpdateActionStatus` writes by
id what was computed from that reading. `CheckSource` and `InsertDecision` are Create:
the review or the scenario a decision rests on is read first, and is never deleted.

## 3 What the runs check

Every passing run explores its whole state space.

| Run | Instance | Checks |
|---|---|---|
| `import` | 2 uploads, 2 rollbacks, 2 households, 3 bookings, 4 files | counts agree with rows; one successful rollback; refinement of `Ledger`; every call that began a transaction ends |
| `transfers` | 3 transactions in 3 accounts, two scanners that may overlap, 2 deciders | real pairs; decisions stand; a scan that ends leaves no candidate; a leg is shared, and the net moved, only by pairs of scans that did not know of each other's |
| `recurring` | 2 scanners, 2 households with one payee, 5 payments in 3 files | members belong; verdicts stand; membership kept |
| `recurring_tenants` | as above, one scanner | **violated**: the second household's inbox stays empty |
| `classification` | 2 callers, 2 households with one payee, 3 bookings, one pattern, one crash | merchants stay in their household; a run that ends has covered what it read; corrections stand |
| `planning` | 2 requests, 3 versions of each artifact, 2 metrics | one open version and all corrections until requests overlap; however they do: superseded final, confirmations replaced only, no draft hides a confirmed baseline |
| `access` | 2 callers, 2 people, data of one household from before | data claimed once; a household for whoever has a session; identities and revocations stay; no expiry moves past the absolute end |
| `chat` | both providers, document and stream, 2 turns of up to 2 calls | every call answered before the next turn; one consistent story; the calls meant; what is offered, the default included, is served; every request ends |
| `chat_arguments` | as above | **violated**: a call with arguments that are no JSON ends the stream without result or error |
| `algorithms` | all lists of up to 4 transactions, histories of up to 5 payments, ledgers of up to 3 bookings with a transfer, sets of up to 2 series; 2 requests on a decision | both detections against independent definitions of their result; reports, baselines, forecasts, scenarios, tools and reviews against each other and against what they are to say; `verified_at` agrees with the status, only an unseen change is overwritten |
| `income_gap` | as above | **violated**: an income gap of some months changes the balance once less, and on a long horizon again a year later |
| `large_expenses` | as above | **violated**: a confirmed transfer is reported as a large expense |

Why the bounds are enough:

- *Import.* The files are `<<b1, b2>>`, `<<b2, b1, b2>>`, a file without order account
  and an unreadable one: opposite orders (deadlock), a repeated row (a duplicate
  within one file) and two accounts that tie for the primary one. Two uploads and two
  rollbacks give every pair of calls that can wait for each other and a cycle of
  three, and the theorems below cover any number. `InOrder` lets interchangeable calls
  begin in one order, the first for one household, lets only the first upload name an
  account and the second rollback miss its run only when the uploads have ended: the
  cases left out are those kept with the names exchanged, or a rollback that does
  nothing.
- *Transfers.* `t2` fits `t1` (three days earlier) and `t3` (one day later and exact by
  its text): a scan that sees both chooses `t3`, one whose snapshot lacks `t3` chooses
  `t1`, so two that overlap store two pairs that share `t2`, and both may be confirmed.
  A fourth transaction would add pairs that meet none of these; the theorems are about
  any number of transactions and scanners.
- *Recurring, detections.* Periods are scaled down to a few days with the same shape
  (tolerances that do not meet, fewer members needed): the loops compare differences
  of days with constants and the scale does not enter. In `recurring` a household's
  bookings make a short-interval or a long-interval series depending on which are
  visible, which is what overlapping scans disagree on; the second
  household's make one series only, so two scans of it do not overlap. `MaxVerdicts` is
  one verdict: no property relates those on two series.
- *Classification.* Two bookings of one merchant in two files, one of which a pattern
  matches, so a correction reaches a sibling, and a run may hold one that is rolled
  back; a payee shared with a second household. One caller opens inboxes of both
  households, the other corrects and applies; either the second or the third file is
  already gone. `QueueLimit` is one row, so that a queue is cut short as soon as both
  bookings wait in it, and one booking may be marked as a one-off, which
  the queue then leaves out. `MaxAbandoned` is one call cut off.
- *Planning.* Three versions: one to be superseded, one by each of two overlapping
  requests. `MaxVersions` bounds the transactions that may start; the theorems have
  no such bound in their argument.
- *Decisions.* Two requests on one action is the race; the theorems are about any number
  of decisions.
- *Access.* A behaviour has one of three budgets: three logins with one failure; three
  requests of one session while the clock moves four times; two logins whose states
  may expire. A state lives one tick, a session two idle and three in all, so each
  limit is met, from both sides, before the other.
- *Chat.* Two turns are one that calls tools and the last permitted one; two calls of
  three pieces each mix in every order; one delta tells content from none. The six
  configurations have an allowlist or none, a key or none, and a default model in
  the list, outside it, or missing.
- *Figures.* Two days on both sides of a month's end, amounts that cancel or do not,
  with and without category and counterparty, and a booking of another household:
  enough for one condition dropped from one query to show. Series are due in the
  past, today, on the 31st, in the middle of a month, or at no known date; periods
  and horizons are the default, a week, and a year. A scenario is run on a forecast made
  of the same series, or of one with another amount and day, as a scan may leave it.

Deadlock is checked in all passing runs but those whose instance really stops:
`algorithms` builds inputs and ends, the calendar of `recurring`, the versions of
`planning` and the budgets of `access` are bounded.

**Fairness.** Two properties are about progress. `CallsEnd` (import) assumes weak fairness
of each call's own steps (a goroutine with an enabled statement is scheduled and
PostgreSQL grants a free lock) and of `DeadlockVictim` (`deadlock_timeout` always
fires). `Ends` (chat) assumes weak fairness of `Serve`, the service's own steps, among
them `BreakOff`: both HTTP clients of the providers time out after five minutes
(`llm/ollama.go:14`, `openrouter.go:16`). Nothing is assumed of clients, crashes,
cancellations or of what a provider sends. All other properties are about safety.

## 4 What is proved

TLAPS checks these for any households, files, bookings, payments, series, labels, rules,
scanners, callers, people, requests, versions, decisions, notes, tools and turns.

- `ImportProofs`: type correctness, `CountsMatchRows`, `RowsHaveLiveRun`,
  `RolledBackOnce`, `MissingOnlyByRollback`, `RunAccountOwned`,
  `RowsLeaveWithTheirRun`, and `Refinement`: `Spec => ImplementsLedger`.
- `TransfersProofs`, for any number of scans that overlap: `OneVerdict`,
  `DecisionsStand`, `PairsAreTransfers`, `SharedOnlyUnknown`, `ScanLeavesNoCandidate`,
  `NetMovesByOverlap`. Of any list the detection may be given: `GreedyInListOrder`.
- `RecurringProofs`: `VerdictStands`, `MembershipKept`, `MembersBelong`. Of any history of
  payments and any intervals: `ChainsAreRegular`, `LongestFirst`.
- `ClassificationProofs`: `OwnMerchants`, `CorrectionStands`, `RunCovers`.
- `PlanningProofs`: type correctness, `NeverWithoutOpen`, `RowsHeldOnce`,
  `SupersededIsFinal`, `ConfirmedUntilReplaced`, `DraftNeverHidesConfirmed`,
  `OneOpenUntilOverlap`, `CorrectionsUntilOverlap`.
- `HouseholdProofs`: `ReportsAgree`; `BaselineExplains`, `ProjectionAddsUp`,
  `ScenarioAddsUp`; of decisions type correctness, `VerifiedIffOutcome`,
  `OverwritesOnlyUnseen`.
- `AccessProofs`: type correctness, `SeedClaimedOnce`, `IdentityKept`, `RevokedIsFinal`,
  `HouseholdUnlessCut`, `WithinLifetime`.
- `ChatProofs`: `OfferedIsServed`, `RequestsAreSound`, `CallsAsMeant`, `StoryTold`.

What a theorem states and the runs do not check again (type correctness,
`RowsHaveLiveRun`, `MissingOnlyByRollback`, `RunAccountOwned`,
`RowsLeaveWithTheirRun`, `NeverWithoutOpen`, `RowsHeldOnce`, `OneVerdict`) is proved
only.

Assumptions on the constants, each named in the module that declares them: finite sets
of bookings and payments, disjoint names of uploads and rollbacks, `None` outside the
sets it is told apart from, a positive number of versions, an empty note that is no
note, payments and transactions with distinct ids, days and ids that are numbers, a scan
order that lists every transaction, intervals with distinct names, non-negative figures
and two members at least (`classify/recurring.go:21` asks for three, three and two),
positive lifetimes, an allowlist without the empty name (`splitCommaList` drops it), a
page of 1 to 200 rows (`service/list.go:29`), a queue of one row at least and
transactions of distinct size, days and a limit of the evidence that are numbers, series
with an interval and a status of the code's, a cost of no positive amount, and the date
a series is expected on or none. No theorem has a hypothesis beyond these: none assumes
one scanner, or an idle time shorter than the absolute one.

*Import.* None of the invariants is inductive. What a commit publishes was gathered by
earlier steps, so `IInv` adds what open transactions hold: no two have touched one
booking (`RowLocks`); an upload at row *n* has counted exactly *n - 1* rows, its
inserted count is the size of what it holds, and each earlier row is held, stored, or
was rolled back (`UploadRows`); a rollback holds all rows of its run from the delete
to the commit, and at most one is about to commit (`UndoHolds`); accounts being
created are free and distinct (`Accounts`). The subtle case is a rollback that deletes
a row after an import has counted it as a duplicate: `Accounted` is the disjunction
that survives it, and the reason why `Ledger` lets a run leave out a booking that a
reversed run had. The refinement maps committed data to the abstract book; every
commit is a `Post` or a `Reverse` and every other step a stutter.

*Loops.* A loop of the code is a recursive function of its turns. `Recursion` shows that
such a function exists, by the least turn at which it would not (the natural numbers
are well-founded, so no induction principle over operators is needed), and `Induct`
carries a fact from turn to turn in the same way. With the two, what a detection
returns is proved from one turn of each of its loops (`ChainTurns`, `LongestTurns`,
`BestTurns`, `TurnsTaken`).

*Transfers.* Verdicts do not depend on the detection: a pair that a call decided is
decided still or has lost a leg for good (`DoneIsDecided`), and no pair with a deleted
leg has a row (`DeletedUnpaired`); hence a second call never finds it suggested again.
For the pairs, an induction on the turns of the detection (`Detected`) gives that
what it returns is compatible, disjoint, clear of the legs it was given, and leaves no
two compatible transactions unpaired. A scan then holds candidates of which each is a
transfer (`Proposed`). For overlapping scans the invariant is about what each knows: the
candidates it still holds share no leg with each other, nor with a pair it knows
(`Apart`), and of two compatible transactions of its list one is in a pair it knows or
still inserts (`Covered`). A pair that somebody knew is on file still, or has lost a leg
for good (`Histories`): since a deleted transaction never returns, no pair is suggested a
second time, and a scan that inserts a new pair knew none that share a leg with it.
The net is a sum over
the list of the stored transactions: a pair's two amounts cancel, and pairs that share
no leg are taken out one by one (`NetWithout`, `NetOfPairs`); so if the net moves, two
confirmed pairs share one. That the pairs are the
greedy ones compares the code's running best with a definition by sets: the partner a
turn keeps precedes every other one that is open (`BestPrecedes`), so after *i* turns
the pairs are what the definition asks for the first *i* transactions (`GreedyTurn`), and
no later turn opens a pair for an earlier one (`EarlierKeep`).

*Recurring.* Each step makes a row of the series table succeed the row before
(`Succeeds`): its status changes only from `uncertain`, its household never, and its
members only grow, but for those whose payments the step deletes. For `MembersBelong`
the detection is followed loop by loop: the sort returns members of its set
(`ListedMembers`), the chain of an interval is one of the group's own payments
(`LongestTyped`), so what the detection returns are candidates of the household
(`BuildFound`, `GroupFound`, `CandidatesFound`). What a scan carries from there
(`Carries`) is a list of such candidates and members for a row of its household,
however old the reading; the foreign key and the unique index do the rest.

That a series is regular and complete rests on one turn of the inner loop (`ReachedTurn`):
the chain so far takes the first payment that may follow each time, and none passed
since its last may; the break of the loop is right because days only grow
(`StillFurther`). Two chains that take the first follower each time are equal as far as
the shorter one reaches, so none that nothing may follow is the shorter (`NotLonger`);
hence the chain of the code has the length that the definition's recursion gives it
(`LengthUnfolds`, `LengthsFound`). The outer loop keeps the first of the longest
(`LongestComplete`), the loop over the intervals a series with the most members
(`BestHasMost`), and the sort gives the payments back in the order of their ids
(`PaidInOrder`).

*Classification.* An alias is never given to a second household, and every row that is
written takes its merchant from the aliases of the booking's own household (`Tied`);
neither depends on where the calls are. `RowStep` is what a step may do to a row. For
`RunCovers` each booking that a run has passed is covered or gone for good (`Reads`), and
a covered row stays so whichever other run or correction writes it (`CoveredStays`).

*Planning.* A transaction's version is reserved for it, and a row it holds is still open
and held by no other (`VersionsReserved`, `RowsHeldOnce`). So a commit overwrites
nothing but rows it holds, and leaves its own version open. While requests do not
overlap, the version an adjustment is computed from stays open (`BuildsOnOpen`) and an
UPDATE has all open rows before it or in its hands (`ReachesOpenRows`), so the one open
version is superseded by one that carries its corrections on. `OverlapIsSpec` shows
that the history variable takes no step away from `Planning`.

*Reports.* Nothing is needed of a state but that its bookings are typed, finite in number
and have ids of their own (`BooksInv`). The rest is about sums and lists. The sum of a
finite set is the sum over the parts it is split into, by any key (`SumParts`); tlapm
can use no induction theorem that takes an operator, so induction is stated of sets of
subsets (`FiniteInduct`), and the function by which a fold is defined is shown to exist
along the parts of a set. The list of a set in an order holds each member once
(`RankedLists`), so a list cut to its first entries is followed by what is left out, and
the categories, merchants, months and days of a report come to the whole, and to what
the other queries have for the same period. The pages of a listing may each be ordered
anew among equals; that every booking is on one page holds because two orders of rows
that differ in the field sorted by are the same.

*Series.* A baseline is a quotient of quotients, each rounded: `SumNear` adds up what the
terms of a sum are rounded by, and `BaselineHolds` bounds what is left after the last
quotient. The balances of a projection are computed by a recursion that takes the days
in halves; it is the path on which each day follows the one before (`HalvingIs`,
`PathUnique`). The dates of a series are those reached from the first one
(`ScheduledIs`); a day more has a date more for each series due on it (`DueCounts`), so
each balance of the path is the start and the flow of the series so far, but for half a
cent for each day (`PathNear`). Over a year, a series due as often as its interval says
brings twelve of the monthly amounts of the baseline, each rounded (`SeriesYear`), and
365 days cost less than twelve months of 30.44 days: together they bound how far the
forecast may be from twelve free cashflows (`YearAdds`). A scenario is computed as a
projection of its own from the balance and the day of the stored forecast and the series
of today, and compared with the path those series have (`StoredIs`, `OverlayIs`),
whatever they were when the forecast was made, by the exact balances both are near to. A
series it adds has an id that no series of the household has, so the flows of the two
sets add up (`OverlaidIs`), and two projections a flow apart are that far from each other
but for the rounding of both (`ApartClose`), each balance and so the lowest one
(`CloseBetween`, `MovedHolds`). The monthly steps of an income gap are yearly series that
are due once in less than a year, and the first one, which falls on the start, not at all
(`GapFlow`); what is proved is that each month that has begun counts, the first one or
not (`GapBounds`). Of a gap in a forecast of a year and more only the balance it is
compared with is proved: there the code counts it again a year later, which
`income_gap` shows. A one-off is another balance to begin with (`ShiftedApart`).

*Decisions.* A request's row satisfied the invariant when it was read, and from its
status the requested one is reachable; so even a lost update writes a row that agrees
with itself.

*Access.* A household of before that has, or is about to get, a member is claimed, and by
one login (`Claims`): between the guarded claim and the insert of the membership there
is a moment at which only the call knows of it. Whoever holds a user, an identity, a
session or a login about to issue one, has one with a household, or with a login still
on its way to give it one, or one whose login was cut off (`Homes`). The touch of a
session writes an expiry no later than the absolute end it read, which nothing moves
(`Lifetimes`); a session may be issued with a later one, if the idle time is configured
to be the longer, but no step ever gives it one.

*Chat.* The conversation only grows, and the calls still to run are those of its last
message without a result (`Told`). There is one entry for every call of which a piece
has arrived, and it holds just those pieces, in order (`Apart`), so a complete stream
leaves what was meant. What the client was told follows what the loop did, a start
before its result and nothing after the end (`Story`).

tlapm's encoding lets `DOMAIN f = 1..n` stand for `Len(f) = n` whatever `f` is; the
proofs were also checked with that axiom restricted to sequences.

Only model-checked: liveness (`CallsEnd`, `Ends`), which with `ENABLED` is out of the
prover's reach, and `ToolsAgree`, which is about ten different answers of the chat. What
the four runs that end in a violation check is false, and not proved.

## 5 Where code and words part

Four runs end in a violation of something the repository says. `PROJECT.json` quotes
the words; the traces are short:

1. `recurring_tenants`: the unique index on the fingerprint spans households, so the
   second tenant of one landlord has no series (`recurring.go:154`, "Keep the inbox
   populated after imports").
2. `large_expenses`: both legs of a confirmed transfer are in the listing that
   get_anomalies looks through, though its answer says they are excluded
   (`chat/tools/anomalies.go:171`).
3. `chat_arguments`: arguments that are no JSON cannot be written into the
   `tool_start` event, and the stream ends there (`chat/stream.go:117`).
4. `income_gap`: a gap of *n* months changes the balance *n - 1* times, since nothing is
   applied on the day of the start, and again a year later on a longer horizon, where
   the note says "for %d months" (`forecast/project.go:312`) and a comment "once"
   (`project.go:305`).

What follows is known from writing the modules and from TLC, without a run of its own:

- *Overlapping requests.* Two adjustments that read one version store drafts that each
  lack the other's correction (`baseline.go:136`, :157), and then two versions are
  open. Two requests that read `planned` store `done` and then `irrelevant`
  (`decision.go:286`; `decisions/status.go:21`, "terminal statuses are fixed"). Two
  overlapping scanners put one transaction into two pairs: only the pair is unique.
  ApplySuggestions overwrites a correction made since the suggestion was read. A
  request that overlaps with a later one may move the expiry of a session backwards.
- *Several households.* The fingerprint of a booking, the pattern of a rule, the alias
  of a merchant and the fingerprint of a series are unique over all of them: a
  household whose payee another one has gets no merchant, and its run of the
  classification fails there each time (`merchants.go:76`,
  `migrations/00007_merchants.sql:18`). The household made for a new user is not marked
  as claimed: where existing data may be claimed, the next new user joins it
  (`google_auth.go:261`), though `.env.example:17` speaks of the first login alone.
- *Crashes.* A login that ends between the identity and the membership leaves a user
  who can log in and whose every request is refused. A correction that ends early
  leaves the default category of a merchant and its rule apart.
- *Recurring.* A series first seen after it lapsed is `ended`, and payments that resume
  never show up (`recurring.go:101`; `classify/recurring.go:237`, "Fresh detections
  always need a human look").
- *Suggestions.* Without an overlap ApplySuggestions finds nothing to change, as the run
  it begins with has applied what it would (the comments at `classify.go:434` and :449
  expect otherwise).
- *Forecasts.* A goal date of today or before
  falls back to the balance after 90 days. A series due on the 31st runs over into
  March and stays there. The daily spend is rounded, by up to half a cent a day.
  A scenario starts at the time the database gave the forecast and uses the series as
  they are now, so its `baseline_min` may differ from the forecast's. An uncertain
  series counts in the baseline and, by default, not in the forecast.
- *Tools.* The movers of get_spending_changes include transfers and one-offs though
  `TransfersExcluded` is true, and a counterparty below the earlier ten counts as 0
  there. get_category_spend says 20 at most, the repository allows 50.
  get_needs_review_summary and get_anomalies scan before they look, the money review does
  not; a scan or a listing that fails is left out of the answer of get_anomalies without
  a word (`anomalies.go:88`, :126). Pages of
  a listing may repeat or skip rows that are equal in the field sorted by.
- *Chat.* A whole Ollama stream keeps only the message of its last chunk. A document
  reply with arguments that are no object is answered by a 500. A stream that ends
  without `[DONE]` counts as complete, and a call cut off after its name runs with
  `{}`. The tool calls of the last permitted turn are run before the request ends in
  `ErrMaxTurnsExceeded`.

## 6 Not modelled

- The statement parser, fingerprint hashing, the patterns that turn a counterparty into
  a label, titles, summaries and other wording: text without shared state, tested by
  example. `Import` has the parser's result, a file of bookings or a refusal.
- HTTP handlers, generated code, command line, configuration, console, telemetry, evals:
  they translate and call the services; their concurrency is the interleaving of calls
  in the modules. The handler of `GET /transactions` is in `Reports`, as it decides
  what a listing holds.
- Of the modelled components: PreviewBytes and the listings of runs; PatchMe and the
  profile of a user; cookies and the hashes of tokens; `Ping` and the labels of models;
  the tool suggest_review_categories; the listings of forecasts and
  `LatestForCurrentBaseline`.
- Household deletion: the code has none.

## 7 Plan

All components with state of their own are modelled. What is left, most important
first:

1. **Proofs** about the figure that is left: `ToolsAgree`.
2. **Liveness** of the classification in one household: a booking that stays gets a
   category, under fairness of the calls and of the inbox being opened.
3. **The rest of forecasts and tools**: the two reads of `LatestForCurrentBaseline`
   against a baseline that is replaced between them; suggest_review_categories.
