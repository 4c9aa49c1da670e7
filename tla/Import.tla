------------------------------- MODULE Import -------------------------------
(***************************************************************************)
(* The import service (internal/service/import.go): calls of ImportBytes   *)
(* and Rollback that run at the same time, each in one READ COMMITTED      *)
(* PostgreSQL transaction, over accounts, import_runs and transactions.    *)
(*                                                                         *)
(* A booking is a fingerprint (internal/domain/fingerprint.go): two CSV    *)
(* rows with one fingerprint are one booking.  An upload creates at most   *)
(* one import run, so an upload and its run share a name.  What a call has *)
(* changed and not committed is in touched and claim; the other variables  *)
(* hold committed data or the locals of a call.                            *)
(***************************************************************************)
EXTENDS Naturals, Sequences, FiniteSets

CONSTANTS
    Household,  \* households that call the service
    Booking,    \* fingerprints of CSV rows
    OrderOf,    \* the order account of a booking, 0 for an empty column
    File,       \* the CSV files that may be uploaded; a file is its own hash
    RowsOf,     \* the bookings of a file, in file order
    Unreadable, \* files the empty check or the strict parser refuses
    Upload,     \* calls of ImportBytes, and the import runs they create
    Undo,       \* calls of Rollback
    None        \* SQL NULL, uuid.Nil, an empty option

Call == Upload \cup Undo

ASSUME BookingAssumption ==
    /\ IsFiniteSet(Booking)
    /\ OrderOf \in [Booking -> Nat]
    /\ RowsOf \in [File -> Seq(Booking)]
    /\ Unreadable \subseteq File

ASSUME CallAssumption ==
    /\ Upload \cap Undo = {}
    /\ None \notin Upload \cup Household \cup File \cup Nat

VARIABLES
    account,   \* order account -> the household that owns it, or None
    status,    \* import run -> status; "none" before its upload commits
    ledger,    \* booking -> the run whose row holds it, or None
    stage,     \* call -> the statement it executes next, or how it ended
    household, \* call -> the household of its context
    file,      \* upload -> the file it was given
    acct,      \* upload -> opts.AccountID at first, then the account of the run
    next,      \* upload -> position of the next CSV row
    inserted,  \* upload -> row_inserted
    duplicate, \* upload -> row_duplicate
    target,    \* rollback -> the import run to undo
    touched,   \* call -> bookings it inserted or deleted and did not commit
    claim      \* upload -> the order account it created and did not commit

committed == <<account, status, ledger>>
locals == <<household, file, acct, next, inserted, duplicate, target>>
vars == <<committed, stage, locals, touched, claim>>

OrderAccount == {OrderOf[b] : b \in Booking} \ {0}
BookingsOf(f) == {RowsOf[f][i] : i \in DOMAIN RowsOf[f]}
\* DELETE FROM transactions WHERE import_run_id = r finds these.
Owned(r) == {b \in Booking : ledger[b] = r}

InTransaction == {"lookup", "create", "rows", "delete", "mark", "commit"}
Ended == {"done", "failed", "not_found", "already"}

TypeOK ==
    /\ account \in [OrderAccount -> Household \cup {None}]
    /\ status \in [Upload -> {"none", "committed", "rolled_back"}]
    /\ ledger \in [Booking -> Upload \cup {None}]
    /\ stage \in [Call -> {"idle"} \cup InTransaction \cup Ended]
    /\ household \in [Call -> Household \cup {None}]
    /\ file \in [Upload -> File \cup {None}]
    /\ acct \in [Upload -> OrderAccount \cup {0, None}]
    /\ next \in [Upload -> Nat]
    /\ inserted \in [Upload -> Nat]
    /\ duplicate \in [Upload -> Nat]
    /\ target \in [Undo -> Upload \cup {None}]
    /\ touched \in [Call -> SUBSET Booking]
    /\ claim \in [Upload -> OrderAccount \cup {None}]

Init ==
    /\ account = [o \in OrderAccount |-> None]
    /\ status = [p \in Upload |-> "none"]
    /\ ledger = [b \in Booking |-> None]
    /\ stage = [c \in Call |-> "idle"]
    /\ household = [c \in Call |-> None]
    /\ file = [p \in Upload |-> None]
    /\ acct = [p \in Upload |-> None]
    /\ next = [p \in Upload |-> 1]
    /\ inserted = [p \in Upload |-> 0]
    /\ duplicate = [p \in Upload |-> 0]
    /\ target = [q \in Undo |-> None]
    /\ touched = [c \in Call |-> {}]
    /\ claim = [p \in Upload |-> None]

-----------------------------------------------------------------------------
(* Locks PostgreSQL holds until the end of a transaction.                  *)

\* Another open transaction has inserted or deleted the row of booking b.
LockedByOther(c, b) == \E d \in Call \ {c} : b \in touched[d]

\* Another open transaction has inserted the account of order account o.
ClaimedByOther(p, o) == \E d \in Upload \ {p} : claim[d] = o

\* Another open transaction has updated the import run r.
MarkedByOther(q, r) == \E d \in Undo \ {q} : stage[d] = "commit" /\ target[d] = r

-----------------------------------------------------------------------------
(* ImportBytes and commitTransactions.                                     *)

Votes(f, o) == Cardinality({i \in DOMAIN RowsOf[f] : OrderOf[RowsOf[f][i]] = o})

\* The most frequent order account of the rows, the smallest one on a tie, 0
\* when every row leaves the column empty.
PrimaryOrderAccount(f) ==
    LET named == {OrderOf[b] : b \in BookingsOf(f)} \ {0}
    IN  IF named = {} THEN 0
        ELSE CHOOSE o \in named : \A x \in named :
                 \/ Votes(f, x) < Votes(f, o)
                 \/ Votes(f, x) = Votes(f, o) /\ o <= x

\* The transaction ends without effect (the deferred tx.Rollback).
KeepTransactionOpen(c) == UNCHANGED <<committed, locals, touched, claim>>
Forget(c) ==
    /\ touched' = [touched EXCEPT ![c] = {}]
    /\ claim' = [p \in Upload |-> IF p = c THEN None ELSE claim[p]]
    /\ UNCHANGED <<committed, locals>>

\* ImportBytes goes on to the database only with a readable file that is the
\* previewed one, if the caller names one.
Acceptable(f, previewHash) == previewHash \in {None, f} /\ f \notin Unreadable

BeginImport(p, h, f, previewHash, accountID) ==
    /\ stage[p] = "idle"
    /\ Acceptable(f, previewHash)
    /\ stage' = [stage EXCEPT ![p] = "lookup"]
    /\ household' = [household EXCEPT ![p] = h]
    /\ file' = [file EXCEPT ![p] = f]
    /\ acct' = [acct EXCEPT ![p] = accountID]
    /\ UNCHANGED <<committed, next, inserted, duplicate, target, touched, claim>>

RefuseImport(p, f, previewHash) ==
    /\ stage[p] = "idle"
    /\ ~Acceptable(f, previewHash)
    /\ stage' = [stage EXCEPT ![p] = "failed"]
    /\ UNCHANGED <<committed, locals, touched, claim>>

\* GetAccountByID, GetAccountByOrderAccount: an account of order account o is
\* committed, and the household's.
AccountVisible(p, o) == o \in OrderAccount /\ account[o] = household[p]

LookupAccount(p) ==
    LET o == IF acct[p] # None THEN acct[p] ELSE PrimaryOrderAccount(file[p])
    IN  /\ stage[p] = "lookup"
        /\ \/ /\ AccountVisible(p, o)
              /\ stage' = [stage EXCEPT ![p] = "rows"]
              /\ acct' = [acct EXCEPT ![p] = o]
           \/ /\ ~AccountVisible(p, o)
              /\ stage' = [stage EXCEPT ![p] = IF acct[p] = None THEN "create" ELSE "failed"]
              /\ acct' = acct
        /\ UNCHANGED <<committed, household, file, next, inserted, duplicate,
                       target, touched, claim>>

\* accounts_order_account_unique lets an account of order account o in.
OrderAccountFree(o) == o \in OrderAccount => account[o] = None

\* An empty order account is stored as NULL, and NULLs are never equal.
OrderAccountColumn(o) == IF o = 0 THEN None ELSE o

\* INSERT INTO accounts: the new account is the household's once the call commits.
InsertAccount(p, o) ==
    /\ acct' = [acct EXCEPT ![p] = o]
    /\ claim' = [claim EXCEPT ![p] = OrderAccountColumn(o)]

\* order_account is unique over all households: a second creator waits for
\* the first, and fails if it commits.  An account without order account is
\* always new.
CreateAccount(p) ==
    LET o == PrimaryOrderAccount(file[p])
    IN  /\ stage[p] = "create"
        /\ ~ClaimedByOther(p, o)
        /\ \/ /\ OrderAccountFree(o)
              /\ stage' = [stage EXCEPT ![p] = "rows"]
              /\ InsertAccount(p, o)
           \/ /\ ~OrderAccountFree(o)
              /\ stage' = [stage EXCEPT ![p] = "failed"]
              /\ UNCHANGED <<acct, claim>>
        /\ UNCHANGED <<committed, household, file, next, inserted, duplicate,
                       target, touched>>

AllRowsRead(p) == next[p] > Len(RowsOf[file[p]])

\* ON CONFLICT (fingerprint): a row has the fingerprint, of whichever household.
FingerprintTaken(p, b) == ledger[b] # None \/ b \in touched[p]

\* INSERT ... ON CONFLICT (fingerprint) DO NOTHING waits for an open
\* transaction that holds the fingerprint, then inserts or counts a duplicate.
InsertTransactionIfNew(p) ==
    LET b == RowsOf[file[p]][next[p]]
    IN  /\ stage[p] = "rows"
        /\ ~AllRowsRead(p)
        /\ ~LockedByOther(p, b)
        /\ \/ /\ ~FingerprintTaken(p, b)
              /\ touched' = [touched EXCEPT ![p] = @ \cup {b}]
              /\ inserted' = [inserted EXCEPT ![p] = @ + 1]
              /\ duplicate' = duplicate
           \/ /\ FingerprintTaken(p, b)
              /\ duplicate' = [duplicate EXCEPT ![p] = @ + 1]
              /\ UNCHANGED <<touched, inserted>>
        /\ next' = [next EXCEPT ![p] = @ + 1]
        /\ UNCHANGED <<committed, stage, household, file, acct, target, claim>>

\* INSERT INTO import_runs wrote the run as committed before the rows; nobody sees
\* it before the commit.
PublishRun(p) == status' = [status EXCEPT ![p] = "committed"]

\* UpdateImportRunCounts and the commit: the run, its rows and a new account
\* become visible together.
CommitImport(p) ==
    /\ stage[p] = "rows"
    /\ AllRowsRead(p)
    /\ ledger' = [b \in Booking |-> IF b \in touched[p] THEN p ELSE ledger[b]]
    /\ account' = [o \in OrderAccount |-> IF o = claim[p] THEN household[p] ELSE account[o]]
    /\ PublishRun(p)
    /\ stage' = [stage EXCEPT ![p] = "done"]
    /\ touched' = [touched EXCEPT ![p] = {}]
    /\ claim' = [claim EXCEPT ![p] = None]
    /\ UNCHANGED locals

-----------------------------------------------------------------------------
(* Rollback.                                                               *)

\* A run of the household, rolled back or not.
GetImportRun(h, r) == status[r] # "none" /\ household[r] = h

\* The run is read outside the transaction: what it says may be stale at the
\* next step.
ReadRun(q, h, r) ==
    /\ stage[q] = "idle"
    /\ stage' = [stage EXCEPT ![q] =
           IF ~GetImportRun(h, r) THEN "not_found"
           ELSE IF status[r] = "rolled_back" THEN "already"
           ELSE "delete"]
    /\ household' = [household EXCEPT ![q] = h]
    /\ target' = [target EXCEPT ![q] = r]
    /\ UNCHANGED <<committed, file, acct, next, inserted, duplicate, touched, claim>>

\* The delete waits for a transaction that has deleted rows of the run.
DeleteByFile(q) ==
    /\ stage[q] = "delete"
    /\ touched' = [touched EXCEPT ![q] = BookingsOf(file[target[q]])]
    /\ stage' = [stage EXCEPT ![q] = "mark"]
    /\ UNCHANGED <<committed, locals, claim>>
DeleteRows(q) ==
    /\ stage[q] = "delete"
    /\ \A b \in Owned(target[q]) : ~LockedByOther(q, b)
    /\ touched' = [touched EXCEPT ![q] = Owned(target[q])]
    /\ stage' = [stage EXCEPT ![q] = "mark"]
    /\ UNCHANGED <<committed, locals, claim>>

\* UPDATE import_runs ... WHERE status = 'committed' finds the run.
Undoable(r) == status[r] = "committed"

\* UPDATE ... WHERE status = 'committed' waits for a transaction that has
\* updated the run; when it finds no row the call gives up its transaction.
MarkUnguarded(q) ==
    /\ stage[q] = "mark"
    /\ stage' = [stage EXCEPT ![q] = "commit"]
    /\ UNCHANGED <<committed, locals, touched, claim>>
MarkRolledBack(q) ==
    /\ stage[q] = "mark"
    /\ ~MarkedByOther(q, target[q])
    /\ \/ /\ Undoable(target[q])
          /\ stage' = [stage EXCEPT ![q] = "commit"]
          /\ UNCHANGED <<committed, locals, touched, claim>>
       \/ /\ ~Undoable(target[q])
          /\ stage' = [stage EXCEPT ![q] = "already"]
          /\ Forget(q)

CommitRollback(q) ==
    /\ stage[q] = "commit"
    /\ ledger' = [b \in Booking |-> IF b \in touched[q] THEN None ELSE ledger[b]]
    /\ status' = [status EXCEPT ![target[q]] = "rolled_back"]
    /\ stage' = [stage EXCEPT ![q] = "done"]
    /\ touched' = [touched EXCEPT ![q] = {}]
    /\ UNCHANGED <<account, locals, claim>>

-----------------------------------------------------------------------------
(* Failures: a cancelled request, a lost connection or a crash ends a      *)
(* transaction at any point; PostgreSQL ends one of a cycle of waiting     *)
(* transactions.                                                           *)

Abort(c) ==
    /\ stage[c] \in InTransaction
    /\ stage' = [stage EXCEPT ![c] = "failed"]
    /\ Forget(c)

\* Call c cannot go on before call d ends.
WaitsFor(c, d) ==
    /\ c # d
    /\ \/ c \in Upload /\ stage[c] = "rows" /\ ~AllRowsRead(c)
          /\ RowsOf[file[c]][next[c]] \in touched[d]
       \/ c \in Upload /\ d \in Upload /\ stage[c] = "create"
          /\ claim[d] = PrimaryOrderAccount(file[c])
       \/ c \in Undo /\ stage[c] = "delete" /\ Owned(target[c]) \cap touched[d] # {}
       \/ c \in Undo /\ d \in Undo /\ stage[c] = "mark"
          /\ stage[d] = "commit" /\ target[d] = target[c]

\* A set of calls each of which waits for another one of the set.
Deadlocked(S) == S # {} /\ \A c \in S : \E d \in S : WaitsFor(c, d)

DeadlockVictim(c) == (\E S \in SUBSET Call : c \in S /\ Deadlocked(S)) /\ Abort(c)

Quiet == (\A c \in Call : stage[c] \in Ended) /\ UNCHANGED vars

UploadStep(p) ==
    \/ LookupAccount(p)
    \/ CreateAccount(p)
    \/ InsertTransactionIfNew(p)
    \/ CommitImport(p)

UndoStep(q) == DeleteRows(q) \/ MarkRolledBack(q) \/ CommitRollback(q)

Next ==
    \/ \E p \in Upload, f \in File, hash \in File \cup {None} :
          \/ RefuseImport(p, f, hash)
          \/ \E h \in Household, id \in OrderAccount \cup {None} :
                BeginImport(p, h, f, hash, id)
    \/ \E p \in Upload : UploadStep(p)
    \/ \E q \in Undo, h \in Household, r \in Upload : ReadRun(q, h, r)
    \/ \E q \in Undo : UndoStep(q)
    \/ \E c \in Call : Abort(c)
    \/ Quiet

Spec == Init /\ [][Next]_vars

\* A call that can go on does, and PostgreSQL resolves every deadlock
\* (deadlock_timeout); nothing makes a client call or a failure happen.
Fairness ==
    /\ \A p \in Upload : WF_vars(UploadStep(p))
    /\ \A q \in Undo : WF_vars(UndoStep(q))
    /\ \A c \in Call : WF_vars(DeadlockVictim(c))

FairSpec == Spec /\ Fairness

-----------------------------------------------------------------------------
(* Properties.                                                             *)

\* The counts an import run reports are true: row_inserted is the number of
\* transactions that carry the run's id, and every CSV row was counted once,
\* whatever other imports and rollbacks did meanwhile (import.go, the loop of
\* commitTransactions and UpdateImportRunCounts).
CountsMatchRows ==
    \A p \in Upload : status[p] = "committed" =>
        /\ Cardinality(Owned(p)) = inserted[p]
        /\ inserted[p] + duplicate[p] = Len(RowsOf[file[p]])

\* A stored transaction belongs to a run that is committed and whose file has
\* it: nothing is left of a failed import or of a rolled back one.
RowsHaveLiveRun ==
    \A b \in Booking : ledger[b] # None =>
        status[ledger[b]] = "committed" /\ b \in BookingsOf(file[ledger[b]])

\* At most one Rollback call reports success for a run, although each reads
\* the status before its transaction begins (import.go Rollback).
RolledBackOnce ==
    \A q1, q2 \in Undo :
        stage[q1] = "done" /\ stage[q2] = "done" /\ target[q1] = target[q2] => q1 = q2

\* A booking of a committed file is missing from the ledger only because a
\* run whose file also has it was rolled back: an import never skips, as a
\* duplicate, a row that nobody committed.
MissingOnlyByRollback ==
    \A p \in Upload : status[p] = "committed" =>
        \A b \in BookingsOf(file[p]) :
            \/ ledger[b] # None
            \/ \E r \in Upload : status[r] = "rolled_back" /\ b \in BookingsOf(file[r])

\* The account of a committed run belongs to the household of the run.
RunAccountOwned ==
    \A p \in Upload : status[p] = "committed" /\ acct[p] # 0 =>
        account[acct[p]] = household[p]

\* A stored transaction leaves the ledger only in the step that marks its run
\* rolled back, all rows of the run leave in that step, and a stored
\* transaction never changes its run ("Existing txs keep the first run id").
RowsLeaveWithTheirRun ==
    [][\A b \in Booking : ledger[b] # None /\ ledger'[b] # ledger[b] =>
          /\ ledger'[b] = None
          /\ status[ledger[b]] = "committed" /\ status'[ledger[b]] = "rolled_back"
          /\ \A x \in Booking : ledger'[x] # ledger[b]]_committed

\* Every call that began a transaction ends: calls that wait for each other's
\* rows or accounts do not wait forever.
CallsEnd == \A c \in Call : stage[c] \in InTransaction ~> stage[c] \in Ended

\* The service implements the abstract ledger: the statements of an import or
\* a rollback take effect in its commit or not at all, whatever runs with it.
Promise == INSTANCE Ledger WITH
    Run <- Upload,
    Contents <- [f \in File |-> BookingsOf(f)],
    book <- ledger,
    state <- status,
    content <- [p \in Upload |-> IF status[p] = "none" THEN None ELSE file[p]]

ImplementsLedger == Promise!Spec
=============================================================================
