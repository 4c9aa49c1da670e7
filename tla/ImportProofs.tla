---------------------------- MODULE ImportProofs ----------------------------
(***************************************************************************)
(* Proofs about Import for every number of households, bookings, files and *)
(* concurrent calls.                                                       *)
(***************************************************************************)
EXTENDS Import, FiniteSetTheorems, WellFoundedInduction, TLAPS

LEMMA LeastNatural == ASSUME NEW T \in SUBSET Nat, T # {}
                      PROVE  \E x \in T : \A y \in T : x <= y
<1> DEFINE R == OpToRel(<, Nat)
<1>1. IsWellFoundedOn(R, Nat)
  BY NatLessThanWellFounded
<1>2. \A x, y \in Nat : y < x => <<y, x>> \in R
  BY DEF OpToRel
<1> HIDE DEF R
<1>3. \E x \in T : \A y \in T : <<y, x>> \notin R
  BY <1>1, WFMin
<1>4. PICK x \in T : \A y \in T : <<y, x>> \notin R
  BY <1>3
<1>5. ASSUME NEW y \in T PROVE x <= y
  <2>1. x \in Nat /\ y \in Nat /\ <<y, x>> \notin R
    BY <1>4
  <2>2. ~ (y < x)
    BY <2>1, <1>2
  <2>q. QED BY <2>1, <2>2
<1>q. QED BY <1>5

LEMMA VotesType == ASSUME NEW f \in File, NEW o
                   PROVE  Votes(f, o) \in 0 .. Len(RowsOf[f])
<1>1. RowsOf[f] \in Seq(Booking) /\ Len(RowsOf[f]) \in Nat /\ DOMAIN RowsOf[f] = 1 .. Len(RowsOf[f])
  BY BookingAssumption
<1>2. IsFiniteSet(DOMAIN RowsOf[f]) /\ Cardinality(DOMAIN RowsOf[f]) = Len(RowsOf[f])
  <2> DEFINE n == Len(RowsOf[f])
  <2>1. n \in Nat /\ DOMAIN RowsOf[f] = 1 .. n
    BY <1>1
  <2> HIDE DEF n
  <2>2. IsFiniteSet(1 .. n) /\ Cardinality(1 .. n) = IF 1 > n THEN 0 ELSE n - 1 + 1
    BY <2>1, FS_Interval
  <2>3. Cardinality(1 .. n) = n
    BY <2>1, <2>2
  <2>q. QED BY <2>1, <2>2, <2>3 DEF n
<1> DEFINE S == {i \in DOMAIN RowsOf[f] : OrderOf[RowsOf[f][i]] = o}
<1>3. IsFiniteSet(S) /\ Cardinality(S) <= Cardinality(DOMAIN RowsOf[f])
  BY <1>2, FS_Subset
<1>4. Cardinality(S) \in Nat
  BY <1>3, FS_CardinalityType
<1>q. QED BY <1>1, <1>2, <1>3, <1>4 DEF Votes

LEMMA OrderAccountType == OrderAccount \subseteq Nat /\ 0 \notin OrderAccount /\ None \notin OrderAccount
  BY BookingAssumption, CallAssumption DEF OrderAccount

LEMMA PrimaryInRange == ASSUME NEW f \in File
                        PROVE  PrimaryOrderAccount(f) \in OrderAccount \cup {0}
<1> DEFINE named == {OrderOf[b] : b \in BookingsOf(f)} \ {0}
           Best(o) == \A x \in named : \/ Votes(f, x) < Votes(f, o)
                                       \/ Votes(f, x) = Votes(f, o) /\ o <= x
<1>1. RowsOf[f] \in Seq(Booking) /\ Len(RowsOf[f]) \in Nat
  BY BookingAssumption
<1>2. named \subseteq OrderAccount /\ named \subseteq Nat
  BY <1>1, BookingAssumption DEF BookingsOf, OrderAccount
<1>3. ASSUME named # {} PROVE \E o \in named : Best(o)
  <2> DEFINE lost == {Len(RowsOf[f]) - Votes(f, o) : o \in named}
  <2>1. lost \subseteq Nat /\ lost # {}
    <3>1. \A o \in named : Votes(f, o) \in 0 .. Len(RowsOf[f])
      BY VotesType
    <3> HIDE DEF named
    <3>q. QED BY <1>1, <1>3, <3>1
  <2>2. PICK n \in lost : \A m \in lost : n <= m
    BY <2>1, LeastNatural
  <2> DEFINE top == {o \in named : Len(RowsOf[f]) - Votes(f, o) = n}
  <2>3. top \subseteq Nat /\ top # {}
    BY <1>2, <2>2
  <2>4. PICK o \in top : \A x \in top : o <= x
    BY <2>3, LeastNatural
  <2>5. ASSUME NEW x \in named
        PROVE  \/ Votes(f, x) < Votes(f, o)
               \/ Votes(f, x) = Votes(f, o) /\ o <= x
    <3>1. Votes(f, x) \in Nat /\ Votes(f, o) \in Nat
      BY VotesType
    <3>2. n <= Len(RowsOf[f]) - Votes(f, x) /\ n = Len(RowsOf[f]) - Votes(f, o)
      BY <2>2, <2>4
    <3>3. CASE Votes(f, x) = Votes(f, o)
      BY <3>2, <3>3, <2>4
    <3>q. QED BY <1>1, <3>1, <3>2, <3>3
  <2>q. QED BY <2>4, <2>5
<1>q. QED
  <2>1. CASE named = {}
    BY <2>1 DEF PrimaryOrderAccount
  <2>2. CASE named # {}
    <3>1. PrimaryOrderAccount(f) = CHOOSE o \in named : Best(o)
      BY <2>2 DEF PrimaryOrderAccount
    <3>2. PrimaryOrderAccount(f) \in named
      BY <3>1, <1>3, <2>2
    <3>q. QED BY <3>2, <1>2
  <2>q. QED BY <2>1, <2>2

-----------------------------------------------------------------------------
(* The inductive invariant.  The properties speak of committed data; what  *)
(* makes them inductive is what an open transaction may hold.              *)

\* A booking that is missing was in the file of a run that was rolled back.
Accounted(b) ==
    \/ ledger[b] # None
    \/ \E r \in Upload : status[r] = "rolled_back" /\ b \in BookingsOf(file[r])

\* No two open transactions have touched one booking.
RowLocks == \A c, d \in Call : c # d => touched[c] \cap touched[d] = {}

\* An upload that is at its rows has looked at the first next - 1 of them, and
\* holds only bookings that nobody has committed.
RowsSeen(p) ==
    /\ next[p] \in 1 .. Len(RowsOf[file[p]]) + 1
    /\ inserted[p] = Cardinality(touched[p])
    /\ inserted[p] + duplicate[p] + 1 = next[p]
    /\ \A i \in 1 .. next[p] - 1 :
          RowsOf[file[p]][i] \in touched[p] \/ Accounted(RowsOf[file[p]][i])

UploadRows ==
    \A p \in Upload :
        /\ touched[p] # {} => stage[p] = "rows"
        /\ \A b \in touched[p] : ledger[b] = None /\ b \in BookingsOf(file[p])
        /\ stage[p] \in {"idle", "lookup", "create"} =>
              next[p] = 1 /\ inserted[p] = 0 /\ duplicate[p] = 0
        /\ stage[p] = "rows" => RowsSeen(p)

\* A call past its first step knows its file and household, and a run has a
\* status exactly when its upload is done.
UploadStages ==
    \A p \in Upload :
        /\ stage[p] \in {"idle", "lookup", "create", "rows", "done", "failed"}
        /\ stage[p] \in {"lookup", "create", "rows", "done"} =>
              file[p] \in File /\ household[p] \in Household
        /\ status[p] = "none" <=> stage[p] # "done"

\* A rollback holds all rows of its run from the delete to the commit, and
\* only one rollback of a run can be about to commit.
UndoHolds ==
    \A q \in Undo :
        /\ stage[q] \in {"idle", "delete", "mark", "commit"} \cup Ended
        /\ stage[q] \in {"delete", "mark", "commit", "done"} =>
              target[q] \in Upload /\ status[target[q]] # "none"
        /\ touched[q] # {} => stage[q] \in {"mark", "commit"}
        /\ stage[q] \in {"mark", "commit"} => touched[q] = Owned(target[q])
        /\ stage[q] = "commit" => status[target[q]] = "committed"
        /\ stage[q] = "commit" =>
              \A d \in Undo \ {q} : stage[d] = "commit" => target[d] # target[q]
        /\ stage[q] = "done" => status[target[q]] = "rolled_back"

\* Order accounts that open transactions have created are free and distinct,
\* and an upload at its rows has an account of its household.
AccountOf(p) ==
    /\ claim[p] # None =>
          /\ stage[p] = "rows" /\ acct[p] = claim[p] /\ account[claim[p]] = None
          /\ \A d \in Upload \ {p} : claim[d] # claim[p]
    /\ stage[p] \in {"rows", "done"} => acct[p] \in OrderAccount \cup {0}
    /\ stage[p] = "rows" /\ acct[p] # 0 /\ claim[p] = None =>
          account[acct[p]] = household[p]

Accounts == \A p \in Upload : AccountOf(p)

IInv ==
    /\ TypeOK
    /\ RowLocks
    /\ UploadRows
    /\ UploadStages
    /\ UndoHolds
    /\ Accounts
    /\ CountsMatchRows
    /\ RowsHaveLiveRun
    /\ MissingOnlyByRollback
    /\ RunAccountOwned
    /\ RolledBackOnce

-----------------------------------------------------------------------------
(* Type correctness.                                                       *)

LEMMA TypeStep == TypeOK /\ UploadStages /\ UploadRows /\ [Next]_vars => TypeOK'
<1> SUFFICES ASSUME TypeOK, UploadStages, UploadRows, [Next]_vars PROVE TypeOK'
  OBVIOUS
<1>1. QED
  <2> USE DEF TypeOK, Call, committed, locals, InTransaction, Ended
  <2>1. ASSUME NEW p \in Upload, NEW f \in File, NEW hash \in File \cup {None},
               RefuseImport(p, f, hash)
        PROVE  TypeOK'
    BY <2>1 DEF RefuseImport, Acceptable
  <2>2. ASSUME NEW p \in Upload, NEW f \in File, NEW hash \in File \cup {None},
               NEW h \in Household, NEW id \in OrderAccount \cup {None},
               BeginImport(p, h, f, hash, id)
        PROVE  TypeOK'
    BY <2>2 DEF BeginImport, Acceptable
  <2>3. ASSUME NEW p \in Upload, LookupAccount(p)
        PROVE  TypeOK'
    BY <2>3 DEF LookupAccount, AccountVisible
  <2>4. ASSUME NEW p \in Upload, CreateAccount(p)
        PROVE  TypeOK'
    <3> DEFINE o == PrimaryOrderAccount(file[p])
    <3>1. o \in OrderAccount \cup {0}
      BY <2>4, PrimaryInRange DEF CreateAccount, InsertAccount, UploadStages
    <3> HIDE DEF o
    <3>2. acct' \in [Upload -> OrderAccount \cup {0, None}]
      BY <2>4, <3>1 DEF CreateAccount, InsertAccount, o
    <3>3. claim' \in [Upload -> OrderAccount \cup {None}]
      BY <2>4, <3>1 DEF CreateAccount, InsertAccount, OrderAccountColumn, o
    <3>4. stage' \in [Call -> {"idle"} \cup InTransaction \cup Ended]
      BY <2>4 DEF CreateAccount, InsertAccount
    <3>q. QED BY <2>4, <3>2, <3>3, <3>4 DEF CreateAccount, InsertAccount
  <2>5. ASSUME NEW p \in Upload, InsertTransactionIfNew(p)
        PROVE  TypeOK'
    <3>1. RowsOf[file[p]][next[p]] \in Booking
      BY <2>5, BookingAssumption DEF InsertTransactionIfNew, FingerprintTaken, AllRowsRead, UploadStages, UploadRows, RowsSeen
    <3>2. touched' \in [Call -> SUBSET Booking]
      BY <2>5, <3>1 DEF InsertTransactionIfNew, FingerprintTaken
    <3>3. next' \in [Upload -> Nat] /\ inserted' \in [Upload -> Nat] /\ duplicate' \in [Upload -> Nat]
      BY <2>5 DEF InsertTransactionIfNew, FingerprintTaken
    <3>q. QED BY <2>5, <3>2, <3>3 DEF InsertTransactionIfNew, FingerprintTaken
  <2>6. ASSUME NEW p \in Upload, CommitImport(p)
        PROVE  TypeOK'
    BY <2>6 DEF CommitImport, PublishRun
  <2>7. ASSUME NEW q \in Undo, NEW h \in Household, NEW r \in Upload, ReadRun(q, h, r)
        PROVE  TypeOK'
    BY <2>7 DEF ReadRun, GetImportRun
  <2>8. ASSUME NEW q \in Undo, DeleteRows(q)
        PROVE  TypeOK'
    BY <2>8 DEF DeleteRows, Owned
  <2>9. ASSUME NEW q \in Undo, MarkRolledBack(q)
        PROVE  TypeOK'
    BY <2>9 DEF MarkRolledBack, Undoable, Forget
  <2>10. ASSUME NEW q \in Undo, CommitRollback(q)
        PROVE  TypeOK'
    BY <2>10 DEF CommitRollback
  <2>11. ASSUME NEW c \in Call, Abort(c)
        PROVE  TypeOK'
    BY <2>11 DEF Abort, Forget
  <2>12. CASE UNCHANGED vars
    BY <2>12 DEF vars, committed, locals
  <2>q. QED
    BY <2>1, <2>2, <2>3, <2>4, <2>5, <2>6, <2>7, <2>8, <2>9, <2>10, <2>11, <2>12 DEF Next, UploadStep, UndoStep, Quiet

-----------------------------------------------------------------------------
(* Each part of the invariant is preserved by every step.                  *)

LEMMA LocksStep == IInv /\ TypeOK' /\ [Next]_vars => RowLocks'
<1> SUFFICES ASSUME IInv, TypeOK', [Next]_vars PROVE RowLocks'
  OBVIOUS
<1> USE CallAssumption DEF IInv, TypeOK, Call, committed, locals, RowLocks
<1>1. ASSUME NEW p \in Upload, NEW f \in File, NEW hash \in File \cup {None},
               RefuseImport(p, f, hash)
      PROVE  RowLocks'
  BY <1>1 DEF RefuseImport
<1>2. ASSUME NEW p \in Upload, NEW f \in File, NEW hash \in File \cup {None},
               NEW h \in Household, NEW id \in OrderAccount \cup {None},
               BeginImport(p, h, f, hash, id)
      PROVE  RowLocks'
  BY <1>2 DEF BeginImport
<1>3. ASSUME NEW p \in Upload, LookupAccount(p)
      PROVE  RowLocks'
  BY <1>3 DEF LookupAccount
<1>4. ASSUME NEW p \in Upload, CreateAccount(p)
      PROVE  RowLocks'
  BY <1>4 DEF CreateAccount, InsertAccount
<1>5. ASSUME NEW p \in Upload, InsertTransactionIfNew(p)
      PROVE  RowLocks'
  <2> DEFINE b == RowsOf[file[p]][next[p]]
  <2>1. \A d \in Call \ {p} : b \notin touched[d]
    BY <1>5 DEF InsertTransactionIfNew, FingerprintTaken, LockedByOther
  <2>2. touched' = [touched EXCEPT ![p] = @ \cup {b}] \/ touched' = touched
    BY <1>5 DEF InsertTransactionIfNew, FingerprintTaken
  <2> HIDE DEF b
  <2>3. \A c \in Call : touched'[c] = touched[c] \/ (c = p /\ touched'[c] = touched[c] \cup {b})
    BY <2>2
  <2>4. ASSUME NEW c \in Call, NEW d \in Call, c # d PROVE touched'[c] \cap touched'[d] = {}
    <3>1. touched[c] \cap touched[d] = {}
      BY <2>4
    <3>2. touched'[c] \subseteq touched[c] \cup (IF c = p THEN {b} ELSE {})
      BY <2>3
    <3>3. touched'[d] \subseteq touched[d] \cup (IF d = p THEN {b} ELSE {})
      BY <2>3
    <3>4. (c # p => b \notin touched[c]) /\ (d # p => b \notin touched[d])
      BY <2>1
    <3>q. QED BY <2>4, <3>1, <3>2, <3>3, <3>4
  <2>q. QED BY <2>4
<1>6. ASSUME NEW p \in Upload, CommitImport(p)
      PROVE  RowLocks'
  BY <1>6 DEF CommitImport, PublishRun
<1>7. ASSUME NEW q \in Undo, NEW h \in Household, NEW r \in Upload, ReadRun(q, h, r)
      PROVE  RowLocks'
  BY <1>7 DEF ReadRun, GetImportRun
<1>8. ASSUME NEW q \in Undo, DeleteRows(q)
      PROVE  RowLocks'
  BY <1>8 DEF DeleteRows, LockedByOther, Owned, UploadRows, UndoHolds
<1>9. ASSUME NEW q \in Undo, MarkRolledBack(q)
      PROVE  RowLocks'
  <2>1. touched' = touched \/ touched' = [touched EXCEPT ![q] = {}]
    BY <1>9 DEF MarkRolledBack, Undoable, Forget
  <2>q. QED BY <2>1
<1>10. ASSUME NEW q \in Undo, CommitRollback(q)
      PROVE  RowLocks'
  BY <1>10 DEF CommitRollback
<1>11. ASSUME NEW c \in Call, Abort(c)
      PROVE  RowLocks'
  BY <1>11 DEF Abort, Forget
<1>12. CASE UNCHANGED vars
  BY <1>12 DEF vars
<1>q. QED
  BY <1>1, <1>2, <1>3, <1>4, <1>5, <1>6, <1>7, <1>8, <1>9, <1>10, <1>11, <1>12 DEF Next, UploadStep, UndoStep, Quiet

LEMMA StagesStep == IInv /\ TypeOK' /\ [Next]_vars => UploadStages'
<1> SUFFICES ASSUME IInv, TypeOK', [Next]_vars PROVE UploadStages'
  OBVIOUS
<1> USE CallAssumption DEF IInv, TypeOK, Call, committed, locals, UploadStages
<1>1. ASSUME NEW p \in Upload, NEW f \in File, NEW hash \in File \cup {None},
               RefuseImport(p, f, hash)
      PROVE  UploadStages'
  BY <1>1 DEF RefuseImport
<1>2. ASSUME NEW p \in Upload, NEW f \in File, NEW hash \in File \cup {None},
               NEW h \in Household, NEW id \in OrderAccount \cup {None},
               BeginImport(p, h, f, hash, id)
      PROVE  UploadStages'
  BY <1>2 DEF BeginImport
<1>3. ASSUME NEW p \in Upload, LookupAccount(p)
      PROVE  UploadStages'
  BY <1>3 DEF LookupAccount
<1>4. ASSUME NEW p \in Upload, CreateAccount(p)
      PROVE  UploadStages'
  BY <1>4 DEF CreateAccount, InsertAccount
<1>5. ASSUME NEW p \in Upload, InsertTransactionIfNew(p)
      PROVE  UploadStages'
  BY <1>5 DEF InsertTransactionIfNew, FingerprintTaken
<1>6. ASSUME NEW p \in Upload, CommitImport(p)
      PROVE  UploadStages'
  BY <1>6 DEF CommitImport, PublishRun
<1>7. ASSUME NEW q \in Undo, NEW h \in Household, NEW r \in Upload, ReadRun(q, h, r)
      PROVE  UploadStages'
  BY <1>7 DEF ReadRun, GetImportRun
<1>8. ASSUME NEW q \in Undo, DeleteRows(q)
      PROVE  UploadStages'
  BY <1>8 DEF DeleteRows
<1>9. ASSUME NEW q \in Undo, MarkRolledBack(q)
      PROVE  UploadStages'
  BY <1>9 DEF MarkRolledBack, Undoable, Forget
<1>10. ASSUME NEW q \in Undo, CommitRollback(q)
      PROVE  UploadStages'
  BY <1>10 DEF CommitRollback, UndoHolds
<1>11. ASSUME NEW c \in Call, Abort(c)
      PROVE  UploadStages'
  BY <1>11 DEF Abort, Forget, InTransaction, UndoHolds
<1>12. CASE UNCHANGED vars
  BY <1>12 DEF vars
<1>q. QED
  BY <1>1, <1>2, <1>3, <1>4, <1>5, <1>6, <1>7, <1>8, <1>9, <1>10, <1>11, <1>12 DEF Next, UploadStep, UndoStep, Quiet

LEMMA UndoStepKeeps == IInv /\ TypeOK' /\ [Next]_vars => UndoHolds'
<1> SUFFICES ASSUME IInv, TypeOK', [Next]_vars PROVE UndoHolds'
  OBVIOUS
<1> USE CallAssumption DEF IInv, TypeOK, Call, committed, locals, UndoHolds, Owned, Ended
<1>1. ASSUME NEW p \in Upload, NEW f \in File, NEW hash \in File \cup {None},
               RefuseImport(p, f, hash)
      PROVE  UndoHolds'
  BY <1>1 DEF RefuseImport
<1>2. ASSUME NEW p \in Upload, NEW f \in File, NEW hash \in File \cup {None},
               NEW h \in Household, NEW id \in OrderAccount \cup {None},
               BeginImport(p, h, f, hash, id)
      PROVE  UndoHolds'
  BY <1>2 DEF BeginImport
<1>3. ASSUME NEW p \in Upload, LookupAccount(p)
      PROVE  UndoHolds'
  BY <1>3 DEF LookupAccount
<1>4. ASSUME NEW p \in Upload, CreateAccount(p)
      PROVE  UndoHolds'
  BY <1>4 DEF CreateAccount, InsertAccount
<1>5. ASSUME NEW p \in Upload, InsertTransactionIfNew(p)
      PROVE  UndoHolds'
  BY <1>5 DEF InsertTransactionIfNew, FingerprintTaken
<1>6. ASSUME NEW p \in Upload, CommitImport(p)
      PROVE  UndoHolds'
  BY <1>6 DEF CommitImport, PublishRun, UploadStages, UploadRows, Owned
<1>7. ASSUME NEW q \in Undo, NEW h \in Household, NEW r \in Upload, ReadRun(q, h, r)
      PROVE  UndoHolds'
  BY <1>7 DEF ReadRun, GetImportRun
<1>8. ASSUME NEW q \in Undo, DeleteRows(q)
      PROVE  UndoHolds'
  BY <1>8 DEF DeleteRows, Owned
<1>9. ASSUME NEW q \in Undo, MarkRolledBack(q)
      PROVE  UndoHolds'
  BY <1>9 DEF MarkRolledBack, Undoable, Forget, MarkedByOther, Owned, Ended, UploadStages
<1>10. ASSUME NEW q \in Undo, CommitRollback(q)
      PROVE  UndoHolds'
  BY <1>10 DEF CommitRollback, Owned, RowLocks
<1>11. ASSUME NEW c \in Call, Abort(c)
      PROVE  UndoHolds'
  BY <1>11 DEF Abort, Forget, Ended, InTransaction, Owned
<1>12. CASE UNCHANGED vars
  BY <1>12 DEF vars
<1>q. QED
  BY <1>1, <1>2, <1>3, <1>4, <1>5, <1>6, <1>7, <1>8, <1>9, <1>10, <1>11, <1>12 DEF Next, UploadStep, UndoStep, Quiet

LEMMA AccountsStep == IInv /\ TypeOK' /\ [Next]_vars => Accounts'
<1> SUFFICES ASSUME IInv, TypeOK', [Next]_vars PROVE Accounts'
  OBVIOUS
<1> USE CallAssumption DEF IInv, TypeOK, Call, committed, locals, Accounts, AccountOf, UploadStages, UploadRows
<1>1. ASSUME NEW p \in Upload, NEW f \in File, NEW hash \in File \cup {None},
               RefuseImport(p, f, hash)
      PROVE  Accounts'
  BY <1>1 DEF RefuseImport
<1>2. ASSUME NEW p \in Upload, NEW f \in File, NEW hash \in File \cup {None},
               NEW h \in Household, NEW id \in OrderAccount \cup {None},
               BeginImport(p, h, f, hash, id)
      PROVE  Accounts'
  BY <1>2 DEF BeginImport
<1>3. ASSUME NEW p \in Upload, LookupAccount(p)
      PROVE  Accounts'
  <2> SUFFICES ASSUME NEW d \in Upload PROVE AccountOf(d)'
    BY DEF Accounts
  <2>1. account' = account /\ claim' = claim /\ household' = household
    BY <1>3 DEF LookupAccount
  <2>2. claim[p] = None
    BY <1>3 DEF LookupAccount
  <2>3. CASE d = p
    BY <1>3, <2>1, <2>2, <2>3 DEF LookupAccount, AccountVisible
  <2>4. CASE d # p
    <3>1. stage'[d] = stage[d] /\ acct'[d] = acct[d]
      BY <1>3, <2>4 DEF LookupAccount
    <3>q. QED BY <2>1, <3>1
  <2>q. QED BY <2>3, <2>4
<1>4. ASSUME NEW p \in Upload, CreateAccount(p)
      PROVE  Accounts'
  <2> DEFINE o == PrimaryOrderAccount(file[p])
  <2> SUFFICES ASSUME NEW d \in Upload PROVE AccountOf(d)'
    BY DEF Accounts
  <2>1. account' = account /\ household' = household
    BY <1>4 DEF CreateAccount, InsertAccount
  <2>2. o \in OrderAccount \cup {0} /\ 0 \notin OrderAccount
    BY <1>4, PrimaryInRange, OrderAccountType DEF CreateAccount, InsertAccount
  <2>3. \A x \in Upload \ {p} : claim[x] # o
    BY <1>4 DEF CreateAccount, InsertAccount, ClaimedByOther
  <2>4. claim[p] = None
    BY <1>4 DEF CreateAccount, InsertAccount
  <2>5. CASE ~OrderAccountFree(o)
    BY <1>4, <2>1, <2>4, <2>5 DEF CreateAccount, InsertAccount
  <2>6. CASE OrderAccountFree(o)
    <3>1. /\ stage' = [stage EXCEPT ![p] = "rows"]
          /\ acct' = [acct EXCEPT ![p] = o]
          /\ claim' = [claim EXCEPT ![p] = IF o = 0 THEN None ELSE o]
      BY <1>4, <2>6 DEF CreateAccount, InsertAccount, OrderAccountColumn
    <3>2. o # 0 => account[o] = None
      BY <2>2, <2>6 DEF OrderAccountFree
    <3> HIDE DEF o
    <3>3. CASE d = p
      <4>1. stage'[p] = "rows" /\ acct'[p] = o /\ claim'[p] = IF o = 0 THEN None ELSE o
        BY <3>1
      <4>2. \A x \in Upload \ {p} : claim'[x] = claim[x]
        BY <3>1
      <4>3. CASE o = 0
        BY <3>3, <4>1, <4>3
      <4>4. CASE o # 0
        BY <2>1, <2>2, <2>3, <3>2, <3>3, <4>1, <4>2, <4>4, OrderAccountType
      <4>q. QED BY <4>3, <4>4
    <3>4. CASE d # p
      <4>1. stage'[d] = stage[d] /\ acct'[d] = acct[d] /\ claim'[d] = claim[d]
        BY <3>1, <3>4
      <4>2. claim[d] # None => \A x \in Upload \ {d} : claim'[x] # claim[d]
        BY <2>3, <3>1, <3>4
      <4>q. QED BY <2>1, <4>1, <4>2
    <3>q. QED BY <3>3, <3>4
  <2>q. QED BY <2>5, <2>6
<1>5. ASSUME NEW p \in Upload, InsertTransactionIfNew(p)
      PROVE  Accounts'
  BY <1>5 DEF InsertTransactionIfNew, FingerprintTaken
<1>6. ASSUME NEW p \in Upload, CommitImport(p)
      PROVE  Accounts'
  <2> SUFFICES ASSUME NEW d \in Upload PROVE AccountOf(d)'
    BY DEF Accounts
  <2>1. CASE d = p
    BY <1>6, <2>1 DEF CommitImport, PublishRun
  <2>2. CASE d # p
    <3>1. /\ stage'[d] = stage[d] /\ claim'[d] = claim[d]
          /\ acct' = acct /\ household' = household
          /\ \A x \in Upload : claim'[x] \in {claim[x], None}
          /\ \A o \in OrderAccount : o # claim[p] => account'[o] = account[o]
      BY <1>6, <2>2 DEF CommitImport, PublishRun
    <3>2. CASE claim[d] # None
      BY <2>2, <3>1, <3>2
    <3>3. CASE claim[d] = None /\ stage[d] = "rows" /\ acct[d] # 0
      <4>1. account[acct[d]] = household[d] /\ household[d] # None
        BY <3>3
      <4>2. acct[d] # claim[p]
        BY <3>3, <4>1, OrderAccountType
      <4>3. account'[acct[d]] = household[d]
        BY <3>1, <3>3, <4>1, <4>2
      <4>q. QED BY <3>1, <3>3, <4>3
    <3>q. QED BY <3>1, <3>2, <3>3
  <2>q. QED BY <2>1, <2>2
<1>7. ASSUME NEW q \in Undo, NEW h \in Household, NEW r \in Upload, ReadRun(q, h, r)
      PROVE  Accounts'
  BY <1>7 DEF ReadRun, GetImportRun
<1>8. ASSUME NEW q \in Undo, DeleteRows(q)
      PROVE  Accounts'
  BY <1>8 DEF DeleteRows
<1>9. ASSUME NEW q \in Undo, MarkRolledBack(q)
      PROVE  Accounts'
  BY <1>9 DEF MarkRolledBack, Undoable, Forget
<1>10. ASSUME NEW q \in Undo, CommitRollback(q)
      PROVE  Accounts'
  BY <1>10 DEF CommitRollback
<1>11. ASSUME NEW c \in Call, Abort(c)
      PROVE  Accounts'
  BY <1>11 DEF Abort, Forget
<1>12. CASE UNCHANGED vars
  BY <1>12 DEF vars
<1>q. QED
  BY <1>1, <1>2, <1>3, <1>4, <1>5, <1>6, <1>7, <1>8, <1>9, <1>10, <1>11, <1>12 DEF Next, UploadStep, UndoStep, Quiet

-----------------------------------------------------------------------------
(* What a step does to runs that are already committed.                    *)

\* The run r is left as it is, but for its status.
RunKept(r) ==
    /\ status'[r] # "none" /\ (status[r] = "rolled_back" => status'[r] = "rolled_back")
    /\ file'[r] = file[r] /\ household'[r] = household[r] /\ acct'[r] = acct[r]
    /\ inserted'[r] = inserted[r] /\ duplicate'[r] = duplicate[r]

RunsKept == \A r \in Upload : status[r] # "none" => RunKept(r)

LEMMA RunsKeptStep == IInv /\ TypeOK' /\ [Next]_vars => RunsKept
<1> SUFFICES ASSUME IInv, TypeOK', [Next]_vars PROVE RunsKept
  OBVIOUS
<1> USE CallAssumption DEF IInv, TypeOK, Call, committed, locals, RunsKept, RunKept, UploadStages
<1>1. ASSUME NEW p \in Upload, NEW f \in File, NEW hash \in File \cup {None},
               RefuseImport(p, f, hash)
      PROVE  RunsKept
  BY <1>1 DEF RefuseImport
<1>2. ASSUME NEW p \in Upload, NEW f \in File, NEW hash \in File \cup {None},
               NEW h \in Household, NEW id \in OrderAccount \cup {None},
               BeginImport(p, h, f, hash, id)
      PROVE  RunsKept
  BY <1>2 DEF BeginImport
<1>3. ASSUME NEW p \in Upload, LookupAccount(p)
      PROVE  RunsKept
  BY <1>3 DEF LookupAccount
<1>4. ASSUME NEW p \in Upload, CreateAccount(p)
      PROVE  RunsKept
  BY <1>4 DEF CreateAccount, InsertAccount
<1>5. ASSUME NEW p \in Upload, InsertTransactionIfNew(p)
      PROVE  RunsKept
  BY <1>5 DEF InsertTransactionIfNew, FingerprintTaken
<1>6. ASSUME NEW p \in Upload, CommitImport(p)
      PROVE  RunsKept
  BY <1>6 DEF CommitImport, PublishRun
<1>7. ASSUME NEW q \in Undo, NEW h \in Household, NEW r \in Upload, ReadRun(q, h, r)
      PROVE  RunsKept
  BY <1>7 DEF ReadRun, GetImportRun
<1>8. ASSUME NEW q \in Undo, DeleteRows(q)
      PROVE  RunsKept
  BY <1>8 DEF DeleteRows
<1>9. ASSUME NEW q \in Undo, MarkRolledBack(q)
      PROVE  RunsKept
  BY <1>9 DEF MarkRolledBack, Undoable, Forget
<1>10. ASSUME NEW q \in Undo, CommitRollback(q)
      PROVE  RunsKept
  BY <1>10 DEF CommitRollback, UndoHolds
<1>11. ASSUME NEW c \in Call, Abort(c)
      PROVE  RunsKept
  BY <1>11 DEF Abort, Forget, InTransaction
<1>12. CASE UNCHANGED vars
  BY <1>12 DEF vars
<1>q. QED
  BY <1>1, <1>2, <1>3, <1>4, <1>5, <1>6, <1>7, <1>8, <1>9, <1>10, <1>11, <1>12 DEF Next, UploadStep, UndoStep, Quiet

\* Committed data changes only when an import or a rollback commits.
LEMMA CommitStep ==
  [Next]_vars => \/ UNCHANGED committed
                 \/ \E p \in Upload : CommitImport(p)
                 \/ \E q \in Undo : CommitRollback(q)
BY DEF Next, vars, UploadStep, UndoStep, Quiet, RefuseImport, BeginImport, LookupAccount,
       CreateAccount, InsertAccount, InsertTransactionIfNew, FingerprintTaken, ReadRun, GetImportRun, DeleteRows, MarkRolledBack, Undoable, Abort, Forget

\* The rows a rollback removes are those of its run.
LEMMA RollbackRemoves ==
  ASSUME IInv, NEW q \in Undo, CommitRollback(q)
  PROVE  /\ target[q] \in Upload /\ status[target[q]] = "committed"
         /\ touched[q] = Owned(target[q])
         /\ status' = [status EXCEPT ![target[q]] = "rolled_back"]
         /\ \A r \in Upload : status'[r] = IF r = target[q] THEN "rolled_back" ELSE status[r]
         /\ \A b \in Booking : ledger'[b] = IF ledger[b] = target[q] THEN None ELSE ledger[b]
BY DEF IInv, UndoHolds, CommitRollback, Owned, TypeOK

\* A booking that is accounted for stays so.
LEMMA AccountedStays ==
  ASSUME IInv, TypeOK', [Next]_vars, NEW b \in Booking, Accounted(b)
  PROVE  Accounted(b)'
<1> USE CallAssumption DEF Accounted
<1>1. RunsKept
  BY RunsKeptStep
<1>2. CASE \E r \in Upload : status[r] = "rolled_back" /\ b \in BookingsOf(file[r])
  BY <1>1, <1>2 DEF RunsKept, RunKept
<1>3. CASE ledger[b] # None
  <2>1. CASE UNCHANGED committed
    BY <1>3, <2>1 DEF committed
  <2>2. ASSUME NEW p \in Upload, CommitImport(p) PROVE Accounted(b)'
    BY <1>3, <2>2 DEF CommitImport, PublishRun
  <2>3. ASSUME NEW q \in Undo, CommitRollback(q) PROVE Accounted(b)'
    <3>1. CASE ledger[b] # target[q]
      BY <1>3, <2>3, <3>1, RollbackRemoves
    <3>2. CASE ledger[b] = target[q]
      <4>1. b \in BookingsOf(file[target[q]])
        BY <1>3, <3>2 DEF IInv, RowsHaveLiveRun
      <4>2. status'[target[q]] = "rolled_back" /\ file'[target[q]] = file[target[q]]
        BY <1>1, <2>3, RollbackRemoves DEF IInv, TypeOK, RunsKept, RunKept
      <4>q. QED BY <2>3, <4>1, <4>2, RollbackRemoves
    <3>q. QED BY <3>1, <3>2
  <2>q. QED BY <2>1, <2>2, <2>3, CommitStep
<1>q. QED BY <1>2, <1>3

\* A step that leaves the data of upload d alone leaves d's rows as they were.
LEMMA RowsSeenStays ==
  ASSUME IInv, TypeOK', [Next]_vars, NEW d \in Upload, stage[d] = "rows",
         touched'[d] = touched[d], file'[d] = file[d], next'[d] = next[d],
         inserted'[d] = inserted[d], duplicate'[d] = duplicate[d]
  PROVE  RowsSeen(d)'
<1>1. RowsSeen(d) /\ file[d] \in File
  BY DEF IInv, UploadRows, UploadStages
<1>2. ASSUME NEW i \in 1 .. next[d] - 1
      PROVE  RowsOf[file[d]][i] \in touched[d] \/ Accounted(RowsOf[file[d]][i])'
  <2>1. RowsOf[file[d]][i] \in Booking
    BY <1>1, <1>2, BookingAssumption DEF RowsSeen
  <2>q. QED BY <1>1, <1>2, <2>1, AccountedStays DEF RowsSeen
<1>q. QED BY <1>1, <1>2 DEF RowsSeen

\* An upload starts at its rows with none of them read.
LEMMA RowsSeenFirst ==
  ASSUME IInv, NEW d \in Upload, file'[d] = file[d], file[d] \in File,
         touched'[d] = {}, next'[d] = 1, inserted'[d] = 0, duplicate'[d] = 0
  PROVE  RowsSeen(d)'
<1>1. Len(RowsOf[file[d]]) \in Nat
  BY BookingAssumption
<1>2. Cardinality(touched'[d]) = 0
  BY FS_EmptySet
<1>q. QED BY <1>1, <1>2 DEF RowsSeen

LEMMA RowsStep == IInv /\ TypeOK' /\ [Next]_vars => UploadRows'
<1> SUFFICES ASSUME IInv, TypeOK', [Next]_vars, NEW d \in Upload
             PROVE  /\ touched'[d] # {} => stage'[d] = "rows"
                    /\ \A b \in touched'[d] : ledger'[b] = None /\ b \in BookingsOf(file'[d])
                    /\ stage'[d] \in {"idle", "lookup", "create"} =>
                          next'[d] = 1 /\ inserted'[d] = 0 /\ duplicate'[d] = 0
                    /\ stage'[d] = "rows" => RowsSeen(d)'
  BY DEF UploadRows, BookingsOf
<1> DEFINE Frame == /\ touched'[d] = touched[d] /\ file'[d] = file[d] /\ next'[d] = next[d]
                    /\ inserted'[d] = inserted[d] /\ duplicate'[d] = duplicate[d]
           Goal == /\ touched'[d] # {} => stage'[d] = "rows"
                   /\ \A b \in touched'[d] : ledger'[b] = None /\ b \in BookingsOf(file'[d])
                   /\ stage'[d] \in {"idle", "lookup", "create"} =>
                         next'[d] = 1 /\ inserted'[d] = 0 /\ duplicate'[d] = 0
                   /\ stage'[d] = "rows" => RowsSeen(d)'
<1>a. /\ touched[d] # {} => stage[d] = "rows"
      /\ \A b \in touched[d] : b \in Booking /\ ledger[b] = None /\ b \in BookingsOf(file[d])
      /\ stage[d] \in {"idle", "lookup", "create"} =>
            next[d] = 1 /\ inserted[d] = 0 /\ duplicate[d] = 0
      /\ stage[d] = "rows" => RowsSeen(d)
      /\ stage[d] \in {"lookup", "create", "rows"} => file[d] \in File
      /\ d \in Call /\ d \notin Undo
  BY CallAssumption DEF IInv, UploadRows, UploadStages, TypeOK, Call
<1>b. ASSUME Frame, stage'[d] = stage[d], \A b \in touched[d] : ledger'[b] = None
      PROVE  Goal
  BY <1>a, <1>b, RowsSeenStays
<1> USE CallAssumption DEF TypeOK, Call, committed, locals
<1>c. TypeOK
  BY DEF IInv
<1> HIDE DEF Goal, Frame
<1>1. ASSUME NEW p \in Upload, NEW f \in File, NEW hash \in File \cup {None},
               RefuseImport(p, f, hash)
      PROVE  Goal
  <2>1. CASE d = p
    BY <1>1, <1>a, <1>c, <2>1 DEF RefuseImport, Goal
  <2>2. CASE d # p
    BY <1>1, <1>a, <1>b, <1>c, <2>2 DEF RefuseImport, Frame
  <2>q. QED BY <2>1, <2>2
<1>2. ASSUME NEW p \in Upload, NEW f \in File, NEW hash \in File \cup {None},
               NEW h \in Household, NEW id \in OrderAccount \cup {None},
               BeginImport(p, h, f, hash, id)
      PROVE  Goal
  <2>1. CASE d = p
    BY <1>2, <1>a, <1>c, <2>1 DEF BeginImport, Goal
  <2>2. CASE d # p
    BY <1>2, <1>a, <1>b, <1>c, <2>2 DEF BeginImport, Frame
  <2>q. QED BY <2>1, <2>2
<1>3. ASSUME NEW p \in Upload, LookupAccount(p)
      PROVE  Goal
  <2>1. CASE d = p
    <3>1. stage[d] = "lookup" /\ Frame /\ touched[d] = {} /\ stage'[d] \in {"rows", "create", "failed"}
      BY <1>3, <1>a, <1>c, <2>1 DEF LookupAccount, Frame
    <3>2. RowsSeen(d)'
      BY <1>a, <3>1, RowsSeenFirst DEF Frame
    <3>q. QED BY <1>a, <3>1, <3>2 DEF Goal, Frame
  <2>2. CASE d # p
    BY <1>3, <1>a, <1>b, <1>c, <2>2 DEF LookupAccount, Frame
  <2>q. QED BY <2>1, <2>2
<1>4. ASSUME NEW p \in Upload, CreateAccount(p)
      PROVE  Goal
  <2>1. CASE d = p
    <3>1. stage[d] = "create" /\ Frame /\ touched[d] = {} /\ stage'[d] \in {"rows", "failed"}
      BY <1>4, <1>a, <1>c, <2>1 DEF CreateAccount, InsertAccount, Frame
    <3>2. RowsSeen(d)'
      BY <1>a, <3>1, RowsSeenFirst DEF Frame
    <3>q. QED BY <1>a, <3>1, <3>2 DEF Goal, Frame
  <2>2. CASE d # p
    BY <1>4, <1>a, <1>b, <1>c, <2>2 DEF CreateAccount, InsertAccount, Frame
  <2>q. QED BY <2>1, <2>2
<1>5. ASSUME NEW p \in Upload, InsertTransactionIfNew(p)
      PROVE  Goal
  <2>1. CASE d # p
    BY <1>5, <1>a, <1>b, <1>c, <2>1 DEF InsertTransactionIfNew, FingerprintTaken, Frame
  <2>2. CASE d = p
    <3>b. PICK n, b : n = next[d] /\ b = RowsOf[file[d]][n]
      OBVIOUS
    <3>1. /\ stage[d] = "rows" /\ stage'[d] = "rows" /\ file[d] \in File /\ file' = file
          /\ ledger' = ledger /\ status' = status /\ next'[d] = n + 1
      BY <1>5, <1>a, <1>c, <2>2, <3>b DEF InsertTransactionIfNew, FingerprintTaken
    <3>2. /\ n \in 1 .. Len(RowsOf[file[d]]) /\ RowsOf[file[d]] \in Seq(Booking)
          /\ Len(RowsOf[file[d]]) \in Nat
      BY <1>5, <1>a, <2>2, <3>b, <3>1, BookingAssumption DEF InsertTransactionIfNew, FingerprintTaken, AllRowsRead, RowsSeen
    <3>3. b \in Booking /\ b \in BookingsOf(file[d])
      BY <3>b, <3>2 DEF BookingsOf
    <3>4. IsFiniteSet(touched[d])
      BY <1>c, BookingAssumption, FS_Subset
    <3>5. RowsSeen(d) /\ inserted[d] \in Nat /\ duplicate[d] \in Nat
      BY <1>a, <1>c, <3>1
    <3>6. \A x : Accounted(x)' <=> Accounted(x)
      BY <3>1 DEF Accounted
    <3>7. \/ /\ ledger[b] = None /\ b \notin touched[d]
             /\ touched'[d] = touched[d] \cup {b}
             /\ inserted'[d] = inserted[d] + 1 /\ duplicate'[d] = duplicate[d]
          \/ /\ ledger[b] # None \/ b \in touched[d]
             /\ touched'[d] = touched[d]
             /\ inserted'[d] = inserted[d] /\ duplicate'[d] = duplicate[d] + 1
      BY <1>5, <1>c, <2>2, <3>b DEF InsertTransactionIfNew, FingerprintTaken
    <3>8. b \in touched'[d] \/ Accounted(b)'
      BY <3>6, <3>7, <3>1 DEF Accounted
    <3>9. touched[d] \subseteq touched'[d] /\ touched'[d] \subseteq touched[d] \cup {b}
      BY <3>7
    <3>10. inserted'[d] = Cardinality(touched'[d]) /\ inserted'[d] + duplicate'[d] = n
      <4>1. inserted[d] = Cardinality(touched[d]) /\ inserted[d] + duplicate[d] + 1 = n
        BY <3>b, <3>5 DEF RowsSeen
      <4>2. b \notin touched[d] => Cardinality(touched[d] \cup {b}) = Cardinality(touched[d]) + 1
        BY <3>4, FS_AddElement
      <4>3. CASE b \notin touched[d] /\ touched'[d] = touched[d] \cup {b} /\ inserted'[d] = inserted[d] + 1 /\ duplicate'[d] = duplicate[d]
        <5>1. Cardinality(touched'[d]) = inserted[d] + 1
          BY <4>1, <4>2, <4>3
        <5>2. inserted'[d] + duplicate'[d] = n
          <6>1. inserted'[d] = inserted[d] + 1 /\ duplicate'[d] = duplicate[d]
            BY <4>3
          <6>2. inserted[d] \in Nat /\ duplicate[d] \in Nat /\ inserted[d] + duplicate[d] + 1 = n
            BY <3>5, <4>1
          <6>q. QED BY <6>1, <6>2
        <5>q. QED BY <4>3, <5>1, <5>2
      <4>4. CASE touched'[d] = touched[d] /\ inserted'[d] = inserted[d] /\ duplicate'[d] = duplicate[d] + 1
        <5>1. inserted'[d] + duplicate'[d] = n
          BY <3>2, <3>5, <4>1, <4>4
        <5>q. QED BY <4>1, <4>4, <5>1
      <4>q. QED BY <3>7, <4>3, <4>4
    <3>11. ASSUME NEW i \in 1 .. n
           PROVE  RowsOf[file[d]][i] \in touched'[d] \/ Accounted(RowsOf[file[d]][i])'
      <4>1. CASE i = n
        BY <3>1, <3>8, <3>b, <4>1
      <4>2. CASE i # n
        <5>1. i \in 1 .. n - 1
          BY <3>2, <4>2
        <5>q. QED BY <3>b, <3>1, <3>5, <3>6, <3>9, <5>1 DEF RowsSeen
      <4>q. QED BY <4>1, <4>2
    <3>12. RowsSeen(d)'
      <4>1. n + 1 \in 1 .. Len(RowsOf[file[d]]) + 1
        BY <3>2
      <4>2. inserted'[d] + duplicate'[d] + 1 = n + 1
        BY <3>2, <3>10
      <4>3. next'[d] - 1 = n
        BY <3>1, <3>2
      <4>q. QED BY <3>1, <3>10, <3>11, <4>1, <4>2, <4>3 DEF RowsSeen
    <3>13. \A x \in touched'[d] : ledger'[x] = None /\ x \in BookingsOf(file'[d])
      BY <1>a, <3>1, <3>3, <3>7
    <3>q. QED BY <3>1, <3>12, <3>13 DEF Goal
  <2>q. QED BY <2>1, <2>2
<1>6. ASSUME NEW p \in Upload, CommitImport(p)
      PROVE  Goal
  <2>1. CASE d = p
    BY <1>6, <1>a, <1>c, <2>1 DEF CommitImport, PublishRun, Goal
  <2>2. CASE d # p
    <3>1. touched[d] \cap touched[p] = {}
      BY <1>6, <2>2 DEF IInv, RowLocks
    <3>q. QED BY <1>6, <1>a, <1>b, <1>c, <2>2, <3>1 DEF CommitImport, PublishRun, Frame
  <2>q. QED BY <2>1, <2>2
<1>7. ASSUME NEW q \in Undo, NEW h \in Household, NEW r \in Upload, ReadRun(q, h, r)
      PROVE  Goal
  BY <1>7, <1>a, <1>b, <1>c DEF ReadRun, GetImportRun, Frame
<1>8. ASSUME NEW q \in Undo, DeleteRows(q)
      PROVE  Goal
  BY <1>8, <1>a, <1>b, <1>c DEF DeleteRows, Frame
<1>9. ASSUME NEW q \in Undo, MarkRolledBack(q)
      PROVE  Goal
  BY <1>9, <1>a, <1>b, <1>c DEF MarkRolledBack, Undoable, Forget, Frame
<1>10. ASSUME NEW q \in Undo, CommitRollback(q)
      PROVE  Goal
  BY <1>10, <1>a, <1>b, <1>c DEF CommitRollback, Frame
<1>11. ASSUME NEW c \in Call, Abort(c)
      PROVE  Goal
  <2>1. CASE d = c
    BY <1>11, <1>a, <1>c, <2>1 DEF Abort, Forget, Goal
  <2>2. CASE d # c
    BY <1>11, <1>a, <1>b, <1>c, <2>2 DEF Abort, Forget, Frame
  <2>q. QED BY <2>1, <2>2
<1>12. ASSUME UNCHANGED vars PROVE Goal
  BY <1>12, <1>a, <1>b DEF vars, Frame
<1>13. Goal
  BY <1>1, <1>2, <1>3, <1>4, <1>5, <1>6, <1>7, <1>8, <1>9, <1>10, <1>11, <1>12 DEF Next, UploadStep, UndoStep, Quiet
<1>q. QED BY <1>13 DEF Goal

-----------------------------------------------------------------------------
(* The properties are preserved.                                           *)

\* The rows an import adds are the ones it holds.
LEMMA ImportAdds ==
  ASSUME IInv, NEW p \in Upload, CommitImport(p)
  PROVE  /\ status[p] = "none" /\ status' = [status EXCEPT ![p] = "committed"]
         /\ \A r \in Upload : status'[r] = IF r = p THEN "committed" ELSE status[r]
         /\ \A b \in Booking : ledger'[b] = IF b \in touched[p] THEN p ELSE ledger[b]
         /\ UNCHANGED locals
         /\ file[p] \in File /\ household[p] \in Household
         /\ \A b \in touched[p] : b \in Booking /\ ledger[b] = None /\ b \in BookingsOf(file[p])
         /\ \A b \in BookingsOf(file[p]) : b \in Booking /\ (b \in touched[p] \/ Accounted(b))
         /\ inserted[p] = Cardinality(touched[p])
         /\ inserted[p] + duplicate[p] = Len(RowsOf[file[p]])
<1> USE DEF IInv
<1>1. /\ stage[p] = "rows" /\ AllRowsRead(p)
      /\ status' = [status EXCEPT ![p] = "committed"] /\ UNCHANGED locals
      /\ \A b \in Booking : ledger'[b] = IF b \in touched[p] THEN p ELSE ledger[b]
  BY DEF CommitImport, PublishRun
<1>2. /\ status[p] = "none" /\ file[p] \in File /\ household[p] \in Household /\ RowsSeen(p)
      /\ \A b \in touched[p] : b \in Booking /\ ledger[b] = None /\ b \in BookingsOf(file[p])
  BY <1>1 DEF UploadStages, UploadRows, TypeOK, Call
<1>3. /\ RowsOf[file[p]] \in Seq(Booking) /\ Len(RowsOf[file[p]]) \in Nat
      /\ next[p] \in Nat /\ inserted[p] \in Nat /\ duplicate[p] \in Nat
  BY <1>2, BookingAssumption DEF TypeOK
<1>4. next[p] = Len(RowsOf[file[p]]) + 1
  BY <1>1, <1>2, <1>3 DEF RowsSeen, AllRowsRead
<1>5. inserted[p] + duplicate[p] = Len(RowsOf[file[p]])
  <2>1. inserted[p] + duplicate[p] + 1 = next[p]
    BY <1>2 DEF RowsSeen
  <2>q. QED BY <1>3, <1>4, <2>1
<1>6. ASSUME NEW b \in BookingsOf(file[p])
      PROVE  b \in Booking /\ (b \in touched[p] \/ Accounted(b))
  <2>1. PICK i \in 1 .. Len(RowsOf[file[p]]) : b = RowsOf[file[p]][i]
    BY <1>3 DEF BookingsOf
  <2>2. i \in 1 .. next[p] - 1
    BY <1>3, <1>4
  <2>q. QED BY <1>2, <1>3, <2>1, <2>2 DEF RowsSeen
<1>7. \A r \in Upload : status'[r] = IF r = p THEN "committed" ELSE status[r]
  BY <1>1 DEF TypeOK
<1>q. QED BY <1>1, <1>2, <1>5, <1>6, <1>7 DEF RowsSeen

LEMMA CountsStep == IInv /\ TypeOK' /\ [Next]_vars => CountsMatchRows'
<1> SUFFICES ASSUME IInv, TypeOK', [Next]_vars, NEW r \in Upload, status'[r] = "committed"
             PROVE  /\ Cardinality(Owned(r)') = inserted'[r]
                    /\ inserted'[r] + duplicate'[r] = Len(RowsOf[file'[r]])
  BY DEF CountsMatchRows
<1>1. RunsKept
  BY RunsKeptStep
<1>2. status[r] = "committed" => /\ Cardinality(Owned(r)) = inserted[r]
                                 /\ inserted[r] + duplicate[r] = Len(RowsOf[file[r]])
  BY DEF IInv, CountsMatchRows
<1>3. ASSUME status[r] = "committed", Owned(r)' = Owned(r)
      PROVE  /\ Cardinality(Owned(r)') = inserted'[r]
             /\ inserted'[r] + duplicate'[r] = Len(RowsOf[file'[r]])
  BY <1>1, <1>2, <1>3 DEF RunsKept, RunKept
<1>4. CASE UNCHANGED committed
  BY <1>3, <1>4 DEF committed, Owned
<1>5. ASSUME NEW p \in Upload, CommitImport(p)
      PROVE  /\ Cardinality(Owned(r)') = inserted'[r]
             /\ inserted'[r] + duplicate'[r] = Len(RowsOf[file'[r]])
  <2>1. CASE r = p
    <3>1. \A b \in Booking : ledger[b] # p
      BY <1>5, CallAssumption, ImportAdds DEF IInv, RowsHaveLiveRun
    <3>2. Owned(p)' = touched[p]
      BY <1>5, <3>1, ImportAdds DEF Owned
    <3>q. QED BY <1>5, <2>1, <3>2, ImportAdds DEF locals
  <2>2. CASE r # p
    <3>1. Owned(r)' = Owned(r)
      BY <1>5, <2>2, CallAssumption, ImportAdds DEF Owned
    <3>2. status[r] = "committed"
      BY <1>5, <2>2, ImportAdds
    <3>q. QED BY <1>3, <3>1, <3>2
  <2>q. QED BY <2>1, <2>2
<1>6. ASSUME NEW q \in Undo, CommitRollback(q)
      PROVE  /\ Cardinality(Owned(r)') = inserted'[r]
             /\ inserted'[r] + duplicate'[r] = Len(RowsOf[file'[r]])
  <2>1. r # target[q] /\ status[r] = "committed"
    BY <1>6, RollbackRemoves
  <2>2. Owned(r)' = Owned(r)
    BY <1>6, <2>1, CallAssumption, RollbackRemoves DEF Owned
  <2>q. QED BY <1>3, <2>1, <2>2
<1>q. QED BY <1>4, <1>5, <1>6, CommitStep

LEMMA LiveRunStep == IInv /\ TypeOK' /\ [Next]_vars => RowsHaveLiveRun'
<1> SUFFICES ASSUME IInv, TypeOK', [Next]_vars, NEW b \in Booking, ledger'[b] # None
             PROVE  status'[ledger'[b]] = "committed" /\ b \in BookingsOf(file'[ledger'[b]])
  BY DEF RowsHaveLiveRun, BookingsOf
<1>1. RunsKept
  BY RunsKeptStep
<1>2. ledger[b] # None =>
        /\ ledger[b] \in Upload /\ status[ledger[b]] = "committed"
        /\ b \in BookingsOf(file[ledger[b]]) /\ file'[ledger[b]] = file[ledger[b]]
  BY <1>1 DEF IInv, RowsHaveLiveRun, TypeOK, RunsKept, RunKept
<1>3. CASE UNCHANGED committed
  BY <1>2, <1>3 DEF committed
<1>4. ASSUME NEW p \in Upload, CommitImport(p)
      PROVE  status'[ledger'[b]] = "committed" /\ b \in BookingsOf(file'[ledger'[b]])
  <2>1. /\ file' = file /\ status' = [status EXCEPT ![p] = "committed"]
        /\ ledger'[b] = IF b \in touched[p] THEN p ELSE ledger[b]
        /\ b \in touched[p] => b \in BookingsOf(file[p])
    BY <1>4, ImportAdds DEF locals
  <2>2. DOMAIN status = Upload
    BY DEF IInv, TypeOK
  <2>3. CASE b \in touched[p]
    BY <2>1, <2>2, <2>3
  <2>4. CASE b \notin touched[p]
    BY <1>2, <2>1, <2>2, <2>4
  <2>q. QED BY <2>3, <2>4
<1>5. ASSUME NEW q \in Undo, CommitRollback(q)
      PROVE  status'[ledger'[b]] = "committed" /\ b \in BookingsOf(file'[ledger'[b]])
  BY <1>2, <1>5, RollbackRemoves DEF IInv, TypeOK
<1>q. QED BY <1>3, <1>4, <1>5, CommitStep

LEMMA MissingStep == IInv /\ TypeOK' /\ [Next]_vars => MissingOnlyByRollback'
<1> SUFFICES ASSUME IInv, TypeOK', [Next]_vars, NEW p \in Upload, status'[p] = "committed",
                    NEW b \in BookingsOf(file'[p])
             PROVE  Accounted(b)'
  BY DEF MissingOnlyByRollback, Accounted, BookingsOf
<1>1. RunsKept
  BY RunsKeptStep
<1>2. CASE status[p] = "committed"
  <2>1. b \in BookingsOf(file[p]) /\ Accounted(b)
    BY <1>1, <1>2 DEF IInv, MissingOnlyByRollback, RunsKept, RunKept, Accounted
  <2>2. b \in Booking
    BY <1>2, <2>1, BookingAssumption DEF IInv, UploadStages, BookingsOf
  <2>q. QED BY <2>1, <2>2, AccountedStays
<1>3. CASE status[p] # "committed"
  <2>1. CommitImport(p)
    <3>1. status' # status
      BY <1>3
    <3>2. ASSUME NEW d \in Upload, CommitImport(d) PROVE d = p
      BY <1>3, <3>2, ImportAdds
    <3>3. ASSUME NEW q \in Undo, CommitRollback(q) PROVE FALSE
      BY <1>3, <3>3, RollbackRemoves
    <3>q. QED BY <3>1, <3>2, <3>3, CommitStep DEF committed
  <2>2. b \in Booking /\ (b \in touched[p] \/ Accounted(b))
    BY <2>1, ImportAdds DEF locals
  <2>3. CASE b \in touched[p]
    BY <2>1, <2>2, <2>3, CallAssumption, ImportAdds DEF Accounted
  <2>q. QED BY <2>2, <2>3, AccountedStays
<1>q. QED BY <1>2, <1>3

LEMMA AccountOwnedStep == IInv /\ TypeOK' /\ [Next]_vars => RunAccountOwned'
<1> SUFFICES ASSUME IInv, TypeOK', [Next]_vars, NEW p \in Upload, status'[p] = "committed", acct'[p] # 0
             PROVE  account'[acct'[p]] = household'[p]
  BY DEF RunAccountOwned
<1>1. RunsKept
  BY RunsKeptStep
<1>2. status[p] = "committed" => /\ acct'[p] = acct[p] /\ household'[p] = household[p]
                                 /\ account[acct[p]] = household[p] /\ acct[p] \in OrderAccount
                                 /\ household[p] \in Household
  BY <1>1, OrderAccountType DEF IInv, RunsKept, RunKept, RunAccountOwned, UploadStages, Accounts, AccountOf
<1>3. CASE UNCHANGED committed
  BY <1>2, <1>3 DEF committed
<1>4. ASSUME NEW d \in Upload, CommitImport(d)
      PROVE  account'[acct'[p]] = household'[p]
  <2>1. /\ status' = [status EXCEPT ![d] = "committed"] /\ acct' = acct /\ household' = household
        /\ stage[d] = "rows"
        /\ \A o \in OrderAccount : account'[o] = IF o = claim[d] THEN household[d] ELSE account[o]
    BY <1>4 DEF CommitImport, PublishRun, locals
  <2>2. claim[d] # None => account[claim[d]] = None /\ acct[d] = claim[d]
    BY DEF IInv, Accounts, AccountOf
  <2>3. CASE p = d
    <3>1. acct[d] \in OrderAccount
      BY <2>1, <2>3 DEF IInv, Accounts, AccountOf
    <3>2. claim[d] = None => account[acct[d]] = household[d]
      BY <2>1, <2>3 DEF IInv, Accounts, AccountOf
    <3>q. QED BY <2>1, <2>2, <2>3, <3>1, <3>2
  <2>4. CASE p # d
    <3>1. status[p] = "committed"
      BY <2>1, <2>4 DEF IInv, TypeOK
    <3>2. acct[p] # claim[d]
      BY <1>2, <2>2, <3>1, CallAssumption, OrderAccountType
    <3>q. QED BY <1>2, <2>1, <3>1, <3>2
  <2>q. QED BY <2>3, <2>4
<1>5. ASSUME NEW q \in Undo, CommitRollback(q)
      PROVE  account'[acct'[p]] = household'[p]
  <2>1. account' = account
    BY <1>5 DEF CommitRollback
  <2>2. status[p] = "committed"
    BY <1>5, RollbackRemoves DEF IInv, TypeOK
  <2>q. QED BY <1>2, <2>1, <2>2
<1>q. QED BY <1>3, <1>4, <1>5, CommitStep

LEMMA OnceStep == IInv /\ TypeOK' /\ [Next]_vars => RolledBackOnce'
<1> SUFFICES ASSUME IInv, TypeOK', [Next]_vars, NEW q1 \in Undo, NEW q2 \in Undo,
                    stage'[q1] = "done", stage'[q2] = "done", target'[q1] = target'[q2]
             PROVE  q1 = q2
  BY DEF RolledBackOnce
<1> USE CallAssumption DEF IInv, TypeOK, Call, committed, locals, InTransaction
<1>1. CASE \E q \in Undo : CommitRollback(q)
  BY <1>1 DEF RolledBackOnce, CommitRollback, UndoHolds
<1>2. CASE ~ \E q \in Undo : CommitRollback(q)
  <2>1. ASSUME NEW q \in Undo, stage'[q] = "done"
        PROVE  stage[q] = "done" /\ target'[q] = target[q]
    <3>1. ASSUME NEW p \in Upload
          PROVE  /\ p # q /\ q \in Call
                 /\ UploadStep(p) => stage'[q] = stage[q] /\ target'[q] = target[q]
                 /\ \A f \in File, h \in Household, hash \in File \cup {None}, id \in OrderAccount \cup {None} :
                       BeginImport(p, h, f, hash, id) =>
                           stage'[q] = stage[q] /\ target'[q] = target[q]
      BY DEF UploadStep, BeginImport, LookupAccount, CreateAccount, InsertAccount,
             InsertTransactionIfNew, FingerprintTaken, CommitImport, PublishRun
    <3>2. ASSUME NEW d \in Undo, UndoStep(d)
          PROVE  stage'[q] = stage[q] /\ target'[q] = target[q]
      BY <1>2, <2>1, <3>2 DEF UndoStep, DeleteRows, MarkRolledBack, Undoable, Forget
    <3>3. ASSUME NEW d \in Undo, NEW h \in Household, NEW r \in Upload, ReadRun(d, h, r)
          PROVE  stage'[q] = stage[q] /\ target'[q] = target[q]
      BY <2>1, <3>3 DEF ReadRun, GetImportRun
    <3>4. ASSUME NEW c \in Call, Abort(c)
          PROVE  stage'[q] = stage[q] /\ target'[q] = target[q]
      BY <2>1, <3>4 DEF Abort, Forget
    <3>5. CASE UNCHANGED vars
      BY <2>1, <3>5 DEF vars
    <3>6. ASSUME NEW p \in Upload, NEW f \in File, NEW hash \in File \cup {None}, RefuseImport(p, f, hash)
          PROVE  stage'[q] = stage[q] /\ target'[q] = target[q]
      BY <3>6 DEF RefuseImport
    <3>q. QED BY <2>1, <3>1, <3>2, <3>3, <3>4, <3>5, <3>6 DEF Next, Quiet
  <2>q. QED BY <2>1 DEF RolledBackOnce
<1>q. QED BY <1>1, <1>2

-----------------------------------------------------------------------------
(* The theorems.                                                           *)

LEMMA Initially == Init => IInv
<1> SUFFICES ASSUME Init PROVE IInv
  OBVIOUS
<1> USE CallAssumption DEF Init, Call
<1>1. TypeOK
  BY DEF TypeOK
<1>2. RowLocks /\ UploadRows /\ UploadStages /\ UndoHolds /\ Accounts
  BY DEF RowLocks, UploadRows, UploadStages, UndoHolds, Accounts, AccountOf, Ended
<1>3. CountsMatchRows /\ RowsHaveLiveRun /\ MissingOnlyByRollback /\ RunAccountOwned /\ RolledBackOnce
  BY DEF CountsMatchRows, RowsHaveLiveRun, MissingOnlyByRollback, RunAccountOwned, RolledBackOnce
<1>q. QED BY <1>1, <1>2, <1>3 DEF IInv

LEMMA Inductive == IInv /\ [Next]_vars => IInv'
<1> SUFFICES ASSUME IInv, [Next]_vars PROVE IInv'
  OBVIOUS
<1>1. TypeOK'
  BY TypeStep DEF IInv
<1>q. QED
  BY <1>1, LocksStep, RowsStep, StagesStep, UndoStepKeeps, AccountsStep, CountsStep,
     LiveRunStep, MissingStep, AccountOwnedStep, OnceStep DEF IInv

\* Every reachable state satisfies the inductive invariant.
THEOREM Invariance == Spec => []IInv
  BY Initially, Inductive, PTL DEF Spec

\* The variables of Import have their types.
THEOREM TypeCorrect == Spec => []TypeOK
<1>1. IInv => TypeOK
  BY DEF IInv
<1>q. QED BY <1>1, Invariance, PTL

\* The counts of every committed import run are those of its rows, for any
\* number of imports and rollbacks that run at the same time.
THEOREM CountsCorrect == Spec => []CountsMatchRows
<1>1. IInv => CountsMatchRows
  BY DEF IInv
<1>q. QED BY <1>1, Invariance, PTL

\* Nothing is left in the ledger of an import that failed or was rolled back.
THEOREM NoOrphanRows == Spec => []RowsHaveLiveRun
<1>1. IInv => RowsHaveLiveRun
  BY DEF IInv
<1>q. QED BY <1>1, Invariance, PTL

\* One Rollback of a run at most succeeds.
THEOREM OneRollback == Spec => []RolledBackOnce
<1>1. IInv => RolledBackOnce
  BY DEF IInv
<1>q. QED BY <1>1, Invariance, PTL

\* A booking of a committed file is lost only to a rollback.
THEOREM NothingSkipped == Spec => []MissingOnlyByRollback
<1>1. IInv => MissingOnlyByRollback
  BY DEF IInv
<1>q. QED BY <1>1, Invariance, PTL

\* A committed run's account is its household's.
THEOREM AccountOwned == Spec => []RunAccountOwned
<1>1. IInv => RunAccountOwned
  BY DEF IInv
<1>q. QED BY <1>1, Invariance, PTL

\* A stored transaction leaves the ledger only with its whole run.
THEOREM LeaveTogether == Spec => RowsLeaveWithTheirRun
<1> DEFINE Leave(b) ==
      ledger[b] # None /\ ledger'[b] # ledger[b] =>
          /\ ledger'[b] = None
          /\ status[ledger[b]] = "committed" /\ status'[ledger[b]] = "rolled_back"
          /\ \A x \in Booking : ledger'[x] # ledger[b]
<1>1. ASSUME IInv, [Next]_vars, NEW b \in Booking
      PROVE  Leave(b) \/ UNCHANGED committed
  <2>1. ASSUME NEW p \in Upload, CommitImport(p) PROVE Leave(b)
    BY <1>1, <2>1, ImportAdds
  <2>2. ASSUME NEW q \in Undo, CommitRollback(q) PROVE Leave(b)
    BY <1>1, <2>2, CallAssumption, RollbackRemoves DEF IInv, TypeOK
  <2>q. QED BY <1>1, <2>1, <2>2, CommitStep
<1>2. IInv /\ [Next]_vars => [\A b \in Booking : Leave(b)]_committed
  BY <1>1
<1>q. QED BY <1>2, Invariance, PTL DEF Spec, RowsLeaveWithTheirRun

\* The service refines the abstract ledger: its initial state is initial
\* there, and each of its steps is a Post, a Reverse or a stutter.
THEOREM Refinement == Spec => ImplementsLedger
<1>1. Init => Promise!Init
  BY DEF Init, Promise!Init
<1>2. ASSUME IInv, IInv', [Next]_vars PROVE [Promise!Next]_(Promise!vars)
  <2> DEFINE posted == [p \in Upload |-> IF status[p] = "none" THEN None ELSE file[p]]
             contents == [f \in File |-> BookingsOf(f)]
  <2>a. RunsKept
    BY <1>2, RunsKeptStep DEF IInv
  <2>b. \A r \in Upload : status[r] # "none" => posted[r] = file[r] /\ contents[file[r]] = BookingsOf(file[r])
    BY <1>2 DEF IInv, UploadStages
  <2>1. CASE UNCHANGED committed
    <3>1. \A r \in Upload : status'[r] # "none" => file'[r] = file[r]
      BY <2>1, <2>a DEF committed, RunsKept, RunKept
    <3>2. posted' = posted
      BY <2>1, <3>1 DEF committed
    <3>q. QED BY <2>1, <3>2 DEF committed, Promise!vars
  <2>2. ASSUME NEW p \in Upload, CommitImport(p) PROVE Promise!Next
    <3>1. /\ status[p] = "none" /\ status' = [status EXCEPT ![p] = "committed"]
          /\ \A b \in Booking : ledger'[b] = IF b \in touched[p] THEN p ELSE ledger[b]
          /\ file' = file /\ file[p] \in File
          /\ \A b \in touched[p] : b \in Booking /\ ledger[b] = None /\ b \in BookingsOf(file[p])
          /\ \A b \in BookingsOf(file[p]) : b \in Booking /\ (b \in touched[p] \/ Accounted(b))
      BY <1>2, <2>2, ImportAdds DEF locals
    <3>2. ledger' = [b \in Booking |-> IF b \in touched[p] THEN p ELSE ledger[b]]
      BY <2>2 DEF CommitImport, PublishRun
    <3>3. posted' = [posted EXCEPT ![p] = file[p]]
      BY <1>2, <3>1 DEF IInv, TypeOK
    <3>4. contents[file[p]] = BookingsOf(file[p]) /\ touched[p] \in SUBSET contents[file[p]]
      BY <3>1
    <3>5. \A b \in contents[file[p]] \ touched[p] : Promise!Accounted(b)
      <4> SUFFICES ASSUME NEW b \in contents[file[p]] \ touched[p]
                   PROVE  Promise!Accounted(b)
        OBVIOUS
      <4>1. ledger[b] # None \/ \E r \in Upload : status[r] = "rolled_back" /\ b \in BookingsOf(file[r])
        BY <3>1, <3>4 DEF Accounted
      <4>2. \A r \in Upload : status[r] = "rolled_back" => contents[posted[r]] = BookingsOf(file[r])
        BY <2>b
      <4>q. QED BY <4>1, <4>2 DEF Promise!Accounted
    <3>6. PICK f, new : f = file[p] /\ new = touched[p]
      OBVIOUS
    <3>7. f \in File /\ new \in SUBSET contents[f]
      BY <3>1, <3>4, <3>6
    <3>8. Promise!Post(p, f, new)
      BY <3>1, <3>2, <3>3, <3>4, <3>5, <3>6 DEF Promise!Post
    <3>q. QED BY <3>7, <3>8 DEF Promise!Next
  <2>3. ASSUME NEW q \in Undo, CommitRollback(q) PROVE Promise!Next
    <3>1. /\ target[q] \in Upload /\ status[target[q]] = "committed"
          /\ touched[q] = Owned(target[q])
          /\ status' = [status EXCEPT ![target[q]] = "rolled_back"]
      BY <1>2, <2>3, RollbackRemoves
    <3>2. ledger' = [b \in Booking |-> IF ledger[b] = target[q] THEN None ELSE ledger[b]]
      BY <2>3, <3>1 DEF CommitRollback, Owned
    <3>3. file' = file
      BY <2>3 DEF CommitRollback, locals
    <3>4. posted' = posted
      BY <1>2, <3>1, <3>3 DEF IInv, TypeOK
    <3>5. Promise!Reverse(target[q])
      BY <3>1, <3>2, <3>4 DEF Promise!Reverse
    <3>q. QED BY <3>1, <3>5 DEF Promise!Next
  <2>q. QED BY <1>2, <2>1, <2>2, <2>3, CommitStep
<1>q. QED BY <1>1, <1>2, Invariance, PTL DEF Spec, ImplementsLedger, Promise!Spec
=============================================================================
