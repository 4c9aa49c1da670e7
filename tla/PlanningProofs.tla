--------------------------- MODULE PlanningProofs ---------------------------
(***************************************************************************)
(* What holds of baselines and reviews for any number of overlapping       *)
(* requests, metrics and versions.                                         *)
(*                                                                         *)
(* The argument: a transaction's version is its own and nobody else sees   *)
(* it before the commit, so a commit never writes over a stored row except *)
(* those it holds; and a row it holds is held by it alone, so it is still  *)
(* open when the commit supersedes it.                                     *)
(***************************************************************************)
EXTENDS PlanningOverlap, WellFoundedInduction, TLAPS

\* The versions of running transactions: begun, not stored, not shared.
VersionsReserved ==
    /\ \A t \in Table, v \in Version :
          status[t][v] # Absent => v <= started[t]
    /\ \A p \in Request : InTransaction(p) =>
          /\ call[p].version <= started[call[p].table]
          /\ status[call[p].table][call[p].version] = Absent
    /\ \A p, q \in Request :
          /\ InTransaction(p) /\ InTransaction(q)
          /\ call[p].table = call[q].table
          /\ call[p].version = call[q].version
          => p = q

IInv == TypeOK /\ VersionsReserved /\ RowsHeldOnce /\ NeverWithoutOpen

USE PlanningAssumption

\* The statuses of a table, and that an absent row is none of them.
LEMMA Statuses ==
    /\ \A t \in Table : /\ FirstStatus(t) \in Confirmable(t)
                        /\ Confirmable(t) \subseteq OpenStatus(t)
                        /\ "confirmed" \in OpenStatus(t)
                        /\ "confirmed" \notin Confirmable(t)
                        /\ OpenStatus(t) \subseteq Status
                        /\ "superseded" \notin OpenStatus(t)
                        /\ Absent \notin OpenStatus(t)
    /\ Absent \notin Status
    /\ "superseded" \in Status
  BY DEF Table, FirstStatus, InsertFinancialBaseline, InsertMoneyReview,
         Confirmable, ConfirmFinancialBaseline, ConfirmMoneyReview,
         OpenStatus, Status, Absent

\* A request is idle, ready, or a transaction: what its record then holds.
LEMMA CallShape ==
    ASSUME TypeOK, NEW p \in Request
    PROVE  /\ call[p].at = "ready" => call[p] \in ReadyCall
           /\ InTransaction(p) => call[p] \in TransactionCall
           /\ call[p].at \in {"idle", "ready", "open", "updating"}
  BY DEF TypeOK, InTransaction, Idle, ReadyCall, TransactionCall

LEMMA InitInv == Init => IInv
<1> SUFFICES ASSUME Init PROVE IInv
  OBVIOUS
<1> USE DEF Init
<1>1. TypeOK
  BY DEF TypeOK, Table, Version
<1>2. VersionsReserved
  BY DEF VersionsReserved, InTransaction, Idle, Table
<1>3. RowsHeldOnce
  BY DEF RowsHeldOnce, Locks, Idle
<1>4. NeverWithoutOpen
  BY DEF NeverWithoutOpen, Stored, Table
<1> QED
  BY <1>1, <1>2, <1>3, <1>4 DEF IInv

\* Steps that leave the tables and every lock alone keep the invariant.
LEMMA ReadOnlyStep ==
    ASSUME IInv, TypeOK', UNCHANGED <<status, started>>,
           NEW p \in Request,
           \A q \in Request \ {p} : call'[q] = call[q],
           call'[p].at \in {"idle", "ready"}
    PROVE  IInv'
<1>1. VersionsReserved'
  BY DEF IInv, VersionsReserved, InTransaction
<1>2. RowsHeldOnce'
  BY DEF IInv, RowsHeldOnce, Locks
<1>3. NeverWithoutOpen'
  BY DEF IInv, NeverWithoutOpen, Stored, OpenRows
<1> QED
  BY <1>1, <1>2, <1>3 DEF IInv

LEMMA ReadSteps ==
    ASSUME IInv, NEW p \in Request,
           Compute(p) \/ ReadForAdjust(p) \/ ReadForReview(p) \/ Abort(p)
    PROVE  IInv'
<1> USE DEF IInv
<1>1. CASE Compute(p)
  <2>1. TypeOK'
    BY <1>1 DEF Compute, TypeOK, Ready, ReadyCall, Table
  <2> QED
    BY <1>1, <2>1, ReadOnlyStep DEF Compute, TypeOK, Ready
<1>2. CASE ReadForAdjust(p)
  <2>1. PICK b \in Stored("baseline"), m \in Metric :
          call' = [call EXCEPT ![p] =
                     Ready("baseline", CorrectedAfter(corrected[b], m), b)]
    BY <1>2 DEF ReadForAdjust
  <2>2. Ready("baseline", CorrectedAfter(corrected[b], m), b) \in ReadyCall
    BY <2>1 DEF TypeOK, Ready, ReadyCall, CorrectedAfter, Stored, Table, Version
  <2>3. TypeOK'
    BY <1>2, <2>1, <2>2 DEF ReadForAdjust, TypeOK
  <2> QED
    BY <1>2, <2>1, <2>3, ReadOnlyStep DEF ReadForAdjust, TypeOK, Ready
<1>3. CASE ReadForReview(p)
  <2>1. PICK b \in Stored("baseline") :
          call' = [call EXCEPT ![p] = Ready("review", {}, b)]
    BY <1>3 DEF ReadForReview
  <2>2. Ready("review", {}, b) \in ReadyCall
    BY <2>1 DEF Ready, ReadyCall, Stored, Table, Version
  <2>3. TypeOK'
    BY <1>3, <2>1, <2>2 DEF ReadForReview, TypeOK
  <2> QED
    BY <1>3, <2>1, <2>3, ReadOnlyStep DEF ReadForReview, TypeOK, Ready
<1>4. CASE Abort(p)
  <2>1. TypeOK'
    BY <1>4 DEF Abort, TypeOK
  <2> QED
    BY <1>4, <2>1, ReadOnlyStep DEF Abort, TypeOK, Idle
<1> QED
  BY <1>1, <1>2, <1>3, <1>4

\* A transaction starts with a version of its own and no row locked.
LEMMA BeginStep ==
    ASSUME IInv, NEW p \in Request, Begin(p)
    PROVE  IInv'
<1> USE DEF IInv
<1>1. PICK t : t = call[p].table
  OBVIOUS
<1>2. PICK v : v = started[t] + 1
  OBVIOUS
<1>3. PICK c : c = InTx(call[p], "open", v, {})
  OBVIOUS
<1>4. call[p] \in ReadyCall /\ t \in Table /\ v \in Version
  BY <1>1, <1>2, CallShape DEF Begin, ReadyCall, TypeOK, Version
<1>5. /\ started' = [started EXCEPT ![t] = v]
      /\ call' = [call EXCEPT ![p] = c]
      /\ UNCHANGED <<status, corrected>>
  BY <1>1, <1>2, <1>3 DEF Begin, TypeOK
<1>6. /\ c \in TransactionCall
      /\ c.at = "open" /\ c.table = t /\ c.version = v
  BY <1>1, <1>3, <1>4 DEF InTx, TransactionCall, ReadyCall
<1>7. \A q \in Request : call'[q] = IF q = p THEN c ELSE call[q]
  BY <1>5 DEF TypeOK
<1>8. \A u \in Table : started'[u] = IF u = t THEN v ELSE started[u]
  BY <1>5 DEF TypeOK
<1>9. /\ \A u \in Table : started[u] \in Nat
      /\ \A w \in Version : w \in Nat
  BY DEF TypeOK, Version
<1>10. TypeOK'
  <2>1. started' \in [Table -> 0 .. MaxVersions]
    BY <1>4, <1>5 DEF TypeOK, Version
  <2> QED
    BY <2>1, <1>5, <1>6 DEF TypeOK
<1>11. VersionsReserved'
  <2>1. ASSUME NEW u \in Table, NEW w \in Version, status'[u][w] # Absent
        PROVE  w <= started'[u]
    BY <2>1, <1>2, <1>5, <1>8, <1>9 DEF VersionsReserved
  <2>2. status[t][v] = Absent
    BY <1>2, <1>4, <1>9 DEF VersionsReserved
  <2>3. ASSUME NEW q \in Request, InTransaction(q)'
        PROVE  /\ call'[q].version <= started'[call'[q].table]
               /\ status'[call'[q].table][call'[q].version] = Absent
    <3>1. CASE q = p
      BY <3>1, <2>2, <1>4, <1>5, <1>6, <1>7, <1>8, <1>9
    <3>2. CASE q # p
      <4>1. InTransaction(q) /\ call'[q] = call[q]
        BY <2>3, <3>2, <1>7 DEF InTransaction
      <4>2. call[q].table \in Table /\ call[q].version \in Nat
        BY <4>1, <1>9, CallShape DEF TransactionCall
      <4> QED
        BY <4>1, <4>2, <1>2, <1>5, <1>8, <1>9 DEF VersionsReserved
    <3> QED
      BY <3>1, <3>2
  <2>4. ASSUME NEW q \in Request, q # p, InTransaction(q), call[q].table = t
        PROVE  call[q].version # v
    <3>1. call[q].version <= started[t] /\ call[q].version \in Nat
      BY <2>4, <1>9, CallShape DEF VersionsReserved, TransactionCall
    <3> QED
      BY <3>1, <1>2, <1>4, <1>9
  <2>5. ASSUME NEW q \in Request, NEW r \in Request,
               InTransaction(q)', InTransaction(r)',
               call'[q].table = call'[r].table,
               call'[q].version = call'[r].version
        PROVE  q = r
    <3>1. q # p => InTransaction(q) /\ call'[q] = call[q]
      BY <2>5, <1>7 DEF InTransaction
    <3>2. r # p => InTransaction(r) /\ call'[r] = call[r]
      BY <2>5, <1>7 DEF InTransaction
    <3> QED
      BY <2>4, <2>5, <3>1, <3>2, <1>6, <1>7 DEF VersionsReserved
  <2> QED
    BY <2>1, <2>3, <2>5 DEF VersionsReserved
<1>12. RowsHeldOnce'
  BY <1>5, <1>6, <1>7 DEF RowsHeldOnce, Locks
<1>13. NeverWithoutOpen'
  BY <1>5 DEF NeverWithoutOpen, Stored, OpenRows
<1> QED
  BY <1>10, <1>11, <1>12, <1>13

\* Inside the transaction, as long as nothing is committed, only the rows
\* it holds change, and it locks none that another one holds.
LEMMA HeldStep ==
    ASSUME IInv, NEW p \in Request, NEW c \in TransactionCall,
           InTransaction(p), call' = [call EXCEPT ![p] = c],
           UNCHANGED <<status, corrected, started>>,
           c.table = call[p].table, c.version = call[p].version,
           \A v \in c.held :
              \/ Locks(p, c.table, v)
              \/ ~Locked(c.table, v) /\ status[c.table][v] \in OpenStatus(c.table)
    PROVE  IInv'
<1> USE DEF IInv
<1>1. \A q \in Request : call'[q] = IF q = p THEN c ELSE call[q]
  BY DEF TypeOK
<1>2. TypeOK'
  BY DEF TypeOK
<1>3. VersionsReserved'
  <2>1. \A q \in Request : InTransaction(q)' => InTransaction(q)
    BY <1>1 DEF InTransaction
  <2>2. \A q \in Request : /\ call'[q].table = call[q].table
                           /\ call'[q].version = call[q].version
                         \/ ~InTransaction(q)
    BY <1>1
  <2> QED
    BY <2>1, <2>2 DEF VersionsReserved
<1>4. RowsHeldOnce'
  <2>1. ASSUME NEW q \in Request, NEW t \in Table, NEW v \in Version,
               Locks(q, t, v)'
        PROVE  \/ Locks(q, t, v)
               \/ q = p /\ ~Locked(t, v) /\ status[t][v] \in OpenStatus(t)
    BY <2>1, <1>1 DEF Locks
  <2>2. ASSUME NEW q \in Request, NEW r \in Request, NEW t \in Table,
               NEW v \in Version, Locks(q, t, v)', Locks(r, t, v)'
        PROVE  q = r
    BY <2>1, <2>2 DEF RowsHeldOnce, Locked
  <2> QED
    BY <2>1, <2>2 DEF RowsHeldOnce
<1>5. NeverWithoutOpen'
  BY DEF NeverWithoutOpen, Stored, OpenRows
<1> QED
  BY <1>2, <1>3, <1>4, <1>5

LEMMA UpdateSteps ==
    ASSUME IInv, NEW p \in Request, Snapshot(p) \/ SupersedeRow(p)
    PROVE  IInv'
<1>1. InTransaction(p) /\ call[p] \in TransactionCall
  BY CallShape DEF IInv, Snapshot, SupersedeRow, InTransaction
<1>2. CASE Snapshot(p)
  <2>1. PICK c : c = InTx(call[p], "updating", call[p].version,
                          OpenRows(call[p].table))
    OBVIOUS
  <2>2. /\ c \in TransactionCall
        /\ c.table = call[p].table /\ c.version = call[p].version
        /\ c.held = {}
    BY <2>1, <1>1 DEF InTx, TransactionCall, OpenRows
  <2>3. /\ call' = [call EXCEPT ![p] = c]
        /\ UNCHANGED <<status, corrected, started>>
    BY <1>2, <2>1 DEF Snapshot
  <2> QED
    BY <1>1, <2>2, <2>3, HeldStep
<1>3. CASE SupersedeRow(p)
  <2>1. PICK t : t = call[p].table
    OBVIOUS
  <2>2. PICK v \in call[p].seen :
          /\ ~Locked(t, v)
          /\ call' = [call EXCEPT
                ![p].seen = @ \ {v},
                ![p].held = IF StillMatches(t, v) THEN @ \cup {v} ELSE @]
    BY <1>3, <2>1 DEF SupersedeRow
  <2>3. PICK c : c = [call[p] EXCEPT
                !.seen = @ \ {v},
                !.held = IF StillMatches(t, v) THEN @ \cup {v} ELSE @]
    OBVIOUS
  <2>4. /\ c \in TransactionCall
        /\ c.table = t /\ c.version = call[p].version
        /\ c.held = IF StillMatches(t, v) THEN call[p].held \cup {v}
                    ELSE call[p].held
    BY <2>1, <2>2, <2>3, <1>1 DEF TransactionCall
  <2>5. /\ call' = [call EXCEPT ![p] = c]
        /\ UNCHANGED <<status, corrected, started>>
    BY <1>3, <2>2, <2>3 DEF SupersedeRow, IInv, TypeOK
  <2>6. \A w \in c.held :
           \/ Locks(p, t, w)
           \/ ~Locked(t, w) /\ status[t][w] \in OpenStatus(t)
    BY <1>3, <2>1, <2>2, <2>4 DEF SupersedeRow, Locks, StillMatches
  <2> QED
    BY <1>1, <2>1, <2>4, <2>5, <2>6, HeldStep
<1> QED
  BY <1>2, <1>3

\* The commit: the rows held, still open, are superseded; the version of its
\* own is stored with the table's first status.
LEMMA CommitWrites ==
    ASSUME IInv, NEW p \in Request, InsertAndCommit(p)
    PROVE  /\ \A t \in Table, v \in Version :
                 status'[t][v] = IF t = call[p].table THEN Written(call[p])[v]
                                 ELSE status[t][v]
           /\ \A q \in Request : call'[q] = IF q = p THEN Idle ELSE call[q]
           /\ started' = started
           /\ status[call[p].table][call[p].version] = Absent
<1>1. PICK c : c = call[p]
  OBVIOUS
<1>2. PICK w : w = Written(c)
  OBVIOUS
<1>3. status' = [status EXCEPT ![c.table] = w]
  BY <1>1, <1>2 DEF InsertAndCommit, InsertBaselineAdjustment
<1>4. \A t \in Table, v \in Version :
         status'[t][v] = IF t = c.table THEN w[v] ELSE status[t][v]
  BY <1>3 DEF IInv, TypeOK
<1>5. \A q \in Request : call'[q] = IF q = p THEN Idle ELSE call[q]
  BY DEF InsertAndCommit, InsertBaselineAdjustment, IInv, TypeOK
<1>6. status[c.table][c.version] = Absent
  BY <1>1 DEF IInv, VersionsReserved, InTransaction, InsertAndCommit, InsertBaselineAdjustment
<1>7. started' = started
  BY DEF InsertAndCommit, InsertBaselineAdjustment
<1> QED
  BY <1>1, <1>2, <1>4, <1>5, <1>6, <1>7

LEMMA CommitStep ==
    ASSUME IInv, NEW p \in Request, InsertAndCommit(p)
    PROVE  IInv'
<1>1. PICK c : c = call[p]
  OBVIOUS
<1>2. /\ InTransaction(p) /\ c \in TransactionCall
      /\ c.table \in Table /\ c.version \in Version
      /\ c.held \subseteq Version
  BY <1>1, CallShape
  DEF IInv, InsertAndCommit, InsertBaselineAdjustment, InTransaction, TransactionCall
<1>3. /\ \A t \in Table, v \in Version :
            status'[t][v] = IF t = c.table THEN Written(c)[v]
                            ELSE status[t][v]
      /\ \A q \in Request : call'[q] = IF q = p THEN Idle ELSE call[q]
      /\ started' = started
      /\ status[c.table][c.version] = Absent
  BY <1>1, CommitWrites
<1>4. /\ Written(c) \in [Version -> Status \cup {Absent}]
      /\ Written(c)[c.version] = FirstStatus(c.table)
      /\ \A v \in Version \ {c.version} :
            Written(c)[v] = IF v \in c.held THEN "superseded"
                            ELSE status[c.table][v]
      /\ \A v \in c.held : status[c.table][v] \in OpenStatus(c.table)
  <2>1. \A v \in c.held : Locks(p, c.table, v)
    BY <1>1 DEF InsertAndCommit, InsertBaselineAdjustment, Locks
  <2>2. FirstStatus(c.table) \in Status
    BY <1>2, Statuses
  <2> QED
    BY <2>1, <2>2, <1>2, Statuses DEF Written, IInv, TypeOK, RowsHeldOnce
<1>5. TypeOK'
  <2>1. status' \in [Table -> [Version -> Status \cup {Absent}]]
    BY <1>1, <1>2, <1>4 DEF InsertAndCommit, InsertBaselineAdjustment, IInv, TypeOK
  <2>2. corrected' \in [Version -> SUBSET Metric]
    BY <1>1, <1>2 DEF InsertAndCommit, InsertBaselineAdjustment, IInv, TypeOK, TransactionCall
  <2> QED
    BY <2>1, <2>2, <1>3 DEF InsertAndCommit, InsertBaselineAdjustment, IInv, TypeOK
<1>6. VersionsReserved'
  <2>1. ASSUME NEW t \in Table, NEW v \in Version, status'[t][v] # Absent
        PROVE  v <= started'[t]
    <3>1. CASE t = c.table /\ v = c.version
      BY <3>1, <1>1, <1>2, <1>3 DEF IInv, VersionsReserved
    <3>2. CASE ~(t = c.table /\ v = c.version)
      <4>1. status[t][v] # Absent
        BY <3>2, <2>1, <1>2, <1>3, <1>4, Statuses
      <4> QED
        BY <4>1, <1>3 DEF IInv, VersionsReserved
    <3> QED
      BY <3>1, <3>2
  <2>2. ASSUME NEW q \in Request, InTransaction(q)'
        PROVE  /\ q # p /\ InTransaction(q) /\ call'[q] = call[q]
               /\ call[q] \in TransactionCall
    BY <2>2, <1>3, CallShape DEF InTransaction, Idle, IInv
  <2>3. ASSUME NEW q \in Request, InTransaction(q)'
        PROVE  /\ call'[q].version <= started'[call'[q].table]
               /\ status'[call'[q].table][call'[q].version] = Absent
    <3>1. /\ call[q].table \in Table /\ call[q].version \in Version
          /\ call[q].table = c.table => call[q].version # c.version
      BY <2>2, <2>3, <1>1, <1>2 DEF TransactionCall, IInv, VersionsReserved
    <3>2. status[call[q].table][call[q].version] = Absent
      BY <2>2, <2>3 DEF IInv, VersionsReserved
    <3>3. status'[call[q].table][call[q].version] = Absent
      BY <3>1, <3>2, <1>2, <1>3, <1>4, Statuses
    <3> QED
      BY <3>3, <2>2, <2>3, <1>3 DEF IInv, VersionsReserved
  <2> QED
    BY <2>1, <2>2, <2>3 DEF IInv, VersionsReserved
<1>7. RowsHeldOnce'
  <2>1. ASSUME NEW q \in Request, NEW t \in Table, NEW v \in Version,
               Locks(q, t, v)'
        PROVE  /\ q # p /\ Locks(q, t, v) /\ status'[t][v] = status[t][v]
    <3>1. q # p /\ Locks(q, t, v)
      BY <2>1, <1>3 DEF Locks, Idle
    <3>2. status[t][v] \in OpenStatus(t) /\ ~Locks(p, t, v)
      BY <3>1 DEF IInv, RowsHeldOnce
    <3>3. t = c.table => v # c.version /\ v \notin c.held
      BY <3>2, <1>1, <1>2, <1>3, Statuses DEF Locks, InsertAndCommit, InsertBaselineAdjustment
    <3> QED
      BY <3>1, <3>3, <1>2, <1>3, <1>4
  <2> QED
    BY <2>1 DEF IInv, RowsHeldOnce
<1>8. NeverWithoutOpen'
  <2>1. c.version \in OpenRows(c.table)'
    BY <1>2, <1>3, <1>4, Statuses DEF OpenRows
  <2>2. ASSUME NEW t \in Table, t # c.table
        PROVE  Stored(t)' = Stored(t) /\ OpenRows(t)' = OpenRows(t)
    BY <2>2, <1>3 DEF Stored, OpenRows
  <2> QED
    BY <2>1, <2>2 DEF IInv, NeverWithoutOpen
<1> QED
  BY <1>5, <1>6, <1>7, <1>8 DEF IInv

\* A confirmed row is open, and only an unlocked one is confirmed.
LEMMA ConfirmStep ==
    ASSUME IInv, NEW t \in Table, NEW v \in Version, Confirm(t, v)
    PROVE  IInv'
<1> USE DEF IInv
<1>1. /\ \A u \in Table, w \in Version :
            status'[u][w] = IF u = t /\ w = v THEN "confirmed" ELSE status[u][w]
      /\ UNCHANGED <<corrected, started, call>>
      /\ ~Locked(t, v) /\ status[t][v] \in OpenStatus(t)
  BY Statuses DEF Confirm, TypeOK
<1>2. status[t][v] # Absent /\ "confirmed" # Absent
  BY <1>1, Statuses
<1>3. TypeOK'
  <2>1. "confirmed" \in Status
    BY DEF Status
  <2> QED
    BY <2>1, <1>1 DEF Confirm, TypeOK
<1>4. VersionsReserved'
  <2>1. \A p \in Request : InTransaction(p) =>
           call[p].table \in Table /\ call[p].version \in Version
    BY CallShape DEF TransactionCall
  <2> QED
    BY <2>1, <1>1, <1>2 DEF VersionsReserved, InTransaction
<1>5. RowsHeldOnce'
  BY <1>1 DEF RowsHeldOnce, Locked, Locks
<1>6. NeverWithoutOpen'
  <2>1. \A u \in Table : /\ Stored(u)' = Stored(u)
                         /\ OpenRows(u) \subseteq OpenRows(u)'
    BY <1>1, <1>2, Statuses DEF Stored, OpenRows
  <2> QED
    BY <2>1 DEF NeverWithoutOpen
<1> QED
  BY <1>3, <1>4, <1>5, <1>6

LEMMA StepInv == IInv /\ [Next]_vars => IInv'
<1> SUFFICES ASSUME IInv, [Next]_vars PROVE IInv'
  OBVIOUS
<1>1. ASSUME NEW p \in Request, RequestStep(p) PROVE IInv'
  BY <1>1, ReadSteps, BeginStep, UpdateSteps, CommitStep DEF RequestStep
<1>2. CASE UNCHANGED vars
  BY <1>2 DEF vars, IInv, TypeOK, VersionsReserved, InTransaction,
              RowsHeldOnce, Locks, NeverWithoutOpen, Stored, OpenRows
<1> QED
  BY <1>1, <1>2, ConfirmStep DEF Next

-----------------------------------------------------------------------------
(* Theorems                                                                *)

\* The inductive invariant holds throughout.
THEOREM Invariance == Spec => []IInv
  BY InitInv, StepInv, PTL DEF Spec

\* Every row and every request has the type stated.
THEOREM TypeCorrect == Spec => []TypeOK
<1>1. IInv => TypeOK
  BY DEF IInv
<1> QED
  BY <1>1, Invariance, PTL

\* Once a household has a baseline (a review), it never is without an open
\* one: supersede and insert commit together (baseline.go:224-243,
\* money_review.go:229-256).
THEOREM AlwaysOneOpen == Spec => []NeverWithoutOpen
<1>1. IInv => NeverWithoutOpen
  BY DEF IInv
<1> QED
  BY <1>1, Invariance, PTL

\* A row is held by one transaction at most, and is open while it is held.
THEOREM HeldOnce == Spec => []RowsHeldOnce
<1>1. IInv => RowsHeldOnce
  BY DEF IInv
<1> QED
  BY <1>1, Invariance, PTL

\* No step changes a superseded row, and the only step that ends a
\* confirmation stores a new version as it does so.
LEMMA StatusSteps ==
    ASSUME IInv, [Next]_vars, NEW t \in Table, NEW v \in Version
    PROVE  /\ status[t][v] = "superseded" => status'[t][v] = "superseded"
           /\ status[t][v] = "confirmed" /\ status'[t][v] # "confirmed"
                => \E w \in Version : /\ status[t][w] = Absent
                                      /\ status'[t][w] \in Confirmable(t)
<1>1. CASE status' = status
  BY <1>1
<1>2. ASSUME NEW u \in Table, NEW w \in Version, Confirm(u, w)
      PROVE  /\ status[t][v] = "superseded" => status'[t][v] = "superseded"
             /\ status[t][v] = "confirmed" => status'[t][v] = "confirmed"
  BY <1>2, Statuses DEF Confirm, IInv, TypeOK
<1>3. ASSUME NEW p \in Request, InsertAndCommit(p)
      PROVE  /\ status[t][v] = "superseded" => status'[t][v] = "superseded"
             /\ status[t][v] = "confirmed" /\ status'[t][v] # "confirmed"
                => \E w \in Version : /\ status[t][w] = Absent
                                      /\ status'[t][w] \in Confirmable(t)
  <2>1. PICK c : c = call[p]
    OBVIOUS
  <2>2. c \in TransactionCall
    BY <2>1, <1>3, CallShape DEF IInv, InsertAndCommit, InsertBaselineAdjustment, InTransaction
  <2>3. /\ \A u \in Table, w \in Version :
              status'[u][w] = IF u = c.table THEN Written(c)[w]
                              ELSE status[u][w]
        /\ status[c.table][c.version] = Absent
    BY <1>3, <2>1, CommitWrites
  <2>4. c.version \in Version /\ c.table \in Table
    BY <2>2 DEF TransactionCall
  <2>5. /\ Written(c)[c.version] = FirstStatus(c.table)
        /\ v # c.version => Written(c)[v] = IF v \in c.held THEN "superseded"
                                            ELSE status[c.table][v]
    BY <2>4 DEF Written
  <2> QED
    BY <2>3, <2>4, <2>5, Statuses DEF Absent
<1>4. status' = status
        \/ (\E u \in Table, w \in Version : Confirm(u, w))
        \/ (\E p \in Request : InsertAndCommit(p))
  BY DEF Next, RequestStep, vars, Compute, ReadForAdjust, ReadForReview,
         Begin, Snapshot, SupersedeRow, Abort
<1> QED
  BY <1>1, <1>2, <1>3, <1>4

\* A superseded version is never reopened (queries/baselines.sql:44-53).
THEOREM SupersededStays == Spec => SupersededIsFinal
<1>1. IInv /\ [Next]_vars
        => [\A t \in Table, v \in Version : status[t][v] = "superseded"
               => status'[t][v] = "superseded"]_vars
  BY StatusSteps
<1> QED
  BY <1>1, Invariance, PTL DEF Spec, SupersededIsFinal

\* A confirmation ends only in the step that stores its replacement.
THEOREM ConfirmationStands == Spec => ConfirmedUntilReplaced
<1>1. IInv /\ [Next]_vars
        => [\A t \in Table, v \in Version :
              status[t][v] = "confirmed" /\ status'[t][v] # "confirmed"
                => \E w \in Version : /\ status[t][w] = Absent
                                      /\ status'[t][w] \in Confirmable(t)]_vars
  BY StatusSteps
<1> QED
  BY <1>1, Invariance, PTL DEF Spec, ConfirmedUntilReplaced

-----------------------------------------------------------------------------
(* The current baseline                                                    *)

\* A set of versions has a newest one, which Max chooses.
LEMMA Newest ==
    ASSUME NEW T \in SUBSET Version, T # {}
    PROVE  Max(T) \in T /\ \A v \in T : v <= Max(T)
<1> DEFINE D == {MaxVersions - v : v \in T}
<1>1. D \in SUBSET Nat /\ D # {}
  <2>1. \A v \in T : MaxVersions - v \in Nat
    BY DEF Version
  <2> QED
    BY <2>1
<1>2. PICK d \in D : \A e \in D : ~(<<e, d>> \in OpToRel(<, Nat))
  BY <1>1, NatLessThanWellFounded, WFMin
<1>3. PICK w \in T : d = MaxVersions - w
  OBVIOUS
<1>4. \A v \in T : w >= v
  <2> SUFFICES ASSUME NEW v \in T PROVE w >= v
    OBVIOUS
  <2>1. ~(MaxVersions - v < d)
    BY <1>1, <1>2 DEF OpToRel
  <2> QED
    BY <1>3, <2>1 DEF Version
<1>5. \E m \in T : \A v \in T : m >= v
  BY <1>4
<1>6. Max(T) \in T /\ \A v \in T : Max(T) >= v
  BY <1>5 DEF Max
<1> QED
  BY <1>6 DEF Version

Confirmed == {v \in Version : status["baseline"][v] = "confirmed"}

\* While a baseline is confirmed, the current one is the newest confirmed.
LEMMA CurrentIsNewest ==
    Confirmed # {} => Current = Max(Confirmed)
<1> SUFFICES ASSUME Confirmed # {} PROVE Current = Max(Confirmed)
  OBVIOUS
<1>1. Confirmed \subseteq OpenRows("baseline")
  BY DEF Confirmed, OpenRows, OpenStatus
<1>2. OpenRows("baseline") # {} /\ OpenRows("baseline") \cap Confirmed = Confirmed
  BY <1>1
<1> QED
  BY <1>2 DEF Current, Preferred, Confirmed

LEMMA CurrentIsStored ==
    Current # 0 => Current \in OpenRows("baseline")
<1> SUFFICES ASSUME Current # 0 PROVE Current \in OpenRows("baseline")
  OBVIOUS
<1> DEFINE rows == Preferred(OpenRows("baseline"), Confirmed)
<1>1. OpenRows("baseline") # {} /\ Current = Max(rows)
  BY DEF Current, Confirmed
<1>2. rows # {} /\ rows \subseteq OpenRows("baseline")
  BY <1>1 DEF Preferred
<1>3. OpenRows("baseline") \subseteq Version
  BY DEF OpenRows
<1> HIDE DEF rows
<1> QED
  BY <1>1, <1>2, <1>3, Newest

\* Only Confirm makes a row confirmed, and it takes an open unconfirmed one.
LEMMA ConfirmedBy ==
    ASSUME IInv, [Next]_vars, NEW t \in Table, NEW v \in Version,
           status[t][v] # "confirmed", status'[t][v] = "confirmed"
    PROVE  status[t][v] \in Confirmable(t)
<1>1. ASSUME NEW u \in Table, NEW w \in Version, Confirm(u, w)
      PROVE  status[t][v] \in Confirmable(t)
  BY <1>1 DEF Confirm, IInv, TypeOK
<1>2. ASSUME NEW p \in Request, InsertAndCommit(p) PROVE FALSE
  <2>1. /\ status'[t][v] = IF t = call[p].table THEN Written(call[p])[v] ELSE status[t][v]
        /\ call[p].table = t => FirstStatus(t) # "confirmed"
    BY <1>2, CommitWrites, Statuses
  <2> QED
    BY <2>1 DEF Written
<1>3. \/ status' = status
      \/ \E u \in Table, w \in Version : Confirm(u, w)
      \/ \E p \in Request : InsertAndCommit(p)
  BY DEF Next, RequestStep, vars, Compute, ReadForAdjust, ReadForReview,
         Begin, Snapshot, SupersedeRow, Abort
<1> QED
  BY <1>1, <1>2, <1>3

\* A confirmed current baseline that stays confirmed gives way only to a newer
\* draft that the user confirms (GetCurrentFinancialBaseline orders confirmed
\* rows first), however many drafts overlapping requests leave open.
THEOREM DraftsHideNothing == Spec => DraftNeverHidesConfirmed
<1>0. (Confirmed # {} => Current = Max(Confirmed))'
  BY CurrentIsNewest, PTL
<1>1. ASSUME IInv, [Next]_vars, Current # 0,
             status["baseline"][Current] = "confirmed",
             status'["baseline"][Current] = "confirmed",
             Current' # Current
      PROVE  /\ Current' > Current
             /\ status["baseline"][Current'] = "draft"
             /\ status'["baseline"][Current'] = "confirmed"
  <2>1. Confirmed # {} /\ Current = Max(Confirmed)
    <3>1. Current \in Confirmed
      BY <1>1, CurrentIsStored DEF Confirmed, OpenRows
    <3> QED
      BY <3>1, CurrentIsNewest
  <2>2. Current \in Confirmed /\ \A v \in Confirmed : v <= Current
    BY <2>1, Newest DEF Confirmed
  <2>3. Confirmed' # {} /\ Current \in Confirmed'
    BY <1>1, <2>2 DEF Confirmed
  <2>4. Current' = Max(Confirmed')
    BY <1>0, <2>3
  <2>5. Current' \in Confirmed' /\ \A v \in Confirmed' : v <= Current'
    <3>1. Confirmed' \in SUBSET Version
      BY DEF Confirmed
    <3> QED
      BY <2>3, <2>4, <3>1, Newest
  <2>6. Current \in Version /\ Current' \in Version
    BY <2>2, <2>5 DEF Confirmed
  <2>7. Current' > Current
    BY <1>1, <2>3, <2>5, <2>6 DEF Version
  <2>8. Current' \notin Confirmed
    BY <2>2, <2>6, <2>7 DEF Version
  <2>9. status["baseline"][Current'] # "confirmed" /\ status'["baseline"][Current'] = "confirmed"
    BY <2>5, <2>6, <2>8 DEF Confirmed
  <2>10. status["baseline"][Current'] \in Confirmable("baseline")
    BY <1>1, <2>6, <2>9, ConfirmedBy DEF Table
  <2> QED
    BY <2>7, <2>9, <2>10 DEF Confirmable, ConfirmFinancialBaseline
<1>2. IInv /\ [Next]_vars =>
        [Current # 0
         => \/ status["baseline"][Current] # "confirmed"
            \/ status'["baseline"][Current] # "confirmed"
            \/ Current' = Current
            \/ /\ Current' > Current
               /\ status["baseline"][Current'] = "draft"
               /\ status'["baseline"][Current'] = "confirmed"]_vars
  BY <1>1
<1> QED
  BY <1>2, Invariance, PTL DEF Spec, DraftNeverHidesConfirmed

-----------------------------------------------------------------------------
(* Requests that do not overlap                                            *)

\* A row is open, superseded or not there.
StatusKinds ==
    \A t \in Table, v \in Version :
        status[t][v] \in OpenStatus(t) \cup {"superseded", Absent}

\* A running UPDATE has the open rows before it or in its hands.
ReachesOpenRows ==
    \A p \in Request : call[p].at = "updating" =>
        OpenRows(call[p].table) \subseteq call[p].seen \cup call[p].held

\* The version an adjustment is computed from is still open, its corrections
\* are those of the adjustment.
BuildsOnOpen ==
    \A p \in Request : Active(p) /\ call[p].table = "baseline" /\ call[p].base # 0 =>
        /\ call[p].base \in OpenRows("baseline")
        /\ corrected[call[p].base] \ {Derived} \subseteq call[p].metrics

OneOpen == \A t \in Table : \A v, w \in OpenRows(t) : v = w

Serial == alone => AtMostOneActive /\ OneOpen /\ ReachesOpenRows /\ BuildsOnOpen

OverlapInv == IInv /\ StatusKinds /\ Serial

\* The history variable takes no step away from Planning.
LEMMA OverlapIsSpec == OverlapSpec => Spec
<1>1. OverlapInit => Init
  BY DEF OverlapInit
<1>2. [OverlapNext]_overlapVars => [Next]_vars
  BY DEF OverlapNext, overlapVars
<1> QED
  BY <1>1, <1>2, PTL DEF OverlapSpec, Spec

LEMMA StatusKindsStep == IInv /\ StatusKinds /\ [Next]_vars => StatusKinds'
<1> SUFFICES ASSUME IInv, StatusKinds, [Next]_vars PROVE StatusKinds'
  OBVIOUS
<1>1. CASE status' = status
  BY <1>1 DEF StatusKinds
<1>2. ASSUME NEW u \in Table, NEW w \in Version, Confirm(u, w) PROVE StatusKinds'
  <2>1. \A t \in Table, v \in Version :
           status'[t][v] = IF t = u /\ v = w THEN "confirmed" ELSE status[t][v]
    BY <1>2 DEF Confirm, IInv, TypeOK
  <2> QED
    BY <2>1, Statuses DEF StatusKinds
<1>3. ASSUME NEW p \in Request, InsertAndCommit(p) PROVE StatusKinds'
  <2>1. \A t \in Table, v \in Version :
           status'[t][v] = IF t = call[p].table THEN Written(call[p])[v] ELSE status[t][v]
    BY <1>3, CommitWrites
  <2>2. \A t \in Table, v \in Version : t = call[p].table =>
           Written(call[p])[v] \in {FirstStatus(t), "superseded", status[t][v]}
    BY DEF Written
  <2> QED
    BY <2>1, <2>2, Statuses DEF StatusKinds
<1>4. \/ status' = status
      \/ \E u \in Table, w \in Version : Confirm(u, w)
      \/ \E p \in Request : InsertAndCommit(p)
  BY DEF Next, RequestStep, vars, Compute, ReadForAdjust, ReadForReview,
         Begin, Snapshot, SupersedeRow, Abort
<1> QED
  BY <1>1, <1>2, <1>3, <1>4

\* A step of one request, as it is seen while no other is active.
LEMMA SerialRequestStep ==
    ASSUME IInv, StatusKinds, NEW p \in Request, RequestStep(p),
           AtMostOneActive, OneOpen, ReachesOpenRows, BuildsOnOpen
    PROVE  OneOpen' /\ ReachesOpenRows' /\ BuildsOnOpen'
<1> USE DEF IInv
<1>1. \A q \in Request : q # p => call'[q] = call[q]
  BY DEF RequestStep, Compute, ReadForAdjust, ReadForReview, Begin, Snapshot, SupersedeRow,
     InsertAndCommit, Abort, TypeOK
<1>2. ASSUME UNCHANGED <<status, corrected>>,
             call'[p].at = "updating" =>
                OpenRows(call'[p].table) \subseteq call'[p].seen \cup call'[p].held,
             call'[p] # Idle /\ call'[p].table = "baseline" /\ call'[p].base # 0 =>
                /\ call'[p].base \in OpenRows("baseline")
                /\ corrected[call'[p].base] \ {Derived} \subseteq call'[p].metrics
      PROVE  OneOpen' /\ ReachesOpenRows' /\ BuildsOnOpen'
  <2>1. \A t : OpenRows(t)' = OpenRows(t)
    BY <1>2 DEF OpenRows
  <2>2. OneOpen'
    BY <2>1 DEF OneOpen
  <2>3. ReachesOpenRows'
    BY <1>1, <1>2, <2>1 DEF ReachesOpenRows
  <2>4. BuildsOnOpen'
    BY <1>1, <1>2, <2>1 DEF BuildsOnOpen, Active
  <2> QED
    BY <2>2, <2>3, <2>4
<1>3. CASE Compute(p)
  <2>1. call'[p] = Ready("baseline", {}, 0) /\ UNCHANGED <<status, corrected>>
    BY <1>3 DEF Compute, TypeOK
  <2> QED
    BY <1>2, <2>1 DEF Ready
<1>4. CASE ReadForAdjust(p)
  <2>1. PICK b \in Stored("baseline"), m \in Metric :
           /\ Adjustable(b)
           /\ call' = [call EXCEPT ![p] =
                         Ready("baseline", CorrectedAfter(corrected[b], m), b)]
           /\ UNCHANGED <<status, corrected>>
    BY <1>4 DEF ReadForAdjust
  <2>2. call'[p] = Ready("baseline", CorrectedAfter(corrected[b], m), b)
    BY <2>1 DEF TypeOK
  <2>3. b \in OpenRows("baseline")
    BY <2>1 DEF Adjustable, Stored, OpenRows, OpenStatus, Confirmable, ConfirmFinancialBaseline
  <2>4. corrected[b] \ {Derived} \subseteq CorrectedAfter(corrected[b], m)
    BY DEF CorrectedAfter
  <2> QED
    BY <1>2, <2>1, <2>2, <2>3, <2>4 DEF Ready
<1>5. CASE ReadForReview(p)
  <2>1. /\ \E b : call'[p] = Ready("review", {}, b)
        /\ UNCHANGED <<status, corrected>>
    BY <1>5 DEF ReadForReview, TypeOK
  <2> QED
    BY <1>2, <2>1 DEF Ready
<1>6. CASE Begin(p)
  <2>1. \E v : call'[p] = InTx(call[p], "open", v, {})
    BY <1>6 DEF Begin, TypeOK
  <2>2. Active(p) /\ UNCHANGED <<status, corrected>>
    BY <1>6 DEF Begin, Active, Idle
  <2> QED
    BY <1>2, <2>1, <2>2 DEF InTx, BuildsOnOpen
<1>7. CASE Snapshot(p)
  <2>1. call'[p] = InTx(call[p], "updating", call[p].version, OpenRows(call[p].table))
    BY <1>7 DEF Snapshot, TypeOK
  <2>2. Active(p) /\ UNCHANGED <<status, corrected>>
    BY <1>7 DEF Snapshot, Active, Idle
  <2> QED
    BY <1>2, <2>1, <2>2 DEF InTx, BuildsOnOpen
<1>8. CASE SupersedeRow(p)
  <2> DEFINE t == call[p].table
  <2>1. PICK v \in call[p].seen :
          call' = [call EXCEPT
                ![p].seen = @ \ {v},
                ![p].held = IF StillMatches(t, v) THEN @ \cup {v} ELSE @]
    BY <1>8 DEF SupersedeRow
  <2>2. call[p] \in TransactionCall /\ call[p].at = "updating" /\ Active(p)
    BY <1>8, CallShape DEF SupersedeRow, InTransaction, Active, Idle
  <2>3. /\ call'[p].at = "updating" /\ call'[p].table = t
        /\ call'[p].base = call[p].base /\ call'[p].metrics = call[p].metrics
        /\ call'[p].seen = call[p].seen \ {v}
        /\ call'[p].held = IF StillMatches(t, v) THEN call[p].held \cup {v} ELSE call[p].held
    BY <2>1, <2>2 DEF TypeOK, TransactionCall
  <2>4. OpenRows(t) \subseteq call'[p].seen \cup call'[p].held
    BY <2>2, <2>3 DEF ReachesOpenRows, StillMatches, OpenRows
  <2>5. UNCHANGED <<status, corrected>>
    BY <1>8 DEF SupersedeRow
  <2> QED
    BY <1>2, <2>2, <2>3, <2>4, <2>5 DEF BuildsOnOpen
<1>9. CASE InsertAndCommit(p)
  <2>0. PICK c, t : c = call[p] /\ t = c.table
    OBVIOUS
  <2>1. /\ \A u \in Table, v \in Version :
              status'[u][v] = IF u = t THEN Written(c)[v] ELSE status[u][v]
        /\ call'[p] = Idle
    BY <1>9, <2>0, CommitWrites
  <2>2. c.at = "updating" /\ c.seen = {} /\ Active(p)
    BY <1>9, <2>0 DEF InsertAndCommit, Active, Idle
  <2>3. \A q \in Request : call'[q] = Idle
    BY <1>1, <2>1, <2>2 DEF AtMostOneActive, Active
  <2>4. t \in Table /\ c.version \in Version
    BY <2>0, <2>2, CallShape DEF InTransaction, TransactionCall
  <2>5. \A v \in Version : v # c.version => status'[t][v] \notin OpenStatus(t)
    <3>1. ASSUME NEW v \in Version, v # c.version, v \notin c.held
          PROVE  status[t][v] \notin OpenStatus(t)
      BY <2>0, <2>2, <3>1 DEF ReachesOpenRows, OpenRows
    <3> QED
      BY <2>0, <2>1, <2>4, <3>1, Statuses DEF Written
  <2>6. OneOpen'
    <3>1. \A v \in OpenRows(t)' : v = c.version
      BY <2>5 DEF OpenRows
    <3>2. \A u \in Table : u # t => OpenRows(u)' = OpenRows(u)
      BY <2>1 DEF OpenRows
    <3> QED
      BY <3>1, <3>2 DEF OneOpen
  <2> QED
    BY <2>3, <2>6 DEF ReachesOpenRows, BuildsOnOpen, Active, Idle
<1>10. CASE Abort(p)
  <2>1. call'[p] = Idle /\ UNCHANGED <<status, corrected>>
    BY <1>10 DEF Abort, TypeOK
  <2> QED
    BY <1>2, <2>1 DEF Idle
<1> QED
  BY <1>3, <1>4, <1>5, <1>6, <1>7, <1>8, <1>9, <1>10 DEF RequestStep

LEMMA OverlapStep == OverlapInv /\ [OverlapNext]_overlapVars => OverlapInv'
<1> SUFFICES ASSUME OverlapInv, [OverlapNext]_overlapVars PROVE OverlapInv'
  OBVIOUS
<1>1. [Next]_vars
  BY DEF OverlapNext, overlapVars
<1>2. IInv' /\ StatusKinds'
  BY <1>1, StepInv, StatusKindsStep DEF OverlapInv
<1>3. ASSUME alone' PROVE AtMostOneActive' /\ OneOpen' /\ ReachesOpenRows' /\ BuildsOnOpen'
  <2>1. alone /\ AtMostOneActive /\ OneOpen /\ ReachesOpenRows /\ BuildsOnOpen
    BY <1>3 DEF OverlapInv, Serial, OverlapNext, overlapVars
  <2>2. AtMostOneActive'
    BY <1>3, <2>1 DEF OverlapNext, overlapVars, vars, AtMostOneActive, Active
  <2>3. CASE UNCHANGED vars
    <3>1. UNCHANGED <<status, corrected, call>>
      BY <2>3 DEF vars
    <3>2. \A t : OpenRows(t)' = OpenRows(t)
      BY <3>1 DEF OpenRows
    <3>3. OneOpen'
      BY <2>1, <3>2 DEF OneOpen
    <3>4. ReachesOpenRows'
      BY <2>1, <3>1, <3>2 DEF ReachesOpenRows
    <3>5. BuildsOnOpen'
      BY <2>1, <3>1, <3>2 DEF BuildsOnOpen, Active
    <3> QED
      BY <2>2, <3>3, <3>4, <3>5
  <2>4. ASSUME NEW t \in Table, NEW v \in Version, Confirm(t, v)
        PROVE  OneOpen' /\ ReachesOpenRows' /\ BuildsOnOpen'
    <3>1. \A u \in Table, w \in Version :
             status'[u][w] = IF u = t /\ w = v THEN "confirmed" ELSE status[u][w]
      BY <2>4 DEF Confirm, OverlapInv, IInv, TypeOK
    <3>2. \A u \in Table : OpenRows(u)' = OpenRows(u)
      BY <2>4, <3>1, Statuses DEF OpenRows, Confirm
    <3>3. UNCHANGED <<corrected, call>>
      BY <2>4 DEF Confirm
    <3>4. \A p \in Request : call[p].at = "updating" => call[p].table \in Table
      BY CallShape DEF OverlapInv, IInv, InTransaction, TransactionCall
    <3>5. OneOpen'
      BY <2>1, <3>2 DEF OneOpen
    <3>6. ReachesOpenRows'
      BY <2>1, <3>2, <3>3, <3>4 DEF ReachesOpenRows
    <3>7. BuildsOnOpen'
      BY <2>1, <3>2, <3>3 DEF BuildsOnOpen, Active, Table
    <3> QED
      BY <3>5, <3>6, <3>7
  <2>5. ASSUME NEW p \in Request, RequestStep(p)
        PROVE  OneOpen' /\ ReachesOpenRows' /\ BuildsOnOpen'
    BY <2>1, <2>5, SerialRequestStep DEF OverlapInv
  <2> QED
    BY <1>1, <2>2, <2>3, <2>4, <2>5 DEF Next
<1> QED
  BY <1>2, <1>3 DEF OverlapInv, Serial

LEMMA OverlapInvariance == OverlapSpec => []OverlapInv
<1>1. OverlapInit => OverlapInv
  <2> SUFFICES ASSUME OverlapInit PROVE OverlapInv
    OBVIOUS
  <2>1. Init
    BY DEF OverlapInit
  <2>2. StatusKinds
    BY <2>1 DEF Init, StatusKinds
  <2>3. \A t \in Table : OpenRows(t) = {}
    BY <2>1, Statuses DEF Init, OpenRows
  <2>4. \A p \in Request : call[p] = Idle
    BY <2>1 DEF Init
  <2>5. Serial
    BY <2>3, <2>4 DEF Serial, AtMostOneActive, OneOpen, ReachesOpenRows, BuildsOnOpen, Active,
       Idle
  <2> QED
    BY <2>1, <2>2, <2>5, InitInv DEF OverlapInv
<1> QED
  BY <1>1, OverlapStep, PTL DEF OverlapSpec

\* While requests do not overlap, each artifact has one open version at most:
\* a transaction alone supersedes every open row before it inserts its own.
THEOREM OneOpenWhileAlone == OverlapSpec => []OneOpenUntilOverlap
<1>1. OverlapInv => OneOpenUntilOverlap
  BY DEF OverlapInv, StatusKinds, Serial, OneOpen, OpenRows, OneOpenUntilOverlap,
     OneOpenVersion, Stored
<1> QED
  BY <1>1, OverlapInvariance, PTL

\* While they do not, an adjustment carries every correction of the version it
\* supersedes, the derived metric's aside (Adjust reads that version before
\* its transaction).
THEOREM CorrectionsWhileAlone == OverlapSpec => CorrectionsUntilOverlap
<1>1. ASSUME OverlapInv, [OverlapNext]_overlapVars, alone', NEW p \in Request,
             call[p].at = "updating", call'[p] = Idle, status' # status,
             call[p].table = "baseline", call[p].base # 0, NEW b \in call[p].held
      PROVE  corrected[b] \ {Derived} \subseteq corrected'[call[p].version]
  <2>1. alone /\ AtMostOneActive /\ OneOpen /\ BuildsOnOpen
    BY <1>1 DEF OverlapInv, Serial, OverlapNext, overlapVars
  <2>2. InsertAndCommit(p)
    <3>1. ASSUME NEW q \in Request, InsertAndCommit(q) PROVE q = p
      BY <1>1, <3>1 DEF InsertAndCommit, OverlapInv, IInv, TypeOK, Idle
    <3>2. ASSUME NEW t \in Table, NEW v \in Version, Confirm(t, v) PROVE FALSE
      BY <1>1, <3>2 DEF Confirm, Idle
    <3>3. \/ status' = status
          \/ \E t \in Table, v \in Version : Confirm(t, v)
          \/ \E q \in Request : InsertAndCommit(q)
      BY <1>1 DEF OverlapNext, overlapVars, vars, Next, RequestStep, Compute,
         ReadForAdjust, ReadForReview, Begin, Snapshot, SupersedeRow, Abort
    <3> QED
      BY <1>1, <3>1, <3>2, <3>3
  <2>3. call[p] \in TransactionCall
    BY <1>1, CallShape DEF InTransaction, OverlapInv, IInv
  <2>4. corrected'[call[p].version] = call[p].metrics
    BY <1>1, <2>2, <2>3 DEF InsertAndCommit, InsertBaselineAdjustment, TransactionCall,
       OverlapInv, IInv, TypeOK
  <2>5. b \in OpenRows("baseline")
    <3>1. b \in Version
      BY <1>1, <2>3 DEF TransactionCall
    <3> QED
      BY <1>1, <3>1 DEF OverlapInv, IInv, RowsHeldOnce, Locks, OpenRows, Table
  <2>6. /\ call[p].base \in OpenRows("baseline")
        /\ corrected[call[p].base] \ {Derived} \subseteq call[p].metrics
    BY <1>1, <2>1 DEF BuildsOnOpen, Active, Idle
  <2>7. b = call[p].base
    BY <2>1, <2>5, <2>6 DEF OneOpen, Table
  <2> QED
    BY <2>4, <2>6, <2>7
<1>2. OverlapInv /\ [OverlapNext]_overlapVars => [alone' => CarriesCorrections]_vars
  BY <1>1 DEF CarriesCorrections
<1> QED
  BY <1>2, OverlapInvariance, PTL DEF OverlapSpec, CorrectionsUntilOverlap
=============================================================================
