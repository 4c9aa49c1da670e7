----------------------------- MODULE Transfers -----------------------------
(***************************************************************************)
(* The transfers service (internal/service/transfers.go): scans that       *)
(* suggest transfer pairs and users who confirm or reject them, while      *)
(* imports and rollbacks change the transactions of the household.         *)
(*                                                                         *)
(* Every statement commits on its own.  A pair is named by its two legs,   *)
(* which transfer_pairs_pair_unique makes a key, and a transaction id is   *)
(* never used twice: a booking that is imported again is a new transaction.*)
(***************************************************************************)
EXTENDS TransferDetection

CONSTANTS
    Transaction, \* the transactions of the household, records of ScanTx
    ScanOrder,  \* the transactions by booking date and id
    Scanner,    \* callers of Scan
    Decider     \* calls of Confirm and Reject

ASSUME ScanOrderAssumption ==
    /\ \A t \in Transaction : t.day \in Int /\ t.amount \in Int
    /\ ScanOrder \in Seq(Transaction)
    /\ \A t \in Transaction : \E i \in DOMAIN ScanOrder : ScanOrder[i] = t
    /\ \A i, j \in DOMAIN ScanOrder :
          i < j => ScanOrder[i] # ScanOrder[j] /\ ScanOrder[i].day <= ScanOrder[j].day

Pair == Transaction \X Transaction

VARIABLES
    tx,      \* transaction -> "absent", "stored" or "deleted"
    status,  \* pair -> its status, "none" without a row in transfer_pairs
    scan,    \* scanner -> the statement it executes next
    rows,    \* scanner -> the transactions it has listed
    todo,    \* scanner -> the candidates it still inserts
    decide,  \* decider -> "idle", "update", or how the call ended
    verdict  \* decider -> the pair and the status it is asked for

scanVars == <<scan, rows, todo>>
decideVars == <<decide, verdict>>
vars == <<tx, status, scanVars, decideVars>>

PairStatus == {"suggested", "confirmed", "rejected"}
\* The pairs on file.
Present == {p \in Pair : status[p] # "none"}
Confirmed == {p \in Pair : status[p] = "confirmed"}
Legs(S) == {p[1] : p \in S} \cup {p[2] : p \in S}
Stored == {t \in Transaction : tx[t] = "stored"}
NoVerdict == [pair |-> <<>>, to |-> "none"]

Init ==
    /\ tx = [t \in Transaction |-> "absent"]
    /\ status = [p \in Pair |-> "none"]
    /\ scan = [s \in Scanner |-> "idle"]
    /\ rows = [s \in Scanner |-> <<>>]
    /\ todo = [s \in Scanner |-> <<>>]
    /\ decide = [d \in Decider |-> "idle"]
    /\ verdict = [d \in Decider |-> NoVerdict]

-----------------------------------------------------------------------------
(* Scan.                                                                   *)

\* The stored ones of the first i transactions, for every i.
StoredUpTo ==
    LET upTo[i \in 0 .. Len(ScanOrder)] ==
            IF i = 0 THEN <<>>
            ELSE IF tx[ScanOrder[i]] = "stored" THEN Append(upTo[i - 1], ScanOrder[i])
            ELSE upTo[i - 1]
    IN  upTo
ListTransactions == StoredUpTo[Len(ScanOrder)]

ReadTransactions(s) ==
    /\ scan[s] = "idle"
    /\ scan' = [scan EXCEPT ![s] = "legs"]
    /\ rows' = [rows EXCEPT ![s] = ListTransactions]
    /\ UNCHANGED <<tx, status, todo, decideVars>>

\* Bug: the legs of decided pairs are free again.
UndecidedOnly == Legs({p \in Pair : status[p] = "suggested"})
ExistingLegs == Legs(Present)

\* ListTransferPairLegs and the detection.
ReadLegs(s) ==
    /\ scan[s] = "legs"
    /\ scan' = [scan EXCEPT ![s] = "insert"]
    /\ todo' = [todo EXCEPT ![s] = DetectTransferCandidates(rows[s], ExistingLegs)]
    /\ UNCHANGED <<tx, status, rows, decideVars>>

\* The status of a candidate.
CandidateStatus == "suggested"

\* Bug: no foreign keys.
AlwaysStored(p) == TRUE
\* Both legs of the pair exist, as its foreign keys ask.
LegsStored(p) == p[1] \in Stored /\ p[2] \in Stored

InsertTransferPair(s) ==
    LET p == Head(todo[s])
    IN  /\ scan[s] = "insert"
        /\ todo[s] # <<>>
        /\ \/ /\ LegsStored(p) /\ status[p] = "none"
              /\ status' = [status EXCEPT ![p] = CandidateStatus]
              /\ todo' = [todo EXCEPT ![s] = Tail(@)]
              /\ UNCHANGED <<scan, rows>>
           \/ /\ LegsStored(p) /\ status[p] # "none"   \* ON CONFLICT DO NOTHING
              /\ todo' = [todo EXCEPT ![s] = Tail(@)]
              /\ UNCHANGED <<status, scan, rows>>
           \/ /\ ~LegsStored(p)                        \* the scan fails
              /\ scan' = [scan EXCEPT ![s] = "idle"]
              /\ rows' = [rows EXCEPT ![s] = <<>>]
              /\ todo' = [todo EXCEPT ![s] = <<>>]
              /\ UNCHANGED status
        /\ UNCHANGED <<tx, decideVars>>

EndScan(s) ==
    /\ scan' = [scan EXCEPT ![s] = "idle"]
    /\ rows' = [rows EXCEPT ![s] = <<>>]
    /\ todo' = [todo EXCEPT ![s] = <<>>]
    /\ UNCHANGED <<tx, status, decideVars>>

FinishScan(s) == scan[s] = "insert" /\ todo[s] = <<>> /\ EndScan(s)

\* The request is cancelled, or the process crashes, between two statements.
AbandonScan(s) == scan[s] # "idle" /\ EndScan(s)

-----------------------------------------------------------------------------
(* Confirm and Reject.                                                     *)

GetTransferPair(p) == status[p] # "none"

ReadPair(d, p, to) ==
    /\ decide[d] = "idle"
    /\ verdict' = [verdict EXCEPT ![d] =
          IF status[p] = "suggested" THEN [pair |-> p, to |-> to] ELSE NoVerdict]
    /\ decide' = [decide EXCEPT ![d] =
          IF ~GetTransferPair(p) THEN "not_found"
          ELSE IF status[p] = "suggested" THEN "update"
          ELSE "not_suggested"]
    /\ UNCHANGED <<tx, status, scanVars>>

\* Bug: the UPDATE names the pair only.
UpdateAnyStatus(p) == status[p] # "none"
\* It finds the pair only while it is suggested; the caller learns when not.
Updatable(p) == status[p] = "suggested"
ConfirmTransferPair(p) == [status EXCEPT ![p] = "confirmed"]
RejectTransferPair(p) == [status EXCEPT ![p] = "rejected"]

UpdatePair(d) ==
    LET p == verdict[d].pair
    IN  /\ decide[d] = "update"
        /\ \/ /\ Updatable(p)
              /\ status' = IF verdict[d].to = "confirmed"
                           THEN ConfirmTransferPair(p) ELSE RejectTransferPair(p)
              /\ decide' = [decide EXCEPT ![d] = "done"]
           \/ /\ ~Updatable(p)
              /\ decide' = [decide EXCEPT ![d] = "not_suggested"]
              /\ UNCHANGED status
        /\ UNCHANGED <<tx, scanVars, verdict>>

-----------------------------------------------------------------------------
(* The import service commits an import or a rollback; a deleted           *)
(* transaction takes its pairs with it (ON DELETE CASCADE).                *)

CommitImport(new) ==
    /\ new # {} /\ \A t \in new : tx[t] = "absent"
    /\ tx' = [t \in Transaction |-> IF t \in new THEN "stored" ELSE tx[t]]
    /\ UNCHANGED <<status, scanVars, decideVars>>

CommitRollback(old) ==
    /\ old # {} /\ old \subseteq Stored
    /\ tx' = [t \in Transaction |-> IF t \in old THEN "deleted" ELSE tx[t]]
    /\ status' = [p \in Pair |-> IF p[1] \in old \/ p[2] \in old THEN "none" ELSE status[p]]
    /\ UNCHANGED <<scanVars, decideVars>>

Next ==
    \/ \E s \in Scanner : \/ ReadTransactions(s)
                          \/ ReadLegs(s)
                          \/ InsertTransferPair(s)
                          \/ FinishScan(s)
                          \/ AbandonScan(s)
    \/ \E d \in Decider : \/ \E p \in Pair, to \in {"confirmed", "rejected"} : ReadPair(d, p, to)
                          \/ UpdatePair(d)
    \/ \E S \in SUBSET Transaction : CommitImport(S) \/ CommitRollback(S)

Spec == Init /\ [][Next]_vars

-----------------------------------------------------------------------------
(* Properties.                                                             *)

\* A pair on file joins two stored transactions of different accounts with
\* opposite amounts and near booking dates, outgoing leg first, whatever was
\* imported or rolled back after its scan read the transactions.
PairsAreTransfers ==
    \A p \in Present :
        /\ p[1] \in Stored /\ p[2] \in Stored
        /\ Compatible(p[1], p[2])
        /\ p[1].amount < 0

\* Of the calls that confirm or reject one pair at most one succeeds,
\* although each reads the pair before it updates it (transfers.go decide).
OneVerdict ==
    \A d, e \in Decider :
        decide[d] = "done" /\ decide[e] = "done" /\ verdict[d].pair = verdict[e].pair => d = e

\* What a user decided about a pair stays: no later scan, however old its
\* snapshot, suggests a rejected pair again, and no second call overrides a
\* decision.  Only a rollback of a leg removes it.
DecisionsStand ==
    [][\A p \in Pair : status[p] \in {"confirmed", "rejected"} =>
          \/ status'[p] = status[p]
          \/ status'[p] = "none" /\ (tx'[p[1]] = "deleted" \/ tx'[p[2]] = "deleted")]_<<tx, status>>
=============================================================================
