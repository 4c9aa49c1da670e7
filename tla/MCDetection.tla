---------------------------- MODULE MCDetection ----------------------------
(***************************************************************************)
(* The detections on every bounded input: lists of transactions for the    *)
(* transfers while the history of payments is its first, and histories of  *)
(* payments for the series while the list is empty.                        *)
(***************************************************************************)
EXTENDS TransferList, PaymentHistory

CentEach == {-1, 1}

\* Two intervals, the second twice the first, tolerances that reach neither.
MCSpecs == <<[name |-> "monthly", target |-> 4, tolerance |-> 1, min |-> 3],
             [name |-> "yearly", target |-> 8, tolerance |-> 2, min |-> 2]>>
MCGroup == {1}

detections == <<given, paired, payments>>

DetectionInit == ListInit /\ HistoryInit
ExtendList == ListNext /\ payments = FirstPayment /\ UNCHANGED payments
ExtendPayments == HistoryNext /\ given = <<>> /\ UNCHANGED lists
DetectionNext == ExtendList \/ ExtendPayments
=============================================================================
