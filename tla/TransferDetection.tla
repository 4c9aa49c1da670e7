------------------------- MODULE TransferDetection -------------------------
(***************************************************************************)
(* DetectTransferCandidates (internal/classify/transfers.go): which of a   *)
(* household's transactions are two legs of one transfer between its       *)
(* accounts.                                                               *)
(***************************************************************************)
EXTENDS Integers, Sequences, FiniteSets

\* What a scan knows of a transaction: TransferScanTx, with the day number of
\* its booking date, and whether its texts look like a transfer.
ScanTx(Id, Account, Days, Amounts) ==
    [id : Id, account : Account, day : Days, amount : Amounts, transferText : BOOLEAN]

DateWindowDays == 3

DayDelta(a, b) == IF a.day > b.day THEN a.day - b.day ELSE b.day - a.day

NearEnough(a, b) == DayDelta(a, b) <= DateWindowDays

\* Transactions a and b may be the legs of one transfer.
Compatible(a, b) ==
    /\ a.account # b.account
    /\ a.amount # 0 /\ a.amount = -b.amount
    /\ NearEnough(a, b)

Exact(a, b) ==
    \/ DayDelta(a, b) = 0
    \/ DayDelta(a, b) = 1 /\ (a.transferText \/ b.transferText)

\* The leg money leaves from comes first.
OrderLegs(a, b) == IF a.amount < 0 THEN <<a, b>> ELSE <<b, a>>

\* Positions after i of the transactions that may be the other leg of txs[i].
ExceptLast(txs, i, used) ==
    {j \in i + 1 .. Len(txs) - 1 : txs[j] \notin used /\ Compatible(txs[i], txs[j])}
Partners(txs, i, used) ==
    {j \in i + 1 .. Len(txs) : txs[j] \notin used /\ Compatible(txs[i], txs[j])}

\* The first exact partner, or else the first probable one.
FirstPartner(txs, i, used) ==
    CHOOSE j \in Partners(txs, i, used) : \A k \in Partners(txs, i, used) : j <= k
BestPartner(txs, i, used) ==
    LET exact == {j \in Partners(txs, i, used) : Exact(txs[i], txs[j])}
        top   == IF exact # {} THEN exact ELSE Partners(txs, i, used)
    IN  CHOOSE j \in top : \A k \in top : j <= k

\* One turn of the outer loop.
Consider(txs, acc, i) ==
    IF txs[i] \in acc.used \/ Partners(txs, i, acc.used) = {}
    THEN acc
    ELSE LET partner == txs[BestPartner(txs, i, acc.used)]
         IN  [used |-> acc.used \cup {txs[i], partner},
              pairs |-> Append(acc.pairs, OrderLegs(txs[i], partner))]

\* What is used and paired after every number of turns.
Turns(txs, existing) ==
    LET after[i \in 0 .. Len(txs)] ==
            IF i = 0 THEN [used |-> existing, pairs |-> <<>>]
            ELSE Consider(txs, after[i - 1], i)
    IN  after

\* The transactions come in the order of ListTransactionsForTransferScan;
\* those in existing are legs of pairs already.
DetectTransferCandidates(txs, existing) == Turns(txs, existing)[Len(txs)].pairs
=============================================================================
