-------------------------- MODULE TransfersOverlap --------------------------
(***************************************************************************)
(* Transfers with two history variables: what each scan knows of the pairs *)
(* on file, and what the scan that suggested a pair knew of them then.     *)
(* Nothing keeps two scans apart (transfers.go, Scan), so the properties   *)
(* say what holds however many overlap.                                    *)
(***************************************************************************)
EXTENDS Transfers, SequencesExt

VARIABLES
    known,  \* scanner -> the pairs on file when it read the legs, and those it inserted
    knew    \* pair -> what the scan that suggested it knew then

overlapVars == <<vars, known, knew>>

\* Scanner s reads the legs; it inserts its first candidate, or finds it on file.
Reads(s) == scan[s] = "legs" /\ scan'[s] = "insert"
Inserts(s) == scan[s] = "insert" /\ scan'[s] = "insert" /\ todo'[s] # todo[s]

Learns(s) ==
    IF Reads(s) THEN Present
    ELSE IF Inserts(s) THEN known[s] \cup {Head(todo[s])}
    ELSE IF scan'[s] = "insert" THEN known[s] ELSE {}
Suggests(p) ==
    IF status'[p] = "none" THEN {}
    ELSE IF status[p] # "none" THEN knew[p]
    ELSE UNION {known[s] : s \in {r \in Scanner : Inserts(r) /\ Head(todo[r]) = p}}

OverlapInit == /\ Init
               /\ known = [s \in Scanner |-> {}] /\ knew = [p \in Pair |-> {}]
OverlapNext == /\ Next
               /\ known' = [s \in Scanner |-> Learns(s)] /\ knew' = [p \in Pair |-> Suggests(p)]
OverlapSpec == OverlapInit /\ [][OverlapNext]_overlapVars

-----------------------------------------------------------------------------
(* Properties.                                                             *)

Both(p) == {p[1], p[2]}
SharesLeg(p, r) == p # r /\ Both(p) \cap Both(r) # {}

\* A transaction is in two pairs only if the scans that suggested them
\* overlapped: neither knew of the other's pair.  One scan knows what it has
\* suggested, and a pair that was on file when it read the legs, decided or
\* not, keeps its transactions from it (transfers.go Scan).
SharedOnlyUnknown ==
    \A p, r \in Present : SharesLeg(p, r) => p \notin knew[r] /\ r \notin knew[p]

\* The sum of the amounts of the transactions in S.
Net(S) ==
    LET upTo[i \in 0 .. Len(ScanOrder)] ==
            IF i = 0 THEN 0
            ELSE upTo[i - 1] + (IF ScanOrder[i] \in S THEN ScanOrder[i].amount ELSE 0)
    IN  upTo[Len(ScanOrder)]

\* Leaving the confirmed pairs out of the cashflow (GetCashflowV2) changes the
\* household's net only if a user confirmed two pairs that share a transaction,
\* of scans that did not know of each other's: otherwise money between own
\* accounts is no income and no expense, and nothing else is left out with it.
NetMovesByOverlap ==
    Net(Stored) # Net(Stored \ Legs(Confirmed)) =>
        \E p, r \in Confirmed : SharesLeg(p, r) /\ p \notin knew[r] /\ r \notin knew[p]

\* Of two transactions a scan has listed that could be a transfer, none is
\* left free when it ends, whatever was imported, rolled back, paired or
\* decided meanwhile: unless one of them had been in a pair that the scan knew
\* and that went with the rollback of its other leg (transfers.go Scan).
ScanLeavesNoCandidate ==
    [][\A s \in Scanner : FinishScan(s) =>
          \A a, b \in ToSet(rows[s]) \cap (Stored \ Legs(Present)) :
              Compatible(a, b) =>
                  \E p \in known[s] : {a, b} \cap Both(p) # {} /\ ~(Both(p) \subseteq Stored)]_scan
=============================================================================
