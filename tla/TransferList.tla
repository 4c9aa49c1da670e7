---------------------------- MODULE TransferList ----------------------------
(***************************************************************************)
(* What DetectTransferCandidates finds: the state is a list of at most     *)
(* MaxList transactions, or of one less with the first of them a leg of a  *)
(* pair already, and a step adds a transaction.  What is found in it is    *)
(* checked against a definition of what is to be found.                    *)
(***************************************************************************)
EXTENDS TransferDetection

CONSTANTS Account, Days, Amounts, MaxList

ASSUME ListAssumption == Days \subseteq Int /\ Amounts \subseteq Int /\ MaxList \in Nat

VARIABLES given, paired      \* the list, and the legs among it

lists == <<given, paired>>

ListInit == given = <<>> /\ paired = {}

\* A list grows at its end, in the order of booking date and id.
ListNext ==
    /\ Len(given) + Cardinality(paired) < MaxList
    /\ \E t \in ScanTx({Len(given) + 1}, Account, Days, Amounts) :
          /\ \A i \in DOMAIN given : given[i].day <= t.day
          /\ given' = Append(given, t)
          /\ paired' \in IF given = <<>> THEN {{}, {t}} ELSE {paired}
ListSpec == ListInit /\ [][ListNext]_lists

-----------------------------------------------------------------------------
(* Property                                                                *)

\* A pair is opened by the earlier of its legs.
Opener(p) == IF p[1].id < p[2].id THEN p[1].id ELSE p[2].id

\* The transactions taken before the turn of number i, those later ones that may
\* be paired with it, and those that are.
TakenBefore(pairs, i) ==
    paired \cup UNION {{pairs[n][1], pairs[n][2]} : n \in {m \in DOMAIN pairs : Opener(pairs[m]) < i}}
Open(pairs, i) ==
    {j \in i + 1 .. Len(given) : given[j] \notin TakenBefore(pairs, i) /\ Compatible(given[i], given[j])}
PairedWith(pairs, i) ==
    {j \in i + 1 .. Len(given) : \E n \in DOMAIN pairs : {pairs[n][1], pairs[n][2]} = {given[i], given[j]}}

\* Number j is a better partner of number i than k: exact ones first, then in order.
Precedes(i, j, k) ==
    IF Exact(given[i], given[j]) = Exact(given[i], given[k]) THEN j <= k
    ELSE Exact(given[i], given[j])

\* Each of the first m transactions in turn that no earlier one took is paired
\* with the best later one that is open, if there is any.
Greedy(pairs, m) ==
    \A i \in 1 .. m :
        PairedWith(pairs, i) = IF given[i] \in TakenBefore(pairs, i) THEN {}
                               ELSE {j \in Open(pairs, i) : \A k \in Open(pairs, i) : Precedes(i, j, k)}

\* Each transaction in turn that no earlier one took is paired with a later
\* free one if there is any: with the first of the exact ones, or with the
\* first of the others if there is no exact one.
GreedyInListOrder == Greedy(DetectTransferCandidates(given, paired), Len(given))
=============================================================================
