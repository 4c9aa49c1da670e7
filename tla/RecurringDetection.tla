------------------------- MODULE RecurringDetection -------------------------
(***************************************************************************)
(* DetectRecurringSeries (internal/classify/recurring.go): the regular     *)
(* payments among a household's transactions.                              *)
(*                                                                         *)
(* A transaction is [id, group, day]: its group stands for the pattern of  *)
(* its normalised label together with the sign of its amount, its day is   *)
(* the number of its booking date.  Amounts decide the kind of a series    *)
(* and nothing else here, and are left out.                                *)
(***************************************************************************)
EXTENDS Integers, Sequences, FiniteSets

CONSTANTS
    Specs,      \* the intervals in the order they are tried:
                \* [name, target, tolerance, min], days and fewest members
    Group       \* the groups, numbers in the order of their display names

ASSUME DetectionAssumption ==
    /\ Specs \in Seq([name : STRING, target : Nat, tolerance : Nat, min : Nat \ {0, 1}])
    /\ \A i, j \in DOMAIN Specs : Specs[i].name = Specs[j].name => i = j
    /\ Group \subseteq Nat /\ IsFiniteSet(Group)

\* No series fits.
NoSeries == [count |-> 0]

Away(a, b) == IF a > b THEN a - b ELSE b - a

\* The orders of transactions and of groups, as sets of pairs.
InOrder(S) ==
    {p \in S \X S : p[1].day < p[2].day \/ (p[1].day = p[2].day /\ p[1].id <= p[2].id)}
ByName(S) == {p \in S \X S : p[1] <= p[2]}

\* What is left of S and the list of what was taken, always the first by the
\* order R, after every number of turns.
Taking(S, R) ==
    LET after[i \in 0 .. Cardinality(S)] ==
            IF i = 0 THEN [left |-> S, list |-> <<>>]
            ELSE LET before == after[i - 1]
                     first  == CHOOSE s \in before.left : \A t \in before.left : <<s, t>> \in R
                 IN  [left |-> before.left \ {first}, list |-> Append(before.list, first)]
    IN  after
Listed(S, R) == Taking(S, R)[Cardinality(S)].list

\* Bug: every payment is expected a number of whole periods after the first.
ChainOnGrid(txs, spec, start) ==
    LET upTo[i \in start .. Len(txs)] ==
            IF i = start THEN <<txs[start]>>
            ELSE LET chain    == upTo[i - 1]
                     expected == txs[start].day + Len(chain) * spec.target
                 IN  IF Away(txs[i].day, expected) <= spec.tolerance
                     THEN Append(chain, txs[i]) ELSE chain
    IN  upTo[Len(txs)]
\* The chain from one transaction on: each later one within the tolerance of
\* the expected day is taken and sets the next expectation, an earlier one is
\* passed over, a later one ends the chain.
ChainFrom(txs, spec, start) ==
    LET upTo[i \in 0 .. Len(txs)] ==
            IF i <= start THEN [chain |-> <<txs[start]>>, ended |-> FALSE]
            ELSE LET before   == upTo[i - 1]
                     expected == before.chain[Len(before.chain)].day + spec.target
                 IN  IF before.ended THEN before
                     ELSE IF Away(txs[i].day, expected) <= spec.tolerance
                     THEN [before EXCEPT !.chain = Append(@, txs[i])]
                     ELSE [before EXCEPT !.ended = txs[i].day > expected]
    IN  upTo[Len(txs)].chain

\* Bug: a chain as long replaces an earlier one.
LastLongest(chain, best) == Len(chain) >= Len(best)
\* A chain replaces a shorter one.
Longer(chain, best) == Len(chain) > Len(best)

\* extractIntervalChain: the first of the longest chains.
ExtractIntervalChain(txs, spec) ==
    LET best[i \in 0 .. Len(txs)] ==
            IF i = 0 THEN <<txs[1]>>
            ELSE LET chain == ChainFrom(txs, spec, i)
                     known == best[i - 1]
                 IN  IF Longer(chain, known) THEN chain ELSE known
    IN  best[Len(txs)]

\* chainUncertainty, as a rank: 0 low, 1 medium, 2 high.
Uncertainty(chain, spec) ==
    LET Within(days) == \A i \in 2 .. Len(chain) :
            Away(chain[i].day - chain[i - 1].day, spec.target) <= days
    IN  IF Within(spec.tolerance \div 2) THEN 0
        ELSE IF Within(spec.tolerance) THEN 1 ELSE 2

\* seriesStatus: two periods with their tolerance without a payment.
Ended(lastDay, spec, now) == lastDay < now - 2 * (spec.target + spec.tolerance)

\* buildRecurringSeries
Build(txs, spec, now) ==
    LET chain == ExtractIntervalChain(txs, spec)
    IN  IF Len(chain) < spec.min THEN NoSeries
        ELSE [fingerprint |-> <<txs[1].group, spec.name>>,
              count       |-> Len(chain),
              uncertainty |-> Uncertainty(chain, spec),
              status      |-> IF Ended(chain[Len(chain)].day, spec, now)
                              THEN "ended" ELSE "uncertain",
              members     |-> chain]

\* pickBestRecurringSeries: more members, then less uncertainty, then the
\* interval tried first.
Better(s, best) ==
    \/ s.count > best.count
    \/ s.count # 0 /\ s.count = best.count /\ s.uncertainty < best.uncertainty
PickBest(txs, now) ==
    LET best[i \in 0 .. Len(Specs)] ==
            IF i = 0 THEN NoSeries
            ELSE LET s     == Build(txs, Specs[i], now)
                     known == best[i - 1]
                 IN  IF Better(s, known) THEN s ELSE known
    IN  best[Len(Specs)]

\* The series of one group among the transactions in no series yet.
SeriesOf(g, txs, existing, now) ==
    LET free == {t \in txs : t.group = g /\ t.id \notin existing}
    IN  IF Cardinality(free) < 2 THEN NoSeries
        ELSE PickBest(Listed(free, InOrder(free)), now)

\* The candidates, ordered by display name.
DetectRecurringSeries(txs, existing, now) ==
    LET found  == [g \in Group |-> SeriesOf(g, txs, existing, now)]
        named  == {g \in Group : found[g] # NoSeries}
        groups == Listed(named, ByName(named))
    IN  [i \in DOMAIN groups |-> found[groups[i]]]
=============================================================================
