--------------------------- MODULE TransfersProofs ---------------------------
(***************************************************************************)
(* What the transfers service keeps, for any transactions and any number   *)
(* of scanners, deciders and rollbacks.                                    *)
(*                                                                         *)
(* Decisions: a scan only writes pairs without a row, a verdict only       *)
(* suggested ones, and a decided pair that a rollback removed cannot come  *)
(* back, since one of its legs is gone for good.                           *)
(*                                                                         *)
(* Pairs: the detection is a loop, so what it returns is shown by          *)
(* induction on its turns; the scans then carry what it returned, and any  *)
(* number of them keep the pairs on file transfers.  What each scan knows  *)
(* of the pairs on file, and whether those are still there or have lost a  *)
(* leg, shows when a transaction may be in two pairs, and that no          *)
(* candidate is left.                                                      *)
(* Which pairs the detection finds in a list, and that it finds them in    *)
(* the order of the list, is shown by the same induction.                  *)
(***************************************************************************)
EXTENDS TransfersOverlap, TransferList, WellFoundedInduction, TLAPS

\* A set of numbers that is not empty has a least one.
LEMMA LeastNat ==
    ASSUME NEW S \in SUBSET Nat, S # {}
    PROVE  \E n \in S : \A m \in S : n <= m
<1>1. PICK n \in S : \A m \in S : ~(<<m, n>> \in OpToRel(<, Nat))
  BY NatLessThanWellFounded, WFMin
<1>2. \A m \in S : ~(m < n)
  BY <1>1 DEF OpToRel
<1> QED BY <1>2

\* A function from 0..N to S that starts with b and takes each value from the one before.
Steps(N, S) == [S -> [1..N -> S]]
Follows(f, N, S, b, step) ==
    f \in [0..N -> S] /\ f[0] = b /\ \A i \in 1..N : f[i] = step[f[i - 1]][i]

\* There is such a function: recursion defines something.
LEMMA Recursion ==
    ASSUME NEW N \in Nat, NEW S, NEW b \in S, NEW step \in Steps(N, S)
    PROVE  \E f : Follows(f, N, S, b, step)
<1> USE DEF Steps
<1> DEFINE Defined(n) == \E f \in [0..n -> S] :
                           f[0] = b /\ \A i \in 1..n : f[i] = step[f[i - 1]][i]
           Failing == {n \in 0..N : ~Defined(n)}
<1>1. Defined(0)
  <2> DEFINE f == [i \in 0..0 |-> b]
  <2>1. f \in [0..0 -> S] /\ f[0] = b
    OBVIOUS
  <2>2. \A i \in 1..0 : f[i] = step[f[i - 1]][i]
    OBVIOUS
  <2> HIDE DEF f
  <2> QED BY <2>1, <2>2
<1>2. ASSUME NEW n \in 1..N, Defined(n - 1) PROVE Defined(n)
  <2>1. PICK f \in [0..n - 1 -> S] :
          f[0] = b /\ \A i \in 1..n - 1 : f[i] = step[f[i - 1]][i]
    BY <1>2
  <2> HIDE DEF Defined
  <2>2. n \in Nat /\ n # 0 /\ f \in [0..n - 1 -> S]
    BY <2>1
  <2> DEFINE g == [i \in 0..n |-> IF i = n THEN step[f[n - 1]][n] ELSE f[i]]
  <2>3. f[n - 1] \in S
    BY <2>2
  <2>4. step[f[n - 1]][n] \in S
    BY <2>3
  <2>5. g \in [0..n -> S]
    BY <2>2, <2>4
  <2>6. g[0] = b
    BY <2>1, <2>2
  <2>7. ASSUME NEW i \in 1..n PROVE g[i] = step[g[i - 1]][i]
    <3>1. CASE i = n
      <4>1. i \in 0..n /\ i - 1 \in 0..n /\ i - 1 # n
        BY <3>1, <2>2
      <4>2. g[i] = step[f[n - 1]][n] /\ g[i - 1] = f[i - 1]
        BY <3>1, <4>1
      <4> HIDE DEF g
      <4> QED BY <3>1, <4>2
    <3>2. CASE i # n
      <4>1. i \in 1..n - 1 /\ i - 1 \in 0..n /\ i - 1 # n /\ i \in 0..n
        BY <3>2, <2>2
      <4>2. g[i] = f[i] /\ g[i - 1] = f[i - 1]
        BY <3>2, <4>1
      <4> HIDE DEF g
      <4> QED BY <4>1, <4>2, <2>1
    <3> QED BY <3>1, <3>2
  <2> HIDE DEF g
  <2> QED BY <2>5, <2>6, <2>7 DEF Defined
<1> HIDE DEF Defined
<1>3. Failing = {}
  <2> SUFFICES ASSUME Failing # {} PROVE FALSE
    OBVIOUS
  <2>1. Failing \in SUBSET Nat
    OBVIOUS
  <2>2. PICK n \in Failing : \A m \in Failing : n <= m
    <3> HIDE DEF Failing
    <3> QED BY <2>1, LeastNat
  <2>3. n \in 0..N /\ ~Defined(n)
    OBVIOUS
  <2>4. n \in 1..N
    BY <1>1, <2>3
  <2>5. n - 1 \in 0..N /\ ~(n <= n - 1)
    BY <2>4
  <2>6. Defined(n - 1)
    BY <2>2, <2>5
  <2> QED BY <1>2, <2>3, <2>4, <2>6
<1>4. Defined(N)
  <2>1. N \in 0..N
    OBVIOUS
  <2> QED BY <1>3, <2>1
<1> QED BY <1>4 DEF Defined, Follows

\* What holds of 0 and of each number after one it holds of, holds up to N.
LEMMA Induct ==
    ASSUME NEW N \in Nat, NEW S, 0 \in S, \A i \in 1..N : i - 1 \in S => i \in S
    PROVE  \A i \in 0..N : i \in S
<1> DEFINE Failing == {n \in 0..N : n \notin S}
<1>1. SUFFICES ASSUME Failing # {} PROVE FALSE
  OBVIOUS
<1>2. Failing \in SUBSET Nat
  OBVIOUS
<1>3. PICK n \in Failing : \A m \in Failing : n <= m
  <2> HIDE DEF Failing
  <2> QED BY <1>1, <1>2, LeastNat
<1>4. n \in 0..N /\ n \notin S /\ n # 0
  OBVIOUS
<1>5. n \in 1..N /\ n - 1 \in 0..N /\ ~(n <= n - 1)
  BY <1>4
<1>6. n - 1 \in S
  BY <1>3, <1>5
<1> QED BY <1>4, <1>5, <1>6

-----------------------------------------------------------------------------
(* What the detection finds.                                               *)

Proper(p) == Compatible(p[1], p[2]) /\ p[1].amount < 0

\* Transactions have a day and an amount, whatever else they have.
Dated(T) == \A t \in T : t.day \in Int /\ t.amount \in Int

\* So have those of the service.
LEMMA TransactionsDated == Dated(Transaction)
BY ScanOrderAssumption DEF Dated

\* Either of two compatible transactions may be named first.
LEMMA Symmetric ==
    ASSUME NEW T, Dated(T), NEW a \in T, NEW b \in T, Compatible(a, b)
    PROVE  Compatible(b, a) /\ a # b /\ Proper(OrderLegs(a, b))
           /\ OrderLegs(a, b) \in T \X T /\ Both(OrderLegs(a, b)) = {a, b}
<1>1. a.day \in Int /\ b.day \in Int /\ a.amount \in Int /\ b.amount \in Int
  BY DEF Dated
<1>2. Compatible(b, a) /\ a # b
  BY <1>1 DEF Compatible, NearEnough, DayDelta, DateWindowDays
<1>3. CASE a.amount < 0
  BY <1>3, <1>2 DEF OrderLegs, Proper, Both
<1>4. CASE ~(a.amount < 0)
  <2>1. b.amount < 0
    BY <1>1, <1>4 DEF Compatible
  <2>2. OrderLegs(a, b) = <<b, a>>
    BY <1>4 DEF OrderLegs
  <2> QED BY <1>2, <2>1, <2>2 DEF Proper, Both
<1> QED BY <1>2, <1>3, <1>4

\* The best partner is a partner.
LEMMA BestIsPartner ==
    ASSUME NEW T, NEW txs \in Seq(T), NEW i \in 1..Len(txs), NEW used,
           Partners(txs, i, used) # {}
    PROVE  BestPartner(txs, i, used) \in Partners(txs, i, used)
<1> DEFINE P == Partners(txs, i, used)
           exact == {j \in P : Exact(txs[i], txs[j])}
           top == IF exact # {} THEN exact ELSE P
<1>1. P \subseteq Nat
  BY DEF Partners
<1>2. top # {} /\ top \subseteq P
  OBVIOUS
<1>3. BestPartner(txs, i, used) = CHOOSE j \in top : \A k \in top : j <= k
  BY DEF BestPartner
<1> HIDE DEF top, P
<1>4. \E j \in top : \A k \in top : j <= k
  <2>1. top \in SUBSET Nat
    BY <1>1, <1>2
  <2> QED BY <1>2, <2>1, LeastNat
<1>5. BestPartner(txs, i, used) \in top
  BY <1>3, <1>4
<1>6. BestPartner(txs, i, used) \in P
  BY <1>2, <1>5
<1> QED BY <1>6 DEF P

\* What the loop carries.
Carried(T) == [used : SUBSET T, pairs : Seq(T \X T)]
Listing(txs) == {txs[j] : j \in DOMAIN txs}

\* The pairs found so far are proper, of transactions that were free, and no two share one;
\* every transaction used is in one of them, or was used before.
Sound(txs, existing, acc) ==
    /\ existing \subseteq acc.used
    /\ \A k \in DOMAIN acc.pairs :
          /\ Proper(acc.pairs[k])
          /\ Both(acc.pairs[k]) \subseteq acc.used \cap Listing(txs)
          /\ Both(acc.pairs[k]) \cap existing = {}
    /\ \A k, l \in DOMAIN acc.pairs : k # l => Both(acc.pairs[k]) \cap Both(acc.pairs[l]) = {}
    /\ \A t \in acc.used : t \in existing \/ \E k \in DOMAIN acc.pairs : t \in Both(acc.pairs[k])

\* The first i transactions are used or have no free partner after them.
Exhausted(txs, acc, i) ==
    \A j \in 1..i : txs[j] \in acc.used \/ Partners(txs, j, acc.used) = {}

\* One turn keeps this, and adds its own transaction to the exhausted ones.
LEMMA OneTurn ==
    ASSUME NEW T, Dated(T), NEW txs \in Seq(T), NEW existing \in SUBSET T,
           NEW acc \in Carried(T), NEW i \in 1..Len(txs)
    PROVE  /\ Consider(txs, acc, i) \in Carried(T)
           /\ Sound(txs, existing, acc) => Sound(txs, existing, Consider(txs, acc, i))
           /\ Exhausted(txs, acc, i - 1) => Exhausted(txs, Consider(txs, acc, i), i)
<1>1. CASE txs[i] \in acc.used \/ Partners(txs, i, acc.used) = {}
  <2>1. Consider(txs, acc, i) = acc
    BY <1>1 DEF Consider
  <2>2. ASSUME Exhausted(txs, acc, i - 1) PROVE Exhausted(txs, acc, i)
    <3>1. \A j \in 1..i : j = i \/ j \in 1..i - 1
      OBVIOUS
    <3> QED BY <1>1, <2>2, <3>1 DEF Exhausted
  <2> QED BY <2>1, <2>2
<1>2. CASE ~(txs[i] \in acc.used) /\ Partners(txs, i, acc.used) # {}
  <2>1. PICK j : j = BestPartner(txs, i, acc.used)
    OBVIOUS
  <2>2. j \in Partners(txs, i, acc.used)
    BY <1>2, <2>1, BestIsPartner
  <2>3. j \in i + 1..Len(txs) /\ txs[j] \notin acc.used /\ Compatible(txs[i], txs[j])
    BY <2>2 DEF Partners
  <2>4. i \in DOMAIN txs /\ j \in DOMAIN txs
    BY <2>3
  <2>5. txs[i] \in T /\ txs[j] \in T
    BY <2>4
  <2>6. PICK p : p = OrderLegs(txs[i], txs[j])
    OBVIOUS
  <2>7. p \in T \X T /\ Proper(p) /\ Both(p) = {txs[i], txs[j]}
    BY <2>3, <2>5, <2>6, Symmetric
  <2>8. PICK new : new = Consider(txs, acc, i)
    OBVIOUS
  <2>9. new = [used |-> acc.used \cup {txs[i], txs[j]}, pairs |-> Append(acc.pairs, p)]
    BY <1>2, <2>1, <2>6, <2>8 DEF Consider
  <2>10. acc.used \in SUBSET T /\ acc.pairs \in Seq(T \X T)
    BY DEF Carried
  <2>11. Append(acc.pairs, p) \in Seq(T \X T)
    BY <2>7, <2>10
  <2>12. new \in Carried(T)
    BY <2>5, <2>9, <2>10, <2>11 DEF Carried
  <2>13. new.used = acc.used \cup Both(p) /\ new.pairs = Append(acc.pairs, p)
    BY <2>7, <2>9
  <2>14. /\ DOMAIN new.pairs = DOMAIN acc.pairs \cup {Len(acc.pairs) + 1}
         /\ new.pairs[Len(acc.pairs) + 1] = p
         /\ \A k \in DOMAIN acc.pairs : new.pairs[k] = acc.pairs[k] /\ k # Len(acc.pairs) + 1
    BY <2>10, <2>13, <2>7
  <2>15. ASSUME Sound(txs, existing, acc) PROVE Sound(txs, existing, new)
    <3>1. Both(p) \cap acc.used = {} /\ Both(p) \subseteq Listing(txs)
      BY <1>2, <2>3, <2>4, <2>7 DEF Listing
    <3>2. existing \subseteq acc.used
      BY <2>15 DEF Sound
    <3>3. ASSUME NEW k \in DOMAIN new.pairs
          PROVE  /\ Proper(new.pairs[k])
                 /\ Both(new.pairs[k]) \subseteq new.used \cap Listing(txs)
                 /\ Both(new.pairs[k]) \cap existing = {}
      <4>1. CASE k \in DOMAIN acc.pairs
        BY <2>13, <2>14, <2>15, <4>1 DEF Sound
      <4>2. CASE k = Len(acc.pairs) + 1
        BY <2>7, <2>13, <2>14, <3>1, <3>2, <4>2
      <4> QED BY <2>14, <4>1, <4>2
    <3>4. ASSUME NEW k \in DOMAIN acc.pairs
          PROVE  Both(new.pairs[k]) \cap Both(p) = {}
      BY <2>14, <2>15, <3>1 DEF Sound
    <3>5. ASSUME NEW k \in DOMAIN new.pairs, NEW l \in DOMAIN new.pairs, k # l
          PROVE  Both(new.pairs[k]) \cap Both(new.pairs[l]) = {}
      <4>1. CASE k \in DOMAIN acc.pairs /\ l \in DOMAIN acc.pairs
        BY <2>14, <2>15, <3>5, <4>1 DEF Sound
      <4>2. CASE k = Len(acc.pairs) + 1
        BY <2>14, <3>4, <3>5, <4>2
      <4>3. CASE l = Len(acc.pairs) + 1
        BY <2>14, <3>4, <3>5, <4>3
      <4> QED BY <2>14, <4>1, <4>2, <4>3
    <3>6. ASSUME NEW t \in new.used
          PROVE  t \in existing \/ \E k \in DOMAIN new.pairs : t \in Both(new.pairs[k])
      <4>1. CASE t \in acc.used
        BY <2>14, <2>15, <4>1 DEF Sound
      <4>2. CASE t \in Both(p)
        BY <2>14, <4>2
      <4> QED BY <2>13, <3>6, <4>1, <4>2
    <3> QED BY <2>13, <3>2, <3>3, <3>5, <3>6 DEF Sound
  <2>16. ASSUME Exhausted(txs, acc, i - 1) PROVE Exhausted(txs, new, i)
    <3> SUFFICES ASSUME NEW k \in 1..i
                 PROVE  txs[k] \in new.used \/ Partners(txs, k, new.used) = {}
      BY DEF Exhausted
    <3>1. Partners(txs, k, new.used) \subseteq Partners(txs, k, acc.used)
      BY <2>13 DEF Partners
    <3>2. k = i \/ k \in 1..i - 1
      OBVIOUS
    <3> QED BY <2>7, <2>13, <2>16, <3>1, <3>2 DEF Exhausted
  <2> QED BY <2>8, <2>12, <2>15, <2>16
<1> QED BY <1>1, <1>2

\* The loop takes one turn per transaction.
LEMMA TurnsTaken ==
    ASSUME NEW T, Dated(T), NEW txs \in Seq(T), NEW existing \in SUBSET T
    PROVE  /\ Turns(txs, existing) \in [0..Len(txs) -> Carried(T)]
           /\ Turns(txs, existing)[0] = [used |-> existing, pairs |-> <<>>]
           /\ \A i \in 1..Len(txs) :
                 Turns(txs, existing)[i] = Consider(txs, Turns(txs, existing)[i - 1], i)
<1> DEFINE N == Len(txs)
           start == [used |-> existing, pairs |-> <<>>]
           step == [acc \in Carried(T) |-> [i \in 1..N |-> Consider(txs, acc, i)]]
           Loop(f) == [i \in 0..N |-> IF i = 0 THEN start ELSE Consider(txs, f[i - 1], i)]
<1>1. N \in Nat /\ start \in Carried(T)
  BY DEF Carried
<1>2. step \in [Carried(T) -> [1..N -> Carried(T)]]
  <2>1. \A acc \in Carried(T), i \in 1..N : Consider(txs, acc, i) \in Carried(T)
    BY OneTurn
  <2> QED BY <2>1
<1>3. \A acc \in Carried(T), i \in 1..N : step[acc][i] = Consider(txs, acc, i)
  OBVIOUS
<1> HIDE DEF step
<1>4. PICK f : Follows(f, N, Carried(T), start, step)
  <2> HIDE DEF N, start
  <2>1. step \in Steps(N, Carried(T))
    BY <1>2 DEF Steps
  <2> QED BY <1>1, <2>1, Recursion
<1>5. f \in [0..N -> Carried(T)] /\ \A i \in 1..N : f[i - 1] \in Carried(T)
  <2>1. f \in [0..N -> Carried(T)]
    BY <1>4 DEF Follows
  <2>2. \A i \in 1..N : i - 1 \in 0..N
    BY <1>1
  <2> QED BY <2>1, <2>2
<1>6. \A i \in 1..N : f[i] = Consider(txs, f[i - 1], i)
  BY <1>3, <1>4, <1>5 DEF Follows
<1>7. f = Loop(f)
  <2>1. \A i \in 0..N : i = 0 \/ i \in 1..N
    BY <1>1
  <2>2. \A i \in 0..N : f[i] = Loop(f)[i]
    BY <1>4, <1>6, <2>1 DEF Follows
  <2>3. Loop(f) = [i \in 0..N |-> Loop(f)[i]]
    OBVIOUS
  <2>4. f = [i \in 0..N |-> f[i]]
    BY <1>5
  <2> QED BY <2>2, <2>3, <2>4
<1>8. Turns(txs, existing) = CHOOSE after : after = Loop(after)
  BY DEF Turns
<1> HIDE DEF Loop
<1>9. Turns(txs, existing) = Loop(Turns(txs, existing))
  BY <1>7, <1>8
<1>10. PICK turn : turn = Turns(txs, existing)
  OBVIOUS
<1>11. turn = [i \in 0..N |-> IF i = 0 THEN start ELSE Consider(txs, turn[i - 1], i)]
  BY <1>9, <1>10 DEF Loop
<1> HIDE DEF start
<1>12. turn[0] = start /\ \A i \in 1..N : turn[i] = Consider(txs, turn[i - 1], i)
  <2>1. \A i \in 1..N : i \in 0..N /\ i # 0
    BY <1>1
  <2> QED BY <1>1, <1>11, <2>1
<1>13. \A i \in 0..N : turn[i] \in Carried(T)
  <2> DEFINE Typed == {i \in 0..N : turn[i] \in Carried(T)}
  <2>1. 0 \in Typed
    BY <1>1, <1>12
  <2>2. \A i \in 1..N : i - 1 \in Typed => i \in Typed
    <3>1. ASSUME NEW i \in 1..N, turn[i - 1] \in Carried(T) PROVE turn[i] \in Carried(T)
      BY <1>12, <3>1, OneTurn
    <3> QED BY <1>1, <3>1
  <2>3. \A i \in 0..N : i \in Typed
    <3> HIDE DEF Typed, N
    <3> QED BY <1>1, <2>1, <2>2, Induct
  <2> QED BY <2>3
<1>14. turn \in [0..N -> Carried(T)]
  BY <1>11, <1>13
<1> QED BY <1>10, <1>12, <1>14 DEF start

\* The detection returns proper pairs of listed transactions that are in no pair yet, none
\* twice, and leaves no two of the listed transactions that could be one more.
LEMMA Detected ==
    ASSUME NEW txs \in Seq(Transaction), NEW existing \in SUBSET Transaction
    PROVE  \E found \in Seq(Pair) :
              /\ found = DetectTransferCandidates(txs, existing)
              /\ \A k \in DOMAIN found :
                    /\ Proper(found[k])
                    /\ Both(found[k]) \subseteq Listing(txs)
                    /\ Both(found[k]) \cap existing = {}
              /\ \A k, l \in DOMAIN found : k # l => Both(found[k]) \cap Both(found[l]) = {}
              /\ \A a, b \in Listing(txs) : Compatible(a, b) =>
                    \E t \in {a, b} : t \in existing \/ \E k \in DOMAIN found : t \in Both(found[k])
<1>1. PICK turn : turn = Turns(txs, existing)
  OBVIOUS
<1>2. PICK N : N = Len(txs)
  OBVIOUS
<1>3. N \in Nat /\ DOMAIN txs = 1..N
  BY <1>2
<1>4. /\ turn \in [0..N -> Carried(Transaction)]
      /\ turn[0] = [used |-> existing, pairs |-> <<>>]
      /\ \A i \in 1..N : turn[i] = Consider(txs, turn[i - 1], i)
  BY <1>1, <1>2, TransactionsDated, TurnsTaken
<1>5. \A i \in 0..N : Sound(txs, existing, turn[i]) /\ Exhausted(txs, turn[i], i)
  <2> DEFINE Fine == {i \in 0..N : Sound(txs, existing, turn[i]) /\ Exhausted(txs, turn[i], i)}
  <2>1. 0 \in Fine
    <3>1. turn[0].used = existing /\ turn[0].pairs = <<>>
      BY <1>4
    <3>2. Sound(txs, existing, turn[0])
      BY <3>1 DEF Sound
    <3>3. Exhausted(txs, turn[0], 0)
      BY DEF Exhausted
    <3> QED BY <1>3, <3>2, <3>3
  <2>2. ASSUME NEW i \in 1..N, i - 1 \in Fine PROVE i \in Fine
    <3>1. i \in 0..N /\ i - 1 \in 0..N /\ i \in 1..Len(txs)
      BY <1>2, <1>3
    <3>2. PICK acc \in Carried(Transaction) : acc = turn[i - 1]
      BY <1>4, <3>1
    <3>3. turn[i] = Consider(txs, acc, i)
      BY <1>4, <3>2
    <3>4. Sound(txs, existing, acc) /\ Exhausted(txs, acc, i - 1)
      BY <2>2, <3>2
    <3> QED BY <3>1, <3>3, <3>4, TransactionsDated, OneTurn
  <2>3. \A i \in 0..N : i \in Fine
    <3> HIDE DEF Fine
    <3> QED BY <1>3, <2>1, <2>2, Induct
  <2> QED BY <2>3
<1>6. PICK acc \in Carried(Transaction) : acc = turn[N]
  BY <1>3, <1>4
<1>7. Sound(txs, existing, acc) /\ Exhausted(txs, acc, N)
  BY <1>3, <1>5, <1>6
<1>8. acc.pairs \in Seq(Pair) /\ acc.pairs = DetectTransferCandidates(txs, existing)
  BY <1>1, <1>2, <1>6 DEF Carried, Pair, DetectTransferCandidates
<1>9. ASSUME NEW a \in Listing(txs), NEW b \in Listing(txs), Compatible(a, b)
      PROVE  a \in acc.used \/ b \in acc.used
  <2>1. PICK i \in 1..N, j \in 1..N : a = txs[i] /\ b = txs[j]
    BY <1>3 DEF Listing
  <2>2. a \in Transaction /\ b \in Transaction
    BY <1>3, <2>1
  <2>3. a # b /\ Compatible(b, a)
    BY <1>9, <2>2, TransactionsDated, Symmetric
  <2>4. ASSUME NEW k \in 1..N, NEW l \in 1..N, k < l, Compatible(txs[k], txs[l])
        PROVE  txs[k] \in acc.used \/ txs[l] \in acc.used
    <3>1. l \in k + 1..Len(txs)
      BY <1>2, <1>3, <2>4
    <3>2. txs[l] \in acc.used \/ l \in Partners(txs, k, acc.used)
      BY <2>4, <3>1 DEF Partners
    <3> QED BY <1>7, <3>2 DEF Exhausted
  <2>5. i < j \/ j < i
    BY <2>1, <2>3
  <2> QED BY <1>9, <2>1, <2>3, <2>4, <2>5
<1>10. PICK found \in Seq(Pair) : found = acc.pairs
  BY <1>8
<1>11. /\ \A k \in DOMAIN found : /\ Proper(found[k])
                                  /\ Both(found[k]) \subseteq Listing(txs)
                                  /\ Both(found[k]) \cap existing = {}
       /\ \A k, l \in DOMAIN found : k # l => Both(found[k]) \cap Both(found[l]) = {}
  BY <1>7, <1>10 DEF Sound
<1>12. \A t \in acc.used : t \in existing \/ \E k \in DOMAIN found : t \in Both(found[k])
  BY <1>7, <1>10 DEF Sound
<1>13. ASSUME NEW a \in Listing(txs), NEW b \in Listing(txs), Compatible(a, b)
       PROVE  \E t \in {a, b} : t \in existing \/ \E k \in DOMAIN found : t \in Both(found[k])
  BY <1>9, <1>12, <1>13
<1> QED BY <1>8, <1>10, <1>11, <1>13

\* The listing of the stored transactions has all of them and no other.
LEMMA ListsStored ==
    /\ ListTransactions \in Seq(Transaction)
    /\ Listing(ListTransactions) = Stored
<1> DEFINE N == Len(ScanOrder)
           More(list, i) == IF tx[ScanOrder[i]] = "stored" THEN Append(list, ScanOrder[i]) ELSE list
           step == [list \in Seq(Transaction) |-> [i \in 1..N |-> More(list, i)]]
           Loop(f) == [i \in 0..N |-> IF i = 0 THEN <<>> ELSE More(f[i - 1], i)]
<1>1. N \in Nat /\ <<>> \in Seq(Transaction) /\ DOMAIN ScanOrder = 1..N
  BY ScanOrderAssumption
<1>2. \A i \in 1..N : ScanOrder[i] \in Transaction
  BY ScanOrderAssumption
<1>3. \A list \in Seq(Transaction), i \in 1..N : More(list, i) \in Seq(Transaction)
  BY <1>2
<1> HIDE DEF More, N
<1>4. step \in Steps(N, Seq(Transaction))
  BY <1>3 DEF Steps
<1>5. \A list \in Seq(Transaction), i \in 1..N : step[list][i] = More(list, i)
  OBVIOUS
<1> HIDE DEF step
<1>6. PICK f : Follows(f, N, Seq(Transaction), <<>>, step)
  BY <1>1, <1>4, Recursion
<1>7. f \in [0..N -> Seq(Transaction)] /\ f[0] = <<>>
  BY <1>6 DEF Follows
<1>8. \A i \in 1..N : f[i] = More(f[i - 1], i)
  <2>1. \A i \in 1..N : f[i] = step[f[i - 1]][i]
    BY <1>6 DEF Follows
  <2>2. \A i \in 1..N : f[i - 1] \in Seq(Transaction)
    BY <1>1, <1>7
  <2> QED BY <1>5, <2>1, <2>2
<1>9. f = Loop(f)
  <2>1. \A i \in 0..N : i = 0 \/ i \in 1..N
    BY <1>1
  <2>2. \A i \in 0..N : f[i] = Loop(f)[i]
    BY <1>7, <1>8, <2>1
  <2>3. Loop(f) = [i \in 0..N |-> Loop(f)[i]]
    OBVIOUS
  <2>4. f = [i \in 0..N |-> f[i]]
    BY <1>7
  <2> QED BY <2>2, <2>3, <2>4
<1>10. StoredUpTo = CHOOSE upTo : upTo = Loop(upTo)
  BY DEF StoredUpTo, More, N
<1> HIDE DEF Loop
<1>11. StoredUpTo = Loop(StoredUpTo)
  BY <1>9, <1>10
<1>12. PICK upTo : upTo = StoredUpTo
  OBVIOUS
<1>13. upTo[0] = <<>> /\ \A i \in 1..N : upTo[i] = More(upTo[i - 1], i)
  <2>1. upTo = [i \in 0..N |-> IF i = 0 THEN <<>> ELSE More(upTo[i - 1], i)]
    BY <1>11, <1>12 DEF Loop
  <2>2. \A i \in 1..N : i \in 0..N /\ i # 0
    BY <1>1
  <2> QED BY <1>1, <2>1, <2>2
<1> DEFINE Among(i) == {ScanOrder[j] : j \in {k \in 1..i : tx[ScanOrder[k]] = "stored"}}
           Fine == {i \in 0..N : upTo[i] \in Seq(Transaction) /\ Listing(upTo[i]) = Among(i)}
<1>14. 0 \in Fine
  <2>1. Listing(<<>>) = {}
    BY DEF Listing
  <2>2. Among(0) = {}
    OBVIOUS
  <2>3. 0 \in 0..N
    BY <1>1
  <2> HIDE DEF Among
  <2> QED BY <1>1, <1>13, <2>1, <2>2, <2>3
<1>15. ASSUME NEW i \in 1..N, i - 1 \in Fine PROVE i \in Fine
  <2>1. PICK list \in Seq(Transaction) : list = upTo[i - 1]
    BY <1>15
  <2>2. Listing(list) = Among(i - 1)
    BY <1>15, <2>1
  <2>3. upTo[i] = More(list, i) /\ ScanOrder[i] \in Transaction
    BY <1>2, <1>13, <2>1
  <2>4. \A k \in 1..i : k = i \/ k \in 1..i - 1
    BY <1>1
  <2>5. i \in 1..i /\ \A k \in 1..i - 1 : k \in 1..i /\ k # i
    BY <1>1
  <2>6. CASE tx[ScanOrder[i]] = "stored"
    <3>1. upTo[i] = Append(list, ScanOrder[i])
      BY <2>3, <2>6 DEF More
    <3>2. upTo[i] \in Seq(Transaction)
      BY <2>3, <3>1
    <3>3. /\ DOMAIN upTo[i] = DOMAIN list \cup {Len(list) + 1}
          /\ upTo[i][Len(list) + 1] = ScanOrder[i]
          /\ \A k \in DOMAIN list : upTo[i][k] = list[k]
      BY <2>3, <3>1
    <3>4. Listing(upTo[i]) = Listing(list) \cup {ScanOrder[i]}
      BY <3>3 DEF Listing
    <3>5. Among(i) = Among(i - 1) \cup {ScanOrder[i]}
      BY <2>4, <2>5, <2>6
    <3> QED BY <1>1, <2>2, <3>2, <3>4, <3>5
  <2>7. CASE tx[ScanOrder[i]] # "stored"
    <3>1. upTo[i] = list
      BY <2>3, <2>7 DEF More
    <3>2. Among(i) = Among(i - 1)
      BY <2>4, <2>5, <2>7
    <3>3. i \in 0..N
      BY <1>1
    <3> HIDE DEF Among
    <3> QED BY <2>1, <2>2, <3>1, <3>2, <3>3
  <2> QED BY <2>6, <2>7
<1>16. \A i \in 0..N : i \in Fine
  <2> HIDE DEF Fine
  <2> QED BY <1>1, <1>14, <1>15, Induct
<1>17. upTo[N] \in Seq(Transaction) /\ Listing(upTo[N]) = Among(N)
  <2>1. N \in 0..N
    BY <1>1
  <2> HIDE DEF Among
  <2> QED BY <1>16, <2>1
<1>18. Among(N) = Stored
  <2>1. \A t \in Transaction : \E i \in 1..N : ScanOrder[i] = t
    BY <1>1, ScanOrderAssumption
  <2> QED BY <1>2, <2>1 DEF Stored
<1>19. ListTransactions = upTo[N]
  BY <1>12 DEF ListTransactions, N
<1> QED BY <1>17, <1>18, <1>19

-----------------------------------------------------------------------------
(* Decisions.                                                              *)

Decided(p) == status[p] \in {"confirmed", "rejected"}
LegDeleted(p) == tx[p[1]] = "deleted" \/ tx[p[2]] = "deleted"

\* The rows of the tables, and what a call was asked.
Tables ==
    /\ tx \in [Transaction -> {"absent", "stored", "deleted"}]
    /\ status \in [Pair -> PairStatus \cup {"none"}]
    /\ decide \in [Decider -> {"idle", "update", "done", "not_found", "not_suggested"}]
    /\ verdict \in [Decider ->
          [pair : Pair, to : {"confirmed", "rejected"}] \cup {NoVerdict}]
    /\ \A d \in Decider : decide[d] \in {"update", "done"} =>
          verdict[d] \in [pair : Pair, to : {"confirmed", "rejected"}]

\* A pair somebody decided about is decided still, or gone with a leg.
DoneIsDecided ==
    \A d \in Decider : decide[d] = "done" =>
        Decided(verdict[d].pair) \/ LegDeleted(verdict[d].pair)

\* A deleted transaction is in no pair: the cascade has removed them.
DeletedUnpaired == \A p \in Pair : LegDeleted(p) => status[p] = "none"

IInv == Tables /\ DeletedUnpaired /\ DoneIsDecided /\ OneVerdict

\* No call is done and no pair stored at first.
LEMMA InitInv == Init => IInv
  BY DEF Init, IInv, Tables, DeletedUnpaired, LegDeleted, DoneIsDecided, OneVerdict,
         Pair, PairStatus

\* What one step does to the pairs: nothing to a decided one but the cascade.
LEMMA DecidedStep ==
    ASSUME Tables, [Next]_vars, NEW p \in Pair, Decided(p)
    PROVE  status'[p] = status[p] \/ (status'[p] = "none" /\ LegDeleted(p)')
<1> USE DEF Tables, Decided, LegDeleted
<1>1. ASSUME NEW s \in Scanner, InsertTransferPair(s)
      PROVE  status'[p] = status[p]
  BY <1>1 DEF InsertTransferPair
<1>2. ASSUME NEW s \in Scanner,
             ReadTransactions(s) \/ ReadLegs(s) \/ FinishScan(s) \/ AbandonScan(s)
      PROVE  status'[p] = status[p]
  BY <1>2 DEF ReadTransactions, ReadLegs, FinishScan, AbandonScan, EndScan
<1>3. ASSUME NEW d \in Decider, NEW r \in Pair, NEW to \in {"confirmed", "rejected"},
             ReadPair(d, r, to)
      PROVE  status'[p] = status[p]
  BY <1>3 DEF ReadPair, GetTransferPair
<1>4. ASSUME NEW d \in Decider, UpdatePair(d)
      PROVE  status'[p] = status[p]
  BY <1>4 DEF UpdatePair, ConfirmTransferPair, RejectTransferPair, Updatable
<1>5. ASSUME NEW S \in SUBSET Transaction, CommitImport(S)
      PROVE  status'[p] = status[p]
  BY <1>5 DEF CommitImport
<1>6. ASSUME NEW S \in SUBSET Transaction, CommitRollback(S)
      PROVE  status'[p] = status[p] \/ (status'[p] = "none" /\ LegDeleted(p)')
  BY <1>6 DEF CommitRollback, Pair
<1>7. CASE UNCHANGED vars
  BY <1>7 DEF vars
<1> QED
  BY <1>1, <1>2, <1>3, <1>4, <1>5, <1>6, <1>7 DEF Next

\* A deleted transaction is never stored again.
LEMMA DeletedStays ==
    ASSUME Tables, [Next]_vars, NEW t \in Transaction, tx[t] = "deleted"
    PROVE  tx'[t] = "deleted"
<1>1. ASSUME NEW S \in SUBSET Transaction, CommitImport(S) \/ CommitRollback(S)
      PROVE  tx'[t] = "deleted"
  BY <1>1 DEF CommitImport, CommitRollback, Stored, Tables
<1>2. ASSUME tx' = tx PROVE tx'[t] = "deleted"
  BY <1>2
<1> QED
  BY <1>1, <1>2 DEF Next, vars, scanVars, decideVars, ReadTransactions, ReadLegs,
     InsertTransferPair, FinishScan, AbandonScan, EndScan, ReadPair, GetTransferPair, UpdatePair, ConfirmTransferPair, RejectTransferPair

\* Every action keeps the types.
LEMMA TablesStep == Tables /\ [Next]_vars => Tables'
<1> SUFFICES ASSUME Tables, [Next]_vars PROVE Tables'
  OBVIOUS
<1> USE DEF Tables, PairStatus
<1>1. ASSUME NEW s \in Scanner, InsertTransferPair(s) PROVE Tables'
  BY <1>1 DEF InsertTransferPair, CandidateStatus, decideVars
<1>2. ASSUME NEW s \in Scanner,
             ReadTransactions(s) \/ ReadLegs(s) \/ FinishScan(s) \/ AbandonScan(s)
      PROVE  Tables'
  BY <1>2 DEF ReadTransactions, ReadLegs, FinishScan, AbandonScan, EndScan, decideVars
<1>3. ASSUME NEW d \in Decider, NEW r \in Pair, NEW to \in {"confirmed", "rejected"},
             ReadPair(d, r, to)
      PROVE  Tables'
  BY <1>3 DEF ReadPair, GetTransferPair
<1>4. ASSUME NEW d \in Decider, UpdatePair(d) PROVE Tables'
  BY <1>4 DEF UpdatePair, ConfirmTransferPair, RejectTransferPair
<1>5. ASSUME NEW S \in SUBSET Transaction, CommitImport(S) PROVE Tables'
  BY <1>5 DEF CommitImport, decideVars
<1>6. ASSUME NEW S \in SUBSET Transaction, CommitRollback(S) PROVE Tables'
  BY <1>6 DEF CommitRollback, decideVars
<1>7. CASE UNCHANGED vars
  BY <1>7 DEF vars, decideVars
<1> QED
  BY <1>1, <1>2, <1>3, <1>4, <1>5, <1>6, <1>7 DEF Next

\* No step gives a row to a pair with a deleted leg.
LEMMA UnpairedStep == IInv /\ [Next]_vars => DeletedUnpaired'
<1> SUFFICES ASSUME IInv, [Next]_vars, NEW p \in Pair, LegDeleted(p)'
             PROVE  status'[p] = "none"
  BY DEF DeletedUnpaired
<1> USE DEF IInv, Tables, LegDeleted
<1>1. ASSUME NEW s \in Scanner, InsertTransferPair(s) PROVE status'[p] = "none"
  BY <1>1 DEF InsertTransferPair, LegsStored, Stored, DeletedUnpaired
<1>2. ASSUME NEW s \in Scanner,
             ReadTransactions(s) \/ ReadLegs(s) \/ FinishScan(s) \/ AbandonScan(s)
      PROVE  status'[p] = "none"
  BY <1>2 DEF ReadTransactions, ReadLegs, FinishScan, AbandonScan, EndScan, DeletedUnpaired
<1>3. ASSUME NEW d \in Decider, NEW r \in Pair, NEW to \in {"confirmed", "rejected"},
             ReadPair(d, r, to)
      PROVE  status'[p] = "none"
  BY <1>3 DEF ReadPair, GetTransferPair, DeletedUnpaired
<1>4. ASSUME NEW d \in Decider, UpdatePair(d) PROVE status'[p] = "none"
  BY <1>4 DEF UpdatePair, ConfirmTransferPair, RejectTransferPair, Updatable, DeletedUnpaired
<1>5. ASSUME NEW S \in SUBSET Transaction, CommitImport(S) PROVE status'[p] = "none"
  BY <1>5 DEF CommitImport, DeletedUnpaired, Pair
<1>6. ASSUME NEW S \in SUBSET Transaction, CommitRollback(S) PROVE status'[p] = "none"
  BY <1>6 DEF CommitRollback, DeletedUnpaired, Pair
<1>7. CASE UNCHANGED vars
  BY <1>7 DEF vars, DeletedUnpaired
<1> QED
  BY <1>1, <1>2, <1>3, <1>4, <1>5, <1>6, <1>7 DEF Next

\* Only the update of a suggested pair ends in "done", and it decides the pair.
LEMMA VerdictStep ==
    ASSUME IInv, [Next]_vars, NEW d \in Decider, decide'[d] = "done"
    PROVE  /\ verdict'[d] = verdict[d]
           /\ verdict[d].pair \in Pair
           /\ \/ decide[d] = "done"
              \/ /\ status[verdict[d].pair] = "suggested"
                 /\ Decided(verdict[d].pair)'
                 /\ \A e \in Decider \ {d} :
                       decide'[e] = decide[e] /\ verdict'[e] = verdict[e]
<1> USE DEF IInv, Tables
<1>1. decide[d] \in {"update", "done"} => verdict[d].pair \in Pair
  OBVIOUS
<1>2. CASE UNCHANGED decideVars
  BY <1>1, <1>2 DEF decideVars
<1>3. ASSUME NEW e \in Decider, NEW r \in Pair, NEW to \in {"confirmed", "rejected"},
             ReadPair(e, r, to)
      PROVE  verdict'[d] = verdict[d] /\ verdict[d].pair \in Pair /\ decide[d] = "done"
  <2>1. verdict'[d] = verdict[d] /\ decide[d] = "done"
    BY <1>3 DEF ReadPair, GetTransferPair
  <2> QED
    BY <1>1, <2>1
<1>4. ASSUME NEW e \in Decider, UpdatePair(e)
      PROVE  /\ verdict'[d] = verdict[d]
             /\ verdict[d].pair \in Pair
             /\ \/ decide[d] = "done"
                \/ /\ status[verdict[d].pair] = "suggested"
                   /\ Decided(verdict[d].pair)'
                   /\ \A c \in Decider \ {d} :
                         decide'[c] = decide[c] /\ verdict'[c] = verdict[c]
  <2>1. /\ verdict' = verdict
        /\ \/ decide[d] = "done"
           \/ /\ decide[d] = "update"
              /\ status[verdict[d].pair] = "suggested"
              /\ Decided(verdict[d].pair)'
              /\ \A c \in Decider \ {d} : decide'[c] = decide[c]
    BY <1>4 DEF UpdatePair, ConfirmTransferPair, RejectTransferPair, Updatable, Decided
  <2> QED
    BY <1>1, <2>1
<1>5. CASE UNCHANGED vars
  BY <1>2, <1>5 DEF vars, decideVars
<1>6. \/ UNCHANGED decideVars
      \/ UNCHANGED vars
      \/ \E e \in Decider : UpdatePair(e)
      \/ \E e \in Decider, r \in Pair, to \in {"confirmed", "rejected"} : ReadPair(e, r, to)
  BY DEF Next, ReadTransactions, ReadLegs, InsertTransferPair, FinishScan,
     AbandonScan, EndScan, CommitImport, CommitRollback
<1> QED
  BY <1>2, <1>3, <1>4, <1>5, <1>6

\* What a call decided stays decided, or its pair has lost a leg.
LEMMA DoneStep == IInv /\ [Next]_vars => DoneIsDecided'
<1> SUFFICES ASSUME IInv, [Next]_vars, NEW d \in Decider, decide'[d] = "done"
             PROVE  \/ status'[verdict'[d].pair] \in {"confirmed", "rejected"}
                    \/ tx'[verdict'[d].pair[1]] = "deleted"
                    \/ tx'[verdict'[d].pair[2]] = "deleted"
  BY DEF DoneIsDecided, Decided, LegDeleted
<1>1. verdict'[d] = verdict[d] /\ verdict[d].pair \in Pair
  BY VerdictStep
<1>2. PICK p \in Pair : p = verdict[d].pair
  BY <1>1
<1>3. p[1] \in Transaction /\ p[2] \in Transaction
  BY DEF Pair
<1>4. CASE decide[d] = "done" /\ LegDeleted(p)
  BY <1>1, <1>2, <1>3, <1>4, DeletedStays DEF IInv, LegDeleted
<1>5. CASE decide[d] = "done" /\ Decided(p)
  <2>1. status'[p] = status[p] \/ (status'[p] = "none" /\ LegDeleted(p)')
    BY <1>5, DecidedStep DEF IInv
  <2> QED
    BY <1>1, <1>2, <1>5, <2>1 DEF Decided, LegDeleted
<1>6. CASE decide[d] # "done"
  BY <1>1, <1>6, VerdictStep DEF Decided
<1> QED
  BY <1>2, <1>4, <1>5, <1>6 DEF IInv, DoneIsDecided

\* A second call finds the pair no longer suggested.
LEMMA OneVerdictStep == IInv /\ [Next]_vars => OneVerdict'
<1> SUFFICES ASSUME IInv, [Next]_vars,
                    NEW d \in Decider, NEW e \in Decider, d # e,
                    decide'[d] = "done", decide'[e] = "done",
                    verdict'[d].pair = verdict'[e].pair
             PROVE  FALSE
  BY DEF OneVerdict
<1>1. /\ verdict'[d] = verdict[d] /\ verdict[d].pair \in Pair
      /\ verdict'[e] = verdict[e]
  BY VerdictStep
<1>2. ASSUME NEW a \in Decider, NEW b \in Decider, a # b, decide'[a] = "done",
             decide[a] # "done", decide[b] = "done", verdict[a].pair = verdict[b].pair
      PROVE  FALSE
  BY <1>2, VerdictStep DEF IInv, DoneIsDecided, DeletedUnpaired, Decided
<1>3. decide[d] = "done" \/ decide[e] = "done"
  BY VerdictStep
<1> QED
  BY <1>1, <1>2, <1>3 DEF IInv, OneVerdict

\* The inductive invariant: tables, and what is decided is decided once.
THEOREM Invariance == Spec => []IInv
<1>1. IInv /\ [Next]_vars => IInv'
  BY TablesStep, UnpairedStep, DoneStep, OneVerdictStep DEF IInv
<1> QED
  BY InitInv, <1>1, PTL DEF Spec

\* Of the calls that confirm or reject one pair at most one succeeds, however
\* many overlap (transfers.go decide).
THEOREM DecidedOnce == Spec => []OneVerdict
<1>1. IInv => OneVerdict
  BY DEF IInv
<1> QED
  BY Invariance, <1>1, PTL

\* A decision stays until a leg of its pair is rolled back: no scan, however
\* old its snapshot, and no second call changes it (ConfirmTransferPair,
\* RejectTransferPair, InsertTransferPair in queries/transfers.sql).
THEOREM DecisionsStay == Spec => DecisionsStand
<1>1. IInv /\ [Next]_vars => [\A p \in Pair : status[p] \in {"confirmed", "rejected"} =>
          \/ status'[p] = status[p]
          \/ status'[p] = "none" /\ (tx'[p[1]] = "deleted" \/ tx'[p[2]] = "deleted")]_<<tx, status>>
  BY DecidedStep DEF IInv, Decided, LegDeleted
<1> QED
  BY Invariance, <1>1, PTL DEF Spec, DecisionsStand

-----------------------------------------------------------------------------
(* What is on file.                                                        *)

ScanTypes ==
    /\ scan \in [Scanner -> {"idle", "legs", "insert"}]
    /\ rows \in [Scanner -> Seq(Transaction)]
    /\ todo \in [Scanner -> Seq(Pair)]
    /\ \A s \in Scanner : scan[s] # "insert" => todo[s] = <<>>

\* What a scan still inserts are proper pairs.
Proposed == \A s \in Scanner : \A k \in DOMAIN todo[s] : Proper(todo[s][k])

PairsInv == Tables /\ ScanTypes /\ Proposed /\ PairsAreTransfers

\* The first candidate and the ones after it.
LEMMA TakeFirst ==
    ASSUME ScanTypes, NEW s \in Scanner, todo[s] # <<>>
    PROVE  /\ Head(todo[s]) \in Pair /\ Tail(todo[s]) \in Seq(Pair)
           /\ 1 \in DOMAIN todo[s] /\ Head(todo[s]) = todo[s][1]
           /\ \A k \in DOMAIN Tail(todo[s]) :
                 /\ k \in Nat /\ k + 1 \in DOMAIN todo[s] /\ k + 1 # 1
                 /\ Tail(todo[s])[k] = todo[s][k + 1]
           /\ \A k \in DOMAIN todo[s] : k = 1 \/ k - 1 \in DOMAIN Tail(todo[s])
<1>1. PICK list \in Seq(Pair) : list = todo[s]
  BY DEF ScanTypes
<1>2. list # <<>>
  BY <1>1
<1>3. Len(list) \in Nat /\ Len(list) # 0 /\ DOMAIN list = 1..Len(list)
  BY <1>2
<1>4. /\ Head(list) = list[1] /\ Tail(list) \in Seq(Pair) /\ Len(Tail(list)) = Len(list) - 1
      /\ \A k \in 1..Len(Tail(list)) : Tail(list)[k] = list[k + 1]
  BY <1>2, <1>3
<1>5. DOMAIN Tail(list) = 1..Len(list) - 1
  BY <1>4
<1>6. list[1] \in Pair
  BY <1>3
<1> QED BY <1>1, <1>3, <1>4, <1>5, <1>6

\* The legs of pairs that are on file are transactions.
LEMMA ExistingTyped == ExistingLegs \in SUBSET Transaction
  BY DEF ExistingLegs, Legs, Present, Pair

\* No scan has begun, and no pair is on file.
LEMMA PairsInit == Init => PairsInv
  BY DEF Init, PairsInv, Tables, ScanTypes, Proposed, PairsAreTransfers, Present,
         Pair, PairStatus

\* Every action keeps the types of the scans.
LEMMA ScanTypesStep == Tables /\ ScanTypes /\ [Next]_vars => ScanTypes'
<1> SUFFICES ASSUME ScanTypes, [Next]_vars PROVE ScanTypes'
  OBVIOUS
<1>1. ASSUME NEW s \in Scanner, ReadTransactions(s) PROVE ScanTypes'
  <2>1. ListTransactions \in Seq(Transaction)
    BY ListsStored
  <2> QED BY <1>1, <2>1 DEF ReadTransactions, ScanTypes
<1>2. ASSUME NEW s \in Scanner, ReadLegs(s) PROVE ScanTypes'
  <2>1. rows[s] \in Seq(Transaction)
    BY DEF ScanTypes
  <2>2. DetectTransferCandidates(rows[s], ExistingLegs) \in Seq(Pair)
    BY <2>1, ExistingTyped, Detected
  <2> QED BY <1>2, <2>2 DEF ReadLegs, ScanTypes
<1>3. ASSUME NEW s \in Scanner, InsertTransferPair(s) PROVE ScanTypes'
  <2>1. scan[s] = "insert" /\ Tail(todo[s]) \in Seq(Pair)
    BY <1>3, TakeFirst DEF InsertTransferPair
  <2>2. \/ todo' = [todo EXCEPT ![s] = Tail(@)] /\ UNCHANGED <<scan, rows>>
        \/ /\ scan' = [scan EXCEPT ![s] = "idle"]
           /\ rows' = [rows EXCEPT ![s] = <<>>]
           /\ todo' = [todo EXCEPT ![s] = <<>>]
    BY <1>3 DEF InsertTransferPair
  <2>3. <<>> \in Seq(Transaction) /\ <<>> \in Seq(Pair)
    OBVIOUS
  <2>4. CASE todo' = [todo EXCEPT ![s] = Tail(@)] /\ UNCHANGED <<scan, rows>>
    <3>1. PICK rest \in Seq(Pair) : rest = Tail(todo[s])
      BY <2>1
    <3>2. todo' = [todo EXCEPT ![s] = rest] /\ scan' = scan /\ rows' = rows
      BY <2>4, <3>1
    <3> QED BY <2>1, <3>2 DEF ScanTypes
  <2>5. CASE /\ scan' = [scan EXCEPT ![s] = "idle"]
             /\ rows' = [rows EXCEPT ![s] = <<>>]
             /\ todo' = [todo EXCEPT ![s] = <<>>]
    BY <2>3, <2>5 DEF ScanTypes
  <2> QED BY <2>2, <2>4, <2>5
<1>4. ASSUME NEW s \in Scanner, FinishScan(s) \/ AbandonScan(s) PROVE ScanTypes'
  <2>1. /\ scan' = [scan EXCEPT ![s] = "idle"]
        /\ rows' = [rows EXCEPT ![s] = <<>>]
        /\ todo' = [todo EXCEPT ![s] = <<>>]
    BY <1>4 DEF FinishScan, AbandonScan, EndScan
  <2>2. <<>> \in Seq(Transaction) /\ <<>> \in Seq(Pair)
    OBVIOUS
  <2> QED BY <2>1, <2>2 DEF ScanTypes
<1>5. CASE UNCHANGED scanVars
  <2>1. scan' = scan /\ rows' = rows /\ todo' = todo
    BY <1>5 DEF scanVars
  <2> QED BY <2>1 DEF ScanTypes
<1>6. \/ UNCHANGED scanVars
      \/ \E s \in Scanner : \/ ReadTransactions(s) \/ ReadLegs(s) \/ InsertTransferPair(s)
                            \/ FinishScan(s) \/ AbandonScan(s)
  BY DEF Next, vars, scanVars, ReadPair, UpdatePair, CommitImport, CommitRollback
<1> QED BY <1>1, <1>2, <1>3, <1>4, <1>5, <1>6

\* What a scan finds is proper, and it only ever drops candidates.
LEMMA ProposedStep == ScanTypes /\ Proposed /\ [Next]_vars => Proposed'
<1> SUFFICES ASSUME ScanTypes, Proposed, [Next]_vars PROVE Proposed'
  OBVIOUS
<1>1. ASSUME NEW s \in Scanner, ReadLegs(s) PROVE Proposed'
  <2>1. rows[s] \in Seq(Transaction)
    BY DEF ScanTypes
  <2>2. PICK found \in Seq(Pair) :
          /\ found = DetectTransferCandidates(rows[s], ExistingLegs)
          /\ \A k \in DOMAIN found : Proper(found[k])
    BY <2>1, ExistingTyped, Detected
  <2>3. todo' = [todo EXCEPT ![s] = found] /\ todo'[s] = found
    BY <1>1, <2>2 DEF ReadLegs, ScanTypes
  <2>4. \A r \in Scanner : r # s => todo'[r] = todo[r]
    BY <2>3 DEF ScanTypes
  <2> QED BY <2>2, <2>3, <2>4 DEF Proposed
<1>2. ASSUME NEW s \in Scanner, todo[s] # <<>>, todo' = [todo EXCEPT ![s] = Tail(@)]
      PROVE  Proposed'
  <2>1. todo'[s] = Tail(todo[s]) /\ \A r \in Scanner : r # s => todo'[r] = todo[r]
    BY <1>2 DEF ScanTypes
  <2>2. \A k \in DOMAIN Tail(todo[s]) : Proper(Tail(todo[s])[k])
    BY <1>2, TakeFirst DEF Proposed
  <2> QED BY <2>1, <2>2 DEF Proposed
<1>3. ASSUME NEW s \in Scanner, todo' = [todo EXCEPT ![s] = <<>>] PROVE Proposed'
  BY <1>3 DEF Proposed, ScanTypes
<1>4. CASE UNCHANGED todo
  BY <1>4 DEF Proposed
<1>5. \/ UNCHANGED todo
      \/ \E s \in Scanner : \/ ReadLegs(s)
                            \/ todo[s] # <<>> /\ todo' = [todo EXCEPT ![s] = Tail(@)]
                            \/ todo' = [todo EXCEPT ![s] = <<>>]
  BY DEF Next, vars, scanVars, ReadTransactions, InsertTransferPair, FinishScan, AbandonScan,
         EndScan, ReadPair, UpdatePair, CommitImport, CommitRollback
<1> QED BY <1>1, <1>2, <1>3, <1>4, <1>5

\* The pairs on file after a step: no new one, but for the candidate a scan inserts.
LEMMA PresentStep ==
    ASSUME Tables, ScanTypes, [Next]_vars
    PROVE  \/ Present' \subseteq Present
           \/ \E s \in Scanner :
                 /\ InsertTransferPair(s) /\ todo[s] # <<>> /\ LegsStored(Head(todo[s]))
                 /\ todo' = [todo EXCEPT ![s] = Tail(@)] /\ UNCHANGED <<tx, scan, rows>>
                 /\ Present' = Present \cup {Head(todo[s])}
<1> USE DEF Tables
<1>1. ASSUME NEW s \in Scanner, InsertTransferPair(s)
      PROVE  \/ Present' \subseteq Present
             \/ /\ todo[s] # <<>> /\ LegsStored(Head(todo[s]))
                /\ todo' = [todo EXCEPT ![s] = Tail(@)] /\ UNCHANGED <<tx, scan, rows>>
                /\ Present' = Present \cup {Head(todo[s])}
  <2>1. todo[s] # <<>> /\ tx' = tx
    BY <1>1 DEF InsertTransferPair
  <2>2. Head(todo[s]) \in Pair
    BY <2>1, TakeFirst
  <2>3. CASE UNCHANGED status
    BY <2>3 DEF Present
  <2>4. CASE /\ LegsStored(Head(todo[s])) /\ status' = [status EXCEPT ![Head(todo[s])] = CandidateStatus]
             /\ todo' = [todo EXCEPT ![s] = Tail(@)] /\ UNCHANGED <<scan, rows>>
    <3>1. Present' = Present \cup {Head(todo[s])}
      BY <2>2, <2>4 DEF Present, CandidateStatus
    <3> QED BY <2>1, <2>4, <3>1
  <2> QED BY <1>1, <2>3, <2>4 DEF InsertTransferPair
<1>2. ASSUME NEW d \in Decider, UpdatePair(d) PROVE Present' \subseteq Present
  BY <1>2 DEF UpdatePair, Updatable, ConfirmTransferPair, RejectTransferPair, Present
<1>3. ASSUME NEW S \in SUBSET Transaction, CommitRollback(S) PROVE Present' \subseteq Present
  BY <1>3 DEF CommitRollback, Present
<1>4. CASE UNCHANGED status
  BY <1>4 DEF Present
<1>5. \/ UNCHANGED status
      \/ \E s \in Scanner : InsertTransferPair(s)
      \/ \E d \in Decider : UpdatePair(d)
      \/ \E S \in SUBSET Transaction : CommitRollback(S)
  BY DEF Next, vars, ReadTransactions, ReadLegs, FinishScan, AbandonScan, EndScan,
         ReadPair, CommitImport
<1> QED BY <1>1, <1>2, <1>3, <1>4, <1>5

\* No step takes a leg from a pair that stays.
LEMMA LegsStayStored ==
    ASSUME PairsInv, [Next]_vars, NEW p \in Present, p \in Present'
    PROVE  p[1] \in Stored' /\ p[2] \in Stored'
<1> USE DEF PairsInv, Tables
<1>1. p \in Pair /\ p[1] \in Transaction /\ p[2] \in Transaction
  BY DEF Present, Pair
<1>2. p[1] \in Stored /\ p[2] \in Stored
  BY DEF PairsAreTransfers
<1>3. ASSUME NEW S \in SUBSET Transaction, CommitImport(S) PROVE Stored \subseteq Stored'
  BY <1>3 DEF CommitImport, Stored
<1>4. ASSUME NEW S \in SUBSET Transaction, CommitRollback(S)
      PROVE  p[1] \in Stored' /\ p[2] \in Stored'
  BY <1>1, <1>2, <1>4 DEF CommitRollback, Stored, Present
<1>5. CASE UNCHANGED tx
  BY <1>2, <1>5 DEF Stored
<1>6. \/ UNCHANGED tx
      \/ \E S \in SUBSET Transaction : CommitImport(S) \/ CommitRollback(S)
  BY DEF Next, vars, ReadTransactions, ReadLegs, InsertTransferPair, FinishScan, AbandonScan,
         EndScan, ReadPair, UpdatePair
<1> QED BY <1>2, <1>3, <1>4, <1>5, <1>6

\* Every pair on file joins two stored transactions that are a transfer.
LEMMA PairsStep == PairsInv /\ [Next]_vars => PairsInv'
<1> SUFFICES ASSUME PairsInv, [Next]_vars PROVE PairsAreTransfers'
  BY TablesStep, ScanTypesStep, ProposedStep DEF PairsInv
<1> SUFFICES ASSUME NEW p \in Present'
             PROVE  /\ p[1] \in Stored' /\ p[2] \in Stored'
                    /\ Compatible(p[1], p[2]) /\ p[1].amount < 0
  BY DEF PairsAreTransfers
<1>1. CASE p \in Present
  <2>1. Compatible(p[1], p[2]) /\ p[1].amount < 0
    BY <1>1 DEF PairsInv, PairsAreTransfers
  <2> QED BY <1>1, <2>1, LegsStayStored
<1>2. CASE p \notin Present
  <2>1. PICK s \in Scanner : /\ todo[s] # <<>> /\ LegsStored(Head(todo[s])) /\ UNCHANGED tx
                             /\ Present' = Present \cup {Head(todo[s])}
    BY <1>2, PresentStep DEF PairsInv
  <2>2. p = Head(todo[s]) /\ p[1] \in Stored /\ p[2] \in Stored
    BY <1>2, <2>1 DEF LegsStored
  <2>3. Proper(p)
    BY <2>1, <2>2, TakeFirst DEF PairsInv, Proposed
  <2> QED BY <2>1, <2>2, <2>3 DEF Proper, Stored
<1> QED BY <1>1, <1>2

\* A pair on file joins two stored transactions of different accounts with opposite amounts
\* and near booking dates, however many scans, imports and rollbacks overlap: the detection
\* proposes no other, and the foreign keys hold the legs (transfers.go Scan).
THEOREM PairsStayTransfers == Spec => []PairsAreTransfers
<1>1. PairsInv => PairsAreTransfers
  BY DEF PairsInv
<1>2. PairsInv /\ [Next]_vars => PairsInv'
  BY PairsStep
<1> QED BY PairsInit, <1>1, <1>2, PTL DEF Spec

-----------------------------------------------------------------------------
(* What the scans know, however many overlap.                              *)

\* A pair that was on file is so still, or has lost a leg for good.
Lasting(S) == \A p \in S : p \in Present \/ LegDeleted(p)

\* A scan knows nothing before it has read the legs.
Histories ==
    /\ known \in [Scanner -> SUBSET Pair] /\ knew \in [Pair -> SUBSET Pair]
    /\ \A s \in Scanner : Lasting(known[s]) /\ (scan[s] # "insert" => known[s] = {})
    /\ \A p \in Present : Lasting(knew[p])

\* What a scan still inserts is apart from itself and from the pairs it knows.
Apart ==
    \A s \in Scanner : \A k \in DOMAIN todo[s] :
        /\ \A l \in DOMAIN todo[s] : k # l => Both(todo[s][k]) \cap Both(todo[s][l]) = {}
        /\ \A p \in known[s] : Both(todo[s][k]) \cap Both(p) = {}

\* Of two transactions it lists that could be a transfer, one is in a pair that
\* it knows or still inserts.
Taken(s, t) == \/ \E p \in known[s] : t \in Both(p)
               \/ \E k \in DOMAIN todo[s] : t \in Both(todo[s][k])
Covers(s) == \A a, b \in Listing(rows[s]) : Compatible(a, b) => Taken(s, a) \/ Taken(s, b)
Covered == \A s \in Scanner : scan[s] = "insert" => Covers(s)

OverlapInv == PairsInv /\ Histories /\ Apart /\ Covered /\ SharedOnlyUnknown

\* Without pairs and scans there is nothing to know.
LEMMA OverlapInitInv == OverlapInit => OverlapInv
<1> SUFFICES ASSUME OverlapInit PROVE Histories /\ Apart /\ Covered /\ SharedOnlyUnknown
  BY PairsInit DEF OverlapInv, OverlapInit
<1>1. Present = {}
  BY DEF OverlapInit, Init, Present
<1>2. Histories
  BY <1>1 DEF OverlapInit, Histories, Lasting
<1>3. \A s \in Scanner : DOMAIN todo[s] = {} /\ scan[s] # "insert"
  BY DEF OverlapInit, Init
<1> QED BY <1>1, <1>2, <1>3 DEF Apart, Covered, SharedOnlyUnknown

\* What a step does to a scan and to what it knows.
Reading(s) == ReadLegs(s) /\ Present' = Present /\ scan'[s] = "insert" /\ known'[s] = Present
Dropping(s) == todo'[s] = <<>> /\ scan'[s] # "insert" /\ known'[s] = {}
Inserting(s) == /\ todo[s] # <<>> /\ todo'[s] = Tail(todo[s]) /\ rows'[s] = rows[s]
                /\ scan[s] = "insert" /\ scan'[s] = "insert"
                /\ known'[s] = known[s] \cup {Head(todo[s])} /\ Head(todo[s]) \in Present'
Waiting(s) == /\ todo'[s] = todo[s] /\ rows'[s] = rows[s] /\ scan'[s] = scan[s]
              /\ scan[s] = "insert" /\ known'[s] = known[s]

\* A list is longer than what comes after its first.
LEMMA TailDiffers == ASSUME NEW list \in Seq(Pair), list # <<>> PROVE Tail(list) # list
<1>1. PICK rest, n : rest = Tail(list) /\ n = Len(list)
  OBVIOUS
<1>2. n \in Nat /\ Len(rest) = n - 1
  BY <1>1
<1>3. n - 1 # n
  BY <1>2
<1> QED BY ONLY <1>1, <1>2, <1>3, Zenon

\* No step does anything else to a scan.
LEMMA ScanMoves ==
    ASSUME Tables, ScanTypes, Histories, [OverlapNext]_overlapVars, NEW s \in Scanner
    PROVE  Reading(s) \/ Dropping(s) \/ Inserting(s) \/ Waiting(s)
<1>1. /\ scan \in [Scanner -> {"idle", "legs", "insert"}] /\ rows \in [Scanner -> Seq(Transaction)]
      /\ todo \in [Scanner -> Seq(Pair)] /\ (scan[s] # "insert" => todo[s] = <<>>)
  BY DEF ScanTypes
<1>2. CASE UNCHANGED overlapVars
  <2>1. scan' = scan /\ rows' = rows /\ todo' = todo /\ known' = known
    BY <1>2 DEF overlapVars, vars, scanVars
  <2> QED BY <1>1, <2>1 DEF Waiting, Dropping, Histories
<1>3. CASE OverlapNext
  <2>1. Next /\ known'[s] = Learns(s)
    BY <1>3 DEF OverlapNext
  <2>2. CASE scan'[s] = scan[s] /\ rows'[s] = rows[s] /\ todo'[s] = todo[s]
    BY <1>1, <2>1, <2>2 DEF Learns, Reads, Inserts, Waiting, Dropping
  <2>3. CASE ReadTransactions(s)
    <3>1. scan[s] = "idle" /\ scan'[s] = "legs" /\ todo'[s] = todo[s]
      BY <1>1, <2>3 DEF ReadTransactions
    <3> QED BY <1>1, <2>1, <3>1 DEF Learns, Reads, Inserts, Dropping
  <2>4. CASE ReadLegs(s)
    <3>1. scan[s] = "legs" /\ scan'[s] = "insert" /\ Present' = Present
      BY <1>1, <2>4 DEF ReadLegs, Present
    <3> QED BY <2>1, <2>4, <3>1 DEF Learns, Reads, Reading
  <2>5. CASE /\ scan[s] = "insert" /\ todo[s] # <<>> /\ todo' = [todo EXCEPT ![s] = Tail(@)]
             /\ UNCHANGED <<scan, rows>> /\ Head(todo[s]) \in Present'
    <3>1. todo'[s] = Tail(todo[s]) /\ scan'[s] = "insert" /\ rows'[s] = rows[s]
      BY <1>1, <2>5
    <3>2. todo'[s] # todo[s]
      BY <1>1, <2>5, <3>1, TailDiffers
    <3> QED BY <2>1, <2>5, <3>1, <3>2 DEF Learns, Reads, Inserts, Inserting
  <2>6. CASE scan' = [scan EXCEPT ![s] = "idle"] /\ todo' = [todo EXCEPT ![s] = <<>>]
    <3>1. scan'[s] = "idle" /\ todo'[s] = <<>>
      BY <1>1, <2>6
    <3> QED BY <2>1, <3>1 DEF Learns, Reads, Inserts, Dropping
  <2>7. ASSUME NEW r \in Scanner, ReadTransactions(r) \/ ReadLegs(r) \/ InsertTransferPair(r)
                                  \/ FinishScan(r) \/ AbandonScan(r)
        PROVE  \/ r # s /\ scan'[s] = scan[s] /\ rows'[s] = rows[s] /\ todo'[s] = todo[s]
               \/ r = s
    BY <1>1, <2>7 DEF ReadTransactions, ReadLegs, InsertTransferPair, FinishScan, AbandonScan, EndScan
  <2>8. CASE UNCHANGED scanVars
    BY <2>2, <2>8 DEF scanVars
  <2>9. ASSUME InsertTransferPair(s) \/ FinishScan(s) \/ AbandonScan(s)
        PROVE  Reading(s) \/ Dropping(s) \/ Inserting(s) \/ Waiting(s)
    <3>1. CASE FinishScan(s) \/ AbandonScan(s)
      BY <2>6, <3>1 DEF FinishScan, AbandonScan, EndScan
    <3>2. CASE InsertTransferPair(s)
      <4>1. PICK p \in Pair : p = Head(todo[s])
        BY <3>2, TakeFirst DEF InsertTransferPair
      <4>2. CASE /\ status' = [status EXCEPT ![p] = CandidateStatus]
                 /\ todo' = [todo EXCEPT ![s] = Tail(@)] /\ UNCHANGED <<scan, rows>>
        <5>1. p \in Present'
          BY <4>2 DEF Tables, Present, CandidateStatus
        <5> QED BY <2>5, <3>2, <4>1, <4>2, <5>1 DEF InsertTransferPair
      <4>3. CASE /\ status[p] # "none" /\ status' = status
                 /\ todo' = [todo EXCEPT ![s] = Tail(@)] /\ UNCHANGED <<scan, rows>>
        <5>1. p \in Present'
          BY <4>3 DEF Present
        <5> QED BY <2>5, <3>2, <4>1, <4>3, <5>1 DEF InsertTransferPair
      <4> QED BY <2>6, <3>2, <4>1, <4>2, <4>3 DEF InsertTransferPair
    <3> QED BY <2>9, <3>1, <3>2
  <2>10. \/ UNCHANGED scanVars
         \/ \E r \in Scanner : ReadTransactions(r) \/ ReadLegs(r) \/ InsertTransferPair(r)
                               \/ FinishScan(r) \/ AbandonScan(r)
    BY <2>1 DEF Next, scanVars, ReadPair, UpdatePair, CommitImport, CommitRollback
  <2> QED BY <2>2, <2>3, <2>4, <2>7, <2>8, <2>9, <2>10
<1> QED BY <1>2, <1>3

\* A pair on file stays, or loses a leg; and a lost leg stays lost.
LEMMA StaysOrLoses ==
    ASSUME PairsInv, [Next]_vars, NEW p \in Pair, p \in Present \/ LegDeleted(p)
    PROVE  (p \in Present \/ LegDeleted(p))'
<1> USE DEF PairsInv
<1>1. p[1] \in Transaction /\ p[2] \in Transaction
  BY DEF Pair
<1>2. CASE LegDeleted(p)
  BY <1>1, <1>2, DeletedStays DEF LegDeleted
<1>3. CASE p \in Present
  <2>1. ASSUME NEW S \in SUBSET Transaction, CommitRollback(S) PROVE (p \in Present \/ LegDeleted(p))'
    BY <1>1, <1>3, <2>1 DEF CommitRollback, Present, LegDeleted
  <2>2. ASSUME NEW d \in Decider, UpdatePair(d) PROVE p \in Present'
    BY <1>3, <2>2 DEF UpdatePair, ConfirmTransferPair, RejectTransferPair, Present, Tables, PairStatus
  <2>3. ASSUME NEW s \in Scanner, InsertTransferPair(s) PROVE p \in Present'
    BY <1>3, <2>3 DEF InsertTransferPair, Present, Tables, CandidateStatus
  <2>4. CASE UNCHANGED status
    BY <1>3, <2>4 DEF Present
  <2>5. \/ UNCHANGED status
        \/ \E s \in Scanner : InsertTransferPair(s)
        \/ \E d \in Decider : UpdatePair(d)
        \/ \E S \in SUBSET Transaction : CommitRollback(S)
    BY DEF Next, vars, ReadTransactions, ReadLegs, FinishScan, AbandonScan, EndScan, ReadPair, CommitImport
  <2> QED BY <2>1, <2>2, <2>3, <2>4, <2>5
<1> QED BY <1>2, <1>3

\* So it is with all pairs of a history.
LEMMA LastingStep ==
    ASSUME PairsInv, [Next]_vars, NEW S \in SUBSET Pair, Lasting(S)
    PROVE  Lasting(S)'
BY StaysOrLoses DEF Lasting

\* What the history says of the pairs after a step: as before, but for the one
\* that a scan has suggested, which is apart from those it knows.
LEMMA Suggested ==
    ASSUME PairsInv, Histories, [OverlapNext]_overlapVars
    PROVE  /\ \A p \in Present \cap Present' : knew'[p] = knew[p]
           /\ \/ Present' \subseteq Present
              \/ \E s \in Scanner : /\ todo[s] # <<>> /\ LegsStored(Head(todo[s]))
                                    /\ Present' = Present \cup {Head(todo[s])}
                                    /\ Head(todo[s]) \notin Present => knew'[Head(todo[s])] = known[s]
<1> USE DEF PairsInv
<1>1. [Next]_vars
  BY DEF OverlapNext, overlapVars
<1>2. knew' = knew \/ knew' = [p \in Pair |-> Suggests(p)]
  BY DEF OverlapNext, overlapVars
<1>3. \A p \in Present \cap Present' : knew'[p] = knew[p]
  BY <1>2 DEF Suggests, Present
<1>4. ASSUME NEW s \in Scanner, InsertTransferPair(s), todo[s] # <<>>, LegsStored(Head(todo[s])),
             todo' = [todo EXCEPT ![s] = Tail(@)], UNCHANGED scan,
             Present' = Present \cup {Head(todo[s])}, Head(todo[s]) \notin Present
      PROVE  knew'[Head(todo[s])] = known[s]
  <2>1. PICK p \in Pair : p = Head(todo[s])
    BY <1>4, TakeFirst
  <2>2. status[p] = "none" /\ status'[p] # "none" /\ scan[s] = "insert"
    BY <1>4, <2>1 DEF Present, InsertTransferPair
  <2>3. knew' = [q \in Pair |-> Suggests(q)]
    <3>1. status' # status
      BY <2>2
    <3> QED BY <3>1 DEF OverlapNext, overlapVars, vars
  <2>4. Inserts(s)
    <3>1. todo'[s] = Tail(todo[s]) /\ todo[s] \in Seq(Pair) /\ scan'[s] = "insert"
      BY <1>4, <2>2 DEF ScanTypes
    <3> QED BY <1>4, <2>2, <3>1, TailDiffers DEF Inserts
  <2>5. \A r \in Scanner : r # s => ~Inserts(r)
    BY <1>4 DEF Inserts, ScanTypes
  <2>6. {r \in Scanner : Inserts(r) /\ Head(todo[r]) = p} = {s}
    BY <2>1, <2>4, <2>5
  <2>7. Suggests(p) = UNION {known[r] : r \in {s}}
    BY <2>2, <2>6 DEF Suggests
  <2>8. UNION {known[r] : r \in {s}} = known[s]
    OBVIOUS
  <2> QED BY <2>1, <2>3, <2>7, <2>8
<1> QED BY <1>1, <1>3, <1>4, PresentStep

\* The histories keep their types and tell of pairs that were on file.
LEMMA HistoriesStep ==
    ASSUME PairsInv, Histories, [OverlapNext]_overlapVars
    PROVE  Histories'
<1> USE DEF PairsInv
<1>1. [Next]_vars /\ ScanTypes'
  BY ScanTypesStep DEF OverlapNext, overlapVars
<1>2. ASSUME NEW s \in Scanner
      PROVE  known'[s] \in SUBSET Pair /\ Lasting(known[s])' /\ (scan'[s] # "insert" => known'[s] = {})
  <2>1. PICK old \in SUBSET Pair : old = known[s] /\ Lasting(old)
    BY DEF Histories
  <2>2. Lasting(old)'
    BY <1>1, <2>1, LastingStep
  <2>3. Reading(s) \/ Dropping(s) \/ Inserting(s) \/ Waiting(s)
    BY ScanMoves
  <2>4. CASE Reading(s)
    BY <2>4 DEF Reading, Lasting, Present
  <2>5. CASE Dropping(s)
    BY <2>5 DEF Dropping, Lasting
  <2>6. CASE Inserting(s)
    BY <2>1, <2>2, <2>6, TakeFirst DEF Inserting, Lasting
  <2>7. CASE Waiting(s)
    BY <2>1, <2>2, <2>7 DEF Waiting, Lasting
  <2> QED BY <2>3, <2>4, <2>5, <2>6, <2>7
<1>3. /\ known' \in [Scanner -> SUBSET Pair] /\ knew' \in [Pair -> SUBSET Pair]
  <2>1. known' = known \/ known' = [s \in Scanner |-> Learns(s)]
    BY DEF OverlapNext, overlapVars
  <2>2. known' \in [Scanner -> SUBSET Pair]
    BY <1>2, <2>1 DEF Histories
  <2>3. knew' = knew \/ knew' = [p \in Pair |-> Suggests(p)]
    BY DEF OverlapNext, overlapVars
  <2>4. ASSUME NEW p \in Pair PROVE Suggests(p) \in SUBSET Pair
    BY DEF Suggests, Histories
  <2> QED BY <2>2, <2>3, <2>4 DEF Histories
<1>4. ASSUME NEW p \in Present' PROVE Lasting(knew[p])'
  <2>1. p \in Pair
    BY DEF Present
  <2>2. PICK old \in SUBSET Pair : old = knew'[p] /\ Lasting(old)
    <3>1. CASE p \in Present
      BY <1>4, <2>1, <3>1, Suggested DEF Histories
    <3>2. CASE p \notin Present
      <4>1. PICK s \in Scanner : p = Head(todo[s]) /\ knew'[p] = known[s]
        BY <1>4, <3>2, Suggested
      <4> QED BY <4>1 DEF Histories
    <3> QED BY <3>1, <3>2
  <2>3. Lasting(old)'
    BY <1>1, <2>2, LastingStep
  <2> QED BY <2>2, <2>3 DEF Lasting
<1> QED BY <1>2, <1>3, <1>4 DEF Histories

\* A scan leaves the legs of every pair on file alone when it reads them, and
\* what it inserts then is apart from what it still does.
LEMMA ApartStep ==
    ASSUME PairsInv, Histories, Apart, [OverlapNext]_overlapVars, NEW s \in Scanner,
           NEW k \in DOMAIN todo'[s]
    PROVE  /\ \A l \in DOMAIN todo'[s] : k # l => Both(todo'[s][k]) \cap Both(todo'[s][l]) = {}
           /\ \A p \in known'[s] : Both(todo'[s][k]) \cap Both(p) = {}
<1> USE DEF PairsInv
<1>1. Reading(s) \/ Dropping(s) \/ Inserting(s) \/ Waiting(s)
  BY ScanMoves
<1>2. CASE Reading(s)
  <2>1. rows[s] \in Seq(Transaction)
    BY DEF ScanTypes
  <2>2. PICK found \in Seq(Pair) :
          /\ found = DetectTransferCandidates(rows[s], ExistingLegs)
          /\ \A j \in DOMAIN found : Both(found[j]) \cap ExistingLegs = {}
          /\ \A j, l \in DOMAIN found : j # l => Both(found[j]) \cap Both(found[l]) = {}
    BY <2>1, ExistingTyped, Detected
  <2>3. todo'[s] = found /\ known'[s] = Present
    BY <1>2, <2>2 DEF Reading, ReadLegs, ScanTypes
  <2>4. \A p \in Present : Both(p) \subseteq ExistingLegs
    BY DEF ExistingLegs, Legs, Both
  <2> QED BY <2>2, <2>3, <2>4
<1>3. CASE Dropping(s)
  BY <1>3 DEF Dropping
<1>4. CASE Inserting(s)
  <2>1. PICK rest, p : rest = Tail(todo[s]) /\ p = Head(todo[s])
    OBVIOUS
  <2>2. /\ 1 \in DOMAIN todo[s] /\ p = todo[s][1]
        /\ \A j \in DOMAIN rest : /\ j \in Nat /\ j + 1 \in DOMAIN todo[s] /\ j + 1 # 1
                                  /\ rest[j] = todo[s][j + 1]
    BY <1>4, <2>1, TakeFirst DEF Inserting
  <2>3. todo'[s] = rest /\ known'[s] = known[s] \cup {p} /\ k \in DOMAIN rest
    BY <1>4, <2>1 DEF Inserting
  <2>4. ASSUME NEW l \in DOMAIN rest, k # l PROVE Both(rest[k]) \cap Both(rest[l]) = {}
    <3>1. /\ k + 1 # l + 1 /\ k + 1 \in DOMAIN todo[s] /\ l + 1 \in DOMAIN todo[s]
          /\ rest[k] = todo[s][k + 1] /\ rest[l] = todo[s][l + 1]
      BY <2>2, <2>3, <2>4
    <3> QED BY <3>1 DEF Apart
  <2>5. ASSUME NEW q \in known[s] \cup {p} PROVE Both(rest[k]) \cap Both(q) = {}
    BY <2>2, <2>3 DEF Apart
  <2> QED BY <2>3, <2>4, <2>5
<1>5. CASE Waiting(s)
  BY <1>5 DEF Waiting, Apart
<1> QED BY <1>1, <1>2, <1>3, <1>4, <1>5

\* What a scan has found covers the list, and inserting takes none of it away.
LEMMA CoveredStep ==
    ASSUME PairsInv, Histories, Covered, [OverlapNext]_overlapVars, NEW s \in Scanner, scan'[s] = "insert"
    PROVE  Covers(s)'
<1> USE DEF PairsInv
<1>1. Reading(s) \/ Inserting(s) \/ Waiting(s)
  BY ScanMoves DEF Dropping
<1>2. CASE Reading(s)
  <2>1. rows[s] \in Seq(Transaction)
    BY DEF ScanTypes
  <2>2. PICK found \in Seq(Pair) :
          /\ found = DetectTransferCandidates(rows[s], ExistingLegs)
          /\ \A a, b \in Listing(rows[s]) : Compatible(a, b) =>
                \E t \in {a, b} : t \in ExistingLegs \/ \E k \in DOMAIN found : t \in Both(found[k])
    BY <2>1, ExistingTyped, Detected
  <2>3. todo'[s] = found /\ rows'[s] = rows[s] /\ known'[s] = Present
    BY <1>2, <2>2 DEF Reading, ReadLegs, ScanTypes
  <2>4. ASSUME NEW t, t \in ExistingLegs PROVE \E p \in Present : t \in Both(p)
    BY <2>4 DEF ExistingLegs, Legs, Both
  <2>5. \A t : t \in ExistingLegs \/ (\E k \in DOMAIN found : t \in Both(found[k])) => Taken(s, t)'
    BY <2>3, <2>4 DEF Taken
  <2> QED BY <2>2, <2>3, <2>5 DEF Covers
<1>3. CASE Inserting(s)
  <2>1. PICK rest, p : rest = Tail(todo[s]) /\ p = Head(todo[s])
    OBVIOUS
  <2>2. p = todo[s][1] /\ \A k \in DOMAIN todo[s] : k = 1 \/ \E l \in DOMAIN rest : rest[l] = todo[s][k]
    <3>1. \A k \in DOMAIN todo[s] : k \in Int
      BY DEF ScanTypes
    <3>2. ASSUME NEW k \in DOMAIN todo[s], k # 1 PROVE rest[k - 1] = todo[s][k] /\ k - 1 \in DOMAIN rest
      <4>1. k - 1 \in DOMAIN rest
        BY <1>3, <2>1, <3>2, TakeFirst DEF Inserting
      <4>2. rest[k - 1] = todo[s][(k - 1) + 1]
        BY <1>3, <2>1, <4>1, TakeFirst DEF Inserting
      <4>3. (k - 1) + 1 = k
        BY <3>1
      <4> QED BY <4>1, <4>2, <4>3
    <3> QED BY <1>3, <2>1, <3>2, TakeFirst DEF Inserting
  <2>3. todo'[s] = rest /\ known'[s] = known[s] \cup {p} /\ rows'[s] = rows[s] /\ scan[s] = "insert"
    BY <1>3, <2>1 DEF Inserting
  <2>4. ASSUME NEW t, Taken(s, t) PROVE Taken(s, t)'
    BY <2>2, <2>3, <2>4 DEF Taken
  <2> QED BY <2>3, <2>4 DEF Covered, Covers
<1>4. CASE Waiting(s)
  BY <1>4 DEF Waiting, Covered, Covers, Taken
<1> QED BY <1>1, <1>2, <1>3, <1>4

\* A pair that a scan suggests shares no leg with one the scan knew; and no
\* scan knew of it before, since a pair does not come back.
LEMMA SharedStep ==
    ASSUME PairsInv, Histories, Apart, SharedOnlyUnknown, [OverlapNext]_overlapVars
    PROVE  SharedOnlyUnknown'
<1> USE DEF PairsInv
<1>1. CASE Present' \subseteq Present
  <2>1. \A p \in Present' : knew'[p] = knew[p]
    BY <1>1, Suggested
  <2> QED BY <1>1, <2>1 DEF SharedOnlyUnknown
<1>2. ASSUME NEW s \in Scanner, todo[s] # <<>>, LegsStored(Head(todo[s])),
             Present' = Present \cup {Head(todo[s])}, Head(todo[s]) \notin Present,
             knew'[Head(todo[s])] = known[s]
      PROVE  SharedOnlyUnknown'
  <2>1. PICK q \in Pair : q = Head(todo[s]) /\ q = todo[s][1] /\ 1 \in DOMAIN todo[s]
    BY <1>2, TakeFirst
  <2>2. \A p \in known[s] : Both(q) \cap Both(p) = {}
    BY <2>1 DEF Apart
  <2>3. q \notin Present /\ ~LegDeleted(q)
    BY <1>2, <2>1 DEF LegsStored, Stored, LegDeleted
  <2>4. \A p \in Present : q \notin knew[p]
    BY <2>3 DEF Histories, Lasting
  <2>5. \A p \in Present : knew'[p] = knew[p]
    BY <1>2, Suggested
  <2>6. knew'[q] = known[s] /\ Present' = Present \cup {q}
    BY <1>2, <2>1
  <2>7. ASSUME NEW p \in Present, SharesLeg(p, q) \/ SharesLeg(q, p) PROVE p \notin knew'[q] /\ q \notin knew'[p]
    BY <2>2, <2>4, <2>5, <2>6, <2>7 DEF SharesLeg
  <2>8. ASSUME NEW p \in Present', NEW r \in Present', SharesLeg(p, r) PROVE p \notin knew'[r] /\ r \notin knew'[p]
    <3>1. CASE p \in Present /\ r \in Present
      BY <2>5, <2>8, <3>1 DEF SharedOnlyUnknown
    <3>2. CASE p = q \/ r = q
      <4>1. ~(p = q /\ r = q)
        BY <2>8 DEF SharesLeg
      <4> QED BY <2>6, <2>7, <2>8, <3>2, <4>1
    <3> QED BY <2>6, <3>1, <3>2
  <2> QED BY <2>8 DEF SharedOnlyUnknown
<1> QED BY <1>1, <1>2, Suggested

\* Every step keeps the invariant, whichever scans overlap.
LEMMA OverlapInvariance == OverlapSpec => []OverlapInv
<1>1. ASSUME OverlapInv, [OverlapNext]_overlapVars PROVE OverlapInv'
  <2>1. [Next]_vars
    BY <1>1 DEF OverlapNext, overlapVars
  <2>2. PairsInv' /\ Histories'
    BY <1>1, <2>1, PairsStep, HistoriesStep DEF OverlapInv
  <2>3. Apart'
    BY <1>1, ApartStep DEF OverlapInv, Apart
  <2>4. Covered'
    BY <1>1, CoveredStep DEF OverlapInv, Covered
  <2> QED BY <1>1, <2>2, <2>3, <2>4, SharedStep DEF OverlapInv
<1> QED BY OverlapInitInv, <1>1, PTL DEF OverlapSpec

\* However many scans overlap, two pairs on file share a transaction only if neither scan knew
\* of the other's pair: it leaves the legs of every pair on file alone when it reads them, and
\* pairs no transaction twice (transfers.go Scan).
THEOREM SharingTakesOverlap == OverlapSpec => []SharedOnlyUnknown
<1>1. OverlapInv => SharedOnlyUnknown
  BY DEF OverlapInv
<1> QED BY OverlapInvariance, <1>1, PTL

\* However many scans overlap, one that ends has left no two of the transactions it listed that
\* could be a transfer, unless a pair that it knew has gone with the rollback of the other leg
\* (transfers.go Scan).
THEOREM ScansAreComplete == OverlapSpec => ScanLeavesNoCandidate
<1>1. ASSUME OverlapInv, NEW s \in Scanner, FinishScan(s),
             NEW a \in ToSet(rows[s]) \cap (Stored \ Legs(Present)),
             NEW b \in ToSet(rows[s]) \cap (Stored \ Legs(Present)), Compatible(a, b)
      PROVE  \E p \in known[s] : {a, b} \cap Both(p) # {} /\ ~(Both(p) \subseteq Stored)
  <2>1. scan[s] = "insert" /\ todo[s] = <<>>
    BY <1>1 DEF FinishScan
  <2>2. a \in Listing(rows[s]) /\ b \in Listing(rows[s])
    BY DEF ToSet, Listing
  <2>3. PICK t \in {a, b} : Taken(s, t)
    BY <1>1, <2>1, <2>2 DEF OverlapInv, Covered, Covers
  <2>4. PICK p \in known[s] : t \in Both(p)
    BY <2>1, <2>3 DEF Taken
  <2>5. p \notin Present
    BY <2>4 DEF Legs, Both
  <2>6. LegDeleted(p)
    BY <1>1, <2>4, <2>5 DEF OverlapInv, Histories, Lasting
  <2> QED BY <2>4, <2>6 DEF LegDeleted, Both, Stored
<1>2. OverlapInv /\ [OverlapNext]_overlapVars =>
        [\A s \in Scanner : FinishScan(s) =>
          \A a, b \in ToSet(rows[s]) \cap (Stored \ Legs(Present)) :
              Compatible(a, b) =>
                  \E p \in known[s] : {a, b} \cap Both(p) # {} /\ ~(Both(p) \subseteq Stored)]_scan
  BY <1>1
<1> QED BY OverlapInvariance, <1>2, PTL DEF OverlapSpec, ScanLeavesNoCandidate

-----------------------------------------------------------------------------
(* The net of the household.                                               *)

Amount(i, S) == IF ScanOrder[i] \in S THEN ScanOrder[i].amount ELSE 0

\* The net is what the running sums over the transactions come to.
LEMMA RunningSums ==
    ASSUME NEW S
    PROVE  \E sum \in [0..Len(ScanOrder) -> Int] :
              /\ sum[0] = 0
              /\ \A i \in 1..Len(ScanOrder) : sum[i] = sum[i - 1] + Amount(i, S)
              /\ Net(S) = sum[Len(ScanOrder)]
<1> DEFINE N == Len(ScanOrder)
           step == [n \in Int |-> [i \in 1..N |-> n + Amount(i, S)]]
           Loop(f) == [i \in 0..N |-> IF i = 0 THEN 0 ELSE f[i - 1] + Amount(i, S)]
<1>1. N \in Nat /\ \A i \in 1..N : Amount(i, S) \in Int
  BY ScanOrderAssumption DEF Amount
<1> HIDE DEF N
<1>2. step \in Steps(N, Int)
  BY <1>1 DEF Steps
<1>3. \A n \in Int, i \in 1..N : step[n][i] = n + Amount(i, S)
  OBVIOUS
<1> HIDE DEF step
<1>4. PICK f : Follows(f, N, Int, 0, step)
  BY <1>1, <1>2, Recursion
<1>5. f \in [0..N -> Int] /\ f[0] = 0
  BY <1>4 DEF Follows
<1>6. \A i \in 1..N : f[i] = f[i - 1] + Amount(i, S)
  <2>1. \A i \in 1..N : f[i] = step[f[i - 1]][i]
    BY <1>4 DEF Follows
  <2>2. \A i \in 1..N : f[i - 1] \in Int
    BY <1>1, <1>5
  <2> QED BY <1>3, <2>1, <2>2
<1>7. f = Loop(f)
  <2>1. \A i \in 0..N : i = 0 \/ i \in 1..N
    BY <1>1
  <2>2. \A i \in 0..N : f[i] = Loop(f)[i]
    BY <1>5, <1>6, <2>1
  <2>3. Loop(f) = [i \in 0..N |-> Loop(f)[i]]
    OBVIOUS
  <2>4. f = [i \in 0..N |-> f[i]]
    BY <1>5
  <2> QED BY <2>2, <2>3, <2>4
<1> DEFINE sum == CHOOSE upTo : upTo = Loop(upTo)
<1>8. Net(S) = sum[N]
  BY DEF Net, Amount, N
<1> HIDE DEF Loop
<1>9. sum = Loop(sum)
  BY <1>7
<1> HIDE DEF sum
<1>10. /\ sum = [i \in 0..N |-> IF i = 0 THEN 0 ELSE sum[i - 1] + Amount(i, S)]
       /\ sum[0] = 0 /\ \A i \in 1..N : sum[i] = sum[i - 1] + Amount(i, S)
  <2>1. sum = [i \in 0..N |-> IF i = 0 THEN 0 ELSE sum[i - 1] + Amount(i, S)]
    BY <1>9 DEF Loop
  <2>2. 0 \in 0..N /\ \A i \in 1..N : i \in 0..N /\ i # 0
    BY <1>1
  <2> QED BY <2>1, <2>2
<1>11. \A i \in 0..N : sum[i] \in Int
  <2> DEFINE Typed == {i \in 0..N : sum[i] \in Int}
  <2>1. 0 \in Typed
    BY <1>1, <1>10
  <2>2. ASSUME NEW i \in 1..N, i - 1 \in Typed PROVE i \in Typed
    <3>1. sum[i - 1] \in Int /\ Amount(i, S) \in Int /\ i \in 0..N
      BY <1>1, <2>2
    <3>2. sum[i] = sum[i - 1] + Amount(i, S)
      BY <1>10
    <3> QED BY <3>1, <3>2
  <2>3. \A i \in 0..N : i \in Typed
    <3> HIDE DEF Typed
    <3> QED BY <1>1, <2>1, <2>2, Induct
  <2> QED BY <2>3
<1>12. sum \in [0..N -> Int]
  BY <1>10, <1>11
<1> QED BY <1>8, <1>10, <1>12 DEF N

\* Taking a transaction out of the sum takes out its amount.
LEMMA NetWithout ==
    ASSUME NEW S, NEW t \in Transaction, t \in S
    PROVE  Net(S) \in Int /\ Net(S \ {t}) = Net(S) - t.amount
<1> DEFINE N == Len(ScanOrder)
<1>1. N \in Nat
  BY ScanOrderAssumption
<1>2. PICK q \in 1..N : ScanOrder[q] = t
  BY ScanOrderAssumption
<1>3. \A i \in 1..N : i # q => ScanOrder[i] # t
  BY <1>2, ScanOrderAssumption
<1>4. t.amount \in Int
  BY ScanOrderAssumption
<1>5. \A i \in 1..N : /\ Amount(i, S) \in Int
                      /\ Amount(i, S \ {t}) = IF i = q THEN 0 ELSE Amount(i, S)
                      /\ i = q => Amount(i, S) = t.amount
  BY <1>2, <1>3, ScanOrderAssumption DEF Amount
<1> HIDE DEF N
<1>6. PICK sum \in [0..N -> Int] :
        /\ sum[0] = 0 /\ \A i \in 1..N : sum[i] = sum[i - 1] + Amount(i, S)
        /\ Net(S) = sum[N]
  BY RunningSums DEF N
<1>7. PICK less \in [0..N -> Int] :
        /\ less[0] = 0 /\ \A i \in 1..N : less[i] = less[i - 1] + Amount(i, S \ {t})
        /\ Net(S \ {t}) = less[N]
  BY RunningSums DEF N
<1> DEFINE Fine == {i \in 0..N : less[i] = sum[i] - (IF q <= i THEN t.amount ELSE 0)}
<1>8. 0 \in Fine
  BY <1>1, <1>2, <1>6, <1>7
<1>9. ASSUME NEW i \in 1..N, i - 1 \in Fine PROVE i \in Fine
  <2>1. i \in 0..N /\ i - 1 \in 0..N /\ q \in Int /\ i \in Int
    BY <1>1
  <2>2. sum[i - 1] \in Int /\ sum[i] = sum[i - 1] + Amount(i, S)
    BY <1>6, <2>1
  <2>3. less[i] = less[i - 1] + Amount(i, S \ {t})
    BY <1>7
  <2>4. less[i - 1] = sum[i - 1] - (IF q <= i - 1 THEN t.amount ELSE 0)
    BY <1>9
  <2>5. CASE i = q
    <3>1. Amount(i, S \ {t}) = 0 /\ Amount(i, S) = t.amount
      BY <1>5, <2>5
    <3>2. ~(q <= i - 1) /\ q <= i
      BY <2>1, <2>5
    <3> QED BY <1>4, <2>1, <2>2, <2>3, <2>4, <3>1, <3>2
  <2>6. CASE i # q
    <3>1. Amount(i, S \ {t}) = Amount(i, S) /\ Amount(i, S) \in Int
      BY <1>5, <2>6
    <3>2. q <= i - 1 <=> q <= i
      BY <2>1, <2>6
    <3> QED BY <1>4, <2>1, <2>2, <2>3, <2>4, <3>1, <3>2
  <2> QED BY <2>5, <2>6
<1>10. \A i \in 0..N : i \in Fine
  <2> HIDE DEF Fine
  <2> QED BY <1>1, <1>8, <1>9, Induct
<1>11. N \in 0..N /\ q <= N
  BY <1>1, <1>2
<1>12. less[N] = sum[N] - t.amount
  BY <1>10, <1>11
<1> QED BY <1>6, <1>7, <1>11, <1>12

\* Leaving out transfers, pair by pair, leaves the net as it is.
LEMMA NetOfPairs ==
    ASSUME NEW S \in SUBSET Transaction, NEW P \in SUBSET Pair,
           \A p \in P : Compatible(p[1], p[2]) /\ {p[1], p[2]} \subseteq S,
           \A p, r \in P : p # r => {p[1], p[2]} \cap {r[1], r[2]} = {}
    PROVE  Net(S \ Legs(P)) = Net(S)
<1> DEFINE N == Len(ScanOrder)
           Before(i) == {p \in P : \E j \in 1..i : p[1] = ScanOrder[j]}
           Fine == {i \in 0..N : Net(S \ Legs(Before(i))) = Net(S)}
<1>1. N \in Nat /\ \A t \in Transaction : \E j \in 1..N : t = ScanOrder[j]
  BY ScanOrderAssumption
<1>2. DOMAIN ScanOrder = 1..N
  BY ScanOrderAssumption
<1>3. 0 \in Fine
  <2>1. Before(0) = {}
    OBVIOUS
  <2>2. Legs({}) = {}
    BY DEF Legs
  <2>3. S \ {} = S /\ 0 \in 0..N
    BY <1>1
  <2>4. Net(S \ Legs(Before(0))) = Net(S)
    <3> HIDE DEF Before
    <3> QED BY <2>1, <2>2, <2>3
  <2> HIDE DEF Before
  <2> QED BY <2>3, <2>4
<1>4. ASSUME NEW i \in 1..N, i - 1 \in Fine PROVE i \in Fine
  <2>1. i \in 0..N
    OBVIOUS
  <2>2. \A j \in 1..i : j = i \/ j \in 1..i - 1
    OBVIOUS
  <2>3. i \in 1..i /\ \A j \in 1..i - 1 : j \in 1..i
    OBVIOUS
  <2>4. CASE ~\E p \in P : p[1] = ScanOrder[i]
    <3>1. Before(i) = Before(i - 1)
      BY <2>2, <2>3, <2>4
    <3> HIDE DEF Before
    <3> QED BY <1>4, <2>1, <3>1
  <2>5. ASSUME NEW p \in P, p[1] = ScanOrder[i] PROVE i \in Fine
    <3>1. \A r \in P : r[1] = ScanOrder[i] => r = p
      BY <2>5
    <3>2. Before(i) = Before(i - 1) \cup {p}
      BY <2>2, <2>3, <2>5, <3>1
    <3>3. \A j \in 1..i - 1 : ScanOrder[j] # ScanOrder[i]
      <4>1. \A j \in 1..i - 1 : j \in 1..N /\ i \in 1..N /\ j < i
        BY <1>1
      <4> QED BY <1>2, <4>1, ScanOrderAssumption
    <3>4. p \notin Before(i - 1)
      BY <2>5, <3>3
    <3>5. Before(i - 1) \subseteq P
      OBVIOUS
    <3> HIDE DEF Before
    <3>6. PICK rest : rest = S \ Legs(Before(i - 1))
      OBVIOUS
    <3>7. p[1] \in Transaction /\ p[2] \in Transaction /\ p[1] # p[2]
      BY TransactionsDated, Symmetric DEF Pair
    <3>8. p[1] \notin Legs(Before(i - 1)) /\ p[2] \notin Legs(Before(i - 1))
      <4>1. \A r \in Before(i - 1) : r # p
        BY <3>4
      <4>2. \A r \in Before(i - 1) : p[1] \notin {r[1], r[2]} /\ p[2] \notin {r[1], r[2]}
        BY <3>5, <4>1
      <4> QED BY <4>2 DEF Legs
    <3>9. p[1] \in rest /\ p[2] \in rest \ {p[1]}
      BY <3>6, <3>7, <3>8
    <3>10. S \ Legs(Before(i)) = (rest \ {p[1]}) \ {p[2]}
      BY <3>2, <3>6 DEF Legs
    <3>11. Net(rest) \in Int /\ Net(rest \ {p[1]}) = Net(rest) - p[1].amount
      BY <3>7, <3>9, NetWithout
    <3>12. Net((rest \ {p[1]}) \ {p[2]}) = Net(rest \ {p[1]}) - p[2].amount
      BY <3>7, <3>9, NetWithout
    <3>13. p[1].amount = -p[2].amount /\ p[1].amount \in Int /\ p[2].amount \in Int
      BY <3>7, ScanOrderAssumption DEF Compatible
    <3>14. Net((rest \ {p[1]}) \ {p[2]}) = Net(rest)
      BY <3>11, <3>12, <3>13
    <3> QED BY <1>4, <2>1, <3>6, <3>10, <3>14
  <2> QED BY <2>4, <2>5
<1>5. \A i \in 0..N : i \in Fine
  <2> HIDE DEF Fine, N
  <2> QED BY <1>1, <1>3, <1>4, Induct
<1>6. Before(N) = P
  <2>1. \A p \in P : p[1] \in Transaction
    BY DEF Pair
  <2> QED BY <1>1, <2>1
<1>7. N \in 0..N
  BY <1>1
<1> HIDE DEF Before, N
<1> QED BY <1>5, <1>6, <1>7

\* However many scans overlap, leaving the confirmed pairs out of the cashflow changes the net
\* only if two of them share a transaction that scans suggested without knowing of each other's
\* pair: else their amounts cancel, and no transaction is left out for two of them (GetCashflowV2).
THEOREM NetIsKept == OverlapSpec => []NetMovesByOverlap
<1>1. OverlapInv => NetMovesByOverlap
  <2> SUFFICES ASSUME OverlapInv,
                      ~\E p, r \in Confirmed : SharesLeg(p, r) /\ p \notin knew[r] /\ r \notin knew[p]
               PROVE  Net(Stored) = Net(Stored \ Legs(Confirmed))
    BY DEF NetMovesByOverlap
  <2>1. Confirmed \subseteq Present /\ Confirmed \in SUBSET Pair /\ Stored \in SUBSET Transaction
    BY DEF Confirmed, Present, Stored
  <2>2. \A p \in Confirmed : Compatible(p[1], p[2]) /\ {p[1], p[2]} \subseteq Stored
    BY <2>1 DEF OverlapInv, PairsInv, PairsAreTransfers
  <2>3. \A p, r \in Confirmed : p # r => {p[1], p[2]} \cap {r[1], r[2]} = {}
    BY <2>1 DEF OverlapInv, SharedOnlyUnknown, SharesLeg, Both
  <2> QED BY <2>1, <2>2, <2>3, NetOfPairs
<1> QED BY OverlapInvariance, <1>1, PTL

-----------------------------------------------------------------------------
(* Which pairs the detection finds, for any list of transactions.          *)

Entry == ScanTx(Nat, Account, Days, Amounts)

\* The list has its transactions' numbers as ids.
ListOk ==
    /\ given \in Seq(Entry) /\ \A i \in 1..Len(given) : given[i].id = i
    /\ paired \in SUBSET Entry

\* What the list holds.
LEMMA EntryTyped == \A t \in Entry : t.id \in Nat /\ t.day \in Int /\ t.amount \in Int
BY ListAssumption DEF Entry, ScanTx

\* Every list has its numbers as ids.
LEMMA ListTyped == ListSpec => []ListOk
<1>1. ListInit => ListOk
  BY DEF ListInit, ListOk
<1>2. ListOk /\ [ListNext]_lists => ListOk'
  <2> SUFFICES ASSUME ListOk, [ListNext]_lists PROVE ListOk'
    OBVIOUS
  <2>1. CASE ListNext
    <3> DEFINE N == Len(given)
    <3>1. N \in Nat /\ given \in Seq(Entry) /\ \A i \in 1..N : given[i].id = i
      BY DEF ListOk
    <3>2. PICK t \in ScanTx({N + 1}, Account, Days, Amounts) :
            given' = Append(given, t) /\ paired' \in IF given = <<>> THEN {{}, {t}} ELSE {paired}
      BY <2>1 DEF ListNext
    <3>3. t \in Entry /\ t.id = N + 1
      BY <3>1, <3>2 DEF Entry, ScanTx
    <3>4. /\ given' \in Seq(Entry) /\ Len(given') = N + 1 /\ given'[N + 1] = t
          /\ \A i \in 1..N : given'[i] = given[i]
      BY <3>1, <3>2, <3>3
    <3>5. \A i \in 1..N + 1 : i = N + 1 \/ i \in 1..N
      BY <3>1
    <3>6. \A i \in 1..Len(given') : given'[i].id = i
      BY <3>1, <3>3, <3>4, <3>5
    <3>7. paired' \in SUBSET Entry
      BY <3>2, <3>3 DEF ListOk
    <3> QED BY <3>4, <3>6, <3>7 DEF ListOk, Entry
  <2>2. CASE UNCHANGED lists
    BY <2>2 DEF ListOk, lists, Entry
  <2> QED BY <2>1, <2>2
<1> QED BY <1>1, <1>2, PTL DEF ListSpec

\* The best partner is the only one that precedes all.
LEMMA BestPrecedes ==
    ASSUME ListOk, NEW i \in 1..Len(given), NEW used, Partners(given, i, used) # {}
    PROVE  {j \in Partners(given, i, used) : \A k \in Partners(given, i, used) : Precedes(i, j, k)}
              = {BestPartner(given, i, used)}
<1> DEFINE P == Partners(given, i, used)
           exact == {j \in P : Exact(given[i], given[j])}
           top == IF exact # {} THEN exact ELSE P
           b == BestPartner(given, i, used)
<1>1. P \subseteq Nat
  BY DEF Partners, ListOk
<1>2. top # {} /\ top \subseteq P
  OBVIOUS
<1>3. b = CHOOSE j \in top : \A k \in top : j <= k
  BY DEF BestPartner
<1> HIDE DEF P
<1>4. \E j \in top : \A k \in top : j <= k
  <2>1. top \in SUBSET Nat
    BY <1>1, <1>2
  <2> HIDE DEF top
  <2> QED BY <1>2, <2>1, LeastNat
<1>5. b \in top /\ \A k \in top : b <= k
  <2> HIDE DEF top, b
  <2> QED BY <1>3, <1>4
<1>6. PICK c : c = b
  OBVIOUS
<1>7. c \in P /\ c \in Nat /\ \A k \in top : c <= k
  <2> HIDE DEF top, b
  <2> QED BY <1>1, <1>2, <1>5, <1>6
<1>8. exact # {} => c \in exact
  <2> HIDE DEF b
  <2> QED BY <1>5, <1>6
<1> HIDE DEF b
<1>9. ASSUME NEW k \in P PROVE Precedes(i, c, k)
  <2>1. Exact(given[i], given[k]) => Exact(given[i], given[c])
    BY <1>8
  <2>2. Exact(given[i], given[k]) = Exact(given[i], given[c]) => k \in top
    BY <1>8
  <2> QED BY <1>7, <2>1, <2>2 DEF Precedes, Exact
<1>10. ASSUME NEW j \in P, \A k \in P : Precedes(i, j, k) PROVE j = c
  <2>1. Precedes(i, j, c) /\ Precedes(i, c, j)
    BY <1>7, <1>9, <1>10
  <2>2. j \in Nat /\ c \in Nat
    BY <1>1, <1>7
  <2> QED BY <2>1, <2>2 DEF Precedes, Exact
<1> QED BY <1>6, <1>7, <1>9, <1>10 DEF P, b

\* The pairs found in the first i turns are opened by the first i transactions.
Opened(pairs, i) ==
    \A n \in DOMAIN pairs : \E o \in 1..i : \E b \in o + 1..Len(given) :
        /\ Opener(pairs[n]) = o /\ {pairs[n][1], pairs[n][2]} = {given[o], given[b]}

TakenIs(pairs, i, t) ==
    t \in paired \/ \E n \in DOMAIN pairs : Opener(pairs[n]) < i /\ (t = pairs[n][1] \/ t = pairs[n][2])

\* What is taken, element by element.
LEMMA TakenMembers ==
    ASSUME NEW pairs, NEW i, NEW t
    PROVE  t \in TakenBefore(pairs, i) <=> TakenIs(pairs, i, t)
BY DEF TakenBefore, TakenIs

\* The pair of two transactions is opened by the earlier one.
LEMMA OpenerOf ==
    ASSUME ListOk, NEW i \in 1..Len(given), NEW b \in i + 1..Len(given)
    PROVE  LET p == OrderLegs(given[i], given[b])
           IN  Opener(p) = i /\ {p[1], p[2]} = {given[i], given[b]}
<1>1. i \in Nat /\ b \in 1..Len(given) /\ b > i /\ b \in Nat
  BY DEF ListOk
<1>2. given[i].id = i /\ given[b].id = b
  BY <1>1 DEF ListOk
<1>3. CASE given[i].amount < 0
  <2>1. PICK p : p = <<given[i], given[b]>>
    OBVIOUS
  <2>2. p[1] = given[i] /\ p[2] = given[b]
    BY <2>1
  <2>3. Opener(p) = i
    BY <1>1, <1>2, <2>2 DEF Opener
  <2> QED BY <1>3, <2>1, <2>2, <2>3 DEF OrderLegs
<1>4. CASE ~(given[i].amount < 0)
  <2>1. PICK p : p = <<given[b], given[i]>>
    OBVIOUS
  <2>2. p[1] = given[b] /\ p[2] = given[i]
    BY <2>1
  <2>3. Opener(p) = i
    BY <1>1, <1>2, <2>2 DEF Opener
  <2> QED BY <1>4, <2>1, <2>2, <2>3 DEF OrderLegs
<1> QED BY <1>3, <1>4

\* Transactions of the list are told apart by their numbers.
LEMMA SamePair ==
    ASSUME ListOk, NEW i \in 1..Len(given), NEW j \in i + 1..Len(given),
           NEW o \in 1..Len(given), NEW b \in o + 1..Len(given),
           {given[o], given[b]} = {given[i], given[j]}
    PROVE  o = i /\ b = j
<1>1. i \in Nat /\ o \in Nat /\ j \in 1..Len(given) /\ b \in 1..Len(given) /\ j > i /\ b > o
  BY DEF ListOk
<1>2. given[i].id = i /\ given[j].id = j /\ given[o].id = o /\ given[b].id = b
  BY <1>1 DEF ListOk
<1>3. given[o] = given[i] \/ given[o] = given[j]
  OBVIOUS
<1>4. given[b] = given[i] \/ given[b] = given[j]
  OBVIOUS
<1> QED BY <1>1, <1>2, <1>3, <1>4

Found(acc, i) ==
    /\ \A t : t \in acc.used <=> TakenIs(acc.pairs, i + 1, t)
    /\ Opened(acc.pairs, i) /\ Greedy(acc.pairs, i)

\* One more pair, opened by i and closed by b.
OneMore(longer, pairs, l, i, b) ==
    /\ DOMAIN longer = DOMAIN pairs \cup {l} /\ l \notin DOMAIN pairs
    /\ \A n \in DOMAIN pairs : longer[n] = pairs[n]
    /\ Opener(longer[l]) = i /\ {longer[l][1], longer[l][2]} = {given[i], given[b]}

\* A pair that number i opens changes nothing for the earlier ones.
LEMMA EarlierKeep ==
    ASSUME ListOk, NEW i \in 1..Len(given), NEW b \in i + 1..Len(given), NEW pairs, NEW longer, NEW l,
           OneMore(longer, pairs, l, i, b), Greedy(pairs, i - 1)
    PROVE  /\ Greedy(longer, i - 1)
           /\ TakenBefore(longer, i) = TakenBefore(pairs, i)
<1> USE DEF OneMore
<1>1. i \in Nat
  BY DEF ListOk
<1>2. ASSUME NEW o \in 1..i PROVE TakenBefore(longer, o) = TakenBefore(pairs, o)
  <2>1. ~(i < o)
    BY <1>1
  <2>2. \A t : TakenIs(longer, o, t) <=> TakenIs(pairs, o, t)
    BY <2>1 DEF TakenIs
  <2>3. \A t : t \in TakenBefore(longer, o) <=> t \in TakenBefore(pairs, o)
    BY <2>2, TakenMembers
  <2> QED BY <2>3
<1>3. ASSUME NEW o \in 1..i - 1 PROVE PairedWith(longer, o) = PairedWith(pairs, o)
  <2>1. o \in 1..Len(given) /\ o # i
    BY <1>1
  <2>2. ASSUME NEW j \in o + 1..Len(given) PROVE {longer[l][1], longer[l][2]} # {given[o], given[j]}
    BY <2>1, SamePair
  <2>3. ASSUME NEW j \in o + 1..Len(given)
        PROVE  (\E n \in DOMAIN longer : {longer[n][1], longer[n][2]} = {given[o], given[j]})
                <=> \E n \in DOMAIN pairs : {pairs[n][1], pairs[n][2]} = {given[o], given[j]}
    <3>1. ASSUME NEW n \in DOMAIN longer, {longer[n][1], longer[n][2]} = {given[o], given[j]}
          PROVE  \E m \in DOMAIN pairs : {pairs[m][1], pairs[m][2]} = {given[o], given[j]}
      <4>1. n # l
        BY <2>2, <3>1
      <4>2. n \in DOMAIN pairs /\ longer[n] = pairs[n]
        BY <4>1
      <4> QED BY <3>1, <4>2
    <3>2. ASSUME NEW n \in DOMAIN pairs, {pairs[n][1], pairs[n][2]} = {given[o], given[j]}
          PROVE  \E m \in DOMAIN longer : {longer[m][1], longer[m][2]} = {given[o], given[j]}
      <4>1. n \in DOMAIN longer /\ longer[n] = pairs[n]
        OBVIOUS
      <4> QED BY <3>2, <4>1
    <3> QED BY <3>1, <3>2
  <2> QED BY <2>3 DEF PairedWith
<1>4. ASSUME NEW o \in 1..i - 1
      PROVE  PairedWith(longer, o) = IF given[o] \in TakenBefore(longer, o) THEN {}
                ELSE {j \in Open(longer, o) : \A k \in Open(longer, o) : Precedes(o, j, k)}
  <2>1. o \in 1..i
    BY <1>1
  <2>2. TakenBefore(longer, o) = TakenBefore(pairs, o)
    BY <1>2, <2>1
  <2>3. Open(longer, o) = Open(pairs, o)
    BY <2>2 DEF Open
  <2>4. PairedWith(longer, o) = PairedWith(pairs, o)
    BY <1>3
  <2> QED BY <2>2, <2>3, <2>4 DEF Greedy
<1>5. i \in 1..i
  BY <1>1
<1> QED BY <1>2, <1>4, <1>5 DEF Greedy

\* A turn pairs its own transaction with the best partner and no other one.
LEMMA GreedyTurn ==
    ASSUME ListOk, NEW i \in 1..Len(given), NEW acc \in Carried(Entry), Found(acc, i - 1)
    PROVE  Found(Consider(given, acc, i), i)
<1>1. i \in Nat /\ i - 1 + 1 = i /\ given \in Seq(Entry)
  BY DEF ListOk
<1>2. acc.used \in SUBSET Entry /\ acc.pairs \in Seq(Entry \X Entry)
  BY DEF Carried
<1>3. Opened(acc.pairs, i - 1) /\ Greedy(acc.pairs, i - 1)
  BY DEF Found
<1>4. \A t : t \in acc.used <=> TakenIs(acc.pairs, i, t)
  BY <1>1 DEF Found
<1>5. acc.used = TakenBefore(acc.pairs, i)
  <2>1. \A t : t \in acc.used <=> t \in TakenBefore(acc.pairs, i)
    BY <1>4, TakenMembers
  <2> QED BY <2>1
<1>6. Open(acc.pairs, i) = Partners(given, i, acc.used)
  BY <1>5 DEF Open, Partners
<1>7. \A n \in DOMAIN acc.pairs : Opener(acc.pairs[n]) < i
  <2>1. \A o \in 1..i - 1 : o < i
    BY <1>1
  <2> QED BY <1>3, <2>1 DEF Opened
<1>8. PairedWith(acc.pairs, i) = {}
  <2>1. ASSUME NEW j \in i + 1..Len(given), NEW n \in DOMAIN acc.pairs,
               {acc.pairs[n][1], acc.pairs[n][2]} = {given[i], given[j]}
        PROVE  FALSE
    <3>1. PICK o \in 1..i - 1 : \E b \in o + 1..Len(given) :
            {acc.pairs[n][1], acc.pairs[n][2]} = {given[o], given[b]}
      BY <1>3 DEF Opened
    <3>2. PICK b \in o + 1..Len(given) : {given[o], given[b]} = {given[i], given[j]}
      BY <2>1, <3>1
    <3>3. o \in 1..Len(given) /\ o # i
      BY <1>1
    <3> QED BY <3>2, <3>3, SamePair
  <2> QED BY <2>1 DEF PairedWith
<1>9. \A o \in 1..i : o = i \/ o \in 1..i - 1
  BY <1>1
<1>10. CASE given[i] \in acc.used \/ Partners(given, i, acc.used) = {}
  <2>1. Consider(given, acc, i) = acc
    BY <1>10 DEF Consider
  <2>2. \A t : TakenIs(acc.pairs, i + 1, t) <=> TakenIs(acc.pairs, i, t)
    <3>1. \A n \in DOMAIN acc.pairs : Opener(acc.pairs[n]) < i + 1
      <4>1. \A o \in 1..i - 1 : o < i + 1
        BY <1>1
      <4> QED BY <1>3, <4>1 DEF Opened
    <3> QED BY <1>7, <3>1 DEF TakenIs
  <2>3. Opened(acc.pairs, i)
    <3>1. 1..i - 1 \subseteq 1..i
      BY <1>1
    <3> QED BY <1>3, <3>1 DEF Opened
  <2>4. Greedy(acc.pairs, i)
    BY <1>3, <1>5, <1>6, <1>8, <1>9, <1>10 DEF Greedy
  <2> QED BY <1>4, <2>1, <2>2, <2>3, <2>4 DEF Found
<1>11. CASE given[i] \notin acc.used /\ Partners(given, i, acc.used) # {}
  <2>1. PICK b : b = BestPartner(given, i, acc.used)
    OBVIOUS
  <2>2. b \in Partners(given, i, acc.used)
    BY <1>1, <1>11, <2>1, BestIsPartner
  <2>3. b \in i + 1..Len(given) /\ b \in 1..Len(given) /\ given[b] \in Entry /\ given[i] \in Entry
    <3>1. b \in i + 1..Len(given)
      BY <2>2 DEF Partners
    <3>2. b \in 1..Len(given)
      BY <1>1, <3>1
    <3> QED BY <1>1, <3>1, <3>2
  <2>4. PICK p : p = OrderLegs(given[i], given[b])
    OBVIOUS
  <2>5. Opener(p) = i /\ {p[1], p[2]} = {given[i], given[b]}
    BY <2>3, <2>4, OpenerOf
  <2>6. p \in Entry \X Entry
    BY <2>3, <2>4 DEF OrderLegs
  <2>7. PICK new : new = Consider(given, acc, i)
    OBVIOUS
  <2>8. new.used = acc.used \cup {given[i], given[b]} /\ new.pairs = Append(acc.pairs, p)
    BY <1>11, <2>1, <2>4, <2>7 DEF Consider
  <2>9. PICK longer, l : longer = new.pairs /\ l = Len(acc.pairs) + 1
    OBVIOUS
  <2>10. /\ DOMAIN longer = DOMAIN acc.pairs \cup {l} /\ l \notin DOMAIN acc.pairs /\ longer[l] = p
         /\ \A n \in DOMAIN acc.pairs : longer[n] = acc.pairs[n]
    BY <1>2, <2>6, <2>8, <2>9
  <2>11. Greedy(longer, i - 1) /\ TakenBefore(longer, i) = acc.used
    <3>1. Opener(longer[l]) = i /\ {longer[l][1], longer[l][2]} = {given[i], given[b]}
      BY <2>5, <2>10
    <3>2. PICK pairs : pairs = acc.pairs
      OBVIOUS
    <3>3. OneMore(longer, pairs, l, i, b) /\ Greedy(pairs, i - 1)
      BY <1>3, <2>10, <3>1, <3>2 DEF OneMore
    <3>4. Greedy(longer, i - 1) /\ TakenBefore(longer, i) = TakenBefore(pairs, i)
      BY <2>3, <3>3, EarlierKeep
    <3> QED BY <1>5, <3>2, <3>4
  <2>12. ASSUME NEW t PROVE t \in new.used <=> TakenIs(longer, i + 1, t)
    <3>1. t \in new.used <=> t \in acc.used \/ t = p[1] \/ t = p[2]
      BY <2>5, <2>8
    <3>2. \A n \in DOMAIN longer : Opener(longer[n]) < i + 1
      <4>1. \A o \in 1..i - 1 : o < i + 1
        BY <1>1
      <4>2. \A n \in DOMAIN acc.pairs : Opener(acc.pairs[n]) < i + 1
        BY <1>3, <4>1 DEF Opened
      <4>3. i < i + 1
        BY <1>1
      <4> QED BY <2>5, <2>10, <4>2, <4>3
    <3>3. TakenIs(longer, i + 1, t) <=> TakenIs(acc.pairs, i, t) \/ t = p[1] \/ t = p[2]
      BY <1>7, <2>10, <3>2 DEF TakenIs
    <3> QED BY <1>4, <3>1, <3>3
  <2>13. Opened(longer, i)
    <3>1. ASSUME NEW n \in DOMAIN longer
          PROVE  \E o \in 1..i : \E c \in o + 1..Len(given) :
                    Opener(longer[n]) = o /\ {longer[n][1], longer[n][2]} = {given[o], given[c]}
      <4>1. CASE n = l
        <5>1. i \in 1..i
          BY <1>1
        <5> QED BY <2>3, <2>5, <2>10, <4>1, <5>1
      <4>2. CASE n \in DOMAIN acc.pairs
        <5>1. longer[n] = acc.pairs[n]
          BY <2>10, <4>2
        <5>2. PICK m, q : m \in DOMAIN acc.pairs /\ m = n /\ q = acc.pairs[n]
          BY <4>2
        <5>3. PICK o \in 1..i - 1 : \E c \in o + 1..Len(given) :
                Opener(q) = o /\ {q[1], q[2]} = {given[o], given[c]}
          BY <1>3, <5>2 DEF Opened
        <5>4. o \in 1..i
          BY <1>1
        <5>5. q = longer[n]
          BY <5>1, <5>2
        <5> QED BY <5>3, <5>4, <5>5
      <4> QED BY <2>10, <4>1, <4>2
    <3> QED BY <3>1 DEF Opened
  <2>14. PairedWith(longer, i) = {b}
    <3>1. ASSUME NEW j \in i + 1..Len(given)
          PROVE  (\E n \in DOMAIN longer : {longer[n][1], longer[n][2]} = {given[i], given[j]}) <=> j = b
      <4>1. ASSUME NEW n \in DOMAIN longer, {longer[n][1], longer[n][2]} = {given[i], given[j]}
            PROVE  j = b
        <5>1. CASE n = l
          <6>1. {given[i], given[b]} = {given[i], given[j]}
            BY <2>5, <2>10, <4>1, <5>1
          <6> QED BY <2>3, <6>1, SamePair
        <5>2. CASE n \in DOMAIN acc.pairs
          BY <1>8, <2>10, <4>1, <5>2 DEF PairedWith
        <5> QED BY <2>10, <5>1, <5>2
      <4>2. ASSUME j = b PROVE \E n \in DOMAIN longer : {longer[n][1], longer[n][2]} = {given[i], given[j]}
        BY <2>5, <2>10, <4>2
      <4> QED BY <4>1, <4>2
    <3> QED BY <2>3, <3>1 DEF PairedWith
  <2>15. Open(longer, i) = Partners(given, i, acc.used)
    BY <2>11 DEF Open, Partners
  <2>16. {j \in Open(longer, i) : \A k \in Open(longer, i) : Precedes(i, j, k)} = {b}
    <3>1. {j \in Partners(given, i, acc.used) : \A k \in Partners(given, i, acc.used) : Precedes(i, j, k)} = {b}
      BY <1>11, <2>1, BestPrecedes
    <3> QED BY <2>15, <3>1
  <2>17. Greedy(longer, i)
    BY <1>9, <1>11, <2>11, <2>14, <2>16 DEF Greedy
  <2> QED BY <2>7, <2>9, <2>12, <2>13, <2>17 DEF Found
<1> QED BY <1>10, <1>11

\* Transfers are found greedily, in the order of the list.
THEOREM TransfersAreGreedy == ListSpec => []GreedyInListOrder
<1>1. ListOk => GreedyInListOrder
  <2> SUFFICES ASSUME ListOk PROVE GreedyInListOrder
    OBVIOUS
  <2>1. PICK N, turn : N \in Nat /\ N = Len(given) /\ turn = Turns(given, paired)
    BY DEF ListOk
  <2>2. Dated(Entry) /\ given \in Seq(Entry) /\ paired \in SUBSET Entry
    BY EntryTyped DEF ListOk, Dated
  <2>3. /\ turn \in [0..N -> Carried(Entry)]
        /\ turn[0] = [used |-> paired, pairs |-> <<>>]
        /\ \A i \in 1..N : turn[i] = Consider(given, turn[i - 1], i)
    BY <2>1, <2>2, TurnsTaken
  <2> DEFINE Fine == {i \in 0..N : Found(turn[i], i)}
  <2>4. 0 \in Fine
    <3>1. turn[0].used = paired /\ turn[0].pairs = <<>>
      BY <2>3
    <3>2. \A t : t \in paired <=> TakenIs(<<>>, 0 + 1, t)
      BY DEF TakenIs
    <3>3. Opened(<<>>, 0) /\ Greedy(<<>>, 0)
      BY DEF Opened, Greedy
    <3> QED BY <2>1, <3>1, <3>2, <3>3 DEF Found
  <2>5. ASSUME NEW i \in 1..N, i - 1 \in Fine PROVE i \in Fine
    <3>1. i \in 1..Len(given) /\ i \in 0..N /\ i - 1 \in 0..N
      BY <2>1
    <3>2. PICK acc \in Carried(Entry) : acc = turn[i - 1]
      BY <2>3, <3>1
    <3>3. Found(acc, i - 1)
      BY <2>5, <3>2
    <3>4. Found(Consider(given, acc, i), i)
      BY <3>1, <3>2, <3>3, GreedyTurn
    <3> QED BY <2>3, <3>1, <3>2, <3>4
  <2>6. \A i \in 0..N : i \in Fine
    <3> HIDE DEF Fine
    <3> QED BY <2>1, <2>4, <2>5, Induct
  <2>7. Found(turn[N], N)
    BY <2>1, <2>6
  <2> QED BY <2>1, <2>7 DEF Found, GreedyInListOrder, DetectTransferCandidates
<1> QED BY <1>1, ListTyped, PTL
=============================================================================
