--------------------------- MODULE RecurringProofs ---------------------------
(***************************************************************************)
(* What the recurring service keeps, for any households, payments,         *)
(* intervals and number of scanners, and what its detection finds in any   *)
(* history of payments.                                                    *)
(*                                                                         *)
(* Verdicts stand and bookings stay in their series whatever the detection *)
(* finds: an insert leaves a known series as it is, a member is only       *)
(* added, and only the cascade of a rollback takes members away, those it  *)
(* deletes.  That a series has members of its own household and group      *)
(* needs that the detection returns such series: it is a nest of loops,    *)
(* and what they return is shown by induction on their turns.  The same    *)
(* inductions, over chains of payment numbers, show that a series found is *)
(* regular and complete, and the first of the longest.                     *)
(***************************************************************************)
EXTENDS Recurring, PaymentHistory, FiniteSetTheorems, WellFoundedInduction, TLAPS

\* A set of numbers that is not empty has a least one.
LEMMA LeastNat ==
    ASSUME NEW S \in SUBSET Nat, S # {}
    PROVE  \E n \in S : \A m \in S : n <= m
<1>1. PICK n \in S : \A m \in S : ~(<<m, n>> \in OpToRel(<, Nat))
  BY NatLessThanWellFounded, WFMin
<1>2. \A m \in S : ~(m < n)
  BY <1>1 DEF OpToRel
<1> QED BY <1>2

\* A function from 0..N to S that starts with b and takes each value from the one before.
Steps(N, S) == [S -> [1..N -> S]]
Follows(f, N, S, b, step) ==
    f \in [0..N -> S] /\ f[0] = b /\ \A i \in 1..N : f[i] = step[f[i - 1]][i]

\* There is such a function: recursion defines something.
LEMMA Recursion ==
    ASSUME NEW N \in Nat, NEW S, NEW b \in S, NEW step \in Steps(N, S)
    PROVE  \E f : Follows(f, N, S, b, step)
<1> USE DEF Steps
<1> DEFINE Defined(n) == \E f \in [0..n -> S] :
                           f[0] = b /\ \A i \in 1..n : f[i] = step[f[i - 1]][i]
           Failing == {n \in 0..N : ~Defined(n)}
<1>1. Defined(0)
  <2> DEFINE f == [i \in 0..0 |-> b]
  <2>1. f \in [0..0 -> S] /\ f[0] = b
    OBVIOUS
  <2>2. \A i \in 1..0 : f[i] = step[f[i - 1]][i]
    OBVIOUS
  <2> HIDE DEF f
  <2> QED BY <2>1, <2>2
<1>2. ASSUME NEW n \in 1..N, Defined(n - 1) PROVE Defined(n)
  <2>1. PICK f \in [0..n - 1 -> S] :
          f[0] = b /\ \A i \in 1..n - 1 : f[i] = step[f[i - 1]][i]
    BY <1>2
  <2> HIDE DEF Defined
  <2>2. n \in Nat /\ n # 0 /\ f \in [0..n - 1 -> S]
    BY <2>1
  <2> DEFINE g == [i \in 0..n |-> IF i = n THEN step[f[n - 1]][n] ELSE f[i]]
  <2>3. f[n - 1] \in S
    BY <2>2
  <2>4. step[f[n - 1]][n] \in S
    BY <2>3
  <2>5. g \in [0..n -> S]
    BY <2>2, <2>4
  <2>6. g[0] = b
    BY <2>1, <2>2
  <2>7. ASSUME NEW i \in 1..n PROVE g[i] = step[g[i - 1]][i]
    <3>1. CASE i = n
      <4>1. i \in 0..n /\ i - 1 \in 0..n /\ i - 1 # n
        BY <3>1, <2>2
      <4>2. g[i] = step[f[n - 1]][n] /\ g[i - 1] = f[i - 1]
        BY <3>1, <4>1
      <4> HIDE DEF g
      <4> QED BY <3>1, <4>2
    <3>2. CASE i # n
      <4>1. i \in 1..n - 1 /\ i - 1 \in 0..n /\ i - 1 # n /\ i \in 0..n
        BY <3>2, <2>2
      <4>2. g[i] = f[i] /\ g[i - 1] = f[i - 1]
        BY <3>2, <4>1
      <4> HIDE DEF g
      <4> QED BY <4>1, <4>2, <2>1
    <3> QED BY <3>1, <3>2
  <2> HIDE DEF g
  <2> QED BY <2>5, <2>6, <2>7 DEF Defined
<1> HIDE DEF Defined
<1>3. Failing = {}
  <2> SUFFICES ASSUME Failing # {} PROVE FALSE
    OBVIOUS
  <2>1. Failing \in SUBSET Nat
    OBVIOUS
  <2>2. PICK n \in Failing : \A m \in Failing : n <= m
    <3> HIDE DEF Failing
    <3> QED BY <2>1, LeastNat
  <2>3. n \in 0..N /\ ~Defined(n)
    OBVIOUS
  <2>4. n \in 1..N
    BY <1>1, <2>3
  <2>5. n - 1 \in 0..N /\ ~(n <= n - 1)
    BY <2>4
  <2>6. Defined(n - 1)
    BY <2>2, <2>5
  <2> QED BY <1>2, <2>3, <2>4, <2>6
<1>4. Defined(N)
  <2>1. N \in 0..N
    OBVIOUS
  <2> QED BY <1>3, <2>1
<1> QED BY <1>4 DEF Defined, Follows

\* What holds of 0 and of each number after one it holds of, holds up to N.
LEMMA Induct ==
    ASSUME NEW N \in Nat, NEW S, 0 \in S, \A i \in 1..N : i - 1 \in S => i \in S
    PROVE  \A i \in 0..N : i \in S
<1> DEFINE Failing == {n \in 0..N : n \notin S}
<1>1. SUFFICES ASSUME Failing # {} PROVE FALSE
  OBVIOUS
<1>2. Failing \in SUBSET Nat
  OBVIOUS
<1>3. PICK n \in Failing : \A m \in Failing : n <= m
  <2> HIDE DEF Failing
  <2> QED BY <1>1, <1>2, LeastNat
<1>4. n \in 0..N /\ n \notin S /\ n # 0
  OBVIOUS
<1>5. n \in 1..N /\ n - 1 \in 0..N /\ ~(n <= n - 1)
  BY <1>4
<1>6. n - 1 \in S
  BY <1>3, <1>5
<1> QED BY <1>4, <1>5, <1>6

-----------------------------------------------------------------------------
(* What the detection returns.                                             *)

\* Every part of a set has a first member by an order.
HasFirsts(S, R) == \A T \in SUBSET S : T # {} => \E s \in T : \A t \in T : <<s, t>> \in R

\* The list of a finite set with that property has its members, each once and in that
\* order.
LEMMA ListedMembers ==
    ASSUME NEW S, IsFiniteSet(S), NEW R, HasFirsts(S, R)
    PROVE  \E list \in Seq(S) :
              /\ list = Listed(S, R) /\ Len(list) = Cardinality(S)
              /\ \A s \in S : \E k \in 1..Len(list) : list[k] = s
              /\ \A k, l \in 1..Len(list) : k < l => <<list[k], list[l]>> \in R /\ list[k] # list[l]
<1> DEFINE N == Cardinality(S)
           Acc == [left : SUBSET S, list : Seq(S)]
           First(T) == CHOOSE s \in T : \A t \in T : <<s, t>> \in R
           Take(acc) == [left |-> acc.left \ {First(acc.left)}, list |-> Append(acc.list, First(acc.left))]
           start == [left |-> S, list |-> <<>>]
           step == [acc \in Acc |-> [i \in 1..N |-> IF acc.left = {} THEN acc ELSE Take(acc)]]
           Loop(f) == [i \in 0..N |-> IF i = 0 THEN start ELSE Take(f[i - 1])]
<1>1. N \in Nat
  BY FS_CardinalityType
<1>2. \A T \in SUBSET S : T # {} => First(T) \in T /\ \A t \in T : <<First(T), t>> \in R
  BY DEF HasFirsts
<1> HIDE DEF First, N
<1>3. ASSUME NEW acc \in Acc, acc.left # {}
      PROVE  /\ Take(acc) \in Acc /\ First(acc.left) \in acc.left
             /\ \A t \in acc.left : <<First(acc.left), t>> \in R
             /\ acc.list \in Seq(S) /\ Take(acc).list \in Seq(S)
             /\ Take(acc).left = acc.left \ {First(acc.left)}
             /\ Len(Take(acc).list) = Len(acc.list) + 1
             /\ Take(acc).list[Len(acc.list) + 1] = First(acc.left)
             /\ \A k \in 1..Len(acc.list) : Take(acc).list[k] = acc.list[k]
  <2>1. acc.left \in SUBSET S /\ acc.list \in Seq(S)
    OBVIOUS
  <2>2. First(acc.left) \in acc.left /\ First(acc.left) \in S
    BY <1>2, <1>3, <2>1
  <2>3. Append(acc.list, First(acc.left)) \in Seq(S)
    BY <2>1, <2>2
  <2>4. /\ Len(Append(acc.list, First(acc.left))) = Len(acc.list) + 1
        /\ Append(acc.list, First(acc.left))[Len(acc.list) + 1] = First(acc.left)
        /\ \A k \in 1..Len(acc.list) : Append(acc.list, First(acc.left))[k] = acc.list[k]
    BY <2>1
  <2>5. \A t \in acc.left : <<First(acc.left), t>> \in R
    BY <1>2, <1>3, <2>1
  <2> QED BY <2>1, <2>2, <2>3, <2>4, <2>5
<1>4. start \in Acc
  OBVIOUS
<1> HIDE DEF Take
<1>5. step \in Steps(N, Acc)
  BY <1>3 DEF Steps
<1>6. \A acc \in Acc, i \in 1..N : acc.left # {} => step[acc][i] = Take(acc)
  OBVIOUS
<1>7. start.left = S /\ start.list = <<>>
  OBVIOUS
<1> HIDE DEF step, start, Acc
<1>8. PICK f : Follows(f, N, Acc, start, step)
  BY <1>1, <1>4, <1>5, Recursion
<1>9. f \in [0..N -> Acc] /\ f[0] = start
  BY <1>8 DEF Follows
<1> DEFINE Spread(left, list, i) ==
             /\ \A s \in S : s \in left \/ \E k \in 1..i : list[k] = s
             /\ \A k \in 1..i, t \in left : <<list[k], t>> \in R /\ list[k] # t
             /\ \A k, l \in 1..i : k < l => <<list[k], list[l]>> \in R /\ list[k] # list[l]
           Fine == {i \in 0..N : /\ IsFiniteSet(f[i].left) /\ Cardinality(f[i].left) = N - i
                                 /\ Len(f[i].list) = i
                                 /\ i # 0 => f[i] = Take(f[i - 1])
                                 /\ Spread(f[i].left, f[i].list, i)}
<1>10. 0 \in Fine
  <2>1. Spread(f[0].left, f[0].list, 0)
    BY <1>7, <1>9
  <2> HIDE DEF Spread
  <2> QED BY <1>1, <1>7, <1>9, <2>1 DEF N
<1>11. ASSUME NEW i \in 1..N, i - 1 \in Fine PROVE i \in Fine
  <2>1. i \in 0..N /\ i - 1 \in 0..N /\ N - (i - 1) # 0
    BY <1>1
  <2>2. PICK acc \in Acc : acc = f[i - 1]
    BY <1>9, <2>1
  <2>3. IsFiniteSet(acc.left) /\ Cardinality(acc.left) = N - (i - 1) /\ Len(acc.list) = i - 1
    BY <1>11, <2>2
  <2>4. acc.left # {}
    BY <2>1, <2>3, FS_EmptySet
  <2>5. f[i] = Take(acc)
    <3>1. f[i] = step[f[i - 1]][i]
      BY <1>8 DEF Follows
    <3> QED BY <1>6, <2>2, <2>4, <3>1
  <2>6. First(acc.left) \in acc.left /\ Len(Take(acc).list) = Len(acc.list) + 1
    BY <1>3, <2>4
  <2>7. f[i].left = acc.left \ {First(acc.left)}
    BY <2>5 DEF Take
  <2>8. IsFiniteSet(f[i].left) /\ Cardinality(f[i].left) = Cardinality(acc.left) - 1
    <3>1. PICK left, s : left = acc.left /\ s = First(acc.left)
      OBVIOUS
    <3>2. IsFiniteSet(left \ {s}) /\ Cardinality(left \ {s}) = Cardinality(left) - 1
      BY <2>3, <2>6, <3>1, FS_RemoveElement
    <3> QED BY <2>7, <3>1, <3>2
  <2>9. Cardinality(f[i].left) = N - i /\ Len(f[i].list) = i
    BY <1>1, <2>3, <2>5, <2>6, <2>8
  <2>10. Spread(f[i].left, f[i].list, i)
    <3>1. PICK x, left, list, longer :
            x = First(acc.left) /\ left = acc.left /\ list = acc.list /\ longer = Take(acc).list
      OBVIOUS
    <3>2. x \in left /\ \A t \in left : <<x, t>> \in R
      BY <1>3, <2>4, <3>1
    <3>3. longer[i] = x /\ \A k \in 1..i - 1 : longer[k] = list[k]
      BY <1>1, <1>3, <2>3, <2>4, <3>1
    <3>4. Spread(left, list, i - 1)
      BY <1>11, <2>2, <3>1
    <3>5. i \in 1..i /\ \A k \in 1..i : k = i \/ k \in 1..i - 1
      BY <1>1
    <3>6. \A s \in S : s \in left \ {x} \/ \E k \in 1..i : longer[k] = s
      <4>1. 1..i - 1 \subseteq 1..i
        BY <1>1
      <4> QED BY <3>3, <3>4, <3>5, <4>1
    <3>7. \A k \in 1..i, t \in left \ {x} : <<longer[k], t>> \in R /\ longer[k] # t
      BY <3>2, <3>3, <3>4, <3>5
    <3>8. ASSUME NEW k \in 1..i, NEW l \in 1..i, k < l
          PROVE  <<longer[k], longer[l]>> \in R /\ longer[k] # longer[l]
      <4>1. k \in 1..i - 1
        BY <1>1, <3>8
      <4> QED BY <3>2, <3>3, <3>4, <3>5, <3>8, <4>1
    <3>9. Spread(left \ {x}, longer, i)
      BY <3>6, <3>7, <3>8
    <3> HIDE DEF Spread
    <3> QED BY <2>5, <2>7, <3>1, <3>9
  <2> HIDE DEF Spread
  <2> QED BY <2>1, <2>2, <2>5, <2>8, <2>9, <2>10
<1>12. \A i \in 0..N : i \in Fine
  <2> HIDE DEF Fine
  <2> QED BY <1>1, <1>10, <1>11, Induct
<1>13. f = Loop(f)
  <2>1. \A i \in 0..N : f[i] = Loop(f)[i]
    BY <1>9, <1>12
  <2>2. Loop(f) = [i \in 0..N |-> Loop(f)[i]]
    OBVIOUS
  <2>3. f = [i \in 0..N |-> f[i]]
    BY <1>9
  <2> QED BY <2>1, <2>2, <2>3
<1>14. Taking(S, R) = CHOOSE after : after = Loop(after)
  BY DEF Taking, N, Take, First, start
<1> HIDE DEF Loop, Fine, Spread
<1>15. PICK turn : turn = Taking(S, R) /\ turn = Loop(turn)
  BY <1>13, <1>14
<1>16. \A i \in 0..N : turn[i] = IF i = 0 THEN start ELSE Take(turn[i - 1])
  BY <1>15 DEF Loop
<1>17. \A i \in 0..N : turn[i] = f[i]
  <2> DEFINE Same == {i \in 0..N : turn[i] = f[i]}
  <2>1. 0 \in Same
    BY <1>1, <1>9, <1>16
  <2>2. ASSUME NEW i \in 1..N, i - 1 \in Same PROVE i \in Same
    <3>1. i \in 0..N /\ i # 0
      BY <1>1
    <3>2. f[i] = Take(f[i - 1])
      BY <1>12, <3>1 DEF Fine
    <3> QED BY <1>16, <2>2, <3>1, <3>2
  <2>3. \A i \in 0..N : i \in Same
    <3> HIDE DEF Same
    <3> QED BY <1>1, <2>1, <2>2, Induct
  <2> QED BY <2>3
<1>18. N \in 0..N
  BY <1>1
<1>19. f[N] \in Acc /\ Len(f[N].list) = N
  <2>1. f[N] \in Acc
    BY <1>9, <1>18
  <2> QED BY <1>12, <1>18, <2>1 DEF Fine
<1>20. Listed(S, R) = f[N].list
  BY <1>15, <1>17, <1>18 DEF Listed, N
<1>21. f[N].list \in Seq(S)
  BY <1>19 DEF Acc
<1>22. f[N].left = {} /\ Spread({}, f[N].list, N)
  <2>1. IsFiniteSet(f[N].left) /\ Cardinality(f[N].left) = N - N /\ Spread(f[N].left, f[N].list, N)
    BY <1>12, <1>18 DEF Fine
  <2>2. f[N].left = {}
    BY <1>1, <2>1, FS_EmptySet
  <2> HIDE DEF Spread
  <2> QED BY <2>1, <2>2
<1>23. PICK list : list = f[N].list
  OBVIOUS
<1>24. list \in Seq(S) /\ list = Listed(S, R) /\ Len(list) = N /\ Spread({}, list, N)
  BY <1>19, <1>20, <1>21, <1>22, <1>23
<1>25. /\ \A s \in S : \E k \in 1..N : list[k] = s
       /\ \A k, l \in 1..N : k < l => <<list[k], list[l]>> \in R /\ list[k] # list[l]
  BY <1>24 DEF Spread
<1> QED BY <1>24, <1>25 DEF N

\* Transactions have a first by day and id, groups by name.
LEMMA FirstByDay ==
    ASSUME NEW S \in SUBSET Payment, NEW T \in SUBSET S, T # {}
    PROVE  \E s \in T : \A t \in T : <<s, t>> \in InOrder(S)
<1> DEFINE days == {t.day : t \in T}
<1>1. days \in SUBSET Nat /\ days # {}
  BY RecurringAssumption
<1>2. PICK d \in days : \A e \in days : d <= e
  <2> HIDE DEF days
  <2> QED BY <1>1, LeastNat
<1> DEFINE ids == {t.id : t \in {u \in T : u.day = d}}
<1>3. ids \in SUBSET Nat /\ ids # {}
  BY RecurringAssumption
<1>4. PICK n \in ids : \A m \in ids : n <= m
  <2> HIDE DEF ids
  <2> QED BY <1>3, LeastNat
<1>5. PICK s \in T : s.day = d /\ s.id = n
  OBVIOUS
<1>6. ASSUME NEW t \in T PROVE <<s, t>> \in InOrder(S)
  <2>1. s.day \in Nat /\ t.day \in Nat /\ s.id \in Nat /\ t.id \in Nat /\ s \in S /\ t \in S
    BY RecurringAssumption
  <2>2. s.day <= t.day
    BY <1>2, <1>5
  <2>3. t.day = s.day => s.id <= t.id
    BY <1>4, <1>5
  <2> QED BY <2>1, <2>2, <2>3 DEF InOrder
<1> QED BY <1>6

\* So have groups, by their numbers.
LEMMA FirstGroup ==
    ASSUME NEW S \in SUBSET Group, NEW T \in SUBSET S, T # {}
    PROVE  \E s \in T : \A t \in T : <<s, t>> \in ByName(S)
<1>1. T \in SUBSET Nat
  BY DetectionAssumption
<1>2. PICK s \in T : \A t \in T : s <= t
  BY <1>1, LeastNat
<1> QED BY <1>2 DEF ByName

\* What the inner loop does to the chain so far.
ChainState(T) == [chain : Seq(T) \ {<<>>}, ended : BOOLEAN]
ChainTurn(txs, spec, acc, i) ==
    LET expected == acc.chain[Len(acc.chain)].day + spec.target
    IN  IF acc.ended THEN acc
        ELSE IF Away(txs[i].day, expected) <= spec.tolerance
        THEN [acc EXCEPT !.chain = Append(@, txs[i])]
        ELSE [acc EXCEPT !.ended = txs[i].day > expected]
ChainStart(txs, start) == [chain |-> <<txs[start]>>, ended |-> FALSE]

\* A turn makes a chain of the same payments, and not an empty one.
LEMMA TurnTyped ==
    ASSUME NEW T, NEW txs \in Seq(T), NEW spec, NEW acc \in ChainState(T), NEW i \in 1..Len(txs)
    PROVE  ChainTurn(txs, spec, acc, i) \in ChainState(T)
<1> DEFINE expected == acc.chain[Len(acc.chain)].day + spec.target
<1>1. acc.chain \in Seq(T) /\ acc.ended \in BOOLEAN /\ txs[i] \in T
  BY DEF ChainState
<1>2. CASE acc.ended
  BY <1>2 DEF ChainTurn
<1>3. CASE ~acc.ended /\ Away(txs[i].day, expected) <= spec.tolerance
  <2>1. Append(acc.chain, txs[i]) \in Seq(T) /\ Append(acc.chain, txs[i]) # <<>>
    BY <1>1
  <2>2. PICK longer : longer = Append(acc.chain, txs[i])
    OBVIOUS
  <2>3. [acc EXCEPT !.chain = longer] \in ChainState(T)
    BY <2>1, <2>2 DEF ChainState
  <2> QED BY <1>3, <2>2, <2>3 DEF ChainTurn
<1>4. CASE ~acc.ended /\ ~(Away(txs[i].day, expected) <= spec.tolerance)
  <2>1. (txs[i].day > expected) \in BOOLEAN
    OBVIOUS
  <2>2. ChainTurn(txs, spec, acc, i) = [acc EXCEPT !.ended = txs[i].day > expected]
    BY <1>4 DEF ChainTurn
  <2> HIDE DEF expected
  <2> QED BY <2>1, <2>2 DEF ChainState
<1> QED BY <1>2, <1>3, <1>4

\* The turns of the inner loop and what comes of them.
InnerLoop(upTo, txs, spec, start, T) ==
    /\ upTo \in [0..Len(txs) -> ChainState(T)]
    /\ ChainFrom(txs, spec, start) = upTo[Len(txs)].chain
    /\ \A i \in 0..Len(txs) :
          upTo[i] = IF i <= start THEN ChainStart(txs, start)
                    ELSE ChainTurn(txs, spec, upTo[i - 1], i)

\* A chain is what the turns of the inner loop make of it.
LEMMA ChainTurns ==
    ASSUME NEW T, NEW txs \in Seq(T), NEW spec, NEW start \in 1..Len(txs)
    PROVE  \E upTo : InnerLoop(upTo, txs, spec, start, T)
<1> DEFINE N == Len(txs)
           Acc == ChainState(T)
           first == ChainStart(txs, start)
           Turn(acc, i) == ChainTurn(txs, spec, acc, i)
           step == [acc \in Acc |-> [i \in 1..N |-> IF i <= start THEN first ELSE Turn(acc, i)]]
           Loop(f) == [i \in 0..N |-> IF i <= start THEN first ELSE Turn(f[i - 1], i)]
<1>1. N \in Nat /\ start \in 1..N /\ txs[start] \in T
  OBVIOUS
<1>2. first \in Acc
  <2>1. <<txs[start]>> \in Seq(T) /\ <<txs[start]>> # <<>>
    BY <1>1
  <2> QED BY <2>1 DEF ChainStart, ChainState
<1>3. \A acc \in Acc, i \in 1..N : Turn(acc, i) \in Acc
  BY TurnTyped
<1>4. ChainFrom(txs, spec, start) = (CHOOSE upTo : upTo = Loop(upTo))[N].chain
  BY DEF ChainFrom, ChainTurn, ChainStart
<1> HIDE DEF Turn, first
<1>5. step \in Steps(N, Acc)
  BY <1>2, <1>3 DEF Steps
<1>6. \A acc \in Acc, i \in 1..N : step[acc][i] = IF i <= start THEN first ELSE Turn(acc, i)
  OBVIOUS
<1> HIDE DEF step, Acc, N
<1>7. PICK f : Follows(f, N, Acc, first, step)
  BY <1>1, <1>2, <1>5, Recursion
<1>8. f \in [0..N -> Acc] /\ f[0] = first /\ \A i \in 1..N : f[i] = step[f[i - 1]][i]
  BY <1>7 DEF Follows
<1>9. ASSUME NEW i \in 0..N PROVE f[i] = IF i <= start THEN first ELSE Turn(f[i - 1], i)
  <2>1. CASE i = 0
    BY <1>1, <1>8, <2>1
  <2>2. CASE i # 0
    <3>1. i \in 1..N /\ i - 1 \in 0..N
      BY <1>1, <2>2
    <3>2. PICK acc \in Acc : acc = f[i - 1]
      BY <1>8, <3>1
    <3> QED BY <1>6, <1>8, <3>1, <3>2
  <2> QED BY <2>1, <2>2
<1>10. f = Loop(f)
  <2>1. f = [i \in 0..N |-> f[i]]
    BY <1>8
  <2> QED BY <1>9, <2>1
<1> HIDE DEF Loop
<1>11. PICK upTo : upTo = Loop(upTo) /\ ChainFrom(txs, spec, start) = upTo[N].chain
  BY <1>4, <1>10
<1>12. /\ upTo = [i \in 0..N |-> upTo[i]]
       /\ \A i \in 0..N : upTo[i] = IF i <= start THEN first ELSE Turn(upTo[i - 1], i)
  BY <1>11 DEF Loop
<1> DEFINE Fine == {i \in 0..N : upTo[i] \in Acc}
<1>13. 0 \in Fine
  <2>1. 0 \in 0..N /\ 0 <= start
    BY <1>1
  <2>2. upTo[0] = first
    BY <1>12, <2>1
  <2> QED BY <1>2, <2>1, <2>2
<1>14. ASSUME NEW i \in 1..N, i - 1 \in Fine PROVE i \in Fine
  <2>1. i \in 0..N
    BY <1>1
  <2>2. upTo[i] = IF i <= start THEN first ELSE Turn(upTo[i - 1], i)
    BY <1>12, <2>1
  <2>3. Turn(upTo[i - 1], i) \in Acc
    BY <1>3, <1>14
  <2> QED BY <1>2, <2>1, <2>2, <2>3
<1>15. \A i \in 0..N : i \in Fine
  <2> HIDE DEF Fine
  <2> QED BY <1>1, <1>13, <1>14, Induct
<1>16. upTo \in [0..N -> Acc]
  BY <1>12, <1>15
<1> QED BY <1>11, <1>12, <1>16 DEF N, Acc, Turn, first, InnerLoop

\* The turns of the outer loop and what comes of them.
OuterLoop(best, txs, spec, T) ==
    /\ best \in [0..Len(txs) -> Seq(T) \ {<<>>}]
    /\ ExtractIntervalChain(txs, spec) = best[Len(txs)]
    /\ best[0] = <<txs[1]>>
    /\ \A i \in 1..Len(txs) :
          best[i] = IF Longer(ChainFrom(txs, spec, i), best[i - 1])
                    THEN ChainFrom(txs, spec, i) ELSE best[i - 1]

\* The longest chain is what the turns of the outer loop make of it.
LEMMA LongestTurns ==
    ASSUME NEW T, NEW txs \in Seq(T), txs # <<>>, NEW spec
    PROVE  \E best : OuterLoop(best, txs, spec, T)
<1> DEFINE N == Len(txs)
           Acc == Seq(T) \ {<<>>}
           first == <<txs[1]>>
           Turn(known, i) == IF Longer(ChainFrom(txs, spec, i), known)
                             THEN ChainFrom(txs, spec, i) ELSE known
           step == [known \in Acc |-> [i \in 1..N |-> Turn(known, i)]]
           Loop(f) == [i \in 0..N |-> IF i = 0 THEN first ELSE Turn(f[i - 1], i)]
<1>1. N \in Nat /\ txs[1] \in T
  OBVIOUS
<1>2. first \in Acc
  BY <1>1
<1>3. ASSUME NEW known \in Acc, NEW i \in 1..N PROVE Turn(known, i) \in Acc
  <2>1. PICK upTo : InnerLoop(upTo, txs, spec, i, T)
    BY ChainTurns
  <2>2. upTo[Len(txs)] \in ChainState(T)
    BY <1>1, <2>1 DEF InnerLoop
  <2>3. ChainFrom(txs, spec, i) \in Acc
    BY <2>1, <2>2 DEF ChainState, InnerLoop
  <2> QED BY <2>3
<1>4. ExtractIntervalChain(txs, spec) = (CHOOSE best : best = Loop(best))[N]
  BY DEF ExtractIntervalChain
<1> HIDE DEF Turn, first
<1>5. step \in Steps(N, Acc)
  BY <1>3 DEF Steps
<1>6. \A known \in Acc, i \in 1..N : step[known][i] = Turn(known, i)
  OBVIOUS
<1> HIDE DEF step, Acc, N
<1>7. PICK f : Follows(f, N, Acc, first, step)
  BY <1>1, <1>2, <1>5, Recursion
<1>8. f \in [0..N -> Acc] /\ f[0] = first /\ \A i \in 1..N : f[i] = step[f[i - 1]][i]
  BY <1>7 DEF Follows
<1>9. f = Loop(f)
  <2>1. ASSUME NEW i \in 1..N PROVE f[i] = Turn(f[i - 1], i)
    <3>1. i - 1 \in 0..N
      BY <1>1
    <3>2. PICK known \in Acc : known = f[i - 1]
      BY <1>8, <3>1
    <3> QED BY <1>6, <1>8, <3>2
  <2>2. \A i \in 0..N : f[i] = IF i = 0 THEN first ELSE Turn(f[i - 1], i)
    BY <1>1, <1>8, <2>1
  <2>3. f = [i \in 0..N |-> f[i]]
    BY <1>8
  <2> QED BY <2>2, <2>3
<1> HIDE DEF Loop
<1>10. PICK best : best = Loop(best) /\ ExtractIntervalChain(txs, spec) = best[N]
  BY <1>4, <1>9
<1>11. /\ best = [i \in 0..N |-> best[i]]
       /\ \A i \in 0..N : best[i] = IF i = 0 THEN first ELSE Turn(best[i - 1], i)
  BY <1>10 DEF Loop
<1>12. best[0] = first /\ \A i \in 1..N : best[i] = Turn(best[i - 1], i)
  <2>1. 0 \in 0..N /\ \A i \in 1..N : i \in 0..N /\ i # 0
    BY <1>1
  <2> QED BY <1>11, <2>1
<1> DEFINE Fine == {i \in 0..N : best[i] \in Acc}
<1>13. 0 \in Fine
  BY <1>1, <1>2, <1>12
<1>14. ASSUME NEW i \in 1..N, i - 1 \in Fine PROVE i \in Fine
  <2>1. i \in 0..N
    BY <1>1
  <2>2. Turn(best[i - 1], i) \in Acc
    BY <1>3, <1>14
  <2> QED BY <1>12, <2>1, <2>2
<1>15. \A i \in 0..N : i \in Fine
  <2> HIDE DEF Fine
  <2> QED BY <1>1, <1>13, <1>14, Induct
<1>16. best \in [0..N -> Acc]
  BY <1>11, <1>15
<1> QED BY <1>10, <1>12, <1>16 DEF N, Acc, Turn, first, OuterLoop

\* The longest chain is of the same payments, and not empty.
LEMMA LongestTyped ==
    ASSUME NEW T, NEW txs \in Seq(T), txs # <<>>, NEW spec
    PROVE  ExtractIntervalChain(txs, spec) \in Seq(T) \ {<<>>}
<1>1. PICK best : OuterLoop(best, txs, spec, T)
  BY LongestTurns
<1>2. Len(txs) \in 0..Len(txs)
  OBVIOUS
<1> QED BY <1>1, <1>2 DEF OuterLoop

\* The series of the intervals, and the turns over them.
Built(txs, now) == {NoSeries} \cup {Build(txs, Specs[n], now) : n \in DOMAIN Specs}
IntervalLoop(best, txs, now) ==
    /\ best \in [0..Len(Specs) -> Built(txs, now)]
    /\ PickBest(txs, now) = best[Len(Specs)]
    /\ best[0] = NoSeries
    /\ \A i \in 1..Len(Specs) :
          best[i] = IF Better(Build(txs, Specs[i], now), best[i - 1])
                    THEN Build(txs, Specs[i], now) ELSE best[i - 1]

\* The best series is what the turns over the intervals make of it.
LEMMA BestTurns ==
    ASSUME NEW txs, NEW now
    PROVE  \E best : IntervalLoop(best, txs, now)
<1> DEFINE N == Len(Specs)
           Acc == Built(txs, now)
           Turn(known, i) == IF Better(Build(txs, Specs[i], now), known)
                             THEN Build(txs, Specs[i], now) ELSE known
           step == [known \in Acc |-> [i \in 1..N |-> Turn(known, i)]]
           Loop(f) == [i \in 0..N |-> IF i = 0 THEN NoSeries ELSE Turn(f[i - 1], i)]
<1>1. N \in Nat /\ DOMAIN Specs = 1..N
  BY DetectionAssumption
<1>2. NoSeries \in Acc
  BY DEF Built
<1>3. ASSUME NEW known \in Acc, NEW i \in 1..N PROVE Turn(known, i) \in Acc
  BY <1>1 DEF Built
<1>4. PickBest(txs, now) = (CHOOSE best : best = Loop(best))[N]
  BY DEF PickBest
<1> HIDE DEF Turn
<1>5. step \in Steps(N, Acc)
  BY <1>3 DEF Steps
<1>6. \A known \in Acc, i \in 1..N : step[known][i] = Turn(known, i)
  OBVIOUS
<1> HIDE DEF step, Acc, N
<1>7. PICK f : Follows(f, N, Acc, NoSeries, step)
  BY <1>1, <1>2, <1>5, Recursion
<1>8. f \in [0..N -> Acc] /\ f[0] = NoSeries /\ \A i \in 1..N : f[i] = step[f[i - 1]][i]
  BY <1>7 DEF Follows
<1>9. f = Loop(f)
  <2>1. ASSUME NEW i \in 1..N PROVE f[i] = Turn(f[i - 1], i)
    <3>1. i - 1 \in 0..N
      BY <1>1
    <3>2. PICK known \in Acc : known = f[i - 1]
      BY <1>8, <3>1
    <3> QED BY <1>6, <1>8, <3>2
  <2>2. \A i \in 0..N : f[i] = IF i = 0 THEN NoSeries ELSE Turn(f[i - 1], i)
    BY <1>1, <1>8, <2>1
  <2>3. f = [i \in 0..N |-> f[i]]
    BY <1>8
  <2> QED BY <2>2, <2>3
<1> HIDE DEF Loop
<1>10. PICK best : best = Loop(best) /\ PickBest(txs, now) = best[N]
  BY <1>4, <1>9
<1>11. /\ best = [i \in 0..N |-> best[i]]
       /\ \A i \in 0..N : best[i] = IF i = 0 THEN NoSeries ELSE Turn(best[i - 1], i)
  BY <1>10 DEF Loop
<1>12. best[0] = NoSeries /\ \A i \in 1..N : best[i] = Turn(best[i - 1], i)
  <2>1. 0 \in 0..N /\ \A i \in 1..N : i \in 0..N /\ i # 0
    BY <1>1
  <2> QED BY <1>11, <2>1
<1> DEFINE Fine == {i \in 0..N : best[i] \in Acc}
<1>13. 0 \in Fine
  BY <1>1, <1>2, <1>12
<1>14. ASSUME NEW i \in 1..N, i - 1 \in Fine PROVE i \in Fine
  <2>1. i \in 0..N
    BY <1>1
  <2>2. Turn(best[i - 1], i) \in Acc
    BY <1>3, <1>14
  <2> QED BY <1>12, <2>1, <2>2
<1>15. \A i \in 0..N : i \in Fine
  <2> HIDE DEF Fine
  <2> QED BY <1>1, <1>13, <1>14, Induct
<1>16. best \in [0..N -> Acc]
  BY <1>11, <1>15
<1> QED BY <1>10, <1>12, <1>16 DEF N, Acc, Turn, IntervalLoop

\* The best series is that of an interval, or none.
LEMMA BestTyped ==
    ASSUME NEW txs, NEW now
    PROVE  PickBest(txs, now) \in Built(txs, now)
<1>1. PICK best : IntervalLoop(best, txs, now)
  BY BestTurns
<1>2. Len(Specs) \in 0..Len(Specs)
  BY DetectionAssumption
<1> QED BY <1>1, <1>2 DEF IntervalLoop

\* The candidates of the household: payments of its own of one group.
Own(g, h) == {t \in Payment : t.group = g /\ t.household = h}
Candidates(h) ==
    {c \in [fingerprint : Fingerprint, count : Nat, uncertainty : 0..2,
            status : {"ended", "uncertain"}, members : Seq(Payment)] :
        \E g \in Group, n \in DOMAIN Specs :
            c.fingerprint = <<g, Specs[n].name>> /\ c.members \in Seq(Own(g, h))}

\* The series of one interval is a candidate.
LEMMA BuildFound ==
    ASSUME NEW h, NEW g \in Group, NEW txs \in Seq(Own(g, h)), txs # <<>>, NEW n \in DOMAIN Specs,
           NEW now
    PROVE  Build(txs, Specs[n], now) \in {NoSeries} \cup Candidates(h)
<1> DEFINE chain == ExtractIntervalChain(txs, Specs[n])
           status == IF Ended(chain[Len(chain)].day, Specs[n], now) THEN "ended" ELSE "uncertain"
           rank == Uncertainty(chain, Specs[n])
<1>1. chain \in Seq(Own(g, h))
  BY LongestTyped
<1>2. chain \in Seq(Payment) /\ Len(chain) \in Nat
  <2>1. Seq(Own(g, h)) \subseteq Seq(Payment)
    BY DEF Own
  <2> QED BY <1>1, <2>1
<1>3. txs[1].group = g
  <2>1. txs[1] \in Own(g, h)
    OBVIOUS
  <2> QED BY <2>1 DEF Own
<1>4. <<g, Specs[n].name>> \in Fingerprint
  BY DEF Fingerprint
<1>5. rank \in 0..2 /\ status \in {"ended", "uncertain"}
  BY DEF Uncertainty
<1>6. CASE Len(chain) < Specs[n].min
  BY <1>6 DEF Build
<1>7. CASE ~(Len(chain) < Specs[n].min)
  <2>1. Build(txs, Specs[n], now)
          = [fingerprint |-> <<g, Specs[n].name>>, count |-> Len(chain), uncertainty |-> rank,
             status |-> status, members |-> chain]
    BY <1>3, <1>7 DEF Build
  <2> HIDE DEF chain, rank, status
  <2> QED BY <1>1, <1>2, <1>4, <1>5, <2>1 DEF Candidates
<1> QED BY <1>6, <1>7

\* The series of a group is a candidate made of its free payments.
LEMMA GroupFound ==
    ASSUME NEW h, NEW g \in Group, NEW txs, txs \subseteq {t \in Payment : t.household = h},
           NEW existing, NEW now
    PROVE  SeriesOf(g, txs, existing, now) \in {NoSeries} \cup Candidates(h)
<1> DEFINE free == {t \in txs : t.group = g /\ t.id \notin existing}
           list == Listed(free, InOrder(free))
<1>1. free \in SUBSET Payment /\ free \in SUBSET Own(g, h)
  BY DEF Own
<1>2. IsFiniteSet(free)
  BY <1>1, RecurringAssumption, FS_Subset
<1> HIDE DEF free
<1>3. HasFirsts(free, InOrder(free))
  BY <1>1, FirstByDay DEF HasFirsts
<1>4. list \in Seq(free) /\ Len(list) = Cardinality(free)
  <2>1. PICK members \in Seq(free) :
          members = Listed(free, InOrder(free)) /\ Len(members) = Cardinality(free)
    BY <1>2, <1>3, ListedMembers
  <2> QED BY <2>1
<1> HIDE DEF list
<1>5. list \in Seq(Own(g, h))
  <2>1. Seq(free) \subseteq Seq(Own(g, h))
    BY <1>1
  <2> QED BY <1>4, <2>1
<1>6. CASE Cardinality(free) < 2
  BY <1>6 DEF SeriesOf, free
<1>7. CASE ~(Cardinality(free) < 2)
  <2>1. Cardinality(free) \in Nat
    BY <1>2, FS_CardinalityType
  <2>2. list # <<>>
    BY <1>4, <1>7, <2>1
  <2>3. SeriesOf(g, txs, existing, now) = PickBest(list, now)
    BY <1>7 DEF SeriesOf, free, list
  <2>4. Built(list, now) \subseteq {NoSeries} \cup Candidates(h)
    BY <1>5, <2>2, BuildFound DEF Built
  <2> QED BY <2>3, <2>4, BestTyped
<1> QED BY <1>6, <1>7

\* The detection returns candidates of the household it reads.
LEMMA CandidatesFound ==
    ASSUME NEW h, NEW txs, txs \subseteq {t \in Payment : t.household = h}, NEW existing, NEW now
    PROVE  DetectRecurringSeries(txs, existing, now) \in Seq(Candidates(h))
<1> DEFINE found == [g \in Group |-> SeriesOf(g, txs, existing, now)]
           named == {g \in Group : found[g] # NoSeries}
           groups == Listed(named, ByName(named))
<1>1. named \in SUBSET Group
  OBVIOUS
<1>2. \A g \in named : found[g] \in Candidates(h)
  <2>1. ASSUME NEW g \in named PROVE found[g] \in Candidates(h)
    <3>1. g \in Group /\ found[g] = SeriesOf(g, txs, existing, now) /\ found[g] # NoSeries
      OBVIOUS
    <3> HIDE DEF found, named
    <3> QED BY <3>1, GroupFound
  <2> QED BY <2>1
<1>3. DetectRecurringSeries(txs, existing, now) = [i \in DOMAIN groups |-> found[groups[i]]]
  BY DEF DetectRecurringSeries
<1> HIDE DEF found, named
<1>4. IsFiniteSet(named)
  BY <1>1, DetectionAssumption, FS_Subset
<1>5. HasFirsts(named, ByName(named))
  BY <1>1, FirstGroup DEF HasFirsts
<1>6. groups \in Seq(named)
  <2>1. PICK list \in Seq(named) : list = Listed(named, ByName(named))
    BY <1>4, <1>5, ListedMembers
  <2> QED BY <2>1
<1> HIDE DEF groups
<1>7. DOMAIN groups = 1..Len(groups) /\ Len(groups) \in Nat /\ \A i \in 1..Len(groups) : groups[i] \in named
  BY <1>6
<1>8. [i \in 1..Len(groups) |-> found[groups[i]]] \in Seq(Candidates(h))
  BY <1>2, <1>7
<1> QED BY <1>3, <1>7, <1>8

-----------------------------------------------------------------------------
(* Rows and verdicts.                                                      *)

\* A row of the table, whatever its columns hold.
IsRow(r) ==
    \E st, h, n, ids :
        r = [status |-> st, household |-> h, count |-> n, members |-> ids]

Rows ==
    /\ series = [f \in Fingerprint |-> series[f]]
    /\ \A f \in Fingerprint : series[f] = Unknown \/ IsRow(series[f])

IInv ==
    /\ Rows
    /\ ledger \subseteq Payment
    /\ decided \subseteq Fingerprint
    /\ \A f \in decided : series[f].status \in {"active", "ended"}

\* Row s follows row r: its status may change if r is open to a verdict, it
\* stays with its household and has lost no member but those gone.
Succeeds(r, s, gone) ==
    /\ s = Unknown \/ IsRow(s)
    /\ r.status # "unknown" => /\ s.status # "unknown" /\ s.household = r.household
                               /\ r.members \ gone \subseteq s.members
    /\ r.status \notin {"unknown", "uncertain"} => s.status = r.status

\* A row whose members are replaced keeps its status.
LEMMA WithMembers ==
    ASSUME NEW r, r = Unknown \/ IsRow(r), NEW ids
    PROVE  /\ [r EXCEPT !.members = ids].status = r.status
           /\ [r EXCEPT !.members = ids] = Unknown \/ IsRow([r EXCEPT !.members = ids])
           /\ IsRow(r) => /\ [r EXCEPT !.members = ids].members = ids
                          /\ [r EXCEPT !.members = ids].household = r.household
<1>1. CASE r = Unknown
  BY <1>1 DEF Unknown, IsRow
<1>2. CASE IsRow(r)
  <2>1. PICK st, h, n, old :
           r = [status |-> st, household |-> h, count |-> n, members |-> old]
    BY <1>2 DEF IsRow
  <2>2. [r EXCEPT !.members = ids]
           = [status |-> st, household |-> h, count |-> n, members |-> ids]
    BY <2>1
  <2>3. IsRow([r EXCEPT !.members = ids])
    BY <2>2 DEF IsRow
  <2>4. /\ [r EXCEPT !.members = ids].status = r.status
        /\ [r EXCEPT !.members = ids].members = ids
        /\ [r EXCEPT !.members = ids].household = r.household
    BY <2>1, <2>2
  <2> QED
    BY <2>3, <2>4
<1> QED
  BY <1>1, <1>2

\* InsertRecurringSeries changes no known series.
LEMMA InsertStep ==
    ASSUME Rows, NEW p \in Scanner, InsertSeries(p), NEW f \in Fingerprint
    PROVE  Succeeds(series[f], series'[f], {})
<1> DEFINE c == Head(scan[p].todo)
           h == scan[p].household
<1>1. series' = [series EXCEPT ![c.fingerprint] = StoredSeries(c, h)]
  BY DEF InsertSeries
<1>2. CASE f = c.fingerprint /\ Known(f)
  BY <1>1, <1>2 DEF StoredSeries, Succeeds, Rows
<1>3. CASE f = c.fingerprint /\ ~Known(f)
  <2>1. series'[f] = NewRow(c, h)
    BY <1>1, <1>3 DEF StoredSeries, Rows
  <2>2. IsRow(NewRow(c, h))
    BY DEF NewRow, IsRow
  <2> QED
    BY <1>3, <2>1, <2>2 DEF Succeeds, Known
<1>4. CASE f # c.fingerprint
  BY <1>1, <1>4 DEF Succeeds, Rows
<1> QED
  BY <1>2, <1>3, <1>4

\* InsertRecurringSeriesMember only adds.
LEMMA MemberStep ==
    ASSUME Rows, NEW p \in Scanner, InsertMember(p), NEW f \in Fingerprint
    PROVE  Succeeds(series[f], series'[f], {})
<1> DEFINE t == Head(scan[p].left)
           g == scan[p].into
<1>1. CASE series' = series
  BY <1>1 DEF Succeeds, Rows
<1>2. CASE series' = [series EXCEPT ![g].members = @ \cup {t.id}]
  <2>1. CASE f = g
    <3>1. series'[f] = [series[f] EXCEPT !.members = series[f].members \cup {t.id}]
      BY <1>2, <2>1 DEF Rows
    <3>2. series[f] = Unknown \/ IsRow(series[f])
      BY DEF Rows
    <3>3. series[f].status # "unknown" => IsRow(series[f])
      BY <3>2 DEF Unknown
    <3> QED
      BY <3>1, <3>2, <3>3, WithMembers DEF Succeeds
  <2>2. CASE f # g
    BY <1>2, <2>2 DEF Succeeds, Rows
  <2> QED
    BY <2>1, <2>2
<1> QED
  BY <1>1, <1>2 DEF InsertMember, AddMember

\* The cascade takes away what was deleted.
LEMMA CascadeStep ==
    ASSUME Rows, NEW gone, series' = Cascade(gone), NEW f \in Fingerprint
    PROVE  Succeeds(series[f], series'[f], gone)
<1>1. CASE Known(f)
  <2>1. series'[f] = [series[f] EXCEPT !.members = series[f].members \ gone]
    BY <1>1 DEF Cascade
  <2>2. IsRow(series[f])
    BY <1>1 DEF Rows, Known, Unknown
  <2> QED
    BY <2>1, <2>2, WithMembers DEF Succeeds
<1>2. CASE ~Known(f)
  BY <1>2 DEF Cascade, Known, Succeeds, Rows
<1> QED
  BY <1>1, <1>2

\* Confirm and Reject change uncertain series only.
LEMMA DecideStep ==
    ASSUME Rows, NEW g \in Fingerprint, Decide(g), NEW f \in Fingerprint
    PROVE  /\ Succeeds(series[f], series'[f], {})
           /\ f = g => series'[f].status \in {"active", "ended"}
<1>0. PICK verdict \in {"active", "ended"} :
        series' = [series EXCEPT ![g].status = verdict]
  BY DEF Decide, ConfirmRecurringSeries, RejectRecurringSeries
<1>1. CASE f = g
  <2>1. IsRow(series[f])
    BY <1>1 DEF Decide, Undecided, Rows, Unknown
  <2>2. PICK st, h, n, ids :
           series[f] = [status |-> st, household |-> h, count |-> n, members |-> ids]
    BY <2>1 DEF IsRow
  <2>3. series'[f] = [status |-> verdict, household |-> h, count |-> n, members |-> ids]
    BY <1>0, <1>1, <2>2 DEF Rows
  <2>4. IsRow(series'[f])
    BY <2>3 DEF IsRow
  <2>5. /\ series'[f].status \in {"active", "ended"}
        /\ series'[f].members = series[f].members
        /\ series'[f].household = series[f].household
    BY <2>2, <2>3
  <2> QED
    BY <1>1, <2>4, <2>5 DEF Decide, Undecided, Succeeds
<1>2. CASE f # g
  BY <1>0, <1>2 DEF Succeeds, Rows
<1> QED
  BY <1>1, <1>2

\* The payments a step deletes.
Gone == Ids(ledger \ ledger')

\* Every step: rows succeed rows, and verdicts are recorded.
LEMMA SeriesStep ==
    ASSUME IInv, [Next]_vars
    PROVE  /\ \A f \in Fingerprint : Succeeds(series[f], series'[f], Gone)
           /\ series' = [f \in Fingerprint |-> series'[f]]
           /\ ledger' \subseteq Payment
           /\ decided' \subseteq Fingerprint
           /\ \A f \in decided' \ decided : series'[f].status \in {"active", "ended"}
<1> USE DEF IInv
<1>0. \A s : \A f \in Fingerprint : Succeeds(series[f], s, {}) => Succeeds(series[f], s, Gone)
  BY DEF Succeeds
<1>1. ASSUME NEW p \in Scanner, InsertSeries(p)
      PROVE  /\ \A f \in Fingerprint : Succeeds(series[f], series'[f], {})
             /\ series' = [f \in Fingerprint |-> series'[f]]
             /\ ledger' = ledger /\ decided' = decided
  <2>1. series' = [f \in Fingerprint |-> series'[f]]
    BY <1>1 DEF InsertSeries, Rows
  <2> QED
    BY <1>1, <2>1, InsertStep DEF InsertSeries
<1>2. ASSUME NEW p \in Scanner, InsertMember(p)
      PROVE  /\ \A f \in Fingerprint : Succeeds(series[f], series'[f], {})
             /\ series' = [f \in Fingerprint |-> series'[f]]
             /\ ledger' = ledger /\ decided' = decided
  <2>1. series' = [f \in Fingerprint |-> series'[f]]
    BY <1>2 DEF InsertMember, AddMember, Rows
  <2> QED
    BY <1>2, <2>1, MemberStep DEF InsertMember
<1>3. ASSUME CommitRollback
      PROVE  /\ \A f \in Fingerprint : Succeeds(series[f], series'[f], Gone)
             /\ series' = [f \in Fingerprint |-> series'[f]]
             /\ ledger' \subseteq ledger /\ decided' = decided
  <2>1. PICK n \in Files : /\ InFile(n) \subseteq ledger
                           /\ ledger' = ledger \ InFile(n)
                           /\ series' = Cascade(Ids(InFile(n)))
    BY <1>3 DEF CommitRollback
  <2>2. ledger \ ledger' = InFile(n)
    BY <2>1
  <2>3. series' = [f \in Fingerprint |-> series'[f]]
    BY <2>1 DEF Cascade
  <2> QED
    BY <1>3, <2>1, <2>2, <2>3, CascadeStep DEF CommitRollback, Gone
<1>4. ASSUME NEW g \in Fingerprint, Decide(g)
      PROVE  /\ \A f \in Fingerprint : Succeeds(series[f], series'[f], {})
             /\ series' = [f \in Fingerprint |-> series'[f]]
             /\ ledger' = ledger /\ decided' = decided \cup {g}
             /\ series'[g].status \in {"active", "ended"}
  <2>1. series' = [f \in Fingerprint |-> series'[f]]
    BY <1>4 DEF Decide, ConfirmRecurringSeries, RejectRecurringSeries, Rows
  <2> QED
    BY <1>4, <2>1, DecideStep DEF Decide
<1>5. ASSUME series' = series, decided' = decided, ledger' \subseteq Payment
      PROVE  /\ \A f \in Fingerprint : Succeeds(series[f], series'[f], {})
             /\ series' = [f \in Fingerprint |-> series'[f]]
  BY <1>5 DEF Rows, Succeeds
<1>6. \/ \E p \in Scanner : InsertSeries(p) \/ InsertMember(p)
      \/ CommitRollback
      \/ \E g \in Fingerprint : Decide(g)
      \/ series' = series /\ decided' = decided /\ ledger' \subseteq Payment
  BY DEF Next, vars, NextDay, CommitImport, PairPayment, ScanStep, ReadTransactions,
     ReadMembers, DetectCandidates, EndScan, AbandonScan, InFile
<1> QED
  BY <1>0, <1>1, <1>2, <1>3, <1>4, <1>5, <1>6

\* The tables start empty.
LEMMA InitInv == Init => IInv
  BY DEF Init, IInv, Rows

\* A step keeps rows rows and decided series decided.
LEMMA StepInv == IInv /\ [Next]_vars => IInv'
<1> SUFFICES ASSUME IInv, [Next]_vars PROVE IInv'
  OBVIOUS
<1>1. Rows'
  BY SeriesStep DEF Rows, Succeeds
<1>2. ASSUME NEW f \in decided' PROVE series'[f].status \in {"active", "ended"}
  BY SeriesStep DEF IInv, Succeeds
<1> QED
  BY <1>1, <1>2, SeriesStep DEF IInv

\* Rows are rows, and decided series have a final status.
THEOREM Invariance == Spec => []IInv
  BY InitInv, StepInv, PTL DEF Spec

\* What a user decided about a series stands: no later scan, however old its
\* reading, and no other request changes its status (the WHERE clauses of
\* ConfirmRecurringSeries and RejectRecurringSeries, ON CONFLICT DO NOTHING
\* of InsertRecurringSeries).
THEOREM VerdictsStay == Spec => VerdictStands
<1>1. IInv /\ [Next]_vars => [\A f \in decided : series'[f].status = series[f].status]_vars
  BY SeriesStep DEF IInv, Succeeds
<1> QED
  BY Invariance, <1>1, PTL DEF Spec, VerdictStands

\* A booking stays in its series until it is rolled back
\* (recurring_series_members_tx_unique with ON CONFLICT DO NOTHING, and the
\* cascade of the schema).
THEOREM MembershipStays == Spec => MembershipKept
<1>1. ASSUME IInv, [Next]_vars, NEW f \in Fingerprint, NEW id \in Members(f),
             id \in StoredIds'
      PROVE  id \in Members(f)'
  <2>1. id \notin Gone
    BY <1>1, RecurringAssumption, SeriesStep DEF Gone, StoredIds, Ids, IInv
  <2>2. Known(f) /\ id \in series[f].members
    BY DEF Members
  <2>3. Succeeds(series[f], series'[f], Gone)
    BY <1>1, SeriesStep
  <2> QED
    BY <2>1, <2>2, <2>3 DEF Succeeds, Members, Known
<1>2. IInv /\ [Next]_vars =>
         [\A f \in Fingerprint : \A id \in Members(f) :
             id \in StoredIds' => id \in Members(f)']_vars
  BY <1>1
<1> QED
  BY Invariance, <1>2, PTL DEF Spec, MembershipKept

-----------------------------------------------------------------------------
(* What a scan carries, and the members of the series.                     *)

\* A scan that detects next, and one that stores what it found.
Detecting(h, txs, members) ==
    [at |-> "legs", household |-> h, txs |-> txs, existing |-> members]
Storing(h, todo, into, left, offered) ==
    [at |-> "store", household |-> h, todo |-> todo,
     into |-> into, left |-> left, offered |-> offered]

\* Where a scan is, and what it carries there: payments of its household,
\* candidates of its household, and members that belong to a row of it.
Carries(s, rows) ==
    \/ s = Idle
    \/ \E h, txs :
          /\ s = [at |-> "members", household |-> h, txs |-> txs]
          /\ txs \subseteq {t \in Payment : t.household = h}
    \/ \E h, txs, members :
          /\ s = Detecting(h, txs, members)
          /\ txs \subseteq {t \in Payment : t.household = h}
    \/ \E h, todo, into, left, offered :
          /\ s = Storing(h, todo, into, left, offered)
          /\ todo \in Seq(Candidates(h))
          /\ left # <<>> => /\ into \in Fingerprint /\ rows[into].status # "unknown"
                            /\ rows[into].household = h
                            /\ left \in Seq(Own(into[1], h))
Carried ==
    /\ scan = [p \in Scanner |-> scan[p]]
    /\ \A p \in Scanner : Carries(scan[p], series)

\* Reading and detecting give the scan what it carries.
LEMMA ReadStep ==
    ASSUME IInv, Carried, NEW p \in Scanner, ReadTransactions(p)
    PROVE  /\ Carries(scan'[p], series') /\ UNCHANGED <<series, ledger>>
           /\ \E s : scan' = [scan EXCEPT ![p] = s]
<1>1. PICK h \in Household : scan' = [scan EXCEPT ![p] =
         [at |-> "members", household |-> h, txs |-> ListTransactionsForRecurringScan(h)]]
  BY DEF ReadTransactions
<1> DEFINE read == ListTransactionsForRecurringScan(h)
<1>2. read \subseteq {t \in Payment : t.household = h}
  BY DEF ListTransactionsForRecurringScan, IInv
<1>3. scan'[p] = [at |-> "members", household |-> h, txs |-> read]
  BY <1>1 DEF Carried
<1> HIDE DEF read
<1> QED BY <1>1, <1>2, <1>3 DEF Carries, ReadTransactions, read

\* Reading the members leaves the payments read before.
LEMMA MembersStep ==
    ASSUME IInv, Carried, NEW p \in Scanner, ReadMembers(p)
    PROVE  /\ Carries(scan'[p], series') /\ UNCHANGED <<series, ledger>>
           /\ \E s : scan' = [scan EXCEPT ![p] = s]
<1> DEFINE members == MembersOf(scan[p].household)
           next == Detecting(scan[p].household, scan[p].txs, members)
<1>1. scan' = [scan EXCEPT ![p] = next] /\ scan[p].at = "members"
  BY DEF ReadMembers, Detecting
<1>2. PICK h, txs :
        /\ scan[p] = [at |-> "members", household |-> h, txs |-> txs]
        /\ txs \subseteq {t \in Payment : t.household = h}
  BY <1>1 DEF Carried, Carries, Idle, Storing, Detecting
<1>3. scan[p].household = h /\ scan[p].txs = txs
  BY <1>2
<1>4. scan'[p] = next
  BY <1>1 DEF Carried
<1> HIDE DEF members
<1>5. Carries(next, series')
  BY <1>2, <1>3 DEF Carries
<1> QED BY <1>1, <1>4, <1>5 DEF ReadMembers

\* A scan takes up what the detection returns, and that is its own.
LEMMA DetectStep ==
    ASSUME IInv, Carried, NEW p \in Scanner, DetectCandidates(p)
    PROVE  /\ Carries(scan'[p], series') /\ UNCHANGED <<series, ledger>>
           /\ \E s : scan' = [scan EXCEPT ![p] = s]
<1> DEFINE s == scan[p]
           found == DetectRecurringSeries(s.txs, s.existing \cup legs, today)
           next == Storing(s.household, found, <<>>, <<>>, Offered(found))
<1>1. scan' = [scan EXCEPT ![p] = next] /\ s.at = "legs"
  BY DEF DetectCandidates, Storing
<1>2. PICK h, txs, members :
        /\ s = Detecting(h, txs, members)
        /\ txs \subseteq {t \in Payment : t.household = h}
  BY <1>1 DEF Carried, Carries, Idle, Storing, Detecting
<1>3. s.household = h /\ s.txs = txs
  BY <1>2 DEF Detecting
<1>4. found \in Seq(Candidates(h))
  BY <1>2, <1>3, CandidatesFound
<1>5. scan'[p] = next
  BY <1>1 DEF Carried
<1> HIDE DEF found
<1>6. Carries(next, series')
  BY <1>3, <1>4 DEF Carries
<1> QED BY <1>1, <1>5, <1>6 DEF DetectCandidates

\* Inserting a series leaves the scan with members of the row it wrote.
LEMMA CarryInsert ==
    ASSUME IInv, Carried, NEW p \in Scanner, InsertSeries(p)
    PROVE  /\ Carries(scan'[p], series')
           /\ \E s : scan' = [scan EXCEPT ![p] = s]
           /\ ledger' = ledger
           /\ \A f \in Fingerprint : series'[f] = series[f] \/ (~Known(f) /\ series'[f].members = {})
<1> DEFINE c == Head(scan[p].todo)
<1>1. scan[p].at = "store" /\ scan[p].left = <<>> /\ scan[p].todo # <<>>
  BY DEF InsertSeries
<1>2. PICK h, todo, into, left, offered :
        /\ scan[p] = Storing(h, todo, into, left, offered)
        /\ todo \in Seq(Candidates(h))
  BY <1>1 DEF Carried, Carries, Idle, Detecting
<1>3. scan[p].todo = todo /\ scan[p].household = h /\ todo # <<>>
  BY <1>1, <1>2 DEF Storing
<1>4. c \in Candidates(h) /\ Tail(todo) \in Seq(Candidates(h))
  BY <1>2, <1>3
<1> HIDE DEF c
<1>5. PICK g \in Group, n \in DOMAIN Specs :
        c.fingerprint = <<g, Specs[n].name>> /\ c.members \in Seq(Own(g, h))
  BY <1>4 DEF Candidates
<1>6. c.fingerprint \in Fingerprint /\ c.fingerprint[1] = g /\ c.members \in Seq(Own(g, h))
  <2>1. c.fingerprint \in Fingerprint
    BY <1>4 DEF Candidates
  <2> QED BY <1>5, <2>1
<1> DEFINE next == Storing(h, Tail(todo), c.fingerprint, IF Inserted(c) THEN c.members ELSE <<>>, offered)
<1>7. /\ series' = [series EXCEPT ![c.fingerprint] = StoredSeries(c, h)]
      /\ scan' = [scan EXCEPT ![p].todo = Tail(todo), ![p].into = c.fingerprint,
                              ![p].left = IF Inserted(c) THEN c.members ELSE <<>>]
      /\ ledger' = ledger
  BY <1>3 DEF InsertSeries, Remaining, c
<1>8. scan'[p] = next /\ scan' = [scan EXCEPT ![p] = next]
  <2>1. PICK members : members = IF Inserted(c) THEN c.members ELSE <<>>
    OBVIOUS
  <2>2. [scan[p] EXCEPT !.todo = Tail(todo), !.into = c.fingerprint, !.left = members] = next
    <3>1. PICK rest, row : rest = Tail(todo) /\ row = c.fingerprint
      OBVIOUS
    <3>2. PICK s : s = scan[p]
      OBVIOUS
    <3>3. s \in [at : {"store"}, household : {h}, todo : {todo}, into : {into},
                 left : {left}, offered : {offered}]
      BY <1>2, <3>2 DEF Storing
    <3>4. PICK r : r = [s EXCEPT !.todo = rest, !.into = row, !.left = members]
      OBVIOUS
    <3>5. r \in [at : {"store"}, household : {h}, todo : {rest}, into : {row},
                 left : {members}, offered : {offered}]
      BY <3>3, <3>4
    <3>6. r = Storing(h, rest, row, members, offered)
      BY <3>5 DEF Storing
    <3> QED BY <2>1, <3>1, <3>2, <3>4, <3>6
  <2>3. scan' = [scan EXCEPT ![p] = [scan[p] EXCEPT !.todo = Tail(todo),
                                       !.into = c.fingerprint, !.left = members]]
    BY <1>7, <2>1 DEF Carried
  <2>4. scan' = [scan EXCEPT ![p] = next]
    BY <2>2, <2>3
  <2> HIDE DEF next
  <2> QED BY <2>4 DEF Carried
<1>9. ~Known(c.fingerprint) => /\ series'[c.fingerprint].status # "unknown"
                               /\ series'[c.fingerprint].household = h
                               /\ series'[c.fingerprint].members = {}
  <2>1. ASSUME ~Known(c.fingerprint) PROVE series'[c.fingerprint] = NewRow(c, h)
    BY <1>6, <1>7, <2>1 DEF StoredSeries, IInv, Rows
  <2>2. c.status # "unknown"
    BY <1>4 DEF Candidates
  <2> QED BY <2>1, <2>2 DEF NewRow
<1>10. Carries(next, series')
  BY <1>4, <1>6, <1>9 DEF Carries, Inserted
<1>11. ASSUME NEW f \in Fingerprint
       PROVE  series'[f] = series[f] \/ (~Known(f) /\ series'[f].members = {})
  BY <1>7, <1>9 DEF StoredSeries, IInv, Rows
<1> QED BY <1>7, <1>8, <1>10, <1>11

\* Adding a member leaves the scan with the others, of the same row.
LEMMA CarryMember ==
    ASSUME IInv, Carried, NEW p \in Scanner, InsertMember(p)
    PROVE  /\ Carries(scan'[p], series')
           /\ \E s : scan' = [scan EXCEPT ![p] = s]
           /\ ledger' = ledger
           /\ \/ series' = series
              \/ \E g \in Fingerprint, t \in ledger :
                    /\ t.group = g[1] /\ t.household = series[g].household /\ ~Assigned(t.id)
                    /\ Known(g) /\ series' = [series EXCEPT ![g].members = @ \cup {t.id}]
<1> DEFINE t == Head(scan[p].left)
<1>1. scan[p].at = "store" /\ scan[p].left # <<>> /\ ledger' = ledger
  BY DEF InsertMember
<1>2. PICK h, todo, into, left, offered :
        /\ scan[p] = Storing(h, todo, into, left, offered)
        /\ todo \in Seq(Candidates(h))
        /\ left # <<>> => /\ into \in Fingerprint /\ series[into].status # "unknown"
                          /\ series[into].household = h
                          /\ left \in Seq(Own(into[1], h))
  BY <1>1 DEF Carried, Carries, Idle, Detecting
<1>3. scan[p].left = left /\ left # <<>> /\ scan[p].into = into
  BY <1>1, <1>2 DEF Storing
<1>4. t \in Own(into[1], h) /\ Tail(left) \in Seq(Own(into[1], h)) /\ t = Head(left)
  BY <1>2, <1>3
<1> HIDE DEF t
<1>5. CASE t.id \notin StoredIds
  <2>1. scan' = [scan EXCEPT ![p] = Idle] /\ series' = series
    BY <1>5 DEF InsertMember, t
  <2> QED BY <1>1, <2>1 DEF Carries, Carried
<1>6. CASE t.id \in StoredIds
  <2> DEFINE next == Storing(h, todo, into, Tail(left), offered)
  <2>1. /\ scan' = [scan EXCEPT ![p].left = Tail(left)]
        /\ series' = IF Assigned(t.id) THEN series ELSE [series EXCEPT ![into].members = @ \cup {t.id}]
    BY <1>3, <1>6 DEF InsertMember, AddMember, t
  <2>2. scan'[p] = next /\ scan' = [scan EXCEPT ![p] = next]
    <3>1. [scan[p] EXCEPT !.left = Tail(left)] = next
      <4>1. PICK rest, s : rest = Tail(left) /\ s = scan[p]
        OBVIOUS
      <4>2. s \in [at : {"store"}, household : {h}, todo : {todo}, into : {into},
                   left : {left}, offered : {offered}]
        BY <1>2, <4>1 DEF Storing
      <4>3. PICK r : r = [s EXCEPT !.left = rest]
        OBVIOUS
      <4>4. r \in [at : {"store"}, household : {h}, todo : {todo}, into : {into},
                   left : {rest}, offered : {offered}]
        BY <4>2, <4>3
      <4>5. r = Storing(h, todo, into, rest, offered)
        BY <4>4 DEF Storing
      <4> QED BY <4>1, <4>3, <4>5
    <3>2. scan' = [scan EXCEPT ![p] = [scan[p] EXCEPT !.left = Tail(left)]]
      BY <2>1 DEF Carried
    <3>3. scan' = [scan EXCEPT ![p] = next]
      BY <3>1, <3>2
    <3> HIDE DEF next
    <3> QED BY <3>3 DEF Carried
  <2>3. t \in ledger /\ t.group = into[1] /\ t.household = series[into].household
    <3>1. PICK u \in ledger : u.id = t.id
      BY <1>6 DEF StoredIds, Ids
    <3>2. t \in Payment /\ u \in Payment
      BY <1>4 DEF Own, IInv
    <3>3. t = u
      BY <3>1, <3>2, RecurringAssumption
    <3> QED BY <1>2, <1>3, <1>4, <3>3 DEF Own
  <2>4. series'[into].status # "unknown" /\ series'[into].household = h
    <3>1. Succeeds(series[into], series'[into], {})
      BY <1>2, <1>3, MemberStep DEF IInv
    <3> QED BY <1>2, <1>3, <3>1 DEF Succeeds
  <2>5. Carries(next, series')
    BY <1>2, <1>3, <1>4, <2>4 DEF Carries
  <2>6. \/ series' = series
        \/ /\ ~Assigned(t.id) /\ Known(into) /\ into \in Fingerprint
           /\ series' = [series EXCEPT ![into].members = @ \cup {t.id}]
    BY <1>2, <1>3, <2>1 DEF Known
  <2> QED BY <1>1, <2>2, <2>3, <2>5, <2>6
<1> QED BY <1>5, <1>6

\* Every step: the scan that moves carries what it should, the others still do.
LEMMA CarryStep == IInv /\ Carried /\ [Next]_vars => Carried'
<1> SUFFICES ASSUME IInv, Carried, [Next]_vars PROVE Carried'
  OBVIOUS
<1>1. ASSUME NEW p \in Scanner, Carries(scan[p], series) PROVE Carries(scan[p], series')
  <2>1. CASE scan[p] = Idle
    BY <2>1 DEF Carries
  <2>2. CASE \E h, txs :
               /\ scan[p] = [at |-> "members", household |-> h, txs |-> txs]
               /\ txs \subseteq {t \in Payment : t.household = h}
    BY <2>2 DEF Carries
  <2>3. CASE \E h, txs, members :
               /\ scan[p] = Detecting(h, txs, members)
               /\ txs \subseteq {t \in Payment : t.household = h}
    BY <2>3 DEF Carries
  <2>4. ASSUME NEW h, NEW todo, NEW into, NEW left, NEW offered,
               scan[p] = Storing(h, todo, into, left, offered),
               todo \in Seq(Candidates(h)),
               left # <<>> => /\ into \in Fingerprint /\ series[into].status # "unknown"
                              /\ series[into].household = h
                              /\ left \in Seq(Own(into[1], h))
        PROVE  Carries(scan[p], series')
    <3>1. left # <<>> => Succeeds(series[into], series'[into], Gone)
      BY <2>4, SeriesStep
    <3>2. left # <<>> => series'[into].status # "unknown" /\ series'[into].household = h
      BY <2>4, <3>1 DEF Succeeds
    <3> QED BY <2>4, <3>2 DEF Carries
  <2> QED BY <1>1, <2>1, <2>2, <2>3, <2>4 DEF Carries
<1>2. ASSUME NEW p \in Scanner, Carries(scan'[p], series'), \E s : scan' = [scan EXCEPT ![p] = s]
      PROVE  Carried'
  <2>1. \A q \in Scanner : q # p => scan'[q] = scan[q]
    BY <1>2 DEF Carried
  <2>2. \A q \in Scanner : Carries(scan'[q], series')
    BY <1>1, <1>2, <2>1 DEF Carried
  <2>3. scan' = [q \in Scanner |-> scan'[q]]
    BY <1>2 DEF Carried
  <2> QED BY <2>2, <2>3 DEF Carried
<1>3. ASSUME NEW p \in Scanner, scan' = [scan EXCEPT ![p] = Idle] PROVE Carried'
  <2>1. Carries(scan'[p], series')
    BY <1>3 DEF Carried, Carries
  <2> QED BY <1>2, <1>3, <2>1
<1>4. CASE scan' = scan
  BY <1>1, <1>4 DEF Carried
<1>5. \/ scan' = scan
      \/ \E p \in Scanner : \/ ReadTransactions(p) \/ ReadMembers(p) \/ DetectCandidates(p)
                            \/ InsertSeries(p) \/ InsertMember(p) \/ scan' = [scan EXCEPT ![p] = Idle]
  BY DEF Next, vars, NextDay, CommitImport, CommitRollback, PairPayment, Decide, ScanStep,
     EndScan, AbandonScan
<1> QED BY <1>2, <1>3, <1>4, <1>5, ReadStep, MembersStep, DetectStep, CarryInsert, CarryMember

\* A step keeps members where they belong.
LEMMA BelongStep == IInv /\ Carried /\ MembersBelong /\ [Next]_vars => MembersBelong'
<1> SUFFICES ASSUME IInv, Carried, MembersBelong, [Next]_vars PROVE MembersBelong'
  OBVIOUS
<1>1. ASSUME \A f \in Fingerprint : /\ Members(f)' \subseteq Members(f)
                                    /\ Known(f) => series'[f].household = series[f].household,
             ledger \subseteq ledger'
      PROVE  MembersBelong'
  <2>1. \A f \in Fingerprint : \A id \in Members(f) : Known(f)
    BY DEF Members
  <2> QED BY <1>1, <2>1 DEF MembersBelong
<1>2. ASSUME NEW p \in Scanner, InsertSeries(p) PROVE MembersBelong'
  <2>1. \A f \in Fingerprint : series'[f] = series[f] \/ (~Known(f) /\ series'[f].members = {})
    BY <1>2, CarryInsert
  <2>2. \A f \in Fingerprint : /\ Members(f)' \subseteq Members(f)
                               /\ Known(f) => series'[f].household = series[f].household
    BY <2>1 DEF Members, Known
  <2> QED BY <1>1, <1>2, <2>2 DEF InsertSeries
<1>3. ASSUME NEW p \in Scanner, InsertMember(p) PROVE MembersBelong'
  <2>1. ledger' = ledger
    BY <1>3 DEF InsertMember
  <2>2. CASE series' = series
    BY <1>1, <2>1, <2>2 DEF Members, Known
  <2>3. ASSUME NEW g \in Fingerprint, NEW t \in ledger,
               t.group = g[1], t.household = series[g].household, ~Assigned(t.id), Known(g),
               series' = [series EXCEPT ![g].members = @ \cup {t.id}]
        PROVE  MembersBelong'
    <3>1. IsRow(series[g])
      BY <2>3 DEF IInv, Rows, Known, Unknown
    <3>2. series'[g] = [series[g] EXCEPT !.members = series[g].members \cup {t.id}]
      BY <2>3 DEF IInv, Rows
    <3>3. /\ series'[g].members = series[g].members \cup {t.id}
          /\ series'[g].household = series[g].household /\ series'[g].status = series[g].status
      BY <3>1, <3>2, WithMembers
    <3>4. \A f \in Fingerprint : f # g => series'[f] = series[f]
      BY <2>3 DEF IInv, Rows
    <3>5. Members(g)' = Members(g) \cup {t.id}
      BY <2>3, <3>3 DEF Members, Known
    <3>6. \A f \in Fingerprint : f # g => Members(f)' = Members(f)
      BY <3>4 DEF Members, Known
    <3>7. \A f \in Fingerprint : t.id \notin Members(f)
      BY <2>3 DEF Assigned
    <3>8. \A f \in Fingerprint : series'[f].household = series[f].household
      BY <3>3, <3>4
    <3> QED BY <2>1, <2>3, <3>5, <3>6, <3>7, <3>8 DEF MembersBelong
  <2> QED BY <1>3, <2>2, <2>3, CarryMember
<1>4. ASSUME CommitRollback PROVE MembersBelong'
  <2>1. PICK n \in Files : /\ ledger' = ledger \ InFile(n)
                           /\ series' = Cascade(Ids(InFile(n)))
    BY <1>4 DEF CommitRollback
  <2>2. ASSUME NEW f \in Fingerprint, Known(f)
        PROVE  /\ series'[f].members = series[f].members \ Ids(InFile(n))
               /\ series'[f].household = series[f].household
               /\ series'[f].status = series[f].status
    <3>1. series'[f] = [series[f] EXCEPT !.members = series[f].members \ Ids(InFile(n))]
      BY <2>1, <2>2 DEF Cascade
    <3>2. IsRow(series[f])
      BY <2>2 DEF IInv, Rows, Known, Unknown
    <3> QED BY <3>1, <3>2, WithMembers
  <2>3. \A f \in Fingerprint : ~Known(f) => series'[f] = series[f]
    BY <2>1 DEF Cascade
  <2>4. \A f \in Fingerprint : Members(f)' \subseteq Members(f) \ Ids(InFile(n))
    BY <2>2, <2>3 DEF Members, Known
  <2>5. ASSUME NEW f \in Fingerprint, NEW id \in Members(f)'
        PROVE  \E t \in ledger' : /\ t.id = id /\ t.group = f[1]
                                  /\ t.household = series'[f].household
    <3>1. id \in Members(f) /\ id \notin Ids(InFile(n)) /\ Known(f)
      BY <2>4 DEF Members
    <3>2. PICK t \in ledger : t.id = id /\ t.group = f[1] /\ t.household = series[f].household
      BY <3>1 DEF MembersBelong
    <3>3. t \in ledger'
      BY <2>1, <3>1, <3>2 DEF Ids
    <3> QED BY <2>2, <3>1, <3>2, <3>3
  <2>6. \A f \in Fingerprint : \A id \in Members(f)' : \A g \in Fingerprint \ {f} : id \notin Members(g)'
    BY <2>4 DEF MembersBelong
  <2> QED BY <2>5, <2>6 DEF MembersBelong
<1>5. ASSUME NEW g \in Fingerprint, Decide(g) PROVE MembersBelong'
  <2>1. PICK verdict \in {"active", "ended"} : series' = [series EXCEPT ![g].status = verdict]
    BY <1>5 DEF Decide, ConfirmRecurringSeries, RejectRecurringSeries
  <2>2. PICK st, h, n, ids :
           series[g] = [status |-> st, household |-> h, count |-> n, members |-> ids]
    BY <1>5 DEF Decide, Undecided, IInv, Rows, Unknown, IsRow
  <2>3. series'[g] = [status |-> verdict, household |-> h, count |-> n, members |-> ids]
    BY <2>1, <2>2 DEF IInv, Rows
  <2>4. series'[g].members = series[g].members /\ series'[g].household = series[g].household
    BY <2>2, <2>3
  <2>5. Known(g)
    BY <1>5 DEF Decide, Undecided, Known
  <2>6. \A f \in Fingerprint : f # g => series'[f] = series[f]
    BY <2>1 DEF IInv, Rows
  <2>7. \A f \in Fingerprint : /\ Members(f)' \subseteq Members(f)
                               /\ Known(f) => series'[f].household = series[f].household
    BY <2>4, <2>5, <2>6 DEF Members, Known
  <2> QED BY <1>1, <1>5, <2>7 DEF Decide
<1>6. CASE series' = series /\ ledger \subseteq ledger'
  BY <1>1, <1>6 DEF Members, Known
<1>7. \/ \E p \in Scanner : InsertSeries(p) \/ InsertMember(p)
      \/ CommitRollback
      \/ \E g \in Fingerprint : Decide(g)
      \/ series' = series /\ ledger \subseteq ledger'
  BY DEF Next, vars, NextDay, CommitImport, PairPayment, ScanStep, ReadTransactions,
     ReadMembers, DetectCandidates, EndScan, AbandonScan
<1> QED BY <1>2, <1>3, <1>4, <1>5, <1>6, <1>7

\* Whatever scans, imports and rollbacks interleave, a series has stored
\* bookings of its own pattern and household only, and no booking is in two
\* (a member that a rollback deleted fails the foreign key, a member of
\* another series the unique index; the candidates of a scan are chains of
\* payments of one group of its household, DetectRecurringSeries).
THEOREM MembersOwn == Spec => []MembersBelong
<1>1. Init => Carried /\ MembersBelong
  BY DEF Init, Carried, Carries, MembersBelong, Members, Known, Unknown
<1> QED BY Invariance, CarryStep, BelongStep, <1>1, PTL DEF Spec

-----------------------------------------------------------------------------
(* Which series the detection finds in any history of payments.            *)

Tx == [id : Nat, group : {1}, day : Nat]
Interval == [name : STRING, target : Nat, tolerance : Nat, min : Nat \ {0, 1}]

\* Payments with their numbers as ids, in the order of their days.
Numbered(p) ==
    /\ p \in Seq(Tx)
    /\ \A i \in 1..Len(p) : p[i].id = i /\ \A j \in 1..i : p[j].day <= p[i].day

\* Payment number b is the first of p that may follow number a.
IsNext(p, spec, a, b) ==
    /\ b \in 1..Len(p) /\ MayFollow(p[a], p[b], spec)
    /\ \A j \in 1..Len(p) : MayFollow(p[a], p[j], spec) => b <= j

\* The numbers of a chain, each the first that may follow the one before.
IsChain(c, p, spec, start) ==
    /\ c \in Seq(1..Len(p)) /\ c # <<>> /\ c[1] = start
    /\ \A k \in 1..Len(c) - 1 : IsNext(p, spec, c[k], c[k + 1])

\* None of the first i payments may follow the last of the chain.
Exhausts(c, p, spec, i) == \A j \in 1..i : ~MayFollow(p[c[Len(c)]], p[j], spec)

\* The distance to a sum is that of the difference to its other part.
LEMMA AwayShift ==
    ASSUME NEW a \in Int, NEW b \in Int, NEW c \in Int
    PROVE  Away(a, b + c) = Away(a - b, c)
BY DEF Away

\* Which payment may follow which, by their numbers and days.
LEMMA FollowersOf ==
    ASSUME NEW p, Numbered(p), NEW spec \in Interval, NEW a \in 1..Len(p), NEW b \in 1..Len(p)
    PROVE  /\ MayFollow(p[a], p[b], spec) <=>
                b > a /\ Away(p[b].day, p[a].day + spec.target) <= spec.tolerance
           /\ p[a].day \in Nat /\ p[b].day \in Nat /\ spec.target \in Nat /\ spec.tolerance \in Nat
           /\ b <= a => p[b].day <= p[a].day
<1>1. p[a] \in Tx /\ p[b] \in Tx /\ p[a].id = a /\ p[b].id = b /\ (b <= a => p[b].day <= p[a].day)
  BY DEF Numbered
<1>2. p[a].day \in Nat /\ p[b].day \in Nat /\ spec.target \in Nat /\ spec.tolerance \in Nat
  BY <1>1 DEF Tx, Interval
<1>3. Away(p[b].day, p[a].day + spec.target) = Away(p[b].day - p[a].day, spec.target)
  <2>1. p[b].day \in Int /\ p[a].day \in Int /\ spec.target \in Int
    BY <1>2
  <2> QED BY <2>1, AwayShift
<1> QED BY <1>1, <1>2, <1>3 DEF MayFollow

\* A day after one that comes too late is too late.
LEMMA StillFurther ==
    ASSUME NEW here \in Nat, NEW day \in Nat, NEW due \in Nat, NEW tolerance \in Nat,
           here > due, here <= day, ~(Away(here, due) <= tolerance)
    PROVE  ~(Away(day, due) <= tolerance)
<1>1. Away(here, due) = here - due /\ Away(day, due) = day - due
  BY DEF Away
<1> QED BY <1>1

\* The chain numbers c after turn i of the inner loop.
Reached(acc, p, spec, start, i, c) ==
    /\ IsChain(c, p, spec, start) /\ acc.chain = [k \in 1..Len(c) |-> p[c[k]]]
    /\ c[Len(c)] <= i /\ Exhausts(c, p, spec, i)
    /\ acc.ended => Exhausts(c, p, spec, Len(p))

\* The chain is its first payment until the turn of that payment.
LEMMA ReachedStart ==
    ASSUME NEW p, Numbered(p), NEW spec \in Interval, NEW start \in 1..Len(p)
    PROVE  Reached(ChainStart(p, start), p, spec, start, start, <<start>>)
<1> DEFINE c == <<start>>
<1>1. c \in Seq(1..Len(p)) /\ c # <<>> /\ Len(c) = 1 /\ c[1] = start
  OBVIOUS
<1>2. [k \in 1..1 |-> p[c[k]]] = <<p[start]>>
  OBVIOUS
<1>3. \A j \in 1..start : ~MayFollow(p[start], p[j], spec)
  <2>1. ASSUME NEW j \in 1..start PROVE ~MayFollow(p[start], p[j], spec)
    <3>1. j \in 1..Len(p) /\ ~(j > start)
      OBVIOUS
    <3> QED BY <3>1, FollowersOf
  <2> QED BY <2>1
<1>4. ChainStart(p, start).chain = <<p[start]>> /\ ChainStart(p, start).ended = FALSE
  BY DEF ChainStart
<1> HIDE DEF c
<1>5. 1..Len(c) - 1 = {}
  BY <1>1
<1>6. IsChain(c, p, spec, start)
  BY <1>1, <1>5 DEF IsChain
<1>7. Reached(ChainStart(p, start), p, spec, start, start, c)
  BY <1>1, <1>2, <1>3, <1>4, <1>6 DEF Reached, Exhausts
<1> QED BY <1>7 DEF c

\* A turn keeps the chain regular and complete up to its own payment.
LEMMA ReachedTurn ==
    ASSUME NEW p, Numbered(p), NEW spec \in Interval, NEW start \in 1..Len(p), NEW i \in 1..Len(p),
           NEW acc \in ChainState(Tx), NEW c, Reached(acc, p, spec, start, i - 1, c)
    PROVE  \E d : Reached(ChainTurn(p, spec, acc, i), p, spec, start, i, d)
<1> DEFINE N == Len(p)
           last == c[Len(c)]
           x == p[i]
           expected == p[last].day + spec.target
           turned == ChainTurn(p, spec, acc, i)
<1>1. N \in Nat /\ i \in Nat
  BY DEF Numbered
<1>2. /\ c \in Seq(1..N) /\ c # <<>> /\ c[1] = start
      /\ \A k \in 1..Len(c) - 1 : IsNext(p, spec, c[k], c[k + 1])
      /\ acc.chain = [k \in 1..Len(c) |-> p[c[k]]] /\ last <= i - 1
      /\ \A j \in 1..i - 1 : ~MayFollow(p[last], p[j], spec)
      /\ acc.ended => \A j \in 1..N : ~MayFollow(p[last], p[j], spec)
  BY DEF Reached, IsChain, Exhausts
<1>3. Len(c) \in Nat \ {0} /\ last \in 1..N /\ 1 \in 1..Len(c)
  BY <1>2
<1>4. Len(acc.chain) = Len(c) /\ acc.chain[Len(c)] = p[last]
  BY <1>2, <1>3
<1>5. expected \in Nat /\ x.day \in Nat /\ spec.tolerance \in Nat
  BY <1>3, FollowersOf
<1>6. \A j \in 1..N : MayFollow(p[last], p[j], spec) <=>
                        j > last /\ Away(p[j].day, expected) <= spec.tolerance
  BY <1>3, FollowersOf
<1>7. acc.chain \in Seq(Tx) /\ acc.ended \in BOOLEAN
  BY DEF ChainState
<1> HIDE DEF N, last, x, expected
<1>8. CASE acc.ended
  <2>1. turned = acc
    BY <1>8 DEF ChainTurn
  <2>2. \A j \in 1..i : j \in 1..N
    BY <1>1 DEF N
  <2>3. last <= i
    BY <1>1, <1>2, <1>3
  <2>4. Reached(acc, p, spec, start, i, c)
    BY <1>2, <1>8, <2>2, <2>3 DEF Reached, Exhausts, N, last
  <2> QED BY <2>1, <2>4
<1>9. CASE ~acc.ended /\ Away(x.day, expected) <= spec.tolerance
  <2>1. turned = [acc EXCEPT !.chain = Append(@, x)]
    BY <1>4, <1>9 DEF ChainTurn, expected, x
  <2>2. i \in 1..N /\ i > last
    BY <1>1, <1>2, <1>3 DEF N
  <2>3. MayFollow(p[last], p[i], spec)
    BY <1>6, <1>9, <2>2 DEF x
  <2>4. IsNext(p, spec, last, i)
    <3>1. ASSUME NEW j \in 1..N, MayFollow(p[last], p[j], spec) PROVE i <= j
      BY <1>1, <1>2, <3>1
    <3> QED BY <2>2, <2>3, <3>1 DEF IsNext, N
  <2> DEFINE d == Append(c, i)
  <2>5. /\ d \in Seq(1..N) /\ d # <<>> /\ Len(d) = Len(c) + 1 /\ d[Len(c) + 1] = i
        /\ \A k \in 1..Len(c) : d[k] = c[k]
    BY <1>2, <2>2
  <2> HIDE DEF d
  <2>12. Len(d) - 1 = Len(c)
    <3>1. Len(d) = Len(c) + 1
      BY <2>5
    <3>2. PICK m, n : m \in Nat /\ m = Len(c) /\ n = Len(d)
      BY <1>3
    <3>3. n = m + 1
      BY <3>1, <3>2
    <3>4. n - 1 = m
      BY <3>2, <3>3
    <3> QED BY <3>2, <3>4
  <2>6. IsChain(d, p, spec, start)
    <3>1. ASSUME NEW k \in 1..Len(c) PROVE IsNext(p, spec, d[k], d[k + 1])
      <4>1. CASE k = Len(c)
        BY <1>3, <2>4, <2>5, <4>1 DEF last
      <4>2. CASE k # Len(c)
        <5>2. k \in 1..Len(c) - 1 /\ k \in 1..Len(c) /\ k + 1 \in 1..Len(c)
          <6>1. PICK m \in Nat : m = Len(c)
            BY <1>3
          <6>2. k \in 1..m /\ k # m
            BY <4>2, <6>1
          <6>3. k \in 1..m - 1 /\ k \in 1..m /\ k + 1 \in 1..m
            BY <6>2
          <6> QED BY <6>1, <6>3
        <5> QED BY <1>2, <2>5, <5>2
      <4> QED BY <4>1, <4>2
    <3>2. d[1] = start
      BY <1>2, <1>3, <2>5
    <3> QED BY <2>5, <2>12, <3>1, <3>2 DEF IsChain, N
  <2>7. turned.chain = Append(acc.chain, x) /\ turned.ended = FALSE
    BY <1>9, <2>1 DEF ChainState
  <2>8. turned.chain = [k \in 1..Len(d) |-> p[d[k]]]
    <3>1. x \in Tx
      BY DEF x, Numbered
    <3>2. /\ Append(acc.chain, x) \in Seq(Tx) /\ Len(Append(acc.chain, x)) = Len(c) + 1
          /\ Append(acc.chain, x)[Len(c) + 1] = x
          /\ \A k \in 1..Len(c) : Append(acc.chain, x)[k] = acc.chain[k]
      BY <1>4, <1>7, <3>1
    <3>3. Append(acc.chain, x) = [k \in 1..Len(c) + 1 |-> Append(acc.chain, x)[k]]
      BY <3>2
    <3>4. \A k \in 1..Len(c) + 1 : p[d[k]] = Append(acc.chain, x)[k]
      <4>1. \A k \in 1..Len(c) + 1 : k = Len(c) + 1 \/ k \in 1..Len(c)
        BY <1>3
      <4>2. \A k \in 1..Len(c) : acc.chain[k] = p[c[k]]
        BY <1>2
      <4> QED BY <2>5, <3>2, <4>1, <4>2 DEF x
    <3> QED BY <2>5, <2>7, <3>3, <3>4
  <2>9. \A j \in 1..i : ~MayFollow(p[i], p[j], spec)
    <3>1. ASSUME NEW j \in 1..i PROVE ~MayFollow(p[i], p[j], spec)
      <4>1. j \in 1..Len(p) /\ ~(j > i)
        BY <1>1 DEF N
      <4> QED BY <4>1, FollowersOf
    <3> QED BY <3>1
  <2>10. d[Len(d)] = i
    BY <2>5
  <2>11. Reached(turned, p, spec, start, i, d)
    <3>1. Exhausts(d, p, spec, i)
      BY <2>9, <2>10 DEF Exhausts
    <3>2. d[Len(d)] <= i
      BY <1>1, <2>10
    <3> HIDE DEF turned
    <3> QED BY <2>6, <2>7, <2>8, <3>1, <3>2 DEF Reached
  <2> QED BY <2>11
<1>10. CASE ~acc.ended /\ ~(Away(x.day, expected) <= spec.tolerance)
  <2>1. turned = [acc EXCEPT !.ended = x.day > expected]
    BY <1>4, <1>10 DEF ChainTurn, expected, x
  <2>2. turned.chain = acc.chain /\ turned.ended = (x.day > expected)
    BY <2>1 DEF ChainState
  <2>3. \A j \in 1..i : ~MayFollow(p[last], p[j], spec)
    <3>1. i \in 1..N /\ \A j \in 1..i : j = i \/ j \in 1..i - 1
      BY <1>1 DEF N
    <3> QED BY <1>2, <1>6, <1>10, <3>1 DEF x
  <2>4. ASSUME x.day > expected, NEW j \in 1..N PROVE ~MayFollow(p[last], p[j], spec)
    <3>1. CASE j <= i
      BY <1>1, <2>3, <3>1
    <3>2. CASE j > i
      <4>1. x.day <= p[j].day /\ p[j].day \in Nat
        BY <3>2, FollowersOf DEF N, x
      <4>2. PICK day \in Nat : day = p[j].day /\ x.day <= day
        BY <4>1
      <4>3. PICK here, due, tolerance \in Nat : here = x.day /\ due = expected /\ tolerance = spec.tolerance
        BY <1>5
      <4>4. ~(Away(here, due) <= tolerance) /\ here > due
        BY <1>10, <2>4, <4>3
      <4>5. ~(Away(day, due) <= tolerance)
        BY <4>2, <4>3, <4>4, StillFurther
      <4> QED BY <1>6, <4>2, <4>3, <4>5
    <3> QED BY <1>1, <3>1, <3>2
  <2>5. last <= i
    BY <1>1, <1>2, <1>3
  <2>6. IsChain(c, p, spec, start)
    BY DEF Reached
  <2> HIDE DEF turned
  <2>7. Reached(turned, p, spec, start, i, c)
    BY <1>2, <2>2, <2>3, <2>4, <2>5, <2>6 DEF Reached, Exhausts, N, last
  <2> QED BY <2>7 DEF turned
<1> QED BY <1>8, <1>9, <1>10

\* The chain from a payment on takes the first that may follow each time, until none may.
LEMMA ChainComplete ==
    ASSUME NEW p, Numbered(p), NEW spec \in Interval, NEW start \in 1..Len(p)
    PROVE  \E c : /\ IsChain(c, p, spec, start) /\ Exhausts(c, p, spec, Len(p))
                  /\ ChainFrom(p, spec, start) = [k \in 1..Len(c) |-> p[c[k]]]
<1> DEFINE N == Len(p)
<1>1. N \in Nat /\ p \in Seq(Tx)
  BY DEF Numbered
<1>2. PICK upTo \in [0..N -> ChainState(Tx)] :
        /\ ChainFrom(p, spec, start) = upTo[N].chain
        /\ \A i \in 0..N : upTo[i] = IF i <= start THEN ChainStart(p, start)
                                     ELSE ChainTurn(p, spec, upTo[i - 1], i)
  <2>1. PICK f : InnerLoop(f, p, spec, start, Tx)
    BY <1>1, ChainTurns
  <2> QED BY <2>1 DEF InnerLoop
<1> DEFINE Fine == {i \in 0..N : i >= start => \E c : Reached(upTo[i], p, spec, start, i, c)}
<1>3. 0 \in Fine
  BY <1>1
<1>4. ASSUME NEW i \in 1..N, i - 1 \in Fine PROVE i \in Fine
  <2>1. i \in 0..N /\ i - 1 \in 0..N
    BY <1>1
  <2>2. CASE i < start
    BY <2>1, <2>2
  <2>3. CASE i = start
    <3>1. upTo[i] = ChainStart(p, start)
      BY <1>2, <2>1, <2>3
    <3> QED BY <2>1, <2>3, <3>1, ReachedStart
  <2>4. CASE i > start
    <3>1. upTo[i] = ChainTurn(p, spec, upTo[i - 1], i)
      BY <1>2, <2>1, <2>4
    <3>2. PICK c : Reached(upTo[i - 1], p, spec, start, i - 1, c)
      BY <1>1, <1>4, <2>4
    <3>3. upTo[i - 1] \in ChainState(Tx)
      BY <1>2, <2>1
    <3>4. \E d : Reached(ChainTurn(p, spec, upTo[i - 1], i), p, spec, start, i, d)
      BY <3>2, <3>3, ReachedTurn
    <3> QED BY <2>1, <3>1, <3>4
  <2> QED BY <1>1, <2>2, <2>3, <2>4
<1>5. \A i \in 0..N : i \in Fine
  <2> HIDE DEF Fine
  <2> QED BY <1>1, <1>3, <1>4, Induct
<1>6. PICK c : Reached(upTo[N], p, spec, start, N, c)
  BY <1>1, <1>5
<1> QED BY <1>2, <1>6 DEF Reached

\* The chains from two payments are compared by their lengths.
ChainLen(p, spec, k) == Len(ChainFrom(p, spec, k))

\* A chain has a first payment, and no other if it is of one payment.
LEMMA ChainShape ==
    ASSUME NEW p, Numbered(p), NEW spec \in Interval, NEW start \in 1..Len(p)
    PROVE  /\ ChainLen(p, spec, start) \in Nat \ {0}
           /\ ChainFrom(p, spec, start)[1] = p[start]
           /\ ChainLen(p, spec, start) = 1 => ChainFrom(p, spec, start) = <<p[start]>>
<1>1. PICK c : /\ IsChain(c, p, spec, start) /\ Exhausts(c, p, spec, Len(p))
               /\ ChainFrom(p, spec, start) = [k \in 1..Len(c) |-> p[c[k]]]
  BY ChainComplete
<1>2. c \in Seq(1..Len(p)) /\ c # <<>> /\ c[1] = start
  BY <1>1 DEF IsChain
<1>3. PICK m \in Nat \ {0} : m = Len(c)
  BY <1>2
<1>4. ChainFrom(p, spec, start) = [k \in 1..m |-> p[c[k]]] /\ 1 \in 1..m
  BY <1>1, <1>3
<1>5. Len([k \in 1..m |-> p[c[k]]]) = m /\ [k \in 1..m |-> p[c[k]]][1] = p[start]
  BY <1>2, <1>3
<1>6. m = 1 => [k \in 1..m |-> p[c[k]]] = <<p[start]>>
  BY <1>2
<1> QED BY <1>4, <1>5, <1>6 DEF ChainLen

\* The longest chain is the first of those none is longer than.
IsLongest(chain, p, spec, start, i) ==
    /\ start \in 1..i /\ chain = ChainFrom(p, spec, start)
    /\ \A k \in 1..i : /\ ChainLen(p, spec, k) <= ChainLen(p, spec, start)
                       /\ ChainLen(p, spec, k) = ChainLen(p, spec, start) => start <= k

\* The outer loop finds the first of the longest chains.
LEMMA LongestComplete ==
    ASSUME NEW p, Numbered(p), p # <<>>, NEW spec \in Interval
    PROVE  \E start : IsLongest(ExtractIntervalChain(p, spec), p, spec, start, Len(p))
<1> DEFINE N == Len(p)
           L(k) == ChainLen(p, spec, k)
<1>1. N \in Nat \ {0} /\ p \in Seq(Tx)
  BY DEF Numbered
<1>2. PICK best \in [0..N -> Seq(Tx) \ {<<>>}] :
        /\ ExtractIntervalChain(p, spec) = best[N] /\ best[0] = <<p[1]>>
        /\ \A i \in 1..N : best[i] = IF Longer(ChainFrom(p, spec, i), best[i - 1])
                                     THEN ChainFrom(p, spec, i) ELSE best[i - 1]
  <2>1. PICK f : OuterLoop(f, p, spec, Tx)
    BY <1>1, LongestTurns
  <2> QED BY <2>1 DEF OuterLoop
<1>3. \A k \in 1..N : L(k) \in Nat \ {0}
  BY ChainShape
<1> DEFINE Fine == {i \in 0..N : i # 0 => \E start : IsLongest(best[i], p, spec, start, i)}
<1>4. 0 \in Fine
  BY <1>1
<1>5. ASSUME NEW i \in 1..N, i - 1 \in Fine PROVE i \in Fine
  <2>1. i \in 0..N /\ i - 1 \in 0..N
    BY <1>1
  <2>2. best[i] = IF Longer(ChainFrom(p, spec, i), best[i - 1])
                  THEN ChainFrom(p, spec, i) ELSE best[i - 1]
    BY <1>2
  <2>3. CASE i = 1
    <3>1. Len(best[0]) = 1 /\ i - 1 = 0
      BY <1>2, <2>3
    <3>2. best[i] = IF L(1) > 1 THEN ChainFrom(p, spec, 1) ELSE <<p[1]>>
      BY <1>2, <2>2, <2>3, <3>1 DEF Longer, ChainLen
    <3>3. best[i] = ChainFrom(p, spec, 1)
      <4>1. 1 \in 1..N
        BY <1>1
      <4>2. L(1) = 1 => ChainFrom(p, spec, 1) = <<p[1]>>
        BY <4>1, ChainShape
      <4> QED BY <1>3, <3>2, <4>1, <4>2
    <3>4. \A k \in 1..i : k = 1
      BY <2>3
    <3>5. L(1) \in Nat
      BY <1>1, <1>3
    <3>6. IsLongest(best[i], p, spec, 1, i)
      BY <2>3, <3>3, <3>4, <3>5 DEF IsLongest
    <3> QED BY <2>1, <3>6
  <2>4. CASE i # 1
    <3>1. PICK s : IsLongest(best[i - 1], p, spec, s, i - 1)
      BY <1>1, <1>5, <2>4
    <3>2. s \in 1..N /\ s <= i - 1 /\ best[i - 1] = ChainFrom(p, spec, s)
      BY <1>1, <3>1 DEF IsLongest
    <3>3. \A k \in 1..i : k = i \/ k \in 1..i - 1
      BY <1>1
    <3>4. CASE L(i) > L(s)
      <4>1. best[i] = ChainFrom(p, spec, i)
        BY <2>2, <3>2, <3>4 DEF Longer, ChainLen
      <4>2. ASSUME NEW k \in 1..i PROVE L(k) <= L(i) /\ (L(k) = L(i) => i <= k)
        <5>1. L(k) \in Nat /\ L(i) \in Nat /\ L(s) \in Nat
          BY <1>1, <1>3, <3>2
        <5>2. k = i \/ L(k) <= L(s)
          BY <3>1, <3>3 DEF IsLongest
        <5> QED BY <1>1, <3>4, <5>1, <5>2
      <4>3. IsLongest(best[i], p, spec, i, i)
        BY <1>1, <4>1, <4>2 DEF IsLongest
      <4> QED BY <2>1, <4>3
    <3>5. CASE ~(L(i) > L(s))
      <4>1. best[i] = ChainFrom(p, spec, s)
        BY <2>2, <3>2, <3>5 DEF Longer, ChainLen
      <4>2. ASSUME NEW k \in 1..i PROVE L(k) <= L(s) /\ (L(k) = L(s) => s <= k)
        <5>1. L(k) \in Nat /\ L(i) \in Nat /\ L(s) \in Nat
          BY <1>1, <1>3, <3>2
        <5>2. k = i \/ (L(k) <= L(s) /\ (L(k) = L(s) => s <= k))
          BY <3>1, <3>3 DEF IsLongest
        <5> QED BY <1>1, <3>2, <3>5, <5>1, <5>2
      <4>3. IsLongest(best[i], p, spec, s, i)
        <5>1. s \in 1..i
          BY <1>1, <3>2
        <5> QED BY <4>1, <4>2, <5>1 DEF IsLongest
      <4> QED BY <2>1, <4>3
    <3> QED BY <3>4, <3>5
  <2> QED BY <2>3, <2>4
<1>6. \A i \in 0..N : i \in Fine
  <2> HIDE DEF Fine
  <2> QED BY <1>1, <1>4, <1>5, Induct
<1> QED BY <1>1, <1>2, <1>6

\* Two chains from one payment that end where none may follow are as long.
LEMMA NotLonger ==
    ASSUME NEW p, Numbered(p), NEW spec \in Interval, NEW start,
           NEW c, IsChain(c, p, spec, start),
           NEW d, IsChain(d, p, spec, start), Exhausts(d, p, spec, Len(p))
    PROVE  Len(c) <= Len(d)
<1>1. PICK m \in Nat \ {0}, n \in Nat \ {0} : m = Len(c) /\ n = Len(d)
  BY DEF IsChain
<1>2. SUFFICES ASSUME n < m PROVE FALSE
  BY <1>1
<1>3. /\ c[1] = start /\ \A k \in 1..m - 1 : IsNext(p, spec, c[k], c[k + 1])
      /\ d[1] = start /\ \A k \in 1..n - 1 : IsNext(p, spec, d[k], d[k + 1])
  BY <1>1 DEF IsChain
<1> DEFINE Same == {k \in 0..n : k # 0 => c[k] = d[k]}
<1>4. ASSUME NEW k \in 1..n, k - 1 \in Same PROVE k \in Same
  <2>1. CASE k = 1
    BY <1>3, <2>1
  <2>2. CASE k # 1
    <3>1. k - 1 \in 1..n - 1 /\ k - 1 \in 1..m - 1 /\ k - 1 + 1 = k
      BY <1>1, <1>2, <2>2
    <3>2. IsNext(p, spec, c[k - 1], c[k]) /\ IsNext(p, spec, d[k - 1], d[k]) /\ c[k - 1] = d[k - 1]
      <4>1. PICK q : q = k - 1
        OBVIOUS
      <4>2. IsNext(p, spec, c[q], c[q + 1]) /\ IsNext(p, spec, d[q], d[q + 1]) /\ q + 1 = k
        BY <1>3, <3>1, <4>1
      <4> QED BY <1>4, <3>1, <4>1, <4>2
    <3>3. c[k] <= d[k] /\ d[k] <= c[k] /\ c[k] \in 1..Len(p) /\ d[k] \in 1..Len(p)
      BY <3>2 DEF IsNext
    <3> QED BY <3>3
  <2> QED BY <2>1, <2>2
<1>5. \A k \in 0..n : k \in Same
  <2>1. 0 \in Same
    OBVIOUS
  <2> HIDE DEF Same
  <2> QED BY <1>1, <1>4, <2>1, Induct
<1>6. c[n] = d[n] /\ n \in 1..m - 1
  BY <1>1, <1>2, <1>5
<1>7. IsNext(p, spec, c[n], c[n + 1])
  BY <1>3, <1>6
<1>8. c[n + 1] \in 1..Len(p) /\ MayFollow(p[d[n]], p[c[n + 1]], spec)
  BY <1>6, <1>7 DEF IsNext
<1> QED BY <1>1, <1>8 DEF Exhausts

\* So they are of one length.
LEMMA LengthsMeet ==
    ASSUME NEW p, Numbered(p), NEW spec \in Interval, NEW start,
           NEW c, IsChain(c, p, spec, start), Exhausts(c, p, spec, Len(p)),
           NEW d, IsChain(d, p, spec, start), Exhausts(d, p, spec, Len(p))
    PROVE  Len(c) = Len(d)
<1>1. PICK m \in Nat, n \in Nat : m = Len(c) /\ n = Len(d)
  BY DEF IsChain
<1>2. m <= n /\ n <= m
  BY <1>1, NotLonger
<1> QED BY <1>1, <1>2

\* What is left of a chain after its first payment is the chain from the second.
LEMMA TailComplete ==
    ASSUME NEW p, Numbered(p), NEW spec \in Interval, NEW start,
           NEW c, IsChain(c, p, spec, start), Exhausts(c, p, spec, Len(p)), Len(c) # 1
    PROVE  \E t : /\ IsChain(t, p, spec, c[2]) /\ Exhausts(t, p, spec, Len(p))
                  /\ Len(c) = 1 + Len(t) /\ IsNext(p, spec, start, c[2])
<1>1. PICK m \in Nat : m = Len(c) /\ m > 1
  <2>1. PICK m \in Nat : m = Len(c) /\ m # 0
    BY DEF IsChain
  <2> QED BY <2>1
<1>2. /\ c \in Seq(1..Len(p)) /\ c[1] = start
      /\ \A k \in 1..m - 1 : IsNext(p, spec, c[k], c[k + 1])
  BY <1>1 DEF IsChain
<1>3. \A k \in 1..m : c[k] \in 1..Len(p)
  BY <1>1, <1>2
<1> DEFINE t == [k \in 1..m - 1 |-> c[k + 1]]
<1>4. t \in Seq(1..Len(p)) /\ Len(t) = m - 1
  BY <1>1, <1>3
<1>5. t[1] = c[2] /\ t[m - 1] = c[m] /\ t # <<>>
  <2>1. 1 \in 1..m - 1 /\ m - 1 \in 1..m - 1 /\ 1 + 1 = 2 /\ m - 1 + 1 = m
    BY <1>1
  <2>2. t[1] = c[1 + 1] /\ t[m - 1] = c[m - 1 + 1]
    BY <2>1
  <2>3. Len(t) # 0
    BY <1>1, <1>4
  <2> QED BY <2>1, <2>2, <2>3
<1>6. ASSUME NEW k \in 1..m - 2 PROVE IsNext(p, spec, t[k], t[k + 1])
  <2>1. k \in 1..m - 1 /\ k + 1 \in 1..m - 1
    BY <1>1
  <2>2. t[k] = c[k + 1] /\ t[k + 1] = c[k + 1 + 1]
    BY <2>1
  <2> HIDE DEF t
  <2> QED BY <1>2, <2>1, <2>2
<1> HIDE DEF t
<1>7. Len(t) - 1 = m - 2
  BY <1>1, <1>4
<1>8. IsChain(t, p, spec, c[2])
  BY <1>4, <1>5, <1>6, <1>7 DEF IsChain
<1>9. Exhausts(t, p, spec, Len(p))
  BY <1>1, <1>4, <1>5 DEF Exhausts
<1>10. IsNext(p, spec, start, c[2])
  <2>1. 1 \in 1..m - 1 /\ 1 + 1 = 2
    BY <1>1
  <2> QED BY <1>2, <2>1
<1>11. Len(c) = 1 + Len(t)
  BY <1>1, <1>4
<1> QED BY <1>8, <1>9, <1>10, <1>11

\* The payments that may follow number k, and the first of them.
Nexts(p, spec, k) == {j \in DOMAIN p : MayFollow(p[k], p[j], spec)}
FirstNext(p, spec, k) == CHOOSE j \in Nexts(p, spec, k) : \A i \in Nexts(p, spec, k) : j <= i

\* A chain is one payment if none may follow, or else one longer than the chain from
\* the first that may.
LEMMA LengthUnfolds ==
    ASSUME NEW p, Numbered(p), NEW spec \in Interval, NEW k \in 1..Len(p)
    PROVE  IF Nexts(p, spec, k) = {} THEN ChainLen(p, spec, k) = 1
           ELSE /\ FirstNext(p, spec, k) \in Nexts(p, spec, k)
                /\ ChainLen(p, spec, k) = 1 + ChainLen(p, spec, FirstNext(p, spec, k))
<1> DEFINE next == Nexts(p, spec, k)
           first == FirstNext(p, spec, k)
<1>0. DOMAIN p = 1..Len(p) /\ Len(p) \in Nat
  BY DEF Numbered
<1>1. PICK c : /\ IsChain(c, p, spec, k) /\ Exhausts(c, p, spec, Len(p))
               /\ ChainFrom(p, spec, k) = [i \in 1..Len(c) |-> p[c[i]]]
  BY ChainComplete
<1>2. PICK m \in Nat \ {0} : m = Len(c) /\ c[1] = k /\ c \in Seq(1..Len(p))
  BY <1>1 DEF IsChain
<1>3. ChainLen(p, spec, k) = m
  <2>1. Len([i \in 1..m |-> p[c[i]]]) = m
    OBVIOUS
  <2> QED BY <1>1, <1>2, <2>1 DEF ChainLen
<1>4. CASE m = 1
  <2>1. next = {}
    BY <1>0, <1>1, <1>2, <1>4 DEF Exhausts, Nexts
  <2> QED BY <1>3, <1>4, <2>1
<1>5. CASE m # 1
  <2>1. Len(c) # 1
    BY <1>2, <1>5
  <2>2. PICK t : /\ IsChain(t, p, spec, c[2]) /\ Exhausts(t, p, spec, Len(p))
                 /\ Len(c) = 1 + Len(t) /\ IsNext(p, spec, k, c[2])
    BY <1>1, <2>1, TailComplete
  <2>3. c[2] \in next /\ \A i \in next : c[2] <= i
    BY <1>0, <2>2 DEF IsNext, Nexts
  <2>4. first = c[2]
    <3>1. first \in next /\ \A i \in next : first <= i
      BY <2>3 DEF FirstNext
    <3>0. next \subseteq Nat
      BY <1>0 DEF Nexts
    <3>2. PICK x, y : x = first /\ y = c[2]
      OBVIOUS
    <3>3. x \in Nat /\ y \in Nat /\ x <= y /\ y <= x
      BY <2>3, <3>0, <3>1, <3>2
    <3>4. x = y
      BY <3>3
    <3> QED BY <3>2, <3>4
  <2>5. PICK d : /\ IsChain(d, p, spec, c[2]) /\ Exhausts(d, p, spec, Len(p))
                 /\ ChainFrom(p, spec, c[2]) = [i \in 1..Len(d) |-> p[d[i]]]
    <3>1. c[2] \in 1..Len(p)
      BY <2>2 DEF IsNext
    <3>2. PICK s \in 1..Len(p) : s = c[2]
      BY <3>1
    <3>3. PICK d : /\ IsChain(d, p, spec, s) /\ Exhausts(d, p, spec, Len(p))
                   /\ ChainFrom(p, spec, s) = [i \in 1..Len(d) |-> p[d[i]]]
      BY ChainComplete
    <3> QED BY <3>2, <3>3
  <2>6. PICK n \in Nat : n = Len(d)
    BY <2>5 DEF IsChain
  <2>7. ChainLen(p, spec, c[2]) = n
    <3>1. Len([i \in 1..n |-> p[d[i]]]) = n
      OBVIOUS
    <3> QED BY <2>5, <2>6, <3>1 DEF ChainLen
  <2>8. Len(t) = Len(d)
    BY <2>2, <2>5, LengthsMeet
  <2>9. m = 1 + n
    BY <1>2, <2>2, <2>6, <2>8
  <2> QED BY <1>3, <2>3, <2>4, <2>7, <2>9
<1> QED BY <1>4, <1>5

\* The lengths the property recurs to are those of the chains.
LEMMA LengthsFound ==
    ASSUME Numbered(payments), NEW spec \in Interval, NEW k \in DOMAIN payments
    PROVE  Lengths(spec)[k] = ChainLen(payments, spec, k)
<1> DEFINE N == Len(payments)
           next(i) == Nexts(payments, spec, i)
           first(i) == FirstNext(payments, spec, i)
           L(i) == ChainLen(payments, spec, i)
           Body(from) == [i \in DOMAIN payments |-> IF next(i) = {} THEN 1 ELSE 1 + from[first(i)]]
<1>1. N \in Nat /\ DOMAIN payments = 1..N
  BY DEF Numbered
<1>2. ASSUME NEW i \in 1..N
      PROVE  /\ next(i) = {} => L(i) = 1
             /\ next(i) # {} => first(i) \in next(i) /\ L(i) = 1 + L(first(i))
  BY LengthUnfolds
<1>3. ASSUME NEW i \in 1..N, NEW j \in next(i) PROVE j \in 1..N /\ j > i
  <2>1. j \in 1..N /\ MayFollow(payments[i], payments[j], spec)
    BY <1>1 DEF Nexts
  <2> QED BY <2>1, FollowersOf
<1>4. Lengths(spec) = CHOOSE from : from = Body(from)
  BY DEF Lengths, Nexts, FirstNext
<1> HIDE DEF next, first, L, N
<1> DEFINE f == [i \in DOMAIN payments |-> L(i)]
<1>5. f = Body(f)
  <2>1. ASSUME NEW i \in 1..N PROVE L(i) = IF next(i) = {} THEN 1 ELSE 1 + f[first(i)]
    <3>1. next(i) # {} => f[first(i)] = L(first(i))
      BY <1>1, <1>2, <1>3
    <3> HIDE DEF f
    <3> QED BY <1>2, <3>1
  <2> QED BY <1>1, <2>1
<1> HIDE DEF Body
<1>6. PICK from : from = Body(from) /\ from = Lengths(spec)
  BY <1>4, <1>5
<1>7. \A i \in 1..N : from[i] = IF next(i) = {} THEN 1 ELSE 1 + from[first(i)]
  BY <1>1, <1>6 DEF Body
<1> DEFINE Same == {m \in 0..N : \A i \in 1..N : i + m > N => from[i] = L(i)}
<1>8. 0 \in Same
  BY <1>1
<1>9. ASSUME NEW m \in 1..N, m - 1 \in Same PROVE m \in Same
  <2>1. ASSUME NEW i \in 1..N, i + m > N PROVE from[i] = L(i)
    <3>1. CASE next(i) = {}
      BY <1>2, <1>7, <3>1
    <3>2. CASE next(i) # {}
      <4>1. PICK j : j = first(i)
        OBVIOUS
      <4>2. j \in next(i) /\ L(i) = 1 + L(j) /\ from[i] = 1 + from[j]
        BY <1>2, <1>7, <3>2, <4>1
      <4>3. j \in 1..N /\ j > i
        BY <1>3, <4>2
      <4>4. j + (m - 1) > N
        BY <1>1, <2>1, <4>3
      <4>5. from[j] = L(j)
        BY <1>9, <4>3, <4>4
      <4> QED BY <4>2, <4>5
    <3> QED BY <3>1, <3>2
  <2>2. m \in 0..N
    BY <1>1
  <2> QED BY <2>1, <2>2
<1>10. \A m \in 0..N : m \in Same
  <2> HIDE DEF Same
  <2> QED BY <1>1, <1>8, <1>9, Induct
<1>11. N \in Same /\ k \in 1..N /\ k + N > N
  <2>1. N \in 0..N /\ k \in 1..N
    BY <1>1
  <2> HIDE DEF Same
  <2> QED BY <1>1, <1>10, <2>1
<1>12. from[k] = L(k)
  BY <1>11
<1> QED BY <1>6, <1>12 DEF L

\* What is paid so far is a list of its own kind.
LEMMA PaidInOrder ==
    ASSUME Numbered(payments)
    PROVE  /\ IsFiniteSet(Paid) /\ Cardinality(Paid) = Len(payments)
           /\ Listed(Paid, InOrder(Paid)) = payments
<1> DEFINE N == Len(payments)
<1>1. /\ N \in Nat /\ DOMAIN payments = 1..N /\ payments \in Seq(Tx)
      /\ \A i \in 1..N : /\ payments[i].id = i /\ payments[i].day \in Nat
                         /\ \A j \in 1..i : payments[j].day <= payments[i].day
  <2>1. N \in Nat /\ DOMAIN payments = 1..N /\ payments \in Seq(Tx)
    BY DEF Numbered
  <2>2. \A i \in 1..N : payments[i] \in Tx
    BY <2>1
  <2>3. \A i \in 1..N : payments[i].day \in Nat
    BY <2>2 DEF Tx
  <2> QED BY <2>1, <2>3 DEF Numbered
<1>2. \A t \in Paid : t.id \in 1..N /\ t = payments[t.id]
  BY <1>1 DEF Paid
<1>3. \A i \in 1..N : payments[i] \in Paid
  BY <1>1 DEF Paid
<1>4. ExistsBijection(1..N, Paid)
  <2> DEFINE f == [i \in 1..N |-> payments[i]]
  <2>1. f \in [1..N -> Paid]
    BY <1>3
  <2>2. \A i, j \in 1..N : f[i] = f[j] => i = j
    BY <1>1
  <2>3. \A t \in Paid : \E i \in 1..N : f[i] = t
    BY <1>2
  <2> HIDE DEF f
  <2>4. f \in Bijection(1..N, Paid)
    BY <2>1, <2>2, <2>3 DEF Bijection, Injection, Surjection, IsInjective
  <2> QED BY <2>4 DEF ExistsBijection
<1>5. IsFiniteSet(Paid) /\ Cardinality(Paid) = N
  <2>1. \E n \in Nat : ExistsBijection(1..n, Paid)
    BY <1>1, <1>4
  <2>2. IsFiniteSet(Paid)
    BY <2>1, FS_NatBijection
  <2> QED BY <1>1, <1>4, <2>2, FS_CountingElements
<1>6. ASSUME NEW T \in SUBSET Paid, T # {}
      PROVE  \E s \in T : \A t \in T : <<s, t>> \in InOrder(Paid)
  <2> DEFINE ids == {t.id : t \in T}
  <2>1. ids \in SUBSET Nat /\ ids # {}
    BY <1>1, <1>2, <1>6
  <2>2. PICK i \in ids : \A j \in ids : i <= j
    <3> HIDE DEF ids
    <3> QED BY <2>1, LeastNat
  <2>3. PICK s \in T : s.id = i
    OBVIOUS
  <2>4. ASSUME NEW t \in T PROVE <<s, t>> \in InOrder(Paid)
    <3>1. s.id <= t.id
      BY <2>2, <2>3
    <3>2. s \in Paid /\ t \in Paid /\ s.id \in 1..N /\ t.id \in 1..N
      BY <1>2
    <3>3. s.id \in 1..t.id
      BY <1>1, <3>1, <3>2
    <3>4. payments[s.id].day <= payments[t.id].day /\ payments[s.id].day \in Nat /\ payments[t.id].day \in Nat
      BY <1>1, <3>2, <3>3
    <3>5. s.day <= t.day /\ s.day \in Nat /\ t.day \in Nat
      BY <1>2, <3>2, <3>4
    <3> QED BY <3>1, <3>2, <3>5 DEF InOrder
  <2> QED BY <2>4
<1>7. PICK list \in Seq(Paid) :
        /\ list = Listed(Paid, InOrder(Paid)) /\ Len(list) = Cardinality(Paid)
        /\ \A k, l \in 1..Len(list) : k < l => <<list[k], list[l]>> \in InOrder(Paid) /\ list[k] # list[l]
  <2>1. HasFirsts(Paid, InOrder(Paid))
    BY <1>6 DEF HasFirsts
  <2> QED BY <1>5, <2>1, ListedMembers
<1>8. Len(list) = N /\ \A k \in 1..N : list[k] \in Paid /\ list[k].id \in 1..N
  <2>1. Len(list) = N
    BY <1>5, <1>7
  <2>2. ASSUME NEW k \in 1..N PROVE list[k] \in Paid
    BY <1>7, <2>1
  <2> QED BY <1>2, <2>1, <2>2
<1>9. ASSUME NEW k \in 1..N, NEW l \in 1..N, k < l PROVE list[k].id < list[l].id
  <2>1. PICK s \in Paid, t \in Paid : s = list[k] /\ t = list[l]
    BY <1>8
  <2>2. <<s, t>> \in InOrder(Paid) /\ s # t
    BY <1>7, <1>8, <1>9, <2>1
  <2>3. s.id \in 1..N /\ t.id \in 1..N /\ s = payments[s.id] /\ t = payments[t.id] /\ s.id # t.id
    BY <1>2, <2>2
  <2>4. s.day < t.day \/ (s.day = t.day /\ s.id <= t.id)
    BY <2>2 DEF InOrder
  <2>5. t.id <= s.id => t.day <= s.day
    <3>1. t.id <= s.id => t.id \in 1..s.id
      BY <2>3
    <3>2. \A i \in 1..N : \A j \in 1..i : payments[j].day <= payments[i].day
      BY <1>1
    <3> QED BY <2>3, <3>1, <3>2
  <2>6. s.day \in Nat /\ t.day \in Nat
    BY <1>1, <2>3
  <2>7. PICK a \in Nat, b \in Nat : a = s.id /\ b = t.id
    BY <1>1, <2>3
  <2>8. a < b
    BY <2>3, <2>4, <2>5, <2>6, <2>7
  <2> QED BY <2>1, <2>7, <2>8
<1> DEFINE Above == {i \in 0..N : i # 0 => i <= list[i].id}
           Below == {m \in 0..N : m # 0 => list[N - m + 1].id <= N - m + 1}
<1>10. ASSUME NEW i \in 1..N, i - 1 \in Above PROVE i \in Above
  <2>1. list[i].id \in 1..N
    BY <1>8
  <2>2. CASE i = 1
    BY <1>1, <2>1, <2>2
  <2>3. CASE i # 1
    <3>1. PICK j \in 1..N : j = i - 1 /\ j < i /\ j <= list[j].id
      BY <1>1, <1>10, <2>3
    <3>2. list[j].id < list[i].id /\ list[j].id \in 1..N
      BY <1>8, <1>9, <3>1
    <3> QED BY <1>1, <2>1, <3>1, <3>2
  <2> QED BY <2>2, <2>3
<1>11. ASSUME NEW m \in 1..N, m - 1 \in Below PROVE m \in Below
  <2>1. PICK i \in 1..N : i = N - m + 1
    BY <1>1
  <2>2. list[i].id \in 1..N
    BY <1>8
  <2>3. CASE m = 1
    BY <1>1, <2>1, <2>2, <2>3
  <2>4. CASE m # 1
    <3>1. PICK j \in 1..N : j = N - (m - 1) + 1 /\ j = i + 1 /\ list[j].id <= j
      BY <1>1, <1>11, <2>1, <2>4
    <3>2. list[i].id < list[j].id /\ list[j].id \in 1..N
      BY <1>8, <1>9, <3>1
    <3>3. list[i].id <= i
      BY <1>1, <2>2, <3>1, <3>2
    <3> QED BY <1>1, <2>1, <3>3
  <2> QED BY <2>3, <2>4
<1>12. \A i \in 0..N : i \in Above
  <2>1. 0 \in Above
    BY <1>1
  <2> HIDE DEF Above
  <2> QED BY <1>1, <1>10, <2>1, Induct
<1>13. \A i \in 0..N : i \in Below
  <2>1. 0 \in Below
    BY <1>1
  <2> HIDE DEF Below
  <2> QED BY <1>1, <1>11, <2>1, Induct
<1>14. ASSUME NEW i \in 1..N PROVE list[i] = payments[i]
  <2>1. i <= list[i].id
    BY <1>1, <1>12
  <2>2. PICK m : m = N - i + 1
    OBVIOUS
  <2>5. m \in 1..N /\ N - m + 1 = i
    BY <1>1, <2>2
  <2>3. list[i].id <= i
    <3>1. m \in Below /\ m # 0
      BY <1>1, <1>13, <2>5
    <3> QED BY <2>5, <3>1
  <2>4. list[i].id = i
    BY <1>8, <2>1, <2>3
  <2> QED BY <1>2, <1>8, <2>4
<1>15. list = payments
  <2>1. list = [i \in 1..N |-> list[i]] /\ payments = [i \in 1..N |-> payments[i]]
    BY <1>1, <1>7, <1>8
  <2> QED BY <1>14, <2>1
<1> QED BY <1>5, <1>7, <1>15

\* No interval has a series of more members than the best one.
LEMMA BestHasMost ==
    ASSUME NEW txs, NEW now, \A n \in DOMAIN Specs : Build(txs, Specs[n], now).count \in Nat,
           NEW n \in DOMAIN Specs
    PROVE  Build(txs, Specs[n], now).count <= PickBest(txs, now).count
<1> DEFINE N == Len(Specs)
           B(i) == Build(txs, Specs[i], now)
<1>1. N \in Nat /\ DOMAIN Specs = 1..N
  BY DetectionAssumption
<1>2. PICK best : IntervalLoop(best, txs, now)
  BY BestTurns
<1>3. /\ PickBest(txs, now) = best[N] /\ best[0] = NoSeries
      /\ \A i \in 1..N : best[i] = IF Better(B(i), best[i - 1]) THEN B(i) ELSE best[i - 1]
  BY <1>2 DEF IntervalLoop
<1>4. \A i \in 1..N : B(i).count \in Nat
  BY <1>1
<1> HIDE DEF B
<1> DEFINE Fine == {i \in 0..N : best[i].count \in Nat /\ \A m \in 1..i : B(m).count <= best[i].count}
<1>5. 0 \in Fine
  BY <1>1, <1>3 DEF NoSeries
<1>6. ASSUME NEW i \in 1..N, i - 1 \in Fine PROVE i \in Fine
  <2>1. i \in 0..N /\ \A m \in 1..i : m = i \/ m \in 1..i - 1
    BY <1>1
  <2>2. PICK b, known : b = B(i) /\ known = best[i - 1]
    OBVIOUS
  <2>3. /\ b.count \in Nat /\ known.count \in Nat
        /\ \A m \in 1..i - 1 : B(m).count \in Nat /\ B(m).count <= known.count
    <3>1. \A m \in 1..i - 1 : m \in 1..N
      BY <1>1
    <3> QED BY <1>4, <1>6, <2>2, <3>1
  <2>4. best[i] = IF Better(b, known) THEN b ELSE known
    BY <1>3, <2>2
  <2>5. CASE Better(b, known)
    <3>1. known.count <= b.count
      BY <2>3, <2>5 DEF Better
    <3>2. \A m \in 1..i - 1 : B(m).count <= b.count
      BY <2>3, <3>1
    <3> QED BY <2>1, <2>2, <2>3, <2>4, <2>5, <3>2
  <2>6. CASE ~Better(b, known)
    <3>1. b.count <= known.count
      BY <2>3, <2>6 DEF Better
    <3> QED BY <2>1, <2>2, <2>3, <2>4, <2>6, <3>1
  <2> QED BY <2>5, <2>6
<1>7. \A i \in 0..N : i \in Fine
  <2> HIDE DEF Fine
  <2> QED BY <1>1, <1>5, <1>6, Induct
<1>8. N \in Fine /\ n \in 1..N
  <2> HIDE DEF Fine
  <2> QED BY <1>1, <1>7
<1> QED BY <1>3, <1>8 DEF B

HistoryOk == Numbered(payments) /\ payments # <<>>

\* Every history has its payments numbered, in the order of their days.
LEMMA HistoryTyped == HistorySpec => []HistoryOk
<1>1. HistoryInit => HistoryOk
  <2>1. FirstPayment \in Seq(Tx) /\ FirstPayment # <<>> /\ Len(FirstPayment) = 1
    BY DEF FirstPayment, Pay, Tx
  <2>2. FirstPayment[1].id = 1 /\ FirstPayment[1].day = 0
    BY DEF FirstPayment, Pay
  <2>3. \A i \in 1..1 : i = 1
    OBVIOUS
  <2>4. Numbered(FirstPayment)
    BY <2>1, <2>2, <2>3 DEF Numbered
  <2> QED BY <2>1, <2>4 DEF HistoryInit, HistoryOk
<1>2. HistoryOk /\ [HistoryNext]_payments => HistoryOk'
  <2> SUFFICES ASSUME HistoryOk, [HistoryNext]_payments PROVE HistoryOk'
    OBVIOUS
  <2>1. CASE HistoryNext
    <3> DEFINE N == Len(payments)
               longer == payments'
    <3>1. /\ N \in Nat \ {0} /\ payments \in Seq(Tx)
          /\ \A i \in 1..N : payments[i].id = i /\ \A j \in 1..i : payments[j].day <= payments[i].day
      BY DEF HistoryOk, Numbered
    <3>2. PICK day \in payments[N].day .. LastDay : payments' = Append(payments, Pay(N + 1, day))
      BY <2>1 DEF HistoryNext
    <3>3. \A i \in 1..N : payments[i].day \in Nat
      <4>1. \A i \in 1..N : payments[i] \in Tx
        BY <3>1
      <4> QED BY <4>1 DEF Tx
    <3>4. payments[N].day \in Nat /\ day \in Nat /\ payments[N].day <= day
      <4>1. N \in 1..N
        BY <3>1
      <4>2. payments[N].day \in Nat
        BY <3>3, <4>1
      <4> QED BY <3>2, <4>2, HistoryAssumption
    <3> DEFINE x == Pay(N + 1, day)
    <3>5. x \in Tx /\ x.id = N + 1 /\ x.day = day
      BY <3>1, <3>4 DEF Pay, Tx
    <3> HIDE DEF x
    <3>6. /\ longer \in Seq(Tx) /\ longer # <<>> /\ Len(longer) = N + 1 /\ longer[N + 1] = x
          /\ \A i \in 1..N : longer[i] = payments[i]
      BY <3>1, <3>2, <3>5 DEF x
    <3>7. ASSUME NEW i \in 1..N + 1
          PROVE  longer[i].id = i /\ \A j \in 1..i : longer[j].day <= longer[i].day
      <4>1. CASE i \in 1..N
        <5>1. \A j \in 1..i : j \in 1..N
          BY <3>1, <4>1
        <5> QED BY <3>1, <3>6, <4>1, <5>1
      <4>2. CASE i = N + 1
        <5>1. ASSUME NEW j \in 1..N PROVE payments[j].day <= day
          <6>1. N \in 1..N
            BY <3>1
          <6>2. payments[j].day <= payments[N].day
            BY <3>1, <6>1
          <6> QED BY <3>3, <3>4, <6>2
        <5>2. \A j \in 1..i : j = N + 1 \/ j \in 1..N
          BY <3>1, <4>2
        <5>3. longer[i].id = i /\ longer[i].day = day
          BY <3>5, <3>6, <4>2
        <5>4. ASSUME NEW j \in 1..i PROVE longer[j].day <= day
          <6>1. CASE j = N + 1
            BY <3>4, <3>5, <3>6, <6>1
          <6>2. CASE j \in 1..N
            BY <3>6, <5>1, <6>2
          <6> QED BY <5>2, <6>1, <6>2
        <5> QED BY <5>3, <5>4
      <4> QED BY <3>1, <4>1, <4>2
    <3> HIDE DEF longer
    <3>8. Numbered(longer)
      BY <3>6, <3>7 DEF Numbered
    <3> QED BY <3>6, <3>8 DEF HistoryOk, Numbered, longer
  <2>2. CASE UNCHANGED payments
    BY <2>2 DEF HistoryOk, Numbered
  <2> QED BY <2>1, <2>2
<1> QED BY <1>1, <1>2, PTL DEF HistorySpec

\* An interval asks for two members at least.
LEMMA SpecTyped ==
    ASSUME NEW n \in DOMAIN Specs
    PROVE  Specs[n] \in Interval /\ Specs[n].min \in Nat /\ Specs[n].min > 1
<1>1. Specs \in Seq(Interval)
  BY DetectionAssumption DEF Interval
<1>2. Specs[n] \in Interval
  BY <1>1
<1>3. Specs[n].min \in Nat \ {0, 1}
  BY <1>2 DEF Interval
<1> QED BY <1>2, <1>3

\* The series of one interval.
LEMMA BuildShape ==
    ASSUME HistoryOk, NEW n \in DOMAIN Specs
    PROVE  LET b == Build(payments, Specs[n], 0)
               chain == ExtractIntervalChain(payments, Specs[n])
           IN  /\ Len(chain) \in Nat
               /\ Len(chain) < Specs[n].min => b = NoSeries
               /\ ~(Len(chain) < Specs[n].min) =>
                     b.count = Len(chain) /\ b.members = chain /\ SpecOf(b) = Specs[n]
               /\ b.count \in Nat
<1> DEFINE b == Build(payments, Specs[n], 0)
           chain == ExtractIntervalChain(payments, Specs[n])
<1>1. Specs[n] \in Interval /\ payments \in Seq(Tx)
  BY SpecTyped DEF HistoryOk, Numbered
<1>2. chain \in Seq(Tx) \ {<<>>}
  BY <1>1, LongestTyped DEF HistoryOk
<1>3. Len(chain) \in Nat
  BY <1>2
<1>4. CASE Len(chain) < Specs[n].min
  <2>1. b = NoSeries
    BY <1>4 DEF Build
  <2>2. b.count \in Nat
    BY <2>1 DEF NoSeries
  <2> QED BY <1>3, <1>4, <2>1, <2>2
<1>5. CASE ~(Len(chain) < Specs[n].min)
  <2>1. /\ b.count = Len(chain) /\ b.members = chain
        /\ b.fingerprint = <<payments[1].group, Specs[n].name>>
    BY <1>5 DEF Build
  <2>2. b.fingerprint[2] = Specs[n].name
    BY <2>1
  <2> DEFINE all == {Specs[i] : i \in DOMAIN Specs}
  <2>3. \A spec \in all : spec.name = Specs[n].name => spec = Specs[n]
    BY DetectionAssumption
  <2>4. Specs[n] \in all
    OBVIOUS
  <2>5. SpecOf(b) = CHOOSE spec \in all : spec.name = Specs[n].name
    BY <2>2 DEF SpecOf
  <2> HIDE DEF all
  <2>6. SpecOf(b) = Specs[n]
    BY <2>3, <2>4, <2>5
  <2> HIDE DEF b, chain
  <2> QED BY <1>3, <1>5, <2>1, <2>6 DEF b, chain
<1> QED BY <1>4, <1>5

\* The series of the group is the best one of the intervals.
LEMMA SeriesIsBest ==
    ASSUME HistoryOk
    PROVE  IF Len(payments) < 2 THEN Series = NoSeries ELSE Series = PickBest(payments, 0)
<1> DEFINE free == {t \in Paid : t.group = 1 /\ t.id \notin {}}
<1>1. free = Paid
  <2>1. \A t \in Paid : t \in Tx
    BY DEF Paid, HistoryOk, Numbered
  <2>2. \A t \in Paid : t.group = 1
    BY <2>1 DEF Tx
  <2> QED BY <2>2
<1>2. Series = IF Cardinality(free) < 2 THEN NoSeries ELSE PickBest(Listed(free, InOrder(free)), 0)
  BY DEF Series, SeriesOf
<1>3. Cardinality(Paid) = Len(payments) /\ Listed(Paid, InOrder(Paid)) = payments
  BY PaidInOrder DEF HistoryOk
<1> HIDE DEF free
<1> QED BY <1>1, <1>2, <1>3

\* A series found is the one of an interval that has members enough.
LEMMA SeriesIsBuilt ==
    ASSUME HistoryOk, Series # NoSeries
    PROVE  \E n \in DOMAIN Specs :
              LET chain == ExtractIntervalChain(payments, Specs[n])
              IN  /\ Series.count = Len(chain) /\ Series.members = chain /\ SpecOf(Series) = Specs[n]
                  /\ Len(chain) \in Nat /\ Len(chain) >= Specs[n].min
<1>1. Series = PickBest(payments, 0)
  BY SeriesIsBest
<1>2. PICK n \in DOMAIN Specs : Series = Build(payments, Specs[n], 0)
  BY <1>1, BestTyped DEF Built
<1> DEFINE chain == ExtractIntervalChain(payments, Specs[n])
<1>3. /\ Len(chain) \in Nat /\ ~(Len(chain) < Specs[n].min)
      /\ Series.count = Len(chain) /\ Series.members = chain /\ SpecOf(Series) = Specs[n]
  BY <1>2, BuildShape
<1>4. Len(chain) >= Specs[n].min
  BY <1>3, SpecTyped
<1> QED BY <1>3, <1>4

\* A series is regular and complete from its first payment on.
THEOREM SeriesAreRegular == HistorySpec => []ChainsAreRegular
<1>1. HistoryOk => ChainsAreRegular
  <2> SUFFICES ASSUME HistoryOk, Series # NoSeries PROVE ChainsAreRegular
    BY DEF ChainsAreRegular
  <2>1. PICK n \in DOMAIN Specs :
          LET chain == ExtractIntervalChain(payments, Specs[n])
          IN  /\ Series.count = Len(chain) /\ Series.members = chain /\ SpecOf(Series) = Specs[n]
              /\ Len(chain) \in Nat /\ Len(chain) >= Specs[n].min
    BY SeriesIsBuilt
  <2>2. PICK spec \in Interval : spec = Specs[n]
    BY SpecTyped
  <2>3. PICK start : IsLongest(Series.members, payments, spec, start, Len(payments))
    BY <2>1, <2>2, LongestComplete DEF HistoryOk
  <2>4. PICK m : m = Series.members
    OBVIOUS
  <2>5. start \in 1..Len(payments) /\ m = ChainFrom(payments, spec, start)
    BY <2>3, <2>4 DEF IsLongest
  <2>6. PICK c : /\ IsChain(c, payments, spec, start) /\ Exhausts(c, payments, spec, Len(payments))
                 /\ m = [k \in 1..Len(c) |-> payments[c[k]]]
    BY <2>5, ChainComplete DEF HistoryOk
  <2>7. PICK l \in Nat \ {0} : l = Len(c) /\ c \in Seq(1..Len(payments))
    BY <2>6 DEF IsChain
  <2>8. Len(m) = l /\ m[l] = payments[c[l]] /\ \A k \in 1..l : m[k] = payments[c[k]] /\ c[k] \in 1..Len(payments)
    BY <2>6, <2>7
  <2> DEFINE Later(t) == {u \in Paid : MayFollow(t, u, spec)}
  <2>9. \A u \in Paid : u.id \in 1..Len(payments) /\ u = payments[u.id]
    BY DEF Paid, HistoryOk, Numbered
  <2>10. \A k \in 1..Len(payments) : payments[k] \in Paid /\ payments[k].id = k
    BY DEF Paid, HistoryOk, Numbered
  <2>11. Later(m[Len(m)]) = {}
    BY <2>6, <2>7, <2>8, <2>9 DEF Exhausts
  <2>12. ASSUME NEW k \in 1..Len(m) - 1
         PROVE  m[k + 1] \in Later(m[k]) /\ \A u \in Later(m[k]) : m[k + 1].id <= u.id
    <3>1. k \in 1..l - 1 /\ k \in 1..l /\ k + 1 \in 1..l
      BY <2>7, <2>8
    <3>2. IsNext(payments, spec, c[k], c[k + 1])
      BY <2>6, <2>7, <3>1 DEF IsChain
    <3>3. m[k] = payments[c[k]] /\ m[k + 1] = payments[c[k + 1]]
      BY <2>8, <3>1
    <3> QED BY <2>9, <2>10, <3>2, <3>3 DEF IsNext
  <2>13. Len(m) >= spec.min /\ Len(m) = Series.count /\ SpecOf(Series) = spec
    BY <2>1, <2>2, <2>4
  <2> QED BY <2>4, <2>11, <2>12, <2>13 DEF ChainsAreRegular
<1> QED BY <1>1, HistoryTyped, PTL

\* The series found is of the longest chains and, of those of its interval, the first.
THEOREM SeriesAreLongest == HistorySpec => []LongestFirst
<1>1. HistoryOk => LongestFirst
  <2> SUFFICES ASSUME HistoryOk, NEW n \in DOMAIN Specs, NEW k \in DOMAIN payments,
                      Lengths(Specs[n])[k] >= Specs[n].min
               PROVE  /\ Series.count >= Lengths(Specs[n])[k]
                      /\ (Series.count = Lengths(Specs[n])[k] /\ SpecOf(Series) = Specs[n])
                            => Series.members[1].id <= payments[k].id
    BY DEF LongestFirst
  <2>1. PICK spec \in Interval : spec = Specs[n]
    BY SpecTyped
  <2>2. k \in 1..Len(payments) /\ Numbered(payments) /\ payments[k].id = k /\ Len(payments) \in Nat
    BY DEF HistoryOk, Numbered
  <2>3. PICK len : len = ChainLen(payments, spec, k) /\ len = Lengths(spec)[k] /\ len \in Nat
    BY <2>1, <2>2, LengthsFound, ChainShape
  <2>4. PICK chain : chain = ExtractIntervalChain(payments, spec)
    OBVIOUS
  <2>5. PICK start : IsLongest(chain, payments, spec, start, Len(payments))
    BY <2>1, <2>2, <2>4, LongestComplete DEF HistoryOk
  <2>6. start \in 1..Len(payments) /\ chain = ChainFrom(payments, spec, start)
    BY <2>5 DEF IsLongest
  <2>7. PICK most \in Nat : most = Len(chain) /\ most = ChainLen(payments, spec, start)
    BY <2>1, <2>2, <2>6, ChainShape DEF ChainLen
  <2>8. len <= most /\ (len = most => start <= k)
    BY <2>2, <2>3, <2>5, <2>7 DEF IsLongest
  <2>9. spec.min \in Nat /\ spec.min > 1 /\ len >= spec.min
    BY <2>1, <2>3, SpecTyped
  <2>10. CASE Len(payments) < 2
    <3>1. k = 1 /\ start = 1
      BY <2>2, <2>6, <2>10
    <3>2. ASSUME NEW j \in DOMAIN payments PROVE ~MayFollow(payments[k], payments[j], spec)
      <4>1. j \in 1..Len(payments) /\ ~(j > k)
        <5>1. DOMAIN payments = 1..Len(payments)
          BY <2>2 DEF Numbered
        <5>2. j \in 1..Len(payments) /\ j = 1
          BY <2>2, <2>10, <5>1
        <5> QED BY <3>1, <5>2
      <4> QED BY <2>2, <4>1, FollowersOf
    <3>3. Nexts(payments, spec, k) = {}
      BY <3>2 DEF Nexts
    <3>4. len = 1
      BY <2>2, <2>3, <3>3, LengthUnfolds
    <3> QED BY <2>9, <3>4
  <2>11. CASE ~(Len(payments) < 2)
    <3>1. Series = PickBest(payments, 0)
      BY <2>11, SeriesIsBest
    <3>2. \A i \in DOMAIN Specs : Build(payments, Specs[i], 0).count \in Nat
      BY BuildShape
    <3>3. Build(payments, spec, 0).count <= Series.count
      BY <2>1, <3>1, <3>2, BestHasMost
    <3>4. Build(payments, spec, 0).count = most
      <4>1. ~(most < spec.min)
        BY <2>8, <2>9, <2>3
      <4> QED BY <2>1, <2>4, <2>7, <4>1, BuildShape
    <3>5. Series # NoSeries
      BY <2>3, <2>7, <2>8, <2>9, <3>3, <3>4 DEF NoSeries
    <3>6. PICK i \in DOMAIN Specs :
            LET found == ExtractIntervalChain(payments, Specs[i])
            IN  /\ Series.count = Len(found) /\ Series.members = found /\ SpecOf(Series) = Specs[i]
                /\ Len(found) \in Nat /\ Len(found) >= Specs[i].min
      BY <3>5, SeriesIsBuilt
    <3>7. PICK count \in Nat : count = Series.count
      BY <3>6
    <3>8. count >= len
      BY <2>3, <2>7, <2>8, <3>3, <3>4, <3>7
    <3>9. ASSUME count = len, SpecOf(Series) = spec PROVE Series.members[1].id <= k
      <4>1. Series.members = chain
        BY <2>4, <3>6, <3>9
      <4>2. len = most
        BY <2>3, <2>7, <2>8, <3>3, <3>4, <3>7, <3>9
      <4>3. chain[1] = payments[start] /\ payments[start].id = start
        BY <2>1, <2>2, <2>6, ChainShape DEF Numbered
      <4> QED BY <2>8, <4>1, <4>2, <4>3
    <3> QED BY <2>1, <2>2, <2>3, <3>7, <3>8, <3>9
  <2> QED BY <2>10, <2>11
<1> QED BY <1>1, HistoryTyped, PTL
=============================================================================
